\* Two requests at a time, two attempts, two prices, one crash, fairness.
CONSTANTS
    Slots = {s1, s2}
    Keys = {k1, k2}
    Totals = {t1, t2}
    None = None
    MaxCrashes = 1
SPECIFICATION FairSpec
INVARIANTS SoldAsConfirmed SafeMeansNothingWritten EveryPqIsAuthorized RefreshInv
PROPERTIES ImplementsSingleFlight AttemptsSettle
