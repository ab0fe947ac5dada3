\* One worker: two concurrent requests, crashes, a second key, fairness.
CONSTANTS
    Nobody = Nobody
    None = None
    NotGiven = NotGiven
    Procs = {p1}
    Slots = {s1, s2}
    Home <- MCHome
    Keys = {k1, k2}
    PaxData = {noPax, paxA}
    CompletePax = {paxA}
    NoPax = noPax
    ContactData = {noContact, conA}
    CompleteContact = {conA}
    NoContact = noContact
    Products <- MCOneProduct
    MaxRevision = 6
    MaxCalls = 2
SPECIFICATION CreateFairSpec
INVARIANTS ReadyIsEarned AtMostOnePnr
PROPERTIES SendsWhatWasReviewed ImplementsOnce RequestsEnd CreatedIsFrozen
