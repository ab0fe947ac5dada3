\* Three requests of one worker, a PNR that changes twice, one failing
\* read; the refresh is another process.
CONSTANTS
    w1 = w1
    Workers = {w1}
    Requests = {r1, r2, r3}
    Home <- OneHome
    Totals = {1, 2}
    BookedTotal = 1
    ReadAttempts = 2
    MaxChanges = 2
    MaxFaults = 1
    None = None
SPECIFICATION WorkspaceSpec
INVARIANT AnswersAreHonest
PROPERTIES ViewMovesForward ReadyPriceIsVerified
CHECK_DEADLOCK FALSE
