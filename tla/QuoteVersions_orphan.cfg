\* One worker, two refreshes of one quote that overlap.
CONSTANTS
    Nobody = Nobody
    None = None
    Procs = {p1}
    Slots = {s1, s2}
    Home <- MCHome
    Ranks = {1}
    Fares = {0}
    Answers <- MCNoOption
    Names = {}
    Drafts = {}
    Updates = {}
    MaxQuotes = 2
SPECIFICATION QuoteSpec
INVARIANTS LineageIsComplete
