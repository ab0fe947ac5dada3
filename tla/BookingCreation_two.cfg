\* Two workers, one request each.
CONSTANTS
    Nobody = Nobody
    None = None
    Procs = {p1, p2}
    Slots = {s1, s2}
    Home <- MCHome
    Ranks = {1, 2}
    Fares = {0, 1}
    Answers <- MCTwoOptions
    Names = {}
    Drafts = {}
    Updates = {}
    MaxQuotes = 1
    Keys = {k1}
    Unbookable = {}
SPECIFICATION CreationSpec
INVARIANTS RepliesFit CreationInv
PROPERTIES ReservesOnce
