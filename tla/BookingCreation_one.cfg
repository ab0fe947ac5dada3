\* One worker, two requests, refreshes.
CONSTANTS
    Nobody = Nobody
    None = None
    Procs = {p1}
    Slots = {s1, s2}
    Home <- MCHome
    Ranks = {1}
    Fares = {0}
    Answers <- MCOneAnswer
    Names = {}
    Drafts = {}
    Updates = {}
    MaxQuotes = 2
    Keys = {k1}
    Unbookable = {}
SPECIFICATION CreationSpec
SYMMETRY MCSymmetry
PROPERTIES HistoryIsFrozen ReservesTheSelection
