\* Two workers, one request each: reads and writes interleave, up to
\* three versions of a quote.
CONSTANTS
    Nobody = Nobody
    None = None
    Procs = {p1, p2}
    Slots = {s1, s2}
    Home <- MCHome
    Ranks = {1}
    Fares = {0}
    Answers <- MCOneOption
    Names = {}
    Drafts = {}
    Updates <- MCSupersede
    MaxQuotes = 2
SPECIFICATION QuoteSpec
SYMMETRY MCSymmetry
INVARIANTS LinksAgree QuoteInv
