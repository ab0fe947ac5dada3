\* Two workers, one request each, crashes; answers that differ in what they
\* give.
CONSTANTS
    Nobody = Nobody
    None = None
    NotGiven = NotGiven
    Procs = {p1, p2}
    Slots = {s1, s2}
    Home <- MCHome
    Keys = {k1}
    PaxData = {noPax, paxA}
    CompletePax = {paxA}
    NoPax = noPax
    ContactData = {noContact, conA}
    CompleteContact = {conA}
    NoContact = noContact
    Products <- MCAnswers
    MaxRevision = 5
    MaxCalls = 2
SPECIFICATION CreateSpec
INVARIANTS ProductPreserved CreatedIsConfirmed CreateInv
PROPERTIES RevisionCoversEveryChange
