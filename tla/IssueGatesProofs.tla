-------------------------- MODULE IssueGatesProofs --------------------------
(***************************************************************************)
(* The final gate, for any Booking, any PNR and any number of changes.     *)
(* What it promises holds of every PNR of the right type, so the invariant *)
(* is GateTypeOK; the work is in the price quotes the gate selects.        *)
(***************************************************************************)
EXTENDS IssueGates, ListFacts

-----------------------------------------------------------------------------
(* The price quotes the gate selects                                       *)

\* The price quotes that are active and follow the itinerary.
Live(p) == {i \in DOMAIN p.quotes : IsCurrent(p.quotes[i])}

LEMMA Candidates ==
    ASSUME NEW p \in Pnr
    PROVE  LET S == Selected(p)
               quotes == CandidatesOf(p)
           IN  /\ S \in SUBSET (1..Len(p.quotes))
               /\ p.quotes \in Seq(PriceQuote)
               /\ Cardinality(S) \in Nat /\ DOMAIN quotes = 1..Cardinality(S)
               /\ quotes \in Seq(PriceQuote) /\ Len(quotes) = Cardinality(S)
               /\ \A k \in DOMAIN quotes :
                    Nth(S, k) \in S /\ quotes[k] = p.quotes[Nth(S, k)]
               /\ \A i \in S : \E k \in DOMAIN quotes : Nth(S, k) = i
               /\ \A k, l \in DOMAIN quotes : Nth(S, k) = Nth(S, l) => k = l
               /\ quotes = <<>> <=> S = {}
<1> DEFINE S == Selected(p)
           quotes == CandidatesOf(p)
<1>1. p.quotes \in Seq(PriceQuote) /\ Len(p.quotes) \in Nat
      /\ DOMAIN p.quotes = 1..Len(p.quotes)
  BY DEF Pnr
<1>2. S \in SUBSET (1..Len(p.quotes))
  BY <1>1 DEF Selected
<1>3. p.quotes \in Seq(PriceQuote) /\ S \in SUBSET (DOMAIN p.quotes)
  BY <1>1, <1>2
<1>4. quotes = At(p.quotes, S)
  BY DEF CandidatesOf
<1> HIDE DEF S, quotes
<1>5. /\ quotes \in Seq(PriceQuote) /\ Len(quotes) = Cardinality(S)
      /\ Cardinality(S) \in Nat /\ DOMAIN quotes = 1..Cardinality(S)
      /\ \A k \in DOMAIN quotes : Nth(S, k) \in S /\ quotes[k] = p.quotes[Nth(S, k)]
      /\ \A k, l \in DOMAIN quotes : Nth(S, k) = Nth(S, l) => k = l
      /\ quotes = <<>> <=> S = {}
  BY <1>3, <1>4, AtFacts
<1>6. \A i \in S : \E k \in DOMAIN quotes : Nth(S, k) = i
  BY <1>3, <1>4, AtReaches
<1> QED BY <1>1, <1>2, <1>5, <1>6 DEF S, quotes

\* If nothing that is selected has changed, what is selected is live.
LEMMA LiveSelected ==
    ASSUME NEW p \in Pnr, CandidatesOf(p) # <<>>,
           Said(CandidatesOf(p), Changed) = {"no"}
    PROVE  Selected(p) = Live(p)
<1>1. ASSUME NEW i \in Selected(p) PROVE p.quotes[i].changed = "no"
  <2>1. PICK k \in DOMAIN CandidatesOf(p) : Nth(Selected(p), k) = i
    BY Candidates
  <2>2. CandidatesOf(p)[k] = p.quotes[i]
    BY <2>1, Candidates
  <2> QED BY <2>2 DEF Said, Changed
<1>2. CASE Live(p) # {}
  BY <1>2 DEF Live, Selected
<1>3. CASE Live(p) = {}
  <2>1. /\ Selected(p) = {i \in DOMAIN p.quotes : IsActive(p.quotes[i])}
        /\ Selected(p) # {}
    BY <1>3, Candidates DEF Live, Selected
  <2>2. PICK i \in Selected(p) : TRUE
    BY <2>1
  <2>3. i \in Live(p)
    BY <1>1, <2>1, <2>2 DEF Live, IsActive, IsCurrent
  <2> QED BY <1>3, <2>3
<1> QED BY <1>2, <1>3

\* A blocking check that is not passed keeps a PNR from being ready.
LEMMA ChecksPass ==
    ASSUME NEW p \in Pnr, NEW a, ReadyForTicketing(p, a)
    PROVE  /\ p.asSold /\ p.confirmed /\ p.email /\ p.phone
           /\ Len(p.passengers) = Len(BookedKinds)
           /\ Docs(p) = "pass"
           /\ a # Unknown => AuthorityHolds(p, a)
<1> DEFINE checks == Checks(p, a)
<1>1. \A c \in DOMAIN checks : checks[c].blocking => checks[c].status = "pass"
  BY DEF ReadyForTicketing, Unresolved
<1>2. {"SEGMENTS_MATCH", "SEGMENTS_CONFIRMED", "PASSENGER_COUNT_MATCH",
       "SECURE_FLIGHT_DOCS_PRESENT", "CONTACT_PRESENT",
       "PRICING_AUTHORITY_CURRENT"} \subseteq DOMAIN checks
  BY DEF Checks
<1>3. /\ checks["SEGMENTS_MATCH"] = Check(Verdict(p.asSold), TRUE)
      /\ checks["SEGMENTS_CONFIRMED"] = Check(Verdict(p.confirmed), TRUE)
      /\ checks["PASSENGER_COUNT_MATCH"] =
           Check(Verdict(Len(p.passengers) = Len(BookedKinds)), TRUE)
      /\ checks["SECURE_FLIGHT_DOCS_PRESENT"] = Check(Docs(p), TRUE)
      /\ checks["CONTACT_PRESENT"] = Check(Verdict(p.email /\ p.phone), TRUE)
      /\ checks["PRICING_AUTHORITY_CURRENT"] =
           IF a = Unknown THEN Check("pass", FALSE)
           ELSE Check(Verdict(AuthorityHolds(p, a)), TRUE)
  BY DEF Checks
<1> HIDE DEF checks
<1>4. ASSUME NEW c \in DOMAIN checks, NEW status,
             checks[c] = Check(status, TRUE)
      PROVE  status = "pass"
  BY <1>1, <1>4 DEF Check
<1>5. Verdict(p.asSold) = "pass" /\ Verdict(p.confirmed) = "pass"
  BY <1>2, <1>3, <1>4, Zenon
<1>6. Verdict(Len(p.passengers) = Len(BookedKinds)) = "pass"
      /\ Verdict(p.email /\ p.phone) = "pass" /\ Docs(p) = "pass"
  BY <1>2, <1>3, <1>4, ZenonT(40)
<1>7. ASSUME a # Unknown PROVE Verdict(AuthorityHolds(p, a)) = "pass"
  <2>1. checks["PRICING_AUTHORITY_CURRENT"] =
          Check(Verdict(AuthorityHolds(p, a)), TRUE)
    BY <1>3, <1>7, Zenon
  <2> QED BY <1>2, <1>4, <2>1, Zenon
<1> QED BY <1>5, <1>6, <1>7 DEF Verdict

\* Exact coverage: each passenger has a name, a kind and one quote, which is
\* of this kind; the quotes are for these passengers only.
LEMMA ExactCoverage ==
    ASSUME NEW p \in Pnr, Coverage(p) = "exact"
    PROVE  LET quotes == CandidatesOf(p)
               people == p.passengers
           IN  /\ Unknown \notin NamesOf(p)
               /\ Cardinality(NamesOf(p)) = Len(people)
               /\ \A i \in DOMAIN quotes : /\ quotes[i].names # {}
                                           /\ quotes[i].names \subseteq NamesOf(p)
               /\ \A i \in DOMAIN people :
                    /\ people[i].kind # Unknown
                    /\ \E j \in DOMAIN quotes :
                         /\ quotes[j].kind = people[i].kind
                         /\ \A k \in DOMAIN quotes :
                              people[i].name \in quotes[k].names <=> k = j
<1> DEFINE quotes == CandidatesOf(p)
           people == p.passengers
           covering(name) == {i \in DOMAIN quotes : name \in quotes[i].names}
           vague == \/ Unknown \in NamesOf(p)
                    \/ Cardinality(NamesOf(p)) # Len(people)
                    \/ quotes = <<>>
                    \/ \E i \in DOMAIN quotes : quotes[i].names = {}
           conflict ==
            \/ \E i \in DOMAIN quotes :
                 \/ ~(quotes[i].names \subseteq NamesOf(p))
                 \/ quotes[i].quantity \notin
                      {Unknown, Cardinality(quotes[i].names)}
            \/ \E i \in DOMAIN people :
                 \/ Cardinality(covering(people[i].name)) > 1
                 \/ \E j \in covering(people[i].name) :
                      Unknown = people[i].kind \/ quotes[j].kind # people[i].kind
           missing == \E i \in DOMAIN people : covering(people[i].name) = {}
<1>1. Coverage(p) = CASE vague -> "unknown"
                      [] OTHER -> IF conflict THEN "conflict"
                                  ELSE IF missing THEN "incomplete" ELSE "exact"
  BY Zenon DEF Coverage
<1>2. ~vague /\ ~conflict /\ ~missing
  <2> HIDE DEF vague, conflict, missing
  <2> QED BY <1>1
<1>3. ASSUME NEW i \in DOMAIN people
      PROVE  /\ people[i].kind # Unknown
             /\ \E j \in DOMAIN quotes :
                  /\ quotes[j].kind = people[i].kind
                  /\ \A k \in DOMAIN quotes :
                       people[i].name \in quotes[k].names <=> k = j
  <2> DEFINE c == covering(people[i].name)
  <2>1. c # {} /\ ~(Cardinality(c) > 1)
        /\ \A j \in c : people[i].kind # Unknown /\ quotes[j].kind = people[i].kind
    BY <1>2
  <2>2. \E x : c = {x}
    <3>1. IsFiniteSet(DOMAIN quotes)
      BY Candidates, FS_Interval
    <3>2. IsFiniteSet(c)
      BY <3>1, FS_Subset
    <3> HIDE DEF c
    <3>3. Cardinality(c) \in Nat /\ Cardinality(c) # 0
      BY <2>1, <3>2, FS_CardinalityType, FS_EmptySet
    <3>4. Cardinality(c) = 1
      BY <2>1, <3>3
    <3> QED BY <3>2, <3>4, FS_Singleton
  <2>3. PICK j : c = {j}
    BY <2>2
  <2> QED BY <2>1, <2>3
<1> QED BY <1>2, <1>3

\* The DOCS are there when every passenger has a confirmed one.
LEMMA DocsPass ==
    ASSUME NEW p
    PROVE  Docs(p) = "pass" <=>
             /\ p.passengers # <<>> /\ Unknown \notin NamesOf(p)
             /\ \A n \in NamesOf(p) \ {Unknown} :
                  \E d \in p.docs : d.status = "HK" /\ n \in d.names
<1> DEFINE about(name) == {d \in p.docs : name \in d.names}
           covered(name) == \E d \in about(name) : d.status = "HK"
           unclear(name) ==
             IF about(name) # {} THEN \E d \in about(name) : d.status = Unknown
                                 ELSE \E d \in p.docs : d.names = {}
           named == NamesOf(p) \ {Unknown}
           absent == \E n \in named : ~covered(n) /\ ~unclear(n)
           open == Unknown \in NamesOf(p) \/ \E n \in named : ~covered(n)
<1>1. Docs(p) = CASE p.passengers = <<>> -> "unknown"
                  [] absent -> "fail"
                  [] OTHER -> IF open THEN "unknown" ELSE "pass"
  BY Zenon DEF Docs
<1>2. absent => open
  OBVIOUS
<1>3. open <=> ~ /\ Unknown \notin NamesOf(p)
                 /\ \A n \in named : \E d \in p.docs :
                      d.status = "HK" /\ n \in d.names
  OBVIOUS
<1>4. Docs(p) = "pass" <=> p.passengers # <<>> /\ ~open
  <2> HIDE DEF absent, open
  <2>1. CASE p.passengers = <<>>
    BY <1>1, <2>1
  <2>2. CASE p.passengers # <<>>
    BY <1>1, <1>2, <2>2
  <2> QED BY <2>1, <2>2
<1> QED BY <1>3, <1>4

-----------------------------------------------------------------------------
(* Deadlines                                                               *)

LEMMA Resolved ==
    ASSUME NEW q \in PriceQuote, Resolvable(q), NEW at
    PROVE  Resolve(q, at) \in Nat
<1>1. q.stored \in Nat /\ q.deadline.day \in Nat /\ q.deadline.quarter \in 0..3
  BY DEF PriceQuote, Resolvable
<1>2. DaysPerYear \in Nat \ {0}
  BY GateAssumption
<1>3. ASSUME NEW s \in Nat, NEW m \in Nat \ {0} PROVE s \div m \in Nat
  OBVIOUS
<1>4. 4 * DaysPerYear \in Nat \ {0}
  BY <1>2
<1>5. q.stored \div (4 * DaysPerYear) \in Nat
  BY <1>1, <1>3, <1>4
<1>6. ASSUME NEW y \in Nat, NEW d \in Nat, NEW r \in 0..3
      PROVE  4 * (DaysPerYear * y + d) + r \in Nat
  <2>1. DaysPerYear * y \in Nat
    BY <1>2
  <2> QED BY <2>1
<1> DEFINE year == q.stored \div (4 * DaysPerYear)
           y == IF q.deadline.day < (q.stored \div 4) % DaysPerYear
                  THEN year + 1 ELSE year
<1>7. y \in Nat
  BY <1>5
<1>8. Resolve(q, at) = 4 * (DaysPerYear * y + q.deadline.day)
                         + q.deadline.quarter
  BY DEF Resolve
<1> HIDE DEF y
<1> QED BY <1>1, <1>6, <1>7, <1>8

\* The deadlines do not depend on when one asks, and where there are any, one
\* is the earliest.
LEMMA EarliestDeadline ==
    ASSUME NEW p \in Pnr, NEW at \in Nat, CandidatesOf(p) # <<>>,
           \A q \in ToSet(CandidatesOf(p)) : Resolvable(q)
    PROVE  /\ Earliest(Deadlines(p, at)) \in Nat
           /\ \A t \in Deadlines(p, at) : Earliest(Deadlines(p, at)) <= t
           /\ \A later : Deadlines(p, later) = Deadlines(p, at)
<1> DEFINE T == Deadlines(p, at)
           quotes == CandidatesOf(p)
<1>1. quotes \in Seq(PriceQuote) /\ Len(quotes) \in Nat \ {0}
  <2>1. quotes \in Seq(PriceQuote)
    BY Candidates
  <2> HIDE DEF quotes
  <2> QED BY <2>1 DEF quotes
<1>2. \A q \in ToSet(quotes) : q \in PriceQuote
  BY <1>1 DEF ToSet
<1>3. T \subseteq Nat
  BY <1>2, Resolved DEF Deadlines
<1>4. quotes[1] \in ToSet(quotes)
  BY <1>1 DEF ToSet
<1>5. T # {}
  BY <1>4 DEF Deadlines
<1>6. \A later : Deadlines(p, later) = T
  BY DEF Deadlines, Resolve
<1> HIDE DEF T
<1>7. \E n \in T : \A m \in T : n <= m
  BY <1>3, <1>5, LeastNat
<1>8. Earliest(T) \in T /\ \A t \in T : Earliest(T) <= t
  BY <1>7, Zenon DEF Earliest
<1> QED BY <1>3, <1>6, <1>8 DEF T

\* An open gate has a purchase deadline, later than now and no later than what
\* any of the quotes says.
LEMMA OpenInTime ==
    ASSUME NEW p \in Pnr, NEW a, NEW at \in Nat, FinalGate(p, a, at)
    PROVE  \A t \in Deadlines(p, at) :
             at < Operational(p, at) /\ Operational(p, at) <= t
<1> DEFINE purchase == Earliest(Deadlines(p, at))
<1>1. /\ DeadlineStatus(p, at) = "resolved" /\ Operational(p, at) > at
  BY DEF FinalGate
<1>2. /\ CandidatesOf(p) # <<>>
      /\ \A q \in ToSet(CandidatesOf(p)) : Resolvable(q)
  BY <1>1, Zenon DEF DeadlineStatus
<1>3. purchase \in Nat /\ \A t \in Deadlines(p, at) : purchase <= t
  BY <1>2, EarliestDeadline
<1>4. \A t \in Deadlines(p, at) : t \in Nat
  <2>1. \A q \in ToSet(CandidatesOf(p)) : q \in PriceQuote
    BY Candidates DEF ToSet
  <2> QED BY <1>2, <2>1, Resolved DEF Deadlines
<1>5. TomorrowNoon(at) \in Nat
  BY DEF TomorrowNoon
<1>6. Operational(p, at) = IF purchase - at > 4 /\ TomorrowNoon(at) < purchase
                             THEN TomorrowNoon(at) ELSE purchase
  BY DEF Operational
<1> HIDE DEF purchase
<1>7. Operational(p, at) \in Nat /\ Operational(p, at) <= purchase
  BY <1>3, <1>5, <1>6
<1> QED BY <1>1, <1>3, <1>4, <1>7

\* An open gate has a PNR that may be issued.
LEMMA OpenIsIssuable ==
    ASSUME NEW p \in Pnr, NEW a, NEW at, FinalGate(p, a, at)
    PROVE  Issuable(p, a)
<1> DEFINE S == Selected(p)
           quotes == CandidatesOf(p)
           expected == Expected(p, a)
<1>1. ReadyForTicketing(p, a) /\ CandidateReady(p, a)
  BY DEF FinalGate
<1>2. /\ p.asSold /\ p.confirmed /\ p.email /\ p.phone
      /\ Len(p.passengers) = Len(BookedKinds) /\ Docs(p) = "pass"
      /\ a # Unknown => AuthorityHolds(p, a)
  BY <1>1, ChecksPass
<1>3. /\ quotes # <<>> /\ Said(quotes, Changed) = {"no"}
      /\ Coverage(p) = "exact"
      /\ Said(quotes, Currency) = {expected.currency}
      /\ Said(quotes, Carrier) = {expected.carrier}
      /\ TotalOf(quotes) = expected.total
  BY <1>1, Zenon DEF CandidateReady, Agree, TotalsAgree
<1>4. S = Live(p)
  BY <1>3, LiveSelected
<1>5. /\ \A k \in DOMAIN quotes :
           Nth(S, k) \in S /\ quotes[k] = p.quotes[Nth(S, k)]
      /\ \A i \in S : \E k \in DOMAIN quotes : Nth(S, k) = i
      /\ \A k, l \in DOMAIN quotes : Nth(S, k) = Nth(S, l) => k = l
  BY Candidates
<1>6. /\ Unknown \notin NamesOf(p)
      /\ Cardinality(NamesOf(p)) = Len(p.passengers)
      /\ \A k \in DOMAIN quotes : quotes[k].names \subseteq NamesOf(p)
      /\ \A i \in DOMAIN p.passengers : \E j \in DOMAIN quotes :
           /\ quotes[j].kind = p.passengers[i].kind
           /\ \A k \in DOMAIN quotes :
                p.passengers[i].name \in quotes[k].names <=> k = j
  BY <1>3, ExactCoverage
<1> HIDE DEF S, quotes
<1>7. ASSUME NEW i \in DOMAIN p.passengers
      PROVE  \E j \in S :
               /\ p.quotes[j].kind = p.passengers[i].kind
               /\ \A k \in S :
                    p.passengers[i].name \in p.quotes[k].names <=> k = j
  <2>1. PICK j \in DOMAIN quotes :
          /\ quotes[j].kind = p.passengers[i].kind
          /\ \A k \in DOMAIN quotes :
               p.passengers[i].name \in quotes[k].names <=> k = j
    BY <1>6
  <2>2. ASSUME NEW k \in S
        PROVE  p.passengers[i].name \in p.quotes[k].names <=> k = Nth(S, j)
    <3>1. PICK l \in DOMAIN quotes : Nth(S, l) = k
      BY <1>5
    <3> QED BY <1>5, <2>1, <3>1
  <2> QED BY <1>5, <2>1, <2>2
<1>8. ASSUME NEW i \in DOMAIN p.passengers
      PROVE  \E d \in p.docs : d.status = "HK" /\ p.passengers[i].name \in d.names
  <2>1. p.passengers[i].name \in NamesOf(p) \ {Unknown}
    BY <1>6 DEF NamesOf
  <2> QED BY <1>2, <2>1, DocsPass
<1>9. UNION {p.quotes[j].names : j \in S} = NamesOf(p)
  <2>1. ASSUME NEW j \in S PROVE p.quotes[j].names \subseteq NamesOf(p)
    BY <1>5, <1>6
  <2>2. ASSUME NEW n \in NamesOf(p) PROVE \E j \in S : n \in p.quotes[j].names
    BY <1>7 DEF NamesOf
  <2> QED BY <2>1, <2>2
<1>10. ASSUME NEW j \in S
       PROVE  /\ p.quotes[j].carrier = expected.carrier
              /\ p.quotes[j].currency = expected.currency
  <2>1. PICK k \in DOMAIN quotes : quotes[k] = p.quotes[j]
    BY <1>5
  <2>2. /\ quotes[k].carrier \in Said(quotes, Carrier)
        /\ quotes[k].currency \in Said(quotes, Currency)
    BY DEF Said, Carrier, Currency
  <2> QED BY <1>3, <2>1, <2>2
<1>11. /\ expected.currency = BookedFare.currency
       /\ a = Unknown => expected.total = BookedFare.total
       /\ a # Unknown => expected.total = a.total
  <2>1. CASE a = Unknown
    BY <2>1 DEF Expected
  <2>2. CASE a # Unknown
    <3>1. AuthorityHolds(p, a) /\ a.currency = BookedFare.currency
      BY <1>2, <2>2 DEF AuthorityHolds
    <3> QED BY <2>2, <3>1 DEF Expected
  <2> QED BY <2>1, <2>2
<1>12. ASSUME a # Unknown
       PROVE  ToSet(a.records) = {p.quotes[j].record : j \in S}
  <2>1. a.records = [k \in DOMAIN quotes |-> quotes[k].record]
    BY <1>2, <1>12 DEF AuthorityHolds, Records, quotes
  <2>2. ToSet(a.records) = {quotes[k].record : k \in DOMAIN quotes}
    BY <2>1 DEF ToSet
  <2> QED BY <1>5, <2>2
<1>13. S = {i \in DOMAIN p.quotes : IsCurrent(p.quotes[i])}
  BY <1>4 DEF Live
<1> HIDE DEF expected
<1> QED BY <1>2, <1>3, <1>6, <1>7, <1>8, <1>9, <1>10, <1>11, <1>12, <1>13
        DEF Issuable, quotes

-----------------------------------------------------------------------------
(* Types                                                                   *)

LEMMA TotalIsNat ==
    ASSUME NEW quotes \in Seq(PriceQuote), Unknown \notin Said(quotes, Total)
    PROVE  TotalOf(quotes) \in Nat
<1> DEFINE totals == [i \in DOMAIN quotes |-> quotes[i].total]
<1>1. ASSUME NEW i \in DOMAIN quotes PROVE quotes[i].total \in Nat
  <2>1. quotes[i] \in PriceQuote
    OBVIOUS
  <2>2. quotes[i].total # Unknown /\ quotes[i].total \in Totals \cup {Unknown}
    BY <2>1 DEF Said, Total, PriceQuote
  <2> QED BY <2>2, GateAssumption
<1>2. totals \in Seq(Nat)
  <2>1. DOMAIN quotes = 1..Len(quotes) /\ Len(quotes) \in Nat
    OBVIOUS
  <2>2. totals \in [1..Len(quotes) -> Nat]
    BY <1>1, <2>1
  <2> HIDE DEF totals
  <2> QED BY <2>1, <2>2
<1> HIDE DEF totals
<1>3. SumOf(totals) \in Nat
  BY <1>2, SumIsNat
<1> QED BY <1>3 DEF TotalOf, totals

LEMMA QuoteEdits ==
    ASSUME NEW q \in PriceQuote
    PROVE  /\ \A v \in BOOLEAN : [q EXCEPT !.active = v] \in PriceQuote
           /\ \A v \in Reals : [q EXCEPT !.changed = v] \in PriceQuote
           /\ \A v \in SUBSET (Names \cup {Stranger}) :
                [q EXCEPT !.names = v] \in PriceQuote
           /\ \A v \in Kinds \cup {Unknown} : [q EXCEPT !.kind = v] \in PriceQuote
           /\ \A v \in Nat \cup {Unknown} :
                /\ [q EXCEPT !.quantity = v] \in PriceQuote
                /\ [q EXCEPT !.record = v] \in PriceQuote
                /\ [q EXCEPT !.stored = v] \in PriceQuote
           /\ \A v \in Totals \cup {Unknown} :
                [q EXCEPT !.total = v] \in PriceQuote
           /\ \A v \in Currencies \cup {Unknown} :
                [q EXCEPT !.currency = v] \in PriceQuote
           /\ \A v \in Carriers \cup {Unknown} :
                [q EXCEPT !.carrier = v] \in PriceQuote
           /\ \A v \in SUBSET Bases : [q EXCEPT !.bases = v] \in PriceQuote
           /\ [q EXCEPT !.deadline = Unknown] \in PriceQuote
<1>1. \A v \in BOOLEAN : [q EXCEPT !.active = v] \in PriceQuote
  BY DEF PriceQuote
<1>2. \A v \in Reals : [q EXCEPT !.changed = v] \in PriceQuote
  BY DEF PriceQuote
<1>3. \A v \in SUBSET (Names \cup {Stranger}) :
        [q EXCEPT !.names = v] \in PriceQuote
  BY DEF PriceQuote
<1>4. \A v \in Kinds \cup {Unknown} : [q EXCEPT !.kind = v] \in PriceQuote
  BY DEF PriceQuote
<1>5. ASSUME NEW v \in Nat \cup {Unknown}
      PROVE  /\ [q EXCEPT !.quantity = v] \in PriceQuote
             /\ [q EXCEPT !.record = v] \in PriceQuote
             /\ [q EXCEPT !.stored = v] \in PriceQuote
  <2>1. [q EXCEPT !.quantity = v] \in PriceQuote
    BY DEF PriceQuote
  <2>2. [q EXCEPT !.record = v] \in PriceQuote
    BY DEF PriceQuote
  <2>3. [q EXCEPT !.stored = v] \in PriceQuote
    BY DEF PriceQuote
  <2> QED BY <2>1, <2>2, <2>3
<1>6. \A v \in Totals \cup {Unknown} : [q EXCEPT !.total = v] \in PriceQuote
  BY DEF PriceQuote
<1>7. \A v \in Currencies \cup {Unknown} : [q EXCEPT !.currency = v] \in PriceQuote
  BY DEF PriceQuote
<1>8. \A v \in Carriers \cup {Unknown} : [q EXCEPT !.carrier = v] \in PriceQuote
  BY DEF PriceQuote
<1>9. [q EXCEPT !.deadline = Unknown] \in PriceQuote
  BY DEF PriceQuote
<1>10. \A v \in SUBSET Bases : [q EXCEPT !.bases = v] \in PriceQuote
  BY DEF PriceQuote
<1> QED BY <1>1, <1>2, <1>3, <1>4, <1>5, <1>6, <1>7, <1>8, <1>9, <1>10

LEMMA SetQuote ==
    ASSUME NEW p \in Pnr, NEW i \in DOMAIN p.quotes, NEW q \in PriceQuote
    PROVE  /\ Set(p, i, q) \in Pnr
           /\ Set(p, i, q).quotes = [p.quotes EXCEPT ![i] = q]
           /\ Set(p, i, q).passengers = p.passengers
           /\ Set(p, i, q).docs = p.docs
           /\ Set(p, i, q).asSold = p.asSold
           /\ Set(p, i, q).confirmed = p.confirmed
           /\ Set(p, i, q).email = p.email /\ Set(p, i, q).phone = p.phone
<1>1. [p.quotes EXCEPT ![i] = q] \in Seq(PriceQuote)
  BY DEF Pnr
<1>2. Set(p, i, q) = [p EXCEPT !.quotes = [p.quotes EXCEPT ![i] = q]]
  BY DEF Set
<1> HIDE DEF PriceQuote
<1> QED BY <1>1, <1>2 DEF Pnr

LEMMA ChangeTypes ==
    ASSUME pnr \in Pnr, now \in Nat,
           NEW i \in DOMAIN pnr.quotes, ChangeQuote(i) \/ StoreAgain(i)
    PROVE  pnr' \in Pnr
<1>1. /\ pnr.quotes \in Seq(PriceQuote) /\ Len(pnr.quotes) \in Nat
      /\ DOMAIN pnr.quotes = 1..Len(pnr.quotes)
      /\ pnr.quotes[i] \in PriceQuote
  BY DEF Pnr
<1>2. CASE ChangeQuote(i)
  <2> DEFINE q == pnr.quotes[i]
  <2>1. PICK x : /\ pnr' = Set(pnr, i, x)
                 /\ \/ x = [q EXCEPT !.active = FALSE]
                    \/ \E v \in {"yes", "no"} : x = [q EXCEPT !.changed = v]
                    \/ \E v \in {Names, {Stranger}} \cup {{m} : m \in Names} :
                         x = [q EXCEPT !.names = v]
                    \/ \E v \in Kinds : x = [q EXCEPT !.kind = v]
                    \/ \E v \in {1, 2} : x = [q EXCEPT !.quantity = v]
                    \/ \E v \in Totals : x = [q EXCEPT !.total = v]
                    \/ \E v \in Currencies : x = [q EXCEPT !.currency = v]
                    \/ \E v \in Carriers : x = [q EXCEPT !.carrier = v]
                    \/ \E v \in {Bases} \cup {{b} : b \in Bases} :
                         x = [q EXCEPT !.bases = v]
                    \/ \E v \in 1..Len(pnr.quotes) : x = [q EXCEPT !.record = v]
    BY <1>2, Zenon DEF ChangeQuote
  <2>2. /\ \A v \in {"yes", "no"} : v \in Reals
        /\ \A v \in {Names, {Stranger}} \cup {{m} : m \in Names} :
             v \in SUBSET (Names \cup {Stranger})
        /\ \A v \in {Bases} \cup {{b} : b \in Bases} : v \in SUBSET Bases
        /\ \A v \in {1, 2} \cup 1..Len(pnr.quotes) : v \in Nat
    BY <1>1 DEF Reals
  <2> HIDE DEF q
  <2>3. q \in PriceQuote
    BY <1>1 DEF q
  <2>4. x \in PriceQuote
    <3>1. CASE x = [q EXCEPT !.active = FALSE]
      BY <2>3, <3>1, QuoteEdits
    <3>2. CASE \E v \in {"yes", "no"} : x = [q EXCEPT !.changed = v]
      BY <2>2, <2>3, <3>2, QuoteEdits
    <3>3. CASE \E v \in {Names, {Stranger}} \cup {{m} : m \in Names} :
                 x = [q EXCEPT !.names = v]
      BY <2>2, <2>3, <3>3, QuoteEdits
    <3>4. CASE \E v \in Kinds : x = [q EXCEPT !.kind = v]
      BY <2>3, <3>4, QuoteEdits
    <3>5. CASE \E v \in {1, 2} : x = [q EXCEPT !.quantity = v]
      <4>1. PICK v \in {1, 2} : x = [q EXCEPT !.quantity = v]
        BY <3>5
      <4>2. v \in Nat
        BY <4>1
      <4> QED BY <2>3, <4>1, <4>2, QuoteEdits
    <3>6. CASE \E v \in Totals : x = [q EXCEPT !.total = v]
      BY <2>3, <3>6, QuoteEdits
    <3>7. CASE \E v \in Currencies : x = [q EXCEPT !.currency = v]
      BY <2>3, <3>7, QuoteEdits
    <3>8. CASE \E v \in Carriers : x = [q EXCEPT !.carrier = v]
      BY <2>3, <3>8, QuoteEdits
    <3>9. CASE \E v \in 1..Len(pnr.quotes) : x = [q EXCEPT !.record = v]
      BY <2>2, <2>3, <3>9, QuoteEdits
    <3>10. CASE \E v \in {Bases} \cup {{b} : b \in Bases} :
                  x = [q EXCEPT !.bases = v]
      BY <2>2, <2>3, <3>10, QuoteEdits
    <3> QED BY <2>1, <3>1, <3>2, <3>3, <3>4, <3>5, <3>6, <3>7, <3>8, <3>9, <3>10
  <2> QED BY <2>1, <2>4, SetQuote
<1>3. CASE StoreAgain(i)
  <2>1. PICK total \in Totals, stays \in BOOLEAN :
          pnr' = [pnr EXCEPT !.quotes =
            Append([j \in DOMAIN @ |-> IF j = i THEN [@[j] EXCEPT !.active = stays]
                                                ELSE @[j]],
              [@[i] EXCEPT !.record = Len(pnr.quotes) + 1, !.active = TRUE,
                 !.changed = "no", !.total = total, !.stored = now])]
    BY <1>3 DEF StoreAgain
  <2> DEFINE kept == [j \in DOMAIN pnr.quotes |->
                        IF j = i THEN [pnr.quotes[j] EXCEPT !.active = stays]
                                 ELSE pnr.quotes[j]]
             new == [pnr.quotes[i] EXCEPT
                       !.record = Len(pnr.quotes) + 1, !.active = TRUE,
                       !.changed = "no", !.total = total, !.stored = now]
  <2>2. kept \in Seq(PriceQuote)
    <3>1. ASSUME NEW j \in 1..Len(pnr.quotes)
          PROVE  (IF j = i THEN [pnr.quotes[j] EXCEPT !.active = stays]
                           ELSE pnr.quotes[j]) \in PriceQuote
      <4>1. pnr.quotes[j] \in PriceQuote
        BY <1>1
      <4> QED BY <4>1, QuoteEdits
    <3>2. kept \in [1..Len(pnr.quotes) -> PriceQuote]
      BY <1>1, <3>1
    <3> HIDE DEF kept
    <3> QED BY <1>1, <3>2
  <2>3. new \in PriceQuote
    <3> DEFINE q1 == [pnr.quotes[i] EXCEPT !.record = Len(pnr.quotes) + 1]
               q2 == [q1 EXCEPT !.active = TRUE]
               q3 == [q2 EXCEPT !.changed = "no"]
               q4 == [q3 EXCEPT !.total = total]
               q5 == [q4 EXCEPT !.stored = now]
    <3>1. q1 \in PriceQuote
      <4>1. Len(pnr.quotes) + 1 \in Nat
        BY <1>1
      <4> QED BY <1>1, <4>1, QuoteEdits
    <3>2. q2 \in PriceQuote
      <4> HIDE DEF q1
      <4> QED BY <3>1, QuoteEdits
    <3>3. q3 \in PriceQuote
      <4> HIDE DEF q2
      <4> QED BY <3>2, QuoteEdits DEF Reals
    <3>4. q4 \in PriceQuote
      <4> HIDE DEF q3
      <4> QED BY <3>3, QuoteEdits
    <3>5. q5 \in PriceQuote
      <4> HIDE DEF q4
      <4> QED BY <3>4, QuoteEdits
    <3>6. new = q5
      BY <1>1 DEF PriceQuote
    <3> QED BY <3>5, <3>6
  <2>4. pnr' = [pnr EXCEPT !.quotes = Append(kept, new)]
    BY <2>1
  <2> HIDE DEF kept, new
  <2>5. Append(kept, new) \in Seq(PriceQuote)
    BY <2>2, <2>3
  <2> QED BY <2>4, <2>5 DEF Pnr
<1> QED BY <1>2, <1>3

WithPassenger(p, i, x) == [p EXCEPT !.passengers[i] = x]
WithDocs(p, docs) == [p EXCEPT !.docs = docs]

LEMMA SetPassenger ==
    ASSUME NEW p \in Pnr, NEW i \in DOMAIN p.passengers, NEW x \in Passenger
    PROVE  /\ WithPassenger(p, i, x) \in Pnr
           /\ WithPassenger(p, i, x).passengers = [p.passengers EXCEPT ![i] = x]
<1>1. [p.passengers EXCEPT ![i] = x] \in Seq(Passenger)
  BY DEF Pnr
<1>2. WithPassenger(p, i, x)
        = [p EXCEPT !.passengers = [p.passengers EXCEPT ![i] = x]]
  BY DEF WithPassenger
<1> QED BY <1>1, <1>2 DEF Pnr

LEMMA PassengerEdits ==
    ASSUME NEW x \in Passenger
    PROVE  /\ \A v \in Names \cup {Unknown} : [x EXCEPT !.name = v] \in Passenger
           /\ \A v \in Kinds \cup {Unknown} : [x EXCEPT !.kind = v] \in Passenger
BY DEF Passenger

\* The DOCS services of a PNR.
Services == [names : SUBSET Names, status : {"HK", "UC", Unknown}]

LEMMA ServiceEdits ==
    ASSUME NEW d \in Services
    PROVE  /\ \A v \in {"HK", "UC", Unknown} : [d EXCEPT !.status = v] \in Services
           /\ [d EXCEPT !.names = {}] \in Services
BY DEF Services

LEMMA SetDocs ==
    ASSUME NEW p \in Pnr, NEW docs \in SUBSET Services
    PROVE  LET r == WithDocs(p, docs)
           IN  /\ r \in Pnr /\ r.docs = docs /\ r.quotes = p.quotes
               /\ r.passengers = p.passengers /\ r.asSold = p.asSold
               /\ r.confirmed = p.confirmed /\ r.email = p.email
               /\ r.phone = p.phone
BY DEF Pnr, Services, WithDocs

LEMMA ChangeRestTypes ==
    ASSUME pnr \in Pnr, ChangeRest PROVE pnr' \in Pnr
<1>1. /\ pnr.docs \in SUBSET Services /\ pnr.passengers \in Seq(Passenger)
      /\ pnr.confirmed \in BOOLEAN /\ pnr.email \in BOOLEAN
      /\ pnr.phone \in BOOLEAN
  BY DEF Pnr, Services
<1>2. CASE \E v \in BOOLEAN : \/ pnr' = [pnr EXCEPT !.asSold = v]
                              \/ pnr' = [pnr EXCEPT !.confirmed = v]
                              \/ pnr' = [pnr EXCEPT !.email = v]
                              \/ pnr' = [pnr EXCEPT !.phone = v]
  BY <1>2 DEF Pnr
<1>3. CASE pnr' = [pnr EXCEPT !.quotes = <<>>]
  <2>1. <<>> \in Seq(PriceQuote)
    OBVIOUS
  <2> QED BY <1>3, <2>1 DEF Pnr
<1>4. CASE pnr.passengers # <<>>
             /\ pnr' = [pnr EXCEPT !.passengers = Tail(pnr.passengers)]
  <2>1. Tail(pnr.passengers) \in Seq(Passenger)
    BY <1>1, <1>4
  <2> QED BY <1>4, <2>1 DEF Pnr
<1>5. CASE \E d \in pnr.docs : pnr' = [pnr EXCEPT !.docs = pnr.docs \ {d}]
  <2>1. PICK d \in pnr.docs : pnr' = [pnr EXCEPT !.docs = pnr.docs \ {d}]
    BY <1>5
  <2>2. pnr.docs \ {d} \in SUBSET Services
    BY <1>1
  <2> QED BY <2>1, <2>2, SetDocs DEF WithDocs
<1>6. CASE \E d \in pnr.docs, status \in {"HK", "UC"} :
             pnr' = [pnr EXCEPT !.docs = (pnr.docs \ {d})
                                    \cup {[d EXCEPT !.status = status]}]
  <2>1. PICK d \in pnr.docs, status \in {"HK", "UC"} :
             pnr' = [pnr EXCEPT !.docs = (pnr.docs \ {d})
                                    \cup {[d EXCEPT !.status = status]}]
    BY <1>6
  <2>2. [d EXCEPT !.status = status] \in Services
    BY <1>1, ServiceEdits
  <2>3. (pnr.docs \ {d}) \cup {[d EXCEPT !.status = status]} \in SUBSET Services
    BY <1>1, <2>2
  <2> QED BY <2>1, <2>3, SetDocs DEF WithDocs
<1> QED BY <1>1, <1>2, <1>3, <1>4, <1>5, <1>6 DEF ChangeRest

LEMMA PassengerTypes ==
    ASSUME pnr \in Pnr, NEW i \in DOMAIN pnr.passengers, ChangePassenger(i)
    PROVE  pnr' \in Pnr
<1>1. pnr.passengers[i] \in Passenger
  BY DEF Pnr
<1>2. PICK x \in Passenger : pnr' = [pnr EXCEPT !.passengers[i] = x]
  BY <1>1, PassengerEdits DEF ChangePassenger
<1> QED BY <1>2, SetPassenger DEF WithPassenger

LEMMA TypesInitially == GateInit => GateTypeOK
<1> SUFFICES ASSUME GateInit PROVE GateTypeOK
  OBVIOUS
<1> DEFINE B == DOMAIN BookedKinds
<1>1. PICK ns \in [B -> Names], ts \in [B -> Totals],
           d \in 0..(DaysPerYear - 1) : pnr = Sold(ns, ts, d)
  BY Zenon DEF GateInit
<1>2. /\ B = 1..Len(BookedKinds) /\ Len(BookedKinds) \in Nat
      /\ \A i \in B : BookedKinds[i] \in Kinds
      /\ DaysPerYear - 1 \in Nat /\ d \in Nat
      /\ BookedFare.currency \in Currencies /\ BookedBasis \in Bases
  BY GateAssumption
<1> DEFINE c == CHOOSE x \in Carriers : BookedFare.carrier \in {x, Unknown}
           day(i) == IF i = 1 THEN d ELSE DaysPerYear - 1
           quote(i) == [active |-> TRUE, changed |-> "no", record |-> i,
                        names |-> {ns[i]}, quantity |-> 1,
                        kind |-> BookedKinds[i], total |-> ts[i],
                        currency |-> BookedFare.currency, carrier |-> c,
                        bases |-> {BookedBasis}, stored |-> 0,
                        deadline |-> [quarter |-> 1, day |-> day(i)]]
           person(i) == [name |-> ns[i], kind |-> BookedKinds[i]]
           quotes == [i \in B |-> quote(i)]
           people == [i \in B |-> person(i)]
           docs == {[names |-> {n}, status |-> "HK"] : n \in Names}
<1>3. c \in Carriers
  <2>1. BookedFare.carrier \in Carriers \cup {Unknown}
    BY GateAssumption
  <2>2. \E x \in Carriers : BookedFare.carrier \in {x, Unknown}
    BY <2>1, GateAssumption
  <2> QED BY <2>2, Zenon
<1>4. quotes \in Seq(PriceQuote)
  <2>1. ASSUME NEW i \in B PROVE quote(i) \in PriceQuote
    <3>1. day(i) \in Nat /\ i \in Nat
      BY <1>2
    <3> HIDE DEF c, day
    <3>2. [quarter |-> 1, day |-> day(i)] \in [day : Nat, quarter : 0..3]
      BY <3>1
    <3> QED BY <1>2, <1>3, <3>1, <3>2 DEF PriceQuote, Reals
  <2> HIDE DEF quote, B
  <2> QED BY <1>2, <2>1
<1>5. people \in Seq(Passenger)
  <2>1. ASSUME NEW i \in B PROVE person(i) \in Passenger
    BY <1>2 DEF Passenger
  <2> HIDE DEF person, B
  <2> QED BY <1>2, <2>1
<1>6. docs \in SUBSET Services
  BY DEF Services
<1>7. pnr = [passengers |-> people, quotes |-> quotes, asSold |-> TRUE,
             confirmed |-> TRUE, docs |-> docs, email |-> TRUE, phone |-> TRUE]
  BY <1>1, Zenon DEF Sold
<1> HIDE DEF people, quotes, docs
<1>8. pnr \in Pnr
  BY <1>4, <1>5, <1>6, <1>7 DEF Pnr, Services
<1> QED BY <1>8 DEF GateInit, GateTypeOK

LEMMA AuthorityTypes ==
    ASSUME pnr \in Pnr, SaveAuthority PROVE authority' \in Authority
<1> DEFINE quotes == CandidatesOf(pnr)
<1>1. /\ quotes \in Seq(PriceQuote) /\ quotes # <<>>
      /\ Unknown \notin Said(quotes, Record) \cup Said(quotes, Total)
  BY Candidates DEF SaveAuthority
<1>2. authority' = [original |-> BookedFare.total,
                    currency |-> BookedFare.currency,
                    carrier |-> BookedFare.carrier,
                    records |-> Records(quotes), total |-> TotalOf(quotes),
                    bases |-> UNION Said(quotes, FareBases),
                    deadline |-> quotes[1].deadline]
  BY DEF SaveAuthority
<1> HIDE DEF quotes
<1>3. \A i \in DOMAIN quotes : quotes[i] \in PriceQuote
  BY <1>1
<1>4. Records(quotes) \in Seq(Nat)
  <2>1. ASSUME NEW i \in DOMAIN quotes PROVE quotes[i].record \in Nat
    <3>1. quotes[i].record # Unknown
      BY <1>1 DEF Said, Record
    <3> QED BY <1>3, <3>1 DEF PriceQuote
  <2> QED BY <1>1, <2>1 DEF Records
<1>5. TotalOf(quotes) \in Nat
  BY <1>1, TotalIsNat
<1>6. UNION Said(quotes, FareBases) \in SUBSET Bases
  BY <1>3 DEF Said, FareBases, PriceQuote
<1>7. quotes[1].deadline \in [day : Nat, quarter : 0..3] \cup {Unknown}
  <2>1. 1 \in DOMAIN quotes
    BY <1>1
  <2> QED BY <1>3, <2>1 DEF PriceQuote
<1>8. /\ BookedFare.total \in Nat /\ BookedFare.currency \in Currencies
      /\ BookedFare.carrier \in Carriers \cup {Unknown}
  BY GateAssumption
<1> QED BY <1>2, <1>4, <1>5, <1>6, <1>7, <1>8 DEF Authority

-----------------------------------------------------------------------------
(* A read that says less                                                   *)

\* What Forget takes away from a price quote, a passenger and a DOCS service.
QuoteForgotten(q) ==
    {[q EXCEPT !.active = FALSE], [q EXCEPT !.changed = Unknown],
     [q EXCEPT !.names = {}], [q EXCEPT !.quantity = Unknown],
     [q EXCEPT !.kind = Unknown], [q EXCEPT !.total = Unknown],
     [q EXCEPT !.currency = Unknown], [q EXCEPT !.carrier = Unknown],
     [q EXCEPT !.bases = {}], [q EXCEPT !.record = Unknown],
     [q EXCEPT !.deadline = Unknown], [q EXCEPT !.stored = Unknown]}

PassengerForgotten(x) ==
    {[x EXCEPT !.name = Unknown], [x EXCEPT !.kind = Unknown]}

ServiceForgotten(d) ==
    {[d EXCEPT !.status = Unknown], [d EXCEPT !.names = {}]}

LEMMA ForgetCases ==
    ASSUME Forget
    PROVE  /\ UNCHANGED <<authority, now>> /\ edits' = edits + 1
           /\ \/ \E i \in DOMAIN pnr.quotes :
                   \E q \in QuoteForgotten(pnr.quotes[i]) : pnr' = Set(pnr, i, q)
              \/ \E i \in DOMAIN pnr.passengers :
                   \E x \in PassengerForgotten(pnr.passengers[i]) :
                     pnr' = WithPassenger(pnr, i, x)
              \/ \E d \in pnr.docs : \E e \in ServiceForgotten(d) :
                   pnr' = WithDocs(pnr, (pnr.docs \ {d}) \cup {e})
BY Zenon DEF Forget, QuoteForgotten, PassengerForgotten, ServiceForgotten,
             WithPassenger, WithDocs

LEMMA ForgottenTypes ==
    /\ \A q \in PriceQuote : QuoteForgotten(q) \subseteq PriceQuote
    /\ \A x \in Passenger : PassengerForgotten(x) \subseteq Passenger
    /\ \A d \in Services : ServiceForgotten(d) \subseteq Services
<1>1. ASSUME NEW q \in PriceQuote PROVE QuoteForgotten(q) \subseteq PriceQuote
  <2>1. /\ FALSE \in BOOLEAN /\ Unknown \in Reals
        /\ {} \in SUBSET (Names \cup {Stranger}) /\ {} \in SUBSET Bases
    BY DEF Reals
  <2>2. /\ [q EXCEPT !.active = FALSE] \in PriceQuote
        /\ [q EXCEPT !.changed = Unknown] \in PriceQuote
        /\ [q EXCEPT !.names = {}] \in PriceQuote
        /\ [q EXCEPT !.bases = {}] \in PriceQuote
    BY <2>1, QuoteEdits
  <2>3. /\ [q EXCEPT !.quantity = Unknown] \in PriceQuote
        /\ [q EXCEPT !.kind = Unknown] \in PriceQuote
        /\ [q EXCEPT !.total = Unknown] \in PriceQuote
        /\ [q EXCEPT !.currency = Unknown] \in PriceQuote
    BY QuoteEdits
  <2>4. /\ [q EXCEPT !.carrier = Unknown] \in PriceQuote
        /\ [q EXCEPT !.record = Unknown] \in PriceQuote
        /\ [q EXCEPT !.deadline = Unknown] \in PriceQuote
        /\ [q EXCEPT !.stored = Unknown] \in PriceQuote
    BY QuoteEdits
  <2> QED BY <2>2, <2>3, <2>4, ZenonT(60) DEF QuoteForgotten
<1>2. ASSUME NEW x \in Passenger PROVE PassengerForgotten(x) \subseteq Passenger
  BY PassengerEdits DEF PassengerForgotten
<1>3. ASSUME NEW d \in Services PROVE ServiceForgotten(d) \subseteq Services
  BY ServiceEdits DEF ServiceForgotten
<1> QED BY <1>1, <1>2, <1>3

LEMMA ForgetTypes == ASSUME pnr \in Pnr, Forget PROVE pnr' \in Pnr
<1>1. /\ \A i \in DOMAIN pnr.quotes : pnr.quotes[i] \in PriceQuote
      /\ \A i \in DOMAIN pnr.passengers : pnr.passengers[i] \in Passenger
      /\ pnr.docs \in SUBSET Services
  BY DEF Pnr, Services
<1>2. CASE \E i \in DOMAIN pnr.quotes :
             \E q \in QuoteForgotten(pnr.quotes[i]) : pnr' = Set(pnr, i, q)
  <2>1. PICK i \in DOMAIN pnr.quotes :
          \E q \in QuoteForgotten(pnr.quotes[i]) : pnr' = Set(pnr, i, q)
    BY <1>2
  <2>2. PICK q \in QuoteForgotten(pnr.quotes[i]) : pnr' = Set(pnr, i, q)
    BY <2>1
  <2>3. q \in PriceQuote
    BY <1>1, ForgottenTypes
  <2> QED BY <2>2, <2>3, SetQuote
<1>3. CASE \E i \in DOMAIN pnr.passengers :
             \E x \in PassengerForgotten(pnr.passengers[i]) :
               pnr' = WithPassenger(pnr, i, x)
  <2>1. PICK i \in DOMAIN pnr.passengers :
          \E x \in PassengerForgotten(pnr.passengers[i]) :
            pnr' = WithPassenger(pnr, i, x)
    BY <1>3
  <2>2. PICK x \in PassengerForgotten(pnr.passengers[i]) :
          pnr' = WithPassenger(pnr, i, x)
    BY <2>1
  <2>3. x \in Passenger
    BY <1>1, ForgottenTypes
  <2> QED BY <2>2, <2>3, SetPassenger
<1>4. CASE \E d \in pnr.docs : \E e \in ServiceForgotten(d) :
             pnr' = WithDocs(pnr, (pnr.docs \ {d}) \cup {e})
  <2>1. PICK d \in pnr.docs : \E e \in ServiceForgotten(d) :
          pnr' = WithDocs(pnr, (pnr.docs \ {d}) \cup {e})
    BY <1>4
  <2>2. PICK e \in ServiceForgotten(d) :
          pnr' = WithDocs(pnr, (pnr.docs \ {d}) \cup {e})
    BY <2>1
  <2>3. (pnr.docs \ {d}) \cup {e} \in SUBSET Services
    BY <1>1, ForgottenTypes
  <2> QED BY <2>2, <2>3, SetDocs
<1> QED BY <1>2, <1>3, <1>4, ForgetCases

LEMMA TypesKeep == GateTypeOK /\ [GateNext]_gateVars => GateTypeOK'
<1> SUFFICES ASSUME GateTypeOK, [GateNext]_gateVars PROVE GateTypeOK'
  OBVIOUS
<1> USE DEF GateTypeOK
<1>1. CASE Change
  <2>1. pnr' \in Pnr
    BY <1>1, ChangeTypes, PassengerTypes, ChangeRestTypes DEF Change
  <2> QED BY <1>1, <2>1 DEF Change
<1>2. CASE Forget
  BY <1>2, ForgetTypes, ForgetCases
<1>3. CASE SaveAuthority
  BY <1>3, AuthorityTypes DEF SaveAuthority
<1>4. CASE TimePasses
  BY <1>4 DEF TimePasses
<1>5. CASE UNCHANGED gateVars
  BY <1>5 DEF gateVars
<1> QED BY <1>1, <1>2, <1>3, <1>4, <1>5 DEF GateNext

\* Type correctness of the PNR, the authority and the clock.
THEOREM GateTypes == GateSpec => []GateTypeOK
BY TypesInitially, TypesKeep, PTL DEF GateSpec

\* The final gate opens only for a PNR that may be issued, and before a deadline
\* that no quote's purchase deadline precedes: for any Booking, any number of
\* passengers and price quotes and any changes to them.
THEOREM GateIsClosed == GateSpec => []GateFailsClosed
<1>1. GateTypeOK => GateFailsClosed
  BY OpenIsIssuable, OpenInTime DEF GateTypeOK, GateFailsClosed
<1> QED BY <1>1, GateTypes, PTL

\* A price that has expired stays expired as time passes: the year of a deadline
\* follows from the day its quote was stored, not from the day one asks.
THEOREM ExpiredForGood == GateSpec => ExpiredStaysExpired
<1>1. ASSUME GateTypeOK, GateTypeOK', [GateNext]_gateVars,
             DeadlineStatus(pnr, now) = "expired", pnr' = pnr
      PROVE  DeadlineStatus(pnr', now') = "expired"
  <2>1. now \in Nat /\ now' \in Nat /\ now <= now' /\ pnr \in Pnr
    BY <1>1 DEF GateTypeOK, GateNext, gateVars, Change, Forget,
                SaveAuthority, TimePasses
  <2>2. /\ CandidatesOf(pnr) # <<>>
        /\ \A q \in ToSet(CandidatesOf(pnr)) : Resolvable(q)
        /\ Earliest(Deadlines(pnr, now)) <= now
    BY <1>1, Zenon DEF DeadlineStatus
  <2>3. /\ Earliest(Deadlines(pnr, now)) \in Nat
        /\ Deadlines(pnr, now') = Deadlines(pnr, now)
    BY <2>1, <2>2, EarliestDeadline
  <2>4. Earliest(Deadlines(pnr, now')) <= now'
    BY <2>1, <2>2, <2>3
  <2> QED BY <1>1, <2>2, <2>4, Zenon DEF DeadlineStatus
<1> QED BY <1>1, GateTypes, PTL DEF ExpiredStaysExpired, GateSpec

\* An open gate knows everything about the quotes it selects.
LEMMA OpenIsKnown ==
    ASSUME NEW p \in Pnr, NEW a, NEW at, FinalGate(p, a, at),
           NEW k \in DOMAIN CandidatesOf(p)
    PROVE  LET q == CandidatesOf(p)[k]
           IN  /\ q.names # {} /\ q.kind # Unknown /\ q.total # Unknown
               /\ q.currency # Unknown /\ q.carrier # Unknown
               /\ q.record # Unknown /\ q.changed = "no"
               /\ q.deadline # Unknown /\ q.stored # Unknown
<1> DEFINE quotes == CandidatesOf(p)
           q == quotes[k]
           expected == Expected(p, a)
<1>1. /\ Coverage(p) = "exact" /\ DeadlineStatus(p, at) = "resolved"
      /\ Unknown \notin Said(quotes, Record) /\ Unknown \notin Said(quotes, Total)
      /\ expected.currency # Unknown
      /\ Said(quotes, Currency) = {expected.currency}
      /\ expected.carrier # Unknown /\ Said(quotes, Carrier) = {expected.carrier}
      /\ Said(quotes, Changed) = {"no"}
  BY Zenon DEF FinalGate, CandidateReady, Agree, TotalsAgree
<1>2. /\ q.record # Unknown /\ q.total # Unknown
      /\ q.currency # Unknown /\ q.carrier # Unknown /\ q.changed = "no"
  BY <1>1 DEF Said, Record, Total, Currency, Carrier, Changed
<1>3. q.deadline # Unknown /\ q.stored # Unknown
  <2>1. Resolvable(q)
    BY <1>1, Zenon DEF DeadlineStatus, ToSet
  <2> QED BY <2>1 DEF Resolvable
<1>4. q.names # {} /\ q.kind # Unknown
  <2>1. /\ q.names # {} /\ q.names \subseteq NamesOf(p)
        /\ \A i \in DOMAIN p.passengers :
             /\ p.passengers[i].kind # Unknown
             /\ \E j \in DOMAIN quotes :
                  /\ quotes[j].kind = p.passengers[i].kind
                  /\ \A l \in DOMAIN quotes :
                       p.passengers[i].name \in quotes[l].names <=> l = j
    BY <1>1, ExactCoverage
  <2>2. PICK i \in DOMAIN p.passengers : p.passengers[i].name \in q.names
    BY <2>1 DEF NamesOf
  <2> QED BY <2>1, <2>2
<1> QED BY <1>2, <1>3, <1>4

\* Coverage looks at the passengers, and of the quotes at their names, their
\* kind and whether they contradict their quantity.
Contradicts(q) == q.quantity \notin {Unknown, Cardinality(q.names)}

LEMMA SameCoverage ==
    ASSUME NEW p, NEW r, r.passengers = p.passengers,
           CandidatesOf(r) = <<>> <=> CandidatesOf(p) = <<>>,
           DOMAIN CandidatesOf(r) = DOMAIN CandidatesOf(p),
           \A k \in DOMAIN CandidatesOf(p) :
             /\ CandidatesOf(r)[k].names = CandidatesOf(p)[k].names
             /\ CandidatesOf(r)[k].kind = CandidatesOf(p)[k].kind
             /\ Contradicts(CandidatesOf(r)[k]) <=> Contradicts(CandidatesOf(p)[k])
    PROVE  Coverage(r) = Coverage(p)
<1> DEFINE people == p.passengers
           covering(quotes, name) ==
             {i \in DOMAIN quotes : name \in quotes[i].names}
           vague(quotes) ==
            \/ Unknown \in NamesOf(p)
            \/ Cardinality(NamesOf(p)) # Len(people)
            \/ quotes = <<>>
            \/ \E i \in DOMAIN quotes : quotes[i].names = {}
           conflict(quotes) ==
            \/ \E i \in DOMAIN quotes :
                 \/ ~(quotes[i].names \subseteq NamesOf(p))
                 \/ quotes[i].quantity \notin
                      {Unknown, Cardinality(quotes[i].names)}
            \/ \E i \in DOMAIN people :
                 \/ Cardinality(covering(quotes, people[i].name)) > 1
                 \/ \E j \in covering(quotes, people[i].name) :
                      Unknown = people[i].kind \/ quotes[j].kind # people[i].kind
           missing(quotes) ==
             \E i \in DOMAIN people : covering(quotes, people[i].name) = {}
           verdict(quotes) ==
             CASE vague(quotes) -> "unknown"
               [] OTHER -> IF conflict(quotes) THEN "conflict"
                           ELSE IF missing(quotes) THEN "incomplete" ELSE "exact"
           Q == CandidatesOf(p)
           R == CandidatesOf(r)
<1>1. NamesOf(r) = NamesOf(p)
  BY DEF NamesOf
<1>2. Coverage(p) = verdict(Q) /\ Coverage(r) = verdict(R)
  BY <1>1, ZenonT(150) DEF Coverage
<1> HIDE DEF Q, R
<1>3. /\ DOMAIN R = DOMAIN Q /\ (R = <<>> <=> Q = <<>>)
      /\ \A k \in DOMAIN Q :
           /\ R[k].names = Q[k].names /\ R[k].kind = Q[k].kind
           /\ R[k].quantity \notin {Unknown, Cardinality(R[k].names)}
                <=> Q[k].quantity \notin {Unknown, Cardinality(Q[k].names)}
  BY DEF Q, R, Contradicts
<1>4. \A name : covering(R, name) = covering(Q, name)
  BY <1>3
<1>5. vague(R) <=> vague(Q)
  BY <1>3
<1>6. conflict(R) <=> conflict(Q)
  <2>1. \A i \in DOMAIN Q :
          (\/ ~(R[i].names \subseteq NamesOf(p))
           \/ R[i].quantity \notin {Unknown, Cardinality(R[i].names)})
          <=> (\/ ~(Q[i].names \subseteq NamesOf(p))
               \/ Q[i].quantity \notin {Unknown, Cardinality(Q[i].names)})
    BY <1>3
  <2>2. \A i \in DOMAIN people :
          (\/ Cardinality(covering(R, people[i].name)) > 1
           \/ \E j \in covering(R, people[i].name) :
                Unknown = people[i].kind \/ R[j].kind # people[i].kind)
          <=> (\/ Cardinality(covering(Q, people[i].name)) > 1
               \/ \E j \in covering(Q, people[i].name) :
                    Unknown = people[i].kind \/ Q[j].kind # people[i].kind)
    BY <1>3, <1>4
  <2> QED BY <1>3, <2>1, <2>2
<1>7. missing(R) <=> missing(Q)
  BY <1>4
<1> HIDE DEF vague, conflict, missing
<1>8. verdict(R) = verdict(Q)
  BY <1>5, <1>6, <1>7
<1> QED BY <1>2, <1>8

\* Two reads that select quotes which agree but for their fare bases and what
\* decides the coverage, and of which the second has more DOCS, open the same
\* gate if the coverage is the same and the authority holds for both.
LEMMA SamePricing ==
    ASSUME NEW p \in Pnr, NEW r \in Pnr, NEW a, NEW at,
           CandidatesOf(r) = <<>> <=> CandidatesOf(p) = <<>>,
           DOMAIN CandidatesOf(r) = DOMAIN CandidatesOf(p),
           \A k \in DOMAIN CandidatesOf(p) :
             LET s == CandidatesOf(r)[k]
                 q == CandidatesOf(p)[k]
             IN  /\ s.changed = q.changed /\ s.total = q.total
                 /\ s.currency = q.currency /\ s.carrier = q.carrier
                 /\ s.record = q.record /\ s.deadline = q.deadline
                 /\ s.stored = q.stored,
           Coverage(r) = Coverage(p),
           a # Unknown /\ AuthorityHolds(r, a) => AuthorityHolds(p, a),
           r.passengers = p.passengers, r.quotes = <<>> <=> p.quotes = <<>>,
           r.asSold = p.asSold, r.confirmed = p.confirmed,
           r.email = p.email, r.phone = p.phone,
           Docs(r) = "pass" => Docs(p) = "pass",
           FinalGate(r, a, at)
    PROVE  FinalGate(p, a, at)
<1> DEFINE Q == CandidatesOf(p)
           R == CandidatesOf(r)
<1>1. /\ Said(R, Changed) = Said(Q, Changed) /\ Said(R, Total) = Said(Q, Total)
      /\ Said(R, Currency) = Said(Q, Currency)
      /\ Said(R, Carrier) = Said(Q, Carrier) /\ Said(R, Record) = Said(Q, Record)
  <2> HIDE DEF Q, R
  <2>1. /\ DOMAIN R = DOMAIN Q
        /\ \A k \in DOMAIN Q :
             /\ R[k].changed = Q[k].changed /\ R[k].total = Q[k].total
             /\ R[k].currency = Q[k].currency /\ R[k].carrier = Q[k].carrier
             /\ R[k].record = Q[k].record
    BY DEF Q, R
  <2> QED BY <2>1 DEF Said, Changed, Total, Currency, Carrier, Record
<1>2. TotalOf(R) = TotalOf(Q) /\ Len(R) = Len(Q)
  <2>1. /\ [k \in DOMAIN R |-> R[k].total] = [k \in DOMAIN Q |-> Q[k].total]
        /\ R \in Seq(PriceQuote) /\ Q \in Seq(PriceQuote)
    BY Candidates
  <2> HIDE DEF Q, R
  <2>2. DOMAIN R = DOMAIN Q
    BY DEF Q, R
  <2> QED BY <2>1, <2>2 DEF TotalOf
<1>3. a # Unknown => AuthorityHolds(r, a) /\ AuthorityHolds(p, a)
  <2>1. ReadyForTicketing(r, a)
    BY Zenon DEF FinalGate
  <2> QED BY <2>1, ChecksPass
<1>4. Expected(r, a) = Expected(p, a)
  BY <1>3, Zenon DEF Expected
<1>5. CandidateReady(r, a) /\ CandidateReady(p, a)
  <2>1. CandidateReady(r, a)
    BY Zenon DEF FinalGate
  <2> QED BY <1>1, <1>2, <1>4, <2>1, ZenonT(40) DEF CandidateReady, Agree, TotalsAgree
<1>6. Deadlines(r, at) = Deadlines(p, at) /\ DeadlineStatus(p, at) = "resolved"
      /\ Operational(r, at) = Operational(p, at)
  <2>1. ASSUME NEW k \in DOMAIN Q
        PROVE  /\ Resolvable(R[k]) <=> Resolvable(Q[k])
               /\ Resolve(R[k], at) = Resolve(Q[k], at)
    BY DEF Resolvable, Resolve
  <2>2. /\ Q # <<>> /\ \A q \in ToSet(R) : Resolvable(q)
        /\ ~(Earliest(Deadlines(r, at)) <= at)
    BY Zenon DEF FinalGate, DeadlineStatus
  <2>3. \A q \in ToSet(Q) : Resolvable(q)
    BY <2>1, <2>2 DEF ToSet
  <2>4. Deadlines(r, at) = Deadlines(p, at)
    <3>1. /\ Deadlines(r, at) = {Resolve(R[k], at) : k \in DOMAIN R}
          /\ Deadlines(p, at) = {Resolve(Q[k], at) : k \in DOMAIN Q}
      <4> HIDE DEF Q, R
      <4>1. /\ Deadlines(r, at) =
                 {Resolve(q, at) : q \in {t \in ToSet(R) : Resolvable(t)}}
            /\ Deadlines(p, at) =
                 {Resolve(q, at) : q \in {t \in ToSet(Q) : Resolvable(t)}}
        BY Zenon DEF Deadlines, Q, R
      <4>2. /\ {t \in ToSet(R) : Resolvable(t)} = {R[k] : k \in DOMAIN R}
            /\ {t \in ToSet(Q) : Resolvable(t)} = {Q[k] : k \in DOMAIN Q}
        BY <2>2, <2>3 DEF ToSet
      <4> QED BY <4>1, <4>2
    <3> QED BY <2>1, <3>1
  <2>5. DeadlineStatus(p, at) = "resolved"
    BY <2>2, <2>3, <2>4, Zenon DEF DeadlineStatus
  <2> QED BY <2>4, <2>5, Zenon DEF Operational
<1>7. PassengerKinds(r) = PassengerKinds(p)
  <2> DEFINE kinds(people) ==
        IF \E i \in DOMAIN people : people[i].kind = Unknown
          THEN "unknown"
          ELSE Verdict(\A k \in Kinds :
                 Cardinality({i \in DOMAIN people : people[i].kind = k})
                 = Cardinality({i \in DOMAIN BookedKinds : BookedKinds[i] = k}))
  <2>1. /\ PassengerKinds(r) = kinds(r.passengers)
        /\ PassengerKinds(p) = kinds(p.passengers)
    BY Zenon DEF PassengerKinds
  <2> HIDE DEF kinds
  <2> QED BY <2>1
<1> DEFINE docs == "SECURE_FLIGHT_DOCS_PRESENT"
<1>8. /\ DOMAIN Checks(r, a) = DOMAIN Checks(p, a)
      /\ Checks(r, a)[docs] = Check(Docs(r), TRUE)
      /\ Checks(p, a)[docs] = Check(Docs(p), TRUE)
  BY DEF Checks
<1>9. ASSUME NEW c \in DOMAIN Checks(p, a), c # docs
      PROVE  Checks(r, a)[c] = Checks(p, a)[c]
  <2> DEFINE Same(code) == Checks(r, a)[code] = Checks(p, a)[code]
  <2>1. /\ Same("SEGMENTS_MATCH")
        /\ Same("SEGMENTS_CONFIRMED")
        /\ Same("PASSENGER_COUNT_MATCH")
        /\ Same("PASSENGER_TYPES_MATCH")
        /\ Same("CONTACT_PRESENT")
        /\ Same("PRICING_AUTHORITY_CURRENT")
    <3>1. CASE a = Unknown
      BY <1>7, <3>1, ZenonT(60) DEF Checks
    <3>2. CASE a # Unknown
      BY <1>3, <1>7, <3>2, ZenonT(60) DEF Checks, Verdict
    <3> QED BY <3>1, <3>2
  <2>2. /\ Same("PRICING_PRESENT")
        /\ Same("ACTIVE_PRICING_SELECTED")
    <3>1. CASE p.quotes = <<>>
      BY <3>1 DEF Checks
    <3>2. CASE p.quotes # <<>>
      BY <3>2 DEF Checks, Verdict
    <3> QED BY <3>1, <3>2
  <2>3. /\ Same("PRICING_ITINERARY_CURRENT")
    BY <1>1, Zenon DEF Checks
  <2>4. /\ Same("PRICING_PASSENGER_COVERAGE")
    BY DEF Checks
  <2>5. /\ Same("CURRENCY_MATCH")
        /\ Same("PRICE_MATCH")
        /\ Same("VALIDATING_CARRIER_MATCH")
    BY <1>1, <1>2, <1>4, ZenonT(40) DEF Checks, Match
  <2>6. /\ Same("TICKET_CANDIDATE_READY")
    BY <1>5 DEF Checks
  <2>7. c \in {"SEGMENTS_MATCH",
               "SEGMENTS_CONFIRMED",
               "PASSENGER_COUNT_MATCH",
               "PASSENGER_TYPES_MATCH",
               "CONTACT_PRESENT",
               "PRICING_AUTHORITY_CURRENT",
               "PRICING_PRESENT",
               "ACTIVE_PRICING_SELECTED",
               "PRICING_ITINERARY_CURRENT",
               "PRICING_PASSENGER_COVERAGE",
               "CURRENCY_MATCH",
               "PRICE_MATCH",
               "VALIDATING_CARRIER_MATCH",
               "TICKET_CANDIDATE_READY"}
    BY <1>9 DEF Checks
  <2> HIDE DEF Same
  <2>8. Same(c)
    BY <2>1, <2>2, <2>3, <2>4, <2>5, <2>6, <2>7
  <2> QED BY <2>8 DEF Same
<1>10. ReadyForTicketing(p, a)
  <2>1. \A c \in DOMAIN Checks(r, a) :
          Checks(r, a)[c].blocking => Checks(r, a)[c].status = "pass"
    BY DEF FinalGate, ReadyForTicketing, Unresolved
  <2>2. ASSUME NEW c \in DOMAIN Checks(p, a), Checks(p, a)[c].blocking
        PROVE  Checks(p, a)[c].status = "pass"
    <3>1. CASE c # docs
      BY <1>8, <1>9, <2>1, <2>2, <3>1
    <3>2. CASE c = docs
      <4>1. Docs(r) = "pass"
        BY <1>8, <2>1, <3>2 DEF Check
      <4> QED BY <1>8, <3>2, <4>1 DEF Check
    <3> QED BY <3>1, <3>2
  <2> QED BY <2>2 DEF ReadyForTicketing, Unresolved
<1> QED BY <1>5, <1>6, <1>10 DEF FinalGate

\* Two reads that differ only in quotes that are not selected, and in DOCS of
\* which the second has more, open the same gate.
LEMMA SameView ==
    ASSUME NEW p \in Pnr, NEW r \in Pnr, NEW a, NEW at,
           CandidatesOf(r) = CandidatesOf(p), r.passengers = p.passengers,
           r.quotes = <<>> <=> p.quotes = <<>>,
           r.asSold = p.asSold, r.confirmed = p.confirmed,
           r.email = p.email, r.phone = p.phone,
           Docs(r) = "pass" => Docs(p) = "pass",
           FinalGate(r, a, at)
    PROVE  FinalGate(p, a, at)
<1>1. Coverage(r) = Coverage(p)
  BY SameCoverage
<1>2. AuthorityHolds(r, a) => AuthorityHolds(p, a)
  BY Zenon DEF AuthorityHolds
<1> QED BY <1>1, <1>2, SamePricing

\* The gate is open and p differs from what it opened for in one quote, which
\* was not selected: it was open before.
LEMMA NotSelected ==
    ASSUME NEW p \in Pnr, NEW i \in DOMAIN p.quotes, NEW q \in PriceQuote,
           Selected(Set(p, i, q)) = Selected(p), i \notin Selected(p),
           NEW a, NEW at, FinalGate(Set(p, i, q), a, at)
    PROVE  FinalGate(p, a, at)
<1> DEFINE r == Set(p, i, q)
           S == Selected(p)
<1>1. /\ r \in Pnr /\ r.quotes = [p.quotes EXCEPT ![i] = q]
      /\ r.passengers = p.passengers /\ r.docs = p.docs
      /\ r.asSold = p.asSold /\ r.confirmed = p.confirmed
      /\ r.email = p.email /\ r.phone = p.phone
      /\ FinalGate(r, a, at) /\ Selected(r) = S
  BY SetQuote
<1> HIDE DEF r
<1>2. /\ DOMAIN r.quotes = DOMAIN p.quotes
      /\ \A j \in DOMAIN p.quotes : j # i => r.quotes[j] = p.quotes[j]
  BY <1>1
<1>3. \A k \in 1..Cardinality(S) : Nth(S, k) \in DOMAIN p.quotes /\ Nth(S, k) # i
  BY Candidates
<1>4. \A k \in 1..Cardinality(S) : r.quotes[Nth(S, k)] = p.quotes[Nth(S, k)]
  BY <1>2, <1>3
<1>5. CandidatesOf(r) = CandidatesOf(p)
  <2> HIDE DEF S
  <2>1. /\ CandidatesOf(r) = [k \in 1..Cardinality(S) |-> r.quotes[Nth(S, k)]]
        /\ CandidatesOf(p) = [k \in 1..Cardinality(S) |-> p.quotes[Nth(S, k)]]
    BY <1>1 DEF CandidatesOf, At, S
  <2> QED BY <1>4, <2>1
<1>6. r.quotes # <<>> /\ p.quotes # <<>>
  BY <1>2
<1>7. Docs(r) = "pass" => Docs(p) = "pass"
  <2>1. NamesOf(r) = NamesOf(p)
    BY <1>1 DEF NamesOf
  <2> QED BY <1>1, <2>1, DocsPass
<1> QED BY <1>1, <1>5, <1>6, <1>7, SameView

\* What a read that says less may open: see SilenceOpensOnly.
Admitted(p, i, q, a) ==
    LET before == p.quotes[i]
    IN  /\ IsCurrent(before)
        /\ \/ ~IsCurrent(q) /\ CoveredWithout(p, i)
           \/ /\ q = [before EXCEPT !.quantity = Unknown]
              /\ before.quantity # Cardinality(before.names)
           \/ /\ q = [before EXCEPT !.bases = {}]
              /\ a # Unknown /\ ~(before.bases \subseteq a.bases)

\* An open gate has selected the live quotes, and there are some.
LEMMA OpenIsLive ==
    ASSUME NEW p \in Pnr, NEW a, NEW at, FinalGate(p, a, at)
    PROVE  Selected(p) = Live(p) /\ Live(p) # {}
<1>1. /\ CandidatesOf(p) # <<>>
      /\ Said(CandidatesOf(p), Changed) = {"no"}
  BY Zenon DEF FinalGate, CandidateReady
<1>2. Selected(p) = Live(p)
  BY <1>1, LiveSelected
<1>3. Selected(p) # {}
  BY <1>1, Candidates
<1> QED BY <1>2, <1>3

\* A quote that is no longer seen to be current.
LEMMA DroppedQuote ==
    ASSUME NEW p \in Pnr, NEW i \in DOMAIN p.quotes, NEW q \in PriceQuote,
           ~IsCurrent(q), NEW a, NEW at, FinalGate(Set(p, i, q), a, at)
    PROVE  FinalGate(p, a, at) \/ (IsCurrent(p.quotes[i]) /\ CoveredWithout(p, i))
<1> DEFINE r == Set(p, i, q)
<1>1. /\ r \in Pnr /\ r.quotes = [p.quotes EXCEPT ![i] = q]
      /\ r.passengers = p.passengers /\ FinalGate(r, a, at)
  BY SetQuote
<1>2. Selected(r) = Live(r) /\ Live(r) # {} /\ Issuable(r, a)
  BY <1>1, OpenIsLive, OpenIsIssuable
<1> HIDE DEF r
<1>3. /\ DOMAIN r.quotes = DOMAIN p.quotes /\ r.quotes[i] = q
      /\ \A j \in DOMAIN p.quotes : j # i => r.quotes[j] = p.quotes[j]
  BY <1>1
<1>4. Live(r) = Live(p) \ {i}
  BY <1>3 DEF Live
<1>5. CASE IsCurrent(p.quotes[i])
  <2>1. ASSUME NEW k \in DOMAIN p.passengers
        PROVE  \E j \in DOMAIN p.quotes \ {i} :
                 /\ IsCurrent(p.quotes[j])
                 /\ p.passengers[k].name \in p.quotes[j].names
    <3>1. \E j \in Live(r) : r.passengers[k].name \in r.quotes[j].names
      <4>1. \E j \in Live(r) : \A l \in Live(r) :
              r.passengers[k].name \in r.quotes[l].names <=> l = j
        BY <1>1, <1>2 DEF Issuable, Live
      <4> QED BY <4>1
    <3>2. PICK j \in Live(r) : r.passengers[k].name \in r.quotes[j].names
      BY <3>1
    <3>3. /\ j \in DOMAIN p.quotes \ {i} /\ IsCurrent(p.quotes[j])
          /\ r.quotes[j] = p.quotes[j]
      BY <1>3, <1>4 DEF Live
    <3> QED BY <1>1, <3>2, <3>3
  <2> QED BY <1>5, <2>1 DEF CoveredWithout
<1>6. CASE ~IsCurrent(p.quotes[i])
  <2>1. Live(p) = Live(r) /\ i \notin Live(p)
    BY <1>4, <1>6 DEF Live
  <2>2. Selected(p) = Live(p)
    BY <1>2, <2>1 DEF Selected, Live
  <2>3. Selected(r) = Selected(p) /\ i \notin Selected(p)
    BY <1>2, <2>1, <2>2
  <2> QED BY <2>3, NotSelected DEF r
<1> QED BY <1>5, <1>6

\* A quote that is as current as before, and of which only the quantity or the
\* fare bases are new.
LEMMA SameButFor ==
    ASSUME NEW p \in Pnr, NEW i \in DOMAIN p.quotes, NEW q \in PriceQuote,
           q.changed = p.quotes[i].changed, q.active = p.quotes[i].active,
           q.total = p.quotes[i].total, q.currency = p.quotes[i].currency,
           q.carrier = p.quotes[i].carrier, q.record = p.quotes[i].record,
           q.deadline = p.quotes[i].deadline, q.stored = p.quotes[i].stored,
           q.names = p.quotes[i].names, q.kind = p.quotes[i].kind,
           Contradicts(q) <=> Contradicts(p.quotes[i]),
           NEW a, NEW at,
           \/ q.bases = p.quotes[i].bases
           \/ q.bases = {} /\ (a # Unknown => p.quotes[i].bases \subseteq a.bases),
           FinalGate(Set(p, i, q), a, at)
    PROVE  FinalGate(p, a, at)
<1> DEFINE r == Set(p, i, q)
           S == Selected(p)
           Q == CandidatesOf(p)
           R == CandidatesOf(r)
<1>1. /\ r \in Pnr /\ r.quotes = [p.quotes EXCEPT ![i] = q]
      /\ r.passengers = p.passengers /\ r.docs = p.docs
      /\ r.asSold = p.asSold /\ r.confirmed = p.confirmed
      /\ r.email = p.email /\ r.phone = p.phone
      /\ FinalGate(r, a, at)
  BY SetQuote
<1> HIDE DEF r
<1>2. /\ DOMAIN r.quotes = DOMAIN p.quotes /\ r.quotes[i] = q
      /\ \A j \in DOMAIN p.quotes : j # i => r.quotes[j] = p.quotes[j]
  BY <1>1
<1>3. Selected(r) = S
  <2>1. \A j \in DOMAIN p.quotes : /\ IsCurrent(r.quotes[j]) <=> IsCurrent(p.quotes[j])
                                   /\ IsActive(r.quotes[j]) <=> IsActive(p.quotes[j])
    BY <1>2 DEF IsCurrent, IsActive
  <2>2. /\ {j \in DOMAIN r.quotes : IsCurrent(r.quotes[j])}
             = {j \in DOMAIN p.quotes : IsCurrent(p.quotes[j])}
        /\ {j \in DOMAIN r.quotes : IsActive(r.quotes[j])}
             = {j \in DOMAIN p.quotes : IsActive(p.quotes[j])}
    BY <1>2, <2>1
  <2> QED BY <2>2 DEF Selected
<1>4. /\ DOMAIN R = DOMAIN Q /\ (R = <<>> <=> Q = <<>>)
      /\ \A k \in DOMAIN Q : /\ Nth(S, k) \in DOMAIN p.quotes
                             /\ R[k] = r.quotes[Nth(S, k)]
                             /\ Q[k] = p.quotes[Nth(S, k)]
  BY <1>1, <1>3, Candidates
<1> HIDE DEF Q, R, S
<1>5. ASSUME NEW k \in DOMAIN Q
      PROVE  /\ R[k].changed = Q[k].changed /\ R[k].total = Q[k].total
             /\ R[k].currency = Q[k].currency /\ R[k].carrier = Q[k].carrier
             /\ R[k].record = Q[k].record /\ R[k].deadline = Q[k].deadline
             /\ R[k].stored = Q[k].stored /\ R[k].names = Q[k].names
             /\ R[k].kind = Q[k].kind
             /\ Contradicts(R[k]) <=> Contradicts(Q[k])
             /\ \/ R[k].bases = Q[k].bases
                \/ R[k].bases = {} /\ (a # Unknown => Q[k].bases \subseteq a.bases)
  <2>1. CASE Nth(S, k) = i
    BY <1>2, <1>4, <2>1
  <2>2. CASE Nth(S, k) # i
    <3>1. R[k] = Q[k]
      BY <1>2, <1>4, <2>2
    <3> QED BY <3>1
  <2> QED BY <2>1, <2>2
<1>6. Coverage(r) = Coverage(p)
  BY <1>1, <1>4, <1>5, SameCoverage DEF Q, R
<1>7. ASSUME a # Unknown, AuthorityHolds(r, a) PROVE AuthorityHolds(p, a)
  <2>1. /\ Said(R, Changed) = Said(Q, Changed)
        /\ Said(R, Total) = Said(Q, Total)
        /\ Said(R, Currency) = Said(Q, Currency)
        /\ Said(R, Carrier) = Said(Q, Carrier)
        /\ Said(R, Record) = Said(Q, Record)
        /\ Said(R, Deadline) = Said(Q, Deadline)
    BY <1>4, <1>5
       DEF Said, Changed, Total, Currency, Carrier, Record, Deadline
  <2>2. TotalOf(R) = TotalOf(Q) /\ Records(R) = Records(Q)
    <3>1. /\ [k \in DOMAIN R |-> R[k].total] = [k \in DOMAIN Q |-> Q[k].total]
          /\ [k \in DOMAIN R |-> R[k].record] = [k \in DOMAIN Q |-> Q[k].record]
      BY <1>4, <1>5
    <3> QED BY <3>1 DEF TotalOf, Records
  <2>3. a.bases = {} \/ UNION Said(Q, FareBases) = a.bases
    <3>1. a.bases = {} \/ UNION Said(R, FareBases) = a.bases
      BY <1>7, Zenon DEF AuthorityHolds, R
    <3>2. /\ Said(R, FareBases) = {R[k].bases : k \in DOMAIN Q}
          /\ Said(Q, FareBases) = {Q[k].bases : k \in DOMAIN Q}
      BY <1>4 DEF Said, FareBases
    <3>3. ASSUME UNION Said(R, FareBases) = a.bases
          PROVE  UNION Said(Q, FareBases) = a.bases
      <4>1. ASSUME NEW k \in DOMAIN Q
            PROVE  R[k].bases \subseteq Q[k].bases /\ Q[k].bases \subseteq a.bases
        <5>1. CASE R[k].bases = Q[k].bases
          <6>1. R[k].bases \subseteq UNION Said(R, FareBases)
            BY <1>4, <3>2
          <6> QED BY <3>3, <5>1, <6>1
        <5>2. CASE R[k].bases # Q[k].bases
          BY <1>5, <1>7, <5>2
        <5> QED BY <5>1, <5>2
      <4> QED BY <3>2, <3>3, <4>1
    <3> QED BY <3>1, <3>3
  <2> QED BY <1>4, <1>7, <2>1, <2>2, <2>3, ZenonT(40) DEF AuthorityHolds, Q, R
<1>8. r.quotes # <<>> /\ p.quotes # <<>>
  BY <1>2
<1>9. Docs(r) = "pass" => Docs(p) = "pass"
  <2>1. NamesOf(r) = NamesOf(p)
    BY <1>1 DEF NamesOf
  <2> QED BY <1>1, <2>1, DocsPass
<1>10. /\ CandidatesOf(r) = <<>> <=> CandidatesOf(p) = <<>>
       /\ DOMAIN CandidatesOf(r) = DOMAIN CandidatesOf(p)
  BY <1>4 DEF Q, R
<1>11. \A k \in DOMAIN CandidatesOf(p) :
         LET s == CandidatesOf(r)[k]
             t == CandidatesOf(p)[k]
         IN  /\ s.changed = t.changed /\ s.total = t.total
             /\ s.currency = t.currency /\ s.carrier = t.carrier
             /\ s.record = t.record /\ s.deadline = t.deadline
             /\ s.stored = t.stored
  BY <1>5 DEF Q, R
<1> QED BY <1>1, <1>6, <1>7, <1>8, <1>9, <1>10, <1>11, SamePricing

\* What a read that says less leaves of a quote that is still current.
LEMMA Silenced ==
    ASSUME NEW b \in PriceQuote, NEW q \in QuoteForgotten(b), IsCurrent(q)
    PROVE  /\ q.active = b.active /\ q.changed = b.changed
           /\ \/ q.names = {} \/ q.kind = Unknown \/ q.total = Unknown
              \/ q.currency = Unknown \/ q.carrier = Unknown
              \/ q.record = Unknown
              \/ q.deadline = Unknown \/ q.stored = Unknown
              \/ q = [b EXCEPT !.quantity = Unknown]
              \/ q = [b EXCEPT !.bases = {}]
<1>1. q.active /\ q.changed = "no" /\ Unknown # "no"
  BY GateAssumption DEF IsCurrent
<1>2. \/ q = [b EXCEPT !.active = FALSE] \/ q = [b EXCEPT !.changed = Unknown]
      \/ q = [b EXCEPT !.names = {}] \/ q = [b EXCEPT !.quantity = Unknown]
      \/ q = [b EXCEPT !.kind = Unknown] \/ q = [b EXCEPT !.total = Unknown]
      \/ q = [b EXCEPT !.currency = Unknown]
      \/ q = [b EXCEPT !.carrier = Unknown] \/ q = [b EXCEPT !.bases = {}]
      \/ q = [b EXCEPT !.record = Unknown]
      \/ q = [b EXCEPT !.deadline = Unknown]
      \/ q = [b EXCEPT !.stored = Unknown]
  BY Zenon DEF QuoteForgotten
<1>3. q # [b EXCEPT !.active = FALSE] /\ q # [b EXCEPT !.changed = Unknown]
  BY <1>1 DEF PriceQuote
<1>4. CASE q = [b EXCEPT !.names = {}]
  BY <1>4 DEF PriceQuote
<1>5. CASE q = [b EXCEPT !.quantity = Unknown]
  BY <1>5 DEF PriceQuote
<1>6. CASE q = [b EXCEPT !.kind = Unknown]
  BY <1>6 DEF PriceQuote
<1>7. CASE q = [b EXCEPT !.total = Unknown]
  BY <1>7 DEF PriceQuote
<1>8. CASE q = [b EXCEPT !.currency = Unknown]
  BY <1>8 DEF PriceQuote
<1>9. CASE q = [b EXCEPT !.carrier = Unknown]
  BY <1>9 DEF PriceQuote
<1>10. CASE q = [b EXCEPT !.bases = {}]
  BY <1>10 DEF PriceQuote
<1>11. CASE q = [b EXCEPT !.record = Unknown]
  BY <1>11 DEF PriceQuote
<1>12. CASE q = [b EXCEPT !.deadline = Unknown]
  BY <1>12 DEF PriceQuote
<1>13. CASE q = [b EXCEPT !.stored = Unknown]
  BY <1>13 DEF PriceQuote
<1> QED BY <1>2, <1>3, <1>4, <1>5, <1>6, <1>7, <1>8,
          <1>9, <1>10, <1>11, <1>12, <1>13, Zenon

\* A price quote of which a read says less.
LEMMA SilentQuote ==
    ASSUME NEW p \in Pnr, NEW i \in DOMAIN p.quotes,
           NEW q \in QuoteForgotten(p.quotes[i]), NEW a, NEW at,
           FinalGate(Set(p, i, q), a, at)
    PROVE  FinalGate(p, a, at) \/ Admitted(p, i, q, a)
<1> DEFINE r == Set(p, i, q)
           b == p.quotes[i]
<1>1. b \in PriceQuote /\ q \in PriceQuote
  <2>1. b \in PriceQuote
    BY DEF Pnr
  <2> QED BY <2>1, ForgottenTypes
<1>2. CASE ~IsCurrent(q)
  BY <1>1, <1>2, DroppedQuote DEF Admitted
<1>3. CASE IsCurrent(q)
  <2>1. IsCurrent(b) /\ q.active = b.active /\ q.changed = b.changed
    BY <1>1, <1>3, Silenced DEF IsCurrent
  <2>2. /\ r \in Pnr /\ r.quotes = [p.quotes EXCEPT ![i] = q]
        /\ FinalGate(r, a, at)
    BY <1>1, SetQuote
  <2> HIDE DEF r
  <2>3. i \in DOMAIN r.quotes /\ r.quotes[i] = q
    BY <2>2
  <2>4. i \in Selected(r)
    BY <1>3, <2>2, <2>3, OpenIsLive DEF Live
  <2>5. PICK k \in DOMAIN CandidatesOf(r) : CandidatesOf(r)[k] = q
    BY <2>2, <2>3, <2>4, Candidates
  <2>6. /\ q.names # {} /\ q.kind # Unknown /\ q.total # Unknown
        /\ q.currency # Unknown /\ q.carrier # Unknown
        /\ q.record # Unknown
        /\ q.deadline # Unknown /\ q.stored # Unknown
    BY <2>2, <2>5, OpenIsKnown
  <2>7. \/ q = [b EXCEPT !.quantity = Unknown]
        \/ q = [b EXCEPT !.bases = {}]
    BY <1>1, <1>3, <2>6, Silenced
  <2>8. FinalGate(Set(p, i, q), a, at)
    OBVIOUS
  <2>9. CASE q = [b EXCEPT !.quantity = Unknown]
    <3>1. CASE b.quantity # Cardinality(b.names)
      BY <2>1, <2>9, <3>1 DEF Admitted
    <3>2. CASE b.quantity = Cardinality(b.names)
      <4>1. ~Contradicts(q) /\ ~Contradicts(b)
        BY <1>1, <2>9, <3>2 DEF Contradicts, PriceQuote
      <4>2. /\ q.total = b.total /\ q.currency = b.currency
            /\ q.carrier = b.carrier /\ q.record = b.record
            /\ q.deadline = b.deadline /\ q.stored = b.stored
            /\ q.names = b.names /\ q.kind = b.kind /\ q.bases = b.bases
        BY <1>1, <2>9 DEF PriceQuote
      <4> HIDE DEF b
      <4>3. p.quotes[i] = b
        BY DEF b
      <4> QED BY <1>1, <2>1, <2>8, <4>1, <4>2, <4>3, SameButFor
    <3> QED BY <3>1, <3>2
  <2>10. CASE q = [b EXCEPT !.bases = {}]
    <3>1. CASE a # Unknown /\ ~(b.bases \subseteq a.bases)
      BY <2>1, <2>10, <3>1 DEF Admitted
    <3>2. CASE a # Unknown => b.bases \subseteq a.bases
      <4>1. /\ q.total = b.total /\ q.currency = b.currency
            /\ q.carrier = b.carrier /\ q.record = b.record
            /\ q.deadline = b.deadline /\ q.stored = b.stored
            /\ q.names = b.names /\ q.kind = b.kind /\ q.bases = {}
            /\ q.quantity = b.quantity
        BY <1>1, <2>10 DEF PriceQuote
      <4>2. Contradicts(q) <=> Contradicts(b)
        BY <4>1 DEF Contradicts
      <4> HIDE DEF b
      <4>3. p.quotes[i] = b
        BY DEF b
      <4> QED BY <1>1, <2>1, <2>8, <3>2, <4>1, <4>2, <4>3, SameButFor
    <3> QED BY <3>1, <3>2
  <2> QED BY <2>7, <2>9, <2>10
<1> QED BY <1>2, <1>3

\* A passenger of whom a read does not say the name or the kind closes the gate.
LEMMA SilentPassenger ==
    ASSUME NEW p \in Pnr, NEW i \in DOMAIN p.passengers,
           NEW x \in PassengerForgotten(p.passengers[i]), NEW a, NEW at
    PROVE  ~FinalGate(WithPassenger(p, i, x), a, at)
<1> DEFINE r == WithPassenger(p, i, x)
<1> SUFFICES ASSUME FinalGate(r, a, at) PROVE FALSE
  OBVIOUS
<1>1. p.passengers[i] \in Passenger /\ x \in Passenger
  <2>1. p.passengers[i] \in Passenger
    BY DEF Pnr
  <2> QED BY <2>1, ForgottenTypes
<1>2. x.name = Unknown \/ x.kind = Unknown
  BY <1>1 DEF PassengerForgotten, Passenger
<1>3. r \in Pnr /\ r.passengers = [p.passengers EXCEPT ![i] = x]
  BY <1>1, SetPassenger
<1> HIDE DEF r
<1>4. r.passengers[i] = x /\ i \in DOMAIN r.passengers
  BY <1>3
<1>5. Coverage(r) = "exact"
  BY Zenon DEF FinalGate, CandidateReady
<1>6. Unknown \notin NamesOf(r) /\ r.passengers[i].kind # Unknown
  BY <1>3, <1>4, <1>5, ExactCoverage, Zenon
<1>7. x.name # Unknown /\ x.kind # Unknown
  BY <1>4, <1>6 DEF NamesOf
<1> QED BY <1>2, <1>7

\* A DOCS service of which a read says less covers nobody it did not cover.
LEMMA SilentDocs ==
    ASSUME NEW p \in Pnr, NEW d \in p.docs, NEW e \in ServiceForgotten(d),
           NEW a, NEW at,
           FinalGate(WithDocs(p, (p.docs \ {d}) \cup {e}), a, at)
    PROVE  FinalGate(p, a, at)
<1> DEFINE docs == (p.docs \ {d}) \cup {e}
           r == WithDocs(p, docs)
<1>1. d \in Services /\ p.docs \in SUBSET Services
  BY DEF Pnr, Services
<1>2. e \in Services /\ (e.status = Unknown \/ e.names = {})
  <2>1. e \in Services
    BY <1>1, ForgottenTypes
  <2>2. CASE e = [d EXCEPT !.status = Unknown]
    BY <1>1, <2>1, <2>2 DEF Services
  <2>3. CASE e = [d EXCEPT !.names = {}]
    BY <1>1, <2>1, <2>3 DEF Services
  <2> QED BY <2>1, <2>2, <2>3 DEF ServiceForgotten
<1>3. docs \in SUBSET Services
  BY <1>1, <1>2
<1> HIDE DEF docs
<1>4. /\ r \in Pnr /\ r.docs = docs /\ r.quotes = p.quotes
      /\ r.passengers = p.passengers /\ r.asSold = p.asSold
      /\ r.confirmed = p.confirmed /\ r.email = p.email /\ r.phone = p.phone
  BY <1>3, SetDocs
<1> HIDE DEF r
<1>5. NamesOf(r) = NamesOf(p)
  BY <1>4 DEF NamesOf
<1>6. ASSUME NEW n, NEW f \in r.docs, f.status = "HK", n \in f.names
      PROVE  \E g \in p.docs : g.status = "HK" /\ n \in g.names
  BY <1>2, <1>4, <1>6, GateAssumption DEF docs
<1>7. Docs(r) = "pass" => Docs(p) = "pass"
  BY <1>4, <1>5, <1>6, DocsPass
<1>8. CandidatesOf(r) = CandidatesOf(p)
  BY <1>4 DEF CandidatesOf, Selected
<1>9. FinalGate(r, a, at)
  BY DEF r, docs
<1> QED BY <1>4, <1>7, <1>8, <1>9, SameView

\* A read that says less opens a gate that was closed in three ways only: what
\* it does not say about a passenger, DOCS or any other field of a quote the gate
\* selects closes it, and about any other quote makes no difference.
THEOREM SilenceRarelyOpens == GateSpec => SilenceOpensOnly
<1>1. ASSUME GateTypeOK, Forget, ~FinalGate(pnr, authority, now),
             FinalGate(pnr', authority', now')
      PROVE  \E i \in DOMAIN pnr.quotes :
               Admitted(pnr, i, pnr'.quotes[i], authority)
  <2>1. /\ pnr \in Pnr /\ UNCHANGED <<authority, now>>
        /\ FinalGate(pnr', authority, now)
    BY <1>1, ForgetCases DEF GateTypeOK
  <2>2. CASE \E i \in DOMAIN pnr.quotes :
               \E q \in QuoteForgotten(pnr.quotes[i]) : pnr' = Set(pnr, i, q)
    <3>1. PICK i \in DOMAIN pnr.quotes :
            \E q \in QuoteForgotten(pnr.quotes[i]) : pnr' = Set(pnr, i, q)
      BY <2>2
    <3>2. PICK q \in QuoteForgotten(pnr.quotes[i]) : pnr' = Set(pnr, i, q)
      BY <3>1
    <3>3. Admitted(pnr, i, q, authority)
      BY <1>1, <2>1, <3>2, SilentQuote
    <3>4. pnr'.quotes[i] = q
      <4>1. pnr.quotes[i] \in PriceQuote
        BY <2>1 DEF Pnr
      <4>2. q \in PriceQuote
        BY <4>1, ForgottenTypes
      <4> QED BY <2>1, <3>2, <4>2, SetQuote
    <3> QED BY <3>3, <3>4
  <2>3. CASE \E i \in DOMAIN pnr.passengers :
               \E x \in PassengerForgotten(pnr.passengers[i]) :
                 pnr' = WithPassenger(pnr, i, x)
    BY <2>1, <2>3, SilentPassenger, Zenon
  <2>4. CASE \E d \in pnr.docs : \E e \in ServiceForgotten(d) :
               pnr' = WithDocs(pnr, (pnr.docs \ {d}) \cup {e})
    BY <1>1, <2>1, <2>4, SilentDocs, Zenon
  <2> QED BY <1>1, <2>2, <2>3, <2>4, ForgetCases
<1>2. GateTypeOK /\ [GateNext]_gateVars =>
        [ Forget /\ ~FinalGate(pnr, authority, now)
                 /\ FinalGate(pnr', authority', now')
            => \E i \in DOMAIN pnr.quotes :
                 LET before == pnr.quotes[i]
                     after == pnr'.quotes[i]
                 IN  /\ IsCurrent(before)
                     /\ \/ ~IsCurrent(after) /\ CoveredWithout(pnr, i)
                        \/ /\ after = [before EXCEPT !.quantity = Unknown]
                           /\ before.quantity # Cardinality(before.names)
                        \/ /\ after = [before EXCEPT !.bases = {}]
                           /\ authority # Unknown
                           /\ ~(before.bases \subseteq authority.bases)
        ]_gateVars
  BY <1>1, Zenon DEF Admitted
<1> QED BY <1>2, GateTypes, PTL DEF SilenceOpensOnly, GateSpec
=============================================================================
