----------------------------- MODULE IssueGates -----------------------------
(***************************************************************************)
(* What the workspace says about issuing: the price quotes it selects, the *)
(* passengers they cover, the pricing authority, the checks and the next   *)
(* action, the ticket candidate, the purchase deadline and the final gate. *)
(* All of it is a function of the PNR that Sabre returned, the Booking as  *)
(* it was sold and the hour.  The PNR changes under the hands of agents    *)
(* and airlines, one field at a time.                                      *)
(***************************************************************************)
EXTENDS Integers, Sequences, FiniteSets, SequencesExt, Lists

CONSTANTS
    Names,          \* NameNumbers of passengers; Stranger is nobody's
    Stranger,
    Kinds,          \* passenger types
    Carriers, Currencies,
    Totals,         \* amounts of a price quote
    Bases,          \* its fare bases
    Unknown,        \* Sabre did not say
    BookedKinds,    \* the Booking: its passengers, ...
    BookedFare,     \* ... its fare: total, currency and carrier, ...
    BookedBasis,    \* ... and the fare basis of its price quotes
    DaysPerYear,    \* length of the calendar
    Edits, Horizon  \* bounds: changes to the PNR, quarters of a day

ASSUME GateAssumption ==
    /\ Stranger \notin Names
    /\ Unknown \notin Names \cup Kinds \cup Carriers \cup Currencies \cup Nat
    /\ Unknown \notin {"yes", "no", "HK", "UC"}
    /\ Totals \subseteq Nat
    /\ BookedBasis \in Bases
    /\ Carriers # {}
    /\ BookedKinds \in Seq(Kinds)
    /\ BookedFare \in [total : Nat, currency : Currencies,
                       carrier : Carriers \cup {Unknown}]
    /\ DaysPerYear \in Nat \ {0}
    /\ Edits \in Nat /\ Horizon \in Nat

VARIABLES
    pnr,         \* the PNR in Sabre
    authority,   \* the latest pricing authority of the Booking, or Unknown
    now,         \* quarters of a day
    edits        \* how often the PNR has changed

gateVars == <<pnr, authority, now, edits>>

-----------------------------------------------------------------------------
(* The PNR as parse_pnr_snapshot normalizes it.                            *)

Reals == {"yes", "no", Unknown}

\* stored: when a quote was stored; deadline: the day of the year and the
\* quarter of it in "LAST DAY TO PURCHASE".
PriceQuote ==
    [active : BOOLEAN, changed : Reals, record : Nat \cup {Unknown},
     names : SUBSET (Names \cup {Stranger}), quantity : Nat \cup {Unknown},
     kind : Kinds \cup {Unknown}, total : Totals \cup {Unknown},
     currency : Currencies \cup {Unknown}, carrier : Carriers \cup {Unknown},
     bases : SUBSET Bases, stored : Nat \cup {Unknown},
     deadline : [day : Nat, quarter : 0..3] \cup {Unknown}]

Passenger == [name : Names \cup {Unknown}, kind : Kinds \cup {Unknown}]

\* segments: as sold, and confirmed (HK).  docs: DOCS services.
Pnr ==
    [passengers : Seq(Passenger), quotes : Seq(PriceQuote),
     asSold : BOOLEAN, confirmed : BOOLEAN,
     docs : SUBSET [names : SUBSET Names, status : {"HK", "UC", Unknown}],
     email : BOOLEAN, phone : BOOLEAN]

-----------------------------------------------------------------------------
(* select_pnr_pricing                                                      *)

IsActive(q) == q.active
IsCurrent(q) == q.active /\ q.changed = "no"

Selected(p) ==
    LET current == {i \in DOMAIN p.quotes : IsCurrent(p.quotes[i])}
    IN  IF current # {} THEN current
        ELSE {i \in DOMAIN p.quotes : IsActive(p.quotes[i])}

CandidatesOf(p) == At(p.quotes, Selected(p))

\* A seq of quotes says one thing if each says it.
Said(quotes, value(_)) == {value(quotes[i]) : i \in DOMAIN quotes}

-----------------------------------------------------------------------------
(* assess_pnr_pricing_coverage                                             *)

NamesOf(p) == {p.passengers[i].name : i \in DOMAIN p.passengers}

CoverageMutant(p) ==
    LET quotes == CandidatesOf(p)
        covering(name) == {i \in DOMAIN quotes : name \in quotes[i].names}
    IN  IF \A i \in DOMAIN p.passengers : covering(p.passengers[i].name) # {}
          THEN "exact" ELSE "incomplete"
Coverage(p) ==
    LET quotes == CandidatesOf(p)
        people == p.passengers
        covering(name) == {i \in DOMAIN quotes : name \in quotes[i].names}
        conflict ==
            \/ \E i \in DOMAIN quotes :
                 \/ ~(quotes[i].names \subseteq NamesOf(p))
                 \/ quotes[i].quantity \notin
                      {Unknown, Cardinality(quotes[i].names)}
            \/ \E i \in DOMAIN people :
                 \/ Cardinality(covering(people[i].name)) > 1
                 \/ \E j \in covering(people[i].name) :
                      Unknown = people[i].kind \/ quotes[j].kind # people[i].kind
    IN  CASE \/ Unknown \in NamesOf(p)
             \/ Cardinality(NamesOf(p)) # Len(people)
             \/ quotes = <<>>
             \/ \E i \in DOMAIN quotes : quotes[i].names = {} -> "unknown"
          [] OTHER ->
               IF conflict THEN "conflict"
               ELSE IF \E i \in DOMAIN people : covering(people[i].name) = {}
                      THEN "incomplete" ELSE "exact"

-----------------------------------------------------------------------------
(* resolve_pnr_pricing_authority                                           *)

Total(q) == q.total
Currency(q) == q.currency
Carrier(q) == q.carrier
Record(q) == q.record
Changed(q) == q.changed
Deadline(q) == q.deadline
FareBases(q) == q.bases

TotalOf(quotes) == SumOf([i \in DOMAIN quotes |-> quotes[i].total])
Records(quotes) == [i \in DOMAIN quotes |-> quotes[i].record]

\* Booking, locator and brand are those the authority was saved for: neither
\* changes any more.
AuthorityHolds(p, a) ==
    LET quotes == CandidatesOf(p)
    IN  /\ a.original = BookedFare.total /\ a.currency = BookedFare.currency
        /\ BookedFare.carrier \in {Unknown, a.carrier} \/ a.carrier = Unknown
        /\ quotes # <<>>
        /\ Records(quotes) = a.records
        /\ Unknown \notin Said(quotes, Record)
        /\ Said(quotes, Changed) = {"no"}
        /\ Unknown \notin Said(quotes, Total) /\ TotalOf(quotes) = a.total
        /\ Said(quotes, Currency) \ {Unknown} = {a.currency}
        /\ \/ a.carrier = Unknown
           \/ Said(quotes, Carrier) \ {Unknown} = {a.carrier}
        /\ a.bases = {} \/ UNION Said(quotes, FareBases) = a.bases
        /\ a.deadline \in {Unknown} \cup Said(quotes, Deadline)

\* What the quotes have to amount to.
Expected(p, a) ==
    IF a = Unknown \/ ~AuthorityHolds(p, a) THEN BookedFare
    ELSE [total |-> a.total, currency |-> a.currency,
          carrier |-> IF a.carrier = Unknown THEN BookedFare.carrier
                                             ELSE a.carrier]

-----------------------------------------------------------------------------
(* build_pnr_ticket_candidate                                              *)

Agree(quotes, value(_), expected) ==
    expected # Unknown /\ Said(quotes, value) = {expected}

TotalsAgree(quotes, expected) ==
    Unknown \notin Said(quotes, Total) /\ TotalOf(quotes) = expected

CandidateReady(p, a) ==
    LET quotes == CandidatesOf(p)
        expected == Expected(p, a)
    IN  /\ quotes # <<>>
        /\ Said(quotes, Changed) = {"no"}
        /\ Coverage(p) = "exact"
        /\ Unknown \notin Said(quotes, Record)
        /\ Cardinality(Said(quotes, Record)) = Len(quotes)
        /\ Agree(quotes, Currency, expected.currency)
        /\ Agree(quotes, Carrier, expected.carrier)
        /\ TotalsAgree(quotes, expected.total)

-----------------------------------------------------------------------------
(* assess_pnr_secure_flight_docs                                           *)

Docs(p) ==
    LET about(name) == {d \in p.docs : name \in d.names}
        covered(name) == \E d \in about(name) : d.status = "HK"
        unclear(name) ==
            IF about(name) # {} THEN \E d \in about(name) : d.status = Unknown
                                ELSE \E d \in p.docs : d.names = {}
        named == NamesOf(p) \ {Unknown}
    IN  CASE p.passengers = <<>> -> "unknown"
          [] \E n \in named : ~covered(n) /\ ~unclear(n) -> "fail"
          [] OTHER -> IF Unknown \in NamesOf(p)
                         \/ \E n \in named : ~covered(n)
                        THEN "unknown" ELSE "pass"

-----------------------------------------------------------------------------
(* PnrAssessmentService: every check has a status and may block.           *)

Verdict(passed) == IF passed THEN "pass" ELSE "fail"
Check(status, blocking) == [status |-> status, blocking |-> blocking]

PassengerKinds(p) ==
    IF \E i \in DOMAIN p.passengers : p.passengers[i].kind = Unknown
      THEN "unknown"
      ELSE Verdict(\A k \in Kinds :
             Cardinality({i \in DOMAIN p.passengers :
                            p.passengers[i].kind = k})
             = Cardinality({i \in DOMAIN BookedKinds : BookedKinds[i] = k}))

\* One value of every selected quote against the expected one.
Match(quotes, value(_), expected) ==
    IF quotes = <<>> \/ expected = Unknown \/ Unknown \in Said(quotes, value)
      THEN "unknown" ELSE Verdict(Said(quotes, value) = {expected})

Checks(p, a) ==
    LET quotes == CandidatesOf(p)
        selected == quotes # <<>>
        expected == Expected(p, a)
        coverage == Coverage(p)
    IN  [SEGMENTS_MATCH |-> Check(Verdict(p.asSold), TRUE),
         SEGMENTS_CONFIRMED |-> Check(Verdict(p.confirmed), TRUE),
         PASSENGER_COUNT_MATCH |->
            Check(Verdict(Len(p.passengers) = Len(BookedKinds)), TRUE),
         PASSENGER_TYPES_MATCH |->
            Check(PassengerKinds(p), PassengerKinds(p) = "fail"),
         SECURE_FLIGHT_DOCS_PRESENT |-> Check(Docs(p), TRUE),
         CONTACT_PRESENT |-> Check(Verdict(p.email /\ p.phone), TRUE),
         PRICING_AUTHORITY_CURRENT |->
            IF a = Unknown THEN Check("pass", FALSE)
            ELSE Check(Verdict(AuthorityHolds(p, a)), TRUE),
         PRICING_PRESENT |-> Check(Verdict(p.quotes # <<>>), TRUE),
         ACTIVE_PRICING_SELECTED |->
            IF p.quotes = <<>> THEN Check("unknown", FALSE)
            ELSE Check(Verdict(selected), TRUE),
         PRICING_ITINERARY_CURRENT |->
            Check(IF ~selected THEN "unknown"
                  ELSE IF "yes" \in Said(quotes, Changed) THEN "fail"
                  ELSE IF Unknown \in Said(quotes, Changed) THEN "unknown"
                  ELSE "pass", selected),
         PRICING_PASSENGER_COVERAGE |->
            Check(IF coverage = "unknown" THEN "unknown"
                  ELSE Verdict(coverage = "exact"), selected),
         CURRENCY_MATCH |->
            Check(Match(quotes, Currency, expected.currency), selected),
         PRICE_MATCH |->
            Check(IF ~selected \/ Unknown \in Said(quotes, Total)
                    THEN "unknown"
                    ELSE Verdict(TotalOf(quotes) = expected.total), selected),
         VALIDATING_CARRIER_MATCH |->
            Check(Match(quotes, Carrier, expected.carrier),
                  selected /\ expected.carrier # Unknown),
         TICKET_CANDIDATE_READY |->
            Check(IF ~CandidateReady(p, a) /\ ~(selected /\ coverage = "exact")
                    THEN "unknown" ELSE Verdict(CandidateReady(p, a)),
                  selected /\ coverage = "exact")]

Unresolved(p, a) ==
    LET checks == Checks(p, a)
    IN  {c \in DOMAIN checks :
           checks[c].blocking /\ checks[c].status # "pass"}

ReadyForTicketing(p, a) == Unresolved(p, a) = {}

-----------------------------------------------------------------------------
(* _next_action: the first group with something unresolved.                *)

Actions ==
    <<[codes |-> {"SEGMENTS_MATCH", "SEGMENTS_CONFIRMED"},
       action |-> "REVIEW_ITINERARY"],
      [codes |-> {"PASSENGER_COUNT_MATCH", "PASSENGER_TYPES_MATCH",
                  "SECURE_FLIGHT_DOCS_PRESENT"},
       action |-> "REVIEW_PASSENGERS"],
      [codes |-> {"CONTACT_PRESENT"}, action |-> "REVIEW_CONTACT"],
      [codes |-> {"PRICING_PRESENT"}, action |-> "STORE_OR_VERIFY_PRICING"],
      [codes |-> {"ACTIVE_PRICING_SELECTED"}, action |-> "REVIEW_PRICING"],
      [codes |-> {"PRICING_ITINERARY_CURRENT"},
       action |-> "REPRICE_REQUIRED"],
      [codes |-> {"PRICING_PASSENGER_COVERAGE", "PRICING_AUTHORITY_CURRENT",
                  "CURRENCY_MATCH", "PRICE_MATCH",
                  "VALIDATING_CARRIER_MATCH", "TICKET_CANDIDATE_READY"},
       action |-> "REVIEW_PRICING"]>>

NextAction(p, a) ==
    LET unresolved == Unresolved(p, a)
        open == {i \in DOMAIN Actions : Actions[i].codes \cap unresolved # {}}
    IN  IF open = {} THEN "ISSUE_TICKET"
        ELSE Actions[CHOOSE i \in open : \A j \in open : i <= j].action

-----------------------------------------------------------------------------
(* build_pnr_purchase_deadline, in quarters of a day: noon is quarter 2.   *)

\* The year of a deadline follows from the day its quote was stored.
ResolveMutant(q, at) ==
    LET year == at \div (4 * DaysPerYear)
        earlier == q.deadline.day < (at \div 4) % DaysPerYear
    IN  4 * (DaysPerYear * (IF earlier THEN year + 1 ELSE year)
             + q.deadline.day) + q.deadline.quarter
Resolve(q, at) ==
    LET year == q.stored \div (4 * DaysPerYear)
        earlier == q.deadline.day < (q.stored \div 4) % DaysPerYear
    IN  4 * (DaysPerYear * (IF earlier THEN year + 1 ELSE year)
             + q.deadline.day) + q.deadline.quarter

Resolvable(q) == q.deadline # Unknown /\ q.stored # Unknown

Deadlines(p, at) ==
    {Resolve(q, at) : q \in {r \in ToSet(CandidatesOf(p)) : Resolvable(r)}}
Earliest(times) == CHOOSE t \in times : \A u \in times : t <= u

\* One quote without a deadline leaves all of them unresolved.
DeadlineStatusMutant(p, at) ==
    CASE Deadlines(p, at) = {} -> "unresolved"
      [] OTHER -> IF Earliest(Deadlines(p, at)) <= at THEN "expired"
                                                      ELSE "resolved"
DeadlineStatus(p, at) ==
    CASE CandidatesOf(p) = <<>> -> "unresolved"
      [] \E q \in ToSet(CandidatesOf(p)) : ~Resolvable(q) -> "unresolved"
      [] OTHER -> IF Earliest(Deadlines(p, at)) <= at THEN "expired"
                                                      ELSE "resolved"

TomorrowNoon(at) == 4 * (at \div 4 + 1) + 2

\* More than a day away, the policy allows until noon of tomorrow.
Operational(p, at) ==
    LET purchase == Earliest(Deadlines(p, at))
    IN  IF purchase - at > 4 /\ TomorrowNoon(at) < purchase
          THEN TomorrowNoon(at) ELSE purchase

-----------------------------------------------------------------------------
(* The pre-issue readiness of a fresh read, and the final gate.            *)

FinalGate(p, a, at) ==
    /\ ReadyForTicketing(p, a) /\ CandidateReady(p, a)
    /\ DeadlineStatus(p, at) = "resolved"
    /\ Operational(p, at) > at

-----------------------------------------------------------------------------
(* The PNR and the Booking's pricing change.                               *)

Set(p, i, q) == [p EXCEPT !.quotes[i] = q]

\* Sabre or an agent changes one field of a price quote, or no longer says it.
ChangeQuote(i) ==
    \E q \in
        {[pnr.quotes[i] EXCEPT !.active = FALSE]}
        \cup {[pnr.quotes[i] EXCEPT !.changed = v] : v \in {"yes", "no"}}
        \cup {[pnr.quotes[i] EXCEPT !.names = v] :
                v \in {Names, {Stranger}} \cup {{n} : n \in Names}}
        \cup {[pnr.quotes[i] EXCEPT !.kind = v] : v \in Kinds}
        \cup {[pnr.quotes[i] EXCEPT !.quantity = v] : v \in {1, 2}}
        \cup {[pnr.quotes[i] EXCEPT !.total = v] : v \in Totals}
        \cup {[pnr.quotes[i] EXCEPT !.currency = v] : v \in Currencies}
        \cup {[pnr.quotes[i] EXCEPT !.carrier = v] : v \in Carriers}
        \cup {[pnr.quotes[i] EXCEPT !.bases = v] :
                v \in {Bases} \cup {{b} : b \in Bases}}
        \cup {[pnr.quotes[i] EXCEPT !.record = v] : v \in 1..Len(pnr.quotes)} :
        pnr' = Set(pnr, i, q)

\* A quote is stored again, on a later day, as a refresh of the fare does; the
\* old one may stay active.
StoreAgain(i) ==
    /\ \E total \in Totals, stays \in BOOLEAN :
         pnr' = [pnr EXCEPT !.quotes =
           Append([j \in DOMAIN @ |-> IF j = i THEN [@[j] EXCEPT !.active = stays]
                                               ELSE @[j]],
             [@[i] EXCEPT !.record = Len(pnr.quotes) + 1, !.active = TRUE,
                !.changed = "no", !.total = total, !.stored = now])]

ChangePassenger(i) ==
    \E x \in {[pnr.passengers[i] EXCEPT !.name = n] : n \in Names}
             \cup {[pnr.passengers[i] EXCEPT !.kind = k] : k \in Kinds} :
        pnr' = [pnr EXCEPT !.passengers[i] = x]

ChangeRest ==
    \/ pnr' = [pnr EXCEPT !.asSold = FALSE]
    \/ pnr' = [pnr EXCEPT !.confirmed = ~@]
    \/ pnr' = [pnr EXCEPT !.email = ~@]
    \/ pnr' = [pnr EXCEPT !.phone = ~@]
    \/ pnr' = [pnr EXCEPT !.quotes = <<>>]
    \/ pnr.passengers # <<>> /\ pnr' = [pnr EXCEPT !.passengers = Tail(@)]
    \/ \E d \in pnr.docs : pnr' = [pnr EXCEPT !.docs = @ \ {d}]
    \/ \E d \in pnr.docs, status \in {"HK", "UC"} :
         pnr' = [pnr EXCEPT !.docs =
                   (@ \ {d}) \cup {[d EXCEPT !.status = status]}]

Change ==
    /\ edits < Edits /\ edits' = edits + 1
    /\ \/ \E i \in DOMAIN pnr.quotes : ChangeQuote(i) \/ StoreAgain(i)
       \/ \E i \in DOMAIN pnr.passengers : ChangePassenger(i)
       \/ ChangeRest
    /\ UNCHANGED <<authority, now>>

\* The next read no longer says something about a quote, a passenger or DOCS.
\* A quote without a status is not active.
Forget ==
    /\ edits < Edits /\ edits' = edits + 1
    /\ \/ \E i \in DOMAIN pnr.quotes : \E q \in
            {[pnr.quotes[i] EXCEPT !.active = FALSE],
             [pnr.quotes[i] EXCEPT !.changed = Unknown],
             [pnr.quotes[i] EXCEPT !.names = {}],
             [pnr.quotes[i] EXCEPT !.quantity = Unknown],
             [pnr.quotes[i] EXCEPT !.kind = Unknown],
             [pnr.quotes[i] EXCEPT !.total = Unknown],
             [pnr.quotes[i] EXCEPT !.currency = Unknown],
             [pnr.quotes[i] EXCEPT !.carrier = Unknown],
             [pnr.quotes[i] EXCEPT !.bases = {}],
             [pnr.quotes[i] EXCEPT !.record = Unknown],
             [pnr.quotes[i] EXCEPT !.deadline = Unknown],
             [pnr.quotes[i] EXCEPT !.stored = Unknown]} :
              pnr' = Set(pnr, i, q)
       \/ \E i \in DOMAIN pnr.passengers : \E x \in
            {[pnr.passengers[i] EXCEPT !.name = Unknown],
             [pnr.passengers[i] EXCEPT !.kind = Unknown]} :
              pnr' = [pnr EXCEPT !.passengers[i] = x]
       \/ \E d \in pnr.docs :
            \E e \in {[d EXCEPT !.status = Unknown], [d EXCEPT !.names = {}]} :
              pnr' = [pnr EXCEPT !.docs = (@ \ {d}) \cup {e}]
    /\ UNCHANGED <<authority, now>>

\* verify_pnr_pricing_authority_backfill: a refresh verified the current quotes
\* and saves what they say.
SaveAuthority ==
    LET quotes == CandidatesOf(pnr)
    IN  /\ quotes # <<>> /\ Said(quotes, Changed) = {"no"}
        /\ Docs(pnr) = "pass" /\ Coverage(pnr) = "exact"
        /\ Unknown \notin Said(quotes, Record) \cup Said(quotes, Total)
        /\ Said(quotes, Currency) \ {Unknown} = {BookedFare.currency}
        /\ BookedFare.carrier # Unknown
        /\ Said(quotes, Carrier) \ {Unknown} = {BookedFare.carrier}
        /\ Cardinality(UNION Said(quotes, FareBases)) = 1
        /\ Cardinality(Said(quotes, Deadline) \ {Unknown}) = 1
        /\ authority' = [original |-> BookedFare.total,
                         currency |-> BookedFare.currency,
                         carrier |-> BookedFare.carrier,
                         records |-> Records(quotes),
                         total |-> TotalOf(quotes),
                         bases |-> UNION Said(quotes, FareBases),
                         deadline |-> quotes[1].deadline]
        /\ UNCHANGED <<pnr, now, edits>>

TimePasses ==
    now < Horizon /\ now' = now + 1 /\ UNCHANGED <<pnr, authority, edits>>

\* The PNR as it was sold: one quote for each passenger.
Sold(names, totals, day) ==
    [passengers |-> [i \in DOMAIN BookedKinds |->
       [name |-> names[i], kind |-> BookedKinds[i]]],
     quotes |-> [i \in DOMAIN BookedKinds |->
       [active |-> TRUE, changed |-> "no", record |-> i,
        names |-> {names[i]}, quantity |-> 1, kind |-> BookedKinds[i],
        total |-> totals[i], currency |-> BookedFare.currency,
        carrier |-> CHOOSE c \in Carriers : BookedFare.carrier \in {c, Unknown},
        bases |-> {BookedBasis}, stored |-> 0,
        deadline |-> [quarter |-> 1,
                      day |-> IF i = 1 THEN day ELSE DaysPerYear - 1]]],
     asSold |-> TRUE, confirmed |-> TRUE,
     docs |-> {[names |-> {n}, status |-> "HK"] : n \in Names},
     email |-> TRUE, phone |-> TRUE]

GateInit ==
    /\ \E names \in [DOMAIN BookedKinds -> Names],
          totals \in [DOMAIN BookedKinds -> Totals],
          day \in 0..(DaysPerYear - 1) :
         /\ \A i, j \in DOMAIN BookedKinds : names[i] = names[j] => i = j
         /\ pnr = Sold(names, totals, day)
    /\ TotalOf(pnr.quotes) = BookedFare.total
    /\ authority = Unknown /\ now = 0 /\ edits = 0

GateNext == Change \/ Forget \/ SaveAuthority \/ TimePasses

GateSpec == GateInit /\ [][GateNext]_gateVars

-----------------------------------------------------------------------------
(* Properties                                                              *)

Authority == [original : Nat, currency : Currencies,
              carrier : Carriers \cup {Unknown}, records : Seq(Nat),
              total : Nat, bases : SUBSET Bases,
              deadline : [day : Nat, quarter : 0..3] \cup {Unknown}]

\* Type invariant of the PNR, the authority and the clock.
GateTypeOK ==
    /\ pnr \in Pnr /\ authority \in Authority \cup {Unknown}
    /\ now \in Nat /\ edits \in Nat

\* What an agent may rely on before issuing, said without the checks: the
\* itinerary is confirmed as sold, each passenger has DOCS and exactly one
\* quote of the right type that is active and follows the itinerary, these
\* quotes are for nobody else, and they amount to what was sold or to what a
\* refresh verified, in one currency and for one carrier.
Issuable(p, a) ==
    LET live == {i \in DOMAIN p.quotes : IsCurrent(p.quotes[i])}
        quotes == CandidatesOf(p)
    IN  /\ p.asSold /\ p.confirmed /\ p.email /\ p.phone
        /\ Len(p.passengers) = Len(BookedKinds)
        /\ \A i \in DOMAIN p.passengers :
             /\ \E d \in p.docs :
                  d.status = "HK" /\ p.passengers[i].name \in d.names
             /\ \E j \in live :
                  /\ p.quotes[j].kind = p.passengers[i].kind
                  /\ \A k \in live :
                       p.passengers[i].name \in p.quotes[k].names <=> k = j
        /\ UNION {p.quotes[j].names : j \in live} = NamesOf(p)
        /\ Cardinality(NamesOf(p)) = Len(BookedKinds)
        /\ \A j, k \in live :
             /\ p.quotes[j].carrier = p.quotes[k].carrier
             /\ p.quotes[j].currency = BookedFare.currency
        /\ \/ a = Unknown /\ TotalOf(quotes) = BookedFare.total
           \/ a # Unknown /\ TotalOf(quotes) = a.total
                /\ ToSet(a.records) = {p.quotes[j].record : j \in live}

\* The final gate opens only for a PNR that may be issued, and before a
\* deadline that no quote's purchase deadline precedes.
GateFailsClosed ==
    FinalGate(pnr, authority, now) =>
        /\ Issuable(pnr, authority)
        /\ \A t \in Deadlines(pnr, now) :
             now < Operational(pnr, now) /\ Operational(pnr, now) <= t

\* A price that has expired stays expired as time passes, over the end of the
\* year too: only another price quote can open the gate again.
ExpiredStaysExpired ==
    [][ DeadlineStatus(pnr, now) = "expired" /\ pnr' = pnr
          => DeadlineStatus(pnr', now') = "expired" ]_gateVars

\* Every passenger has a current quote other than i.
CoveredWithout(p, i) ==
    \A k \in DOMAIN p.passengers : \E j \in DOMAIN p.quotes \ {i} :
        IsCurrent(p.quotes[j]) /\ p.passengers[k].name \in p.quotes[j].names

\* A read that says less opens a gate that was closed in three ways only, all of
\* them by what it does not say about a current quote: one that others make
\* superfluous is no longer seen to be current; a number of passengers that
\* contradicted its names is gone; fare bases that were not verified are gone.
SilenceOpensOnly ==
    [][ Forget /\ ~FinalGate(pnr, authority, now)
               /\ FinalGate(pnr', authority', now')
          => \E i \in DOMAIN pnr.quotes :
               LET before == pnr.quotes[i]
                   after == pnr'.quotes[i]
               IN  /\ IsCurrent(before)
                   /\ \/ ~IsCurrent(after) /\ CoveredWithout(pnr, i)
                      \/ /\ after = [before EXCEPT !.quantity = Unknown]
                         /\ before.quantity # Cardinality(before.names)
                      \/ /\ after = [before EXCEPT !.bases = {}]
                         /\ authority # Unknown
                         /\ ~(before.bases \subseteq authority.bases)
      ]_gateVars
=============================================================================
