----------------------------- MODULE OfferProofs -----------------------------
(***************************************************************************)
(* Theorems about what an agent and a client are shown of a journey: about *)
(* SearchResults, for every schedule, offer, request and cap that          *)
(* ResultAssumption allows, and then about FareRules, for every quote that *)
(* may be stored and every text that category 16 may be.                   *)
(***************************************************************************)
EXTENDS SearchResults, FareRules, ListFacts


-----------------------------------------------------------------------------
(* The invariant                                                           *)

OptionRow == [flight : Flights, fares : [Currencies -> Seq(Fare)],
              rep : [Currencies -> Fare \cup {None}],
              fare : Currencies \X Fare]

\* No flight is in a list of options twice.
Distinct(os) == \A i, j \in DOMAIN os : os[i].flight = os[j].flight => i = j

\* The fares of an option were offered for its flight, and those that stand
\* for it and for a currency are among them.
Genuine(o, offers) ==
    /\ o.rep[o.fare[1]] = o.fare[2]
    /\ \A c \in Currencies :
         /\ o.rep[c] # None => o.rep[c] \in ToSet(o.fares[c])
         /\ \A f \in ToSet(o.fares[c]) : <<c, o.flight, f>> \in offers

Fits(o, offers) == Allowed(o.flight) /\ Genuine(o, offers)

ListFits(os, offers) ==
    /\ os \in Seq(OptionRow)
    /\ Distinct(os)
    /\ \A i \in DOMAIN os : Fits(os[i], offers)

\* Until the currencies are merged an option has the fares of one.
OnlyIn(os, currency) ==
    \A i \in DOMAIN os : \A c \in Currencies : c # currency => os[i].fares[c] = <<>>

\* What the restrictions leave: fares that can be refunded and, if any flight
\* is inside of the required hours, only such flights.
Narrowed(os) ==
    /\ request.refundable =>
         \A i \in DOMAIN os : \A c \in Currencies :
           \A f \in ToSet(os[i].fares[c]) : f.refund
    /\ request.times # <<>> =>
         \A i, j \in DOMAIN os :
           Distance(os[i].flight)[1] = 0 => Distance(os[j].flight)[1] = 0

ResultInv ==
    /\ request \in Requests /\ turn \in Nat
    /\ stage \in {"search", "combined", "restricted", "ranked", "shown"}
    /\ merged \in [Currencies -> Seq(OptionRow)]
    /\ \A c \in Currencies : ListFits(merged[c], offered) /\ OnlyIn(merged[c], c)
    /\ ListFits(options, offered)
    /\ stage \notin {"search", "combined"} => Narrowed(options)
    /\ ranked = IF stage \in {"ranked", "shown"} THEN ByTime(Rank(options))
                                                 ELSE <<>>
    /\ shown = IF stage = "shown" THEN Pages(ranked) ELSE <<>>
-----------------------------------------------------------------------------
(* Lists of options                                                        *)

SameOptions(t, s) ==
    /\ t \in Seq(OptionRow) /\ Len(t) = Len(s) /\ DOMAIN t = DOMAIN s
    /\ ToSet(t) = ToSet(s)
    /\ Unrepeated(s) => Unrepeated(t)

LEMMA DistinctIsUnrepeated ==
    ASSUME NEW os, Distinct(os) PROVE Unrepeated(os)
BY DEF Distinct, Unrepeated

LEMMA DistinctCarries ==
    ASSUME NEW s, NEW t, Distinct(s), Unrepeated(t), ToSet(t) \subseteq ToSet(s)
    PROVE  Distinct(t)
<1> SUFFICES ASSUME NEW i \in DOMAIN t, NEW j \in DOMAIN t,
                    t[i].flight = t[j].flight
             PROVE  i = j
  BY DEF Distinct
<1>1. PICK k \in DOMAIN s : t[i] = s[k]
  BY DEF ToSet
<1>2. PICK l \in DOMAIN s : t[j] = s[l]
  BY DEF ToSet
<1>3. k = l
  BY <1>1, <1>2 DEF Distinct
<1> QED BY <1>1, <1>2, <1>3 DEF Unrepeated

\* What fits a list fits each list made of its options.
LEMMA FitsCarries ==
    ASSUME NEW s, NEW offers, ListFits(s, offers), NEW t \in Seq(OptionRow),
           Unrepeated(t), ToSet(t) \subseteq ToSet(s)
    PROVE  ListFits(t, offers)
<1>1. ASSUME NEW i \in DOMAIN t PROVE Fits(t[i], offers)
  <2>1. PICK j \in DOMAIN s : t[i] = s[j]
    BY DEF ToSet
  <2> QED BY <2>1 DEF ListFits
<1> QED BY <1>1, DistinctCarries DEF ListFits

LEMMA FlightsCarry ==
    ASSUME NEW s, NEW t, ToSet(t) \subseteq ToSet(s)
    PROVE  FlightsOf(t) \subseteq FlightsOf(s)
<1> SUFFICES ASSUME NEW i \in DOMAIN t PROVE t[i].flight \in FlightsOf(s)
  BY DEF FlightsOf
<1>1. PICK j \in DOMAIN s : t[i] = s[j]
  BY DEF ToSet
<1> QED BY <1>1 DEF FlightsOf

LEMMA CarriersCarry ==
    ASSUME NEW s, NEW t, ToSet(t) \subseteq ToSet(s)
    PROVE  CarriersOf(t) \subseteq CarriersOf(s)
<1> SUFFICES ASSUME NEW i \in DOMAIN t PROVE Carrier(t[i]) \in CarriersOf(s)
  BY DEF CarriersOf
<1>1. PICK j \in DOMAIN s : t[i] = s[j]
  BY DEF ToSet
<1> QED BY <1>1 DEF CarriersOf

\* A list with each flight once has as many flights as options.
LEMMA FlightsCount ==
    ASSUME NEW os \in Seq(OptionRow), Distinct(os)
    PROVE  Cardinality(FlightsOf(os)) = Len(os)
<1> DEFINE fs == [i \in DOMAIN os |-> os[i].flight]
<1>1. fs \in Seq(Flights) /\ Len(fs) = Len(os)
  <2>1. \A i \in DOMAIN os : os[i].flight \in Flights
    <3>1. \A i \in DOMAIN os : os[i] \in OptionRow
      OBVIOUS
    <3> QED BY <3>1 DEF OptionRow
  <2> QED BY <2>1
<1>2. Unrepeated(fs)
  BY DEF Unrepeated, Distinct
<1>3. ToSet(fs) = FlightsOf(os)
  BY DEF ToSet, FlightsOf
<1> HIDE DEF fs
<1> QED BY <1>1, <1>2, <1>3, UnrepeatedCount

-----------------------------------------------------------------------------
(* Distances                                                               *)

LEMMA OutsideIsNat ==
    ASSUME NEW c \in Constraint, NEW actual \in Nat \cup {None}
    PROVE  Outside(c, actual) \in Nat /\ Dislike(c, actual) \in Nat
<1>1. CASE actual = None
  BY <1>1 DEF Outside, Dislike, Never
<1>2. CASE actual # None
  <2>1. actual \in Nat /\ actual \div 24 \in Int
    BY <1>2
  <2>2. /\ c.day = None \/ c.day \in Nat
        /\ c.from = None \/ c.from \in Int
        /\ c.to = None \/ c.to \in Int
    BY DEF Constraint
  <2>3. Window(c, actual).first \in Int /\ Window(c, actual).last \in Int
    BY <2>1, <2>2 DEF Window
  <2>4. Outside(c, actual) \in Nat
    BY <1>2, <2>1, <2>3 DEF Outside
  <2>5. (Window(c, actual).first + Window(c, actual).last) \div 2 \in Int
    BY <2>3
  <2> QED BY <1>2, <2>1, <2>4, <2>5 DEF Dislike
<1> QED BY <1>1, <1>2

LEMMA DistanceTypes ==
    ASSUME request \in Requests, NEW flight \in Flights
    PROVE  /\ Distance(flight) \in Keys(2)
           /\ Distance(flight)[1] \in Nat /\ Distance(flight)[2] \in Nat
           /\ TimeKey(flight) \in Keys(3)
<1> DEFINE times == request.times
           actual == Departs[flight]
           required == [i \in DOMAIN times |->
                          IF times[i].required THEN Outside(times[i], actual) ELSE 0]
           preferred == [i \in DOMAIN times |->
                          IF times[i].required THEN 0 ELSE Dislike(times[i], actual)]
<1>1. times \in Seq(Constraint) /\ actual \in Nat \cup {None} /\ flight \in Nat
  BY ResultAssumption
<1>2. \A i \in DOMAIN times :
        Outside(times[i], actual) \in Nat /\ Dislike(times[i], actual) \in Nat
  <2>1. \A i \in DOMAIN times : times[i] \in Constraint
    BY <1>1
  <2> HIDE DEF times, actual
  <2> QED BY <1>1, <2>1, OutsideIsNat
<1> HIDE DEF times, actual
<1>3. required \in Seq(Nat) /\ preferred \in Seq(Nat)
  <2>1. \A i \in DOMAIN times : required[i] \in Nat /\ preferred[i] \in Nat
    BY <1>2
  <2>2. Len(times) \in Nat /\ DOMAIN times = 1..Len(times)
    BY <1>1
  <2>3. required \in [1..Len(times) -> Nat] /\ preferred \in [1..Len(times) -> Nat]
    BY <2>1, <2>2
  <2> HIDE DEF required, preferred
  <2> QED BY <2>2, <2>3
<1>4. Distance(flight) = <<SumOf(required), SumOf(preferred)>>
  BY DEF Distance, times, actual
<1> HIDE DEF required, preferred
<1>5. SumOf(required) \in Nat /\ SumOf(preferred) \in Nat
  BY <1>3, SumIsNat
<1>6. Distance(flight)[1] \in Nat /\ Distance(flight)[2] \in Nat
  BY <1>4, <1>5
<1>7. Distance(flight) \in Keys(2)
  BY <1>4, <1>5 DEF Keys
<1>8. TimeKey(flight) \in Keys(3)
  BY <1>1, <1>6 DEF Keys, TimeKey
<1> QED BY <1>6, <1>7, <1>8

LEMMA FlightOf ==
    ASSUME NEW os \in Seq(OptionRow), NEW i \in DOMAIN os
    PROVE  os[i] \in OptionRow /\ os[i].flight \in Flights
<1>1. os[i] \in OptionRow
  OBVIOUS
<1> QED BY <1>1 DEF OptionRow

LEMMA ByTimeFacts ==
    ASSUME request \in Requests, NEW os \in Seq(OptionRow)
    PROVE  /\ SameOptions(ByTime(os), os)
           /\ \A i, j \in DOMAIN os : i < j =>
                Distance(ByTime(os)[i].flight)[1] <= Distance(ByTime(os)[j].flight)[1]
<1> DEFINE keys == DistancesOf(os)
<1>1. keys \in [DOMAIN os -> Keys(2)]
      /\ \A i \in DOMAIN os : keys[i] = Distance(os[i].flight) /\ keys[i][1] \in Nat
  BY FlightOf, DistanceTypes DEF DistancesOf
<1> HIDE DEF keys
<1>2. PICK p \in Shuffles(os) :
        /\ Sorted(os, keys) = [n \in DOMAIN os |-> os[p[n]]]
        /\ \A i, j \in DOMAIN os : i < j =>
             \/ Less(keys[p[i]], keys[p[j]])
             \/ keys[p[i]] = keys[p[j]] /\ p[i] < p[j]
  BY <1>1, SortedFacts
<1>3. ByTime(os) = Sorted(os, keys)
  BY DEF ByTime, keys
<1>4. SameOptions(ByTime(os), os)
  BY <1>1, <1>3, SortedIsAList DEF SameOptions
<1>5. ASSUME NEW i \in DOMAIN os, NEW j \in DOMAIN os, i < j
      PROVE  Distance(ByTime(os)[i].flight)[1] <= Distance(ByTime(os)[j].flight)[1]
  <2>1. p[i] \in DOMAIN os /\ p[j] \in DOMAIN os
    BY DEF Shuffles
  <2>2. ByTime(os)[i] = os[p[i]] /\ ByTime(os)[j] = os[p[j]]
    BY <1>2, <1>3
  <2>3. \/ Less(keys[p[i]], keys[p[j]])
        \/ keys[p[i]] = keys[p[j]]
    BY <1>2, <1>5
  <2>4. keys[p[i]] \in Keys(2) /\ keys[p[j]] \in Keys(2)
    BY <1>1, <2>1
  <2>5. keys[p[i]][1] <= keys[p[j]][1]
    <3>1. CASE Less(keys[p[i]], keys[p[j]])
      BY SMTT(30), <2>4, <3>1 DEF Less, Keys
    <3>2. CASE keys[p[i]] = keys[p[j]]
      BY <1>1, <2>1, <3>2
    <3> QED BY <2>3, <3>1, <3>2
  <2> QED BY <1>1, <2>1, <2>2, <2>5
<1> QED BY <1>4, <1>5

\* The nearest of the hours that a constraint accepts is as far as Outside says.
LEMMA NearestHour ==
    ASSUME NEW c \in Constraint, NEW actual \in Nat
    PROVE  Min({IF h < actual THEN actual - h ELSE h - actual :
                  h \in HoursOf(c, actual)}) = Outside(c, actual)
<1> DEFINE far(h) == IF h < actual THEN actual - h ELSE h - actual
           w == Window(c, actual)
           S == {far(h) : h \in HoursOf(c, actual)}
<1>1. /\ c.day = None \/ c.day \in Nat
      /\ c.from = None \/ c.from \in 0..23
      /\ c.to = None \/ c.to \in 0..23
      /\ actual \div 24 \in Nat /\ actual # None
  BY ResultAssumption DEF Constraint
<1>2. PICK day \in Nat : day = IF c.day = None THEN actual \div 24 ELSE c.day
  BY <1>1
<1>3. PICK from \in 0..23 : from = IF c.from = None THEN 0 ELSE c.from
  BY <1>1
<1>4. PICK to \in 0..23 : to = IF c.to = None THEN 23 ELSE c.to
  BY <1>1
<1>5. /\ w.first = 24 * day + from
      /\ w.last = 24 * day + (IF to < from THEN to + 24 ELSE to)
      /\ w.first \in Nat /\ w.last \in Nat /\ w.first <= w.last
  <2>1. w.first = 24 * day + from
    BY <1>2, <1>3 DEF Window
  <2>2. w.last = IF 24 * day + to < w.first THEN 24 * day + to + 24
                                            ELSE 24 * day + to
    BY <1>2, <1>3, <1>4 DEF Window
  <2> HIDE DEF w
  <2> QED BY <2>1, <2>2
<1>6. HoursOf(c, actual)
        = {24 * day + h : h \in from..(IF to < from THEN to + 24 ELSE to)}
  BY <1>2, <1>3, <1>4 DEF HoursOf
<1>7. HoursOf(c, actual) = w.first..w.last
  <2>1. ASSUME NEW h \in w.first..w.last PROVE h \in HoursOf(c, actual)
    <3>1. h - 24 * day \in from..(IF to < from THEN to + 24 ELSE to)
          /\ h = 24 * day + (h - 24 * day)
      BY <1>5
    <3> QED BY <1>6, <3>1
  <2>2. ASSUME NEW h \in from..(IF to < from THEN to + 24 ELSE to)
        PROVE  24 * day + h \in w.first..w.last
    BY <1>5
  <2> QED BY <1>6, <2>1, <2>2
<1>8. Outside(c, actual) = CASE actual < w.first -> w.first - actual
                             [] actual > w.last -> actual - w.last
                             [] OTHER -> 0
  BY <1>1 DEF Outside
<1> HIDE DEF w
<1>9. PICK near \in w.first..w.last : far(near) = Outside(c, actual)
  <2>1. CASE actual < w.first
    BY <1>5, <1>8, <2>1
  <2>2. CASE actual > w.last
    BY <1>5, <1>8, <2>2
  <2>3. CASE ~(actual < w.first) /\ ~(actual > w.last)
    <3>1. actual \in w.first..w.last /\ far(actual) = 0
      BY <1>5, <2>3
    <3> QED BY <1>5, <1>8, <2>3, <3>1
  <2> QED BY <2>1, <2>2, <2>3
<1>10. \A h \in w.first..w.last : far(h) \in Nat /\ Outside(c, actual) <= far(h)
  BY <1>5, <1>8
<1>11. /\ S \in SUBSET Nat /\ Outside(c, actual) \in S
       /\ \A n \in S : Outside(c, actual) <= n
  BY <1>7, <1>9, <1>10
<1> HIDE DEF S
<1>12. /\ Min(S) \in Nat /\ Min(S) <= Outside(c, actual)
       /\ Outside(c, actual) <= Min(S) /\ Outside(c, actual) \in Nat
  BY <1>11, MinIsLeast
<1>13. Min(S) = Outside(c, actual)
  BY <1>12
<1> QED BY <1>13 DEF S

LEMMA MissIsDistance ==
    ASSUME request \in Requests, NEW flight \in Flights
    PROVE  Miss(flight) = Distance(flight)[1]
<1> DEFINE times == request.times
           actual == Departs[flight]
           far(h) == IF h < actual THEN actual - h ELSE h - actual
           miss == [i \in DOMAIN times |->
                      CASE ~times[i].required -> 0
                        [] times[i].required /\ actual = None -> Never
                        [] OTHER -> Min({far(h) : h \in HoursOf(times[i], actual)})]
           required == [i \in DOMAIN times |->
                          IF times[i].required THEN Outside(times[i], actual) ELSE 0]
<1>1. times \in Seq(Constraint) /\ actual \in Nat \cup {None}
  BY ResultAssumption
<1>2. Distance(flight)[1] = SumOf(required) /\ Miss(flight) = SumOf(miss)
  BY DEF Distance, Miss
<1> HIDE DEF times, actual
<1>3. ASSUME NEW i \in DOMAIN times PROVE miss[i] = required[i]
  <2>1. times[i] \in Constraint
    BY <1>1
  <2>2. CASE ~times[i].required
    BY <2>2
  <2>3. CASE times[i].required /\ actual = None
    BY <2>3 DEF Outside
  <2>4. CASE times[i].required /\ actual # None
    <3>1. Min({far(h) : h \in HoursOf(times[i], actual)}) = Outside(times[i], actual)
      BY <1>1, <2>1, <2>4, NearestHour
    <3> QED BY <2>4, <3>1
  <2> QED BY <2>2, <2>3, <2>4
<1>4. miss = required
  BY <1>3
<1> QED BY <1>2, <1>4

-----------------------------------------------------------------------------
(* Ranks                                                                   *)

\* An option has a fare for some currency, and the request's counts first.
LEMMA PriceFacts ==
    ASSUME NEW o \in OptionRow, NEW offers, Fits(o, offers)
    PROVE  LET c == IF request.domestic THEN "ARS" ELSE "USD"
           IN  Price(o) \in Nat /\ (o.rep[c] # None => Price(o) = o.rep[c].price)
<1> DEFINE c == IF request.domestic THEN "ARS" ELSE "USD"
           order == <<c, "USD", "ARS">>
           Stands(k) == /\ o.rep[order[k]] # None
                        /\ \A l \in 1..(k - 1) : o.rep[order[l]] = None
           i == CHOOSE k \in 1..3 : Stands(k)
<1>1. /\ order[1] = c /\ order[2] = "USD" /\ order[3] = "ARS"
      /\ c \in Currencies /\ \A k \in 1..3 : order[k] \in Currencies
  BY DEF Currencies
<1>2. /\ \A d \in Currencies : o.rep[d] = None \/ o.rep[d] \in Fare
      /\ o.fare[1] \in Currencies /\ o.rep[o.fare[1]] # None
  BY ResultAssumption DEF OptionRow, Fits, Genuine
<1>3. \E k \in 1..3 : Stands(k)
  <2>1. CASE o.rep[c] # None
    <3>1. Stands(1)
      BY <1>1, <2>1
    <3> QED BY <3>1
  <2>2. CASE o.rep[c] = None /\ o.rep["USD"] # None
    <3>1. Stands(2)
      BY <1>1, <2>2
    <3> QED BY <3>1
  <2>3. CASE o.rep[c] = None /\ o.rep["USD"] = None
    <3>1. o.rep["ARS"] # None
      BY <1>2, <2>3 DEF Currencies
    <3>2. Stands(3)
      BY <1>1, <2>3, <3>1
    <3> QED BY <3>2
  <2> QED BY <2>1, <2>2, <2>3
<1>4. i \in 1..3 /\ Stands(i)
  BY <1>3, Zenon
<1>5. Price(o) = o.rep[order[i]].price
  BY DEF Price, RankingFare
<1> HIDE DEF i
<1>6. Price(o) \in Nat
  BY <1>1, <1>2, <1>4, <1>5 DEF Fare
<1>7. ASSUME o.rep[c] # None PROVE Price(o) = o.rep[c].price
  <2>1. i = 1
    BY <1>1, <1>4, <1>7
  <2> QED BY <1>1, <1>5, <2>1
<1> QED BY <1>6, <1>7

Priced(os) == \A i \in DOMAIN os : Price(os[i]) \in Nat

LEMMA BoundsFacts ==
    ASSUME NEW os \in Seq(OptionRow), Priced(os), NEW i \in DOMAIN os
    PROVE  /\ Lowest(os) \in Nat /\ Fastest(os) \in Nat
           /\ Price(os[i]) \in Nat
           /\ Stops[os[i].flight] \in Nat /\ Hours[os[i].flight] \in Nat
<1>1. \A j \in DOMAIN os : Price(os[j]) \in Nat /\ Stops[os[j].flight] \in Nat
                            /\ Hours[os[j].flight] \in Nat
  BY FlightOf, ResultAssumption DEF Priced
<1>2. Lowest(os) \in Nat
  <2>1. /\ {Price(os[j]) : j \in DOMAIN os} \in SUBSET Nat
        /\ {Price(os[j]) : j \in DOMAIN os} # {}
    BY <1>1
  <2> QED BY <2>1, MinIsLeast DEF Lowest
<1>3. Fastest(os) \in Nat
  <2>1. /\ {Hours[os[j].flight] : j \in DOMAIN os} \in SUBSET Nat
        /\ {Hours[os[j].flight] : j \in DOMAIN os} # {}
    BY <1>1
  <2> QED BY <2>1, MinIsLeast DEF Fastest
<1> QED BY <1>1, <1>2, <1>3

\* None is above one that is as cheap, as direct and as fast, or better.
NotWorse(o, p) ==
    \/ Price(o) < Price(p)
    \/ Stops[o.flight] < Stops[p.flight]
    \/ Hours[o.flight] < Hours[p.flight]
    \/ /\ Price(o) = Price(p) /\ Stops[o.flight] = Stops[p.flight]
       /\ Hours[o.flight] = Hours[p.flight]

LEMMA TimesIsMonotone ==
    ASSUME NEW k \in Nat, NEW x \in Int, NEW y \in Int, x <= y
    PROVE  k * x \in Int /\ k * y \in Int /\ k * x <= k * y
<1>1. y - x \in Nat
  OBVIOUS
<1>2. k * (y - x) \in Nat
  BY <1>1
<1>3. k * (y - x) = k * y - k * x
  OBVIOUS
<1>4. k * x \in Int /\ k * y \in Int
  OBVIOUS
<1> QED BY <1>2, <1>3, <1>4

LEMMA Products ==
    ASSUME NEW a \in Int, NEW b \in Int, NEW c \in Int
    PROVE  a * b \in Int /\ a * b * c \in Int
OBVIOUS

Places(os) == IF Len(os) > 1 THEN Len(os) - 1 ELSE 1

LEMMA ScoreTypes ==
    ASSUME request \in Requests, NEW os \in Seq(OptionRow), Priced(os),
           NEW i \in DOMAIN os
    PROVE  BalancedScore(os, os[i]) \in Int /\ CommercialScore(os, os[i]) \in Int
<1>1. /\ Lowest(os) \in Nat /\ Fastest(os) \in Nat /\ Price(os[i]) \in Nat
      /\ Stops[os[i].flight] \in Nat /\ Hours[os[i].flight] \in Nat
      /\ Places(os) \in Nat
  BY BoundsFacts DEF Places
<1>2. SchedulePosition(os, os[i].flight) \in Nat
  <2> DEFINE S == {j \in DOMAIN os :
                     Less(TimeKey(os[j].flight), TimeKey(os[i].flight))}
  <2>1. IsFiniteSet(DOMAIN os)
    <3>1. Len(os) \in Nat /\ DOMAIN os = 1..Len(os)
      OBVIOUS
    <3> QED BY <3>1, CountUpTo
  <2>2. IsFiniteSet(S)
    BY <2>1, FS_Subset
  <2> QED BY <2>2, FS_CardinalityType DEF SchedulePosition
<1> DEFINE far == 180 * Stops[os[i].flight]
                  + 25 * (Hours[os[i].flight] - Fastest(os))
           near == 150 * Stops[os[i].flight]
                   + 30 * (Hours[os[i].flight] - Fastest(os))
<1>3. far \in Int /\ near \in Int
  <2>1. PICK st \in Nat : st = Stops[os[i].flight]
    BY <1>1
  <2>2. PICK h \in Nat : h = Hours[os[i].flight]
    BY <1>1
  <2>3. PICK f \in Nat : f = Fastest(os)
    BY <1>1
  <2>4. far = 180 * st + 25 * (h - f) /\ near = 150 * st + 30 * (h - f)
    BY <2>1, <2>2, <2>3
  <2> HIDE DEF far, near
  <2> QED BY <2>4
<1>4. CommercialScore(os, os[i])
        = 1000 * Places(os) * Price(os[i]) + Lowest(os) * Places(os) * far
          + (IF request.times = <<>> THEN 0
             ELSE 300 * Lowest(os) * SchedulePosition(os, os[i].flight))
  BY DEF CommercialScore, Places
<1>5. BalancedScore(os, os[i]) = 1000 * Price(os[i]) + Lowest(os) * near
  BY DEF BalancedScore
<1> HIDE DEF far, near
<1>6. /\ 1000 * Places(os) * Price(os[i]) \in Int
      /\ Lowest(os) * Places(os) * far \in Int
      /\ 300 * Lowest(os) * SchedulePosition(os, os[i].flight) \in Int
      /\ Lowest(os) * near \in Int /\ 1000 * Price(os[i]) \in Int
  <2>1. /\ Lowest(os) \in Int /\ Price(os[i]) \in Int /\ Places(os) \in Int
        /\ SchedulePosition(os, os[i].flight) \in Int /\ 1000 \in Int /\ 300 \in Int
    BY <1>1, <1>2
  <2> QED BY SMTT(30), <1>3, <2>1, Products
<1> QED BY <1>4, <1>5, <1>6

\* With nothing asked of the time, what is no cheaper, no more direct and no
\* faster does not score less.
LEMMA ScoreIsMonotone ==
    ASSUME request \in Requests, request.times = <<>>,
           NEW os \in Seq(OptionRow), Priced(os),
           NEW i \in DOMAIN os, NEW j \in DOMAIN os,
           Price(os[i]) <= Price(os[j]),
           Stops[os[i].flight] <= Stops[os[j].flight],
           Hours[os[i].flight] <= Hours[os[j].flight]
    PROVE  CommercialScore(os, os[i]) <= CommercialScore(os, os[j])
<1> DEFINE far(k) == 180 * Stops[os[k].flight]
                     + 25 * (Hours[os[k].flight] - Fastest(os))
           a == 1000 * Places(os)
           b == Lowest(os) * Places(os)
<1>1. /\ Lowest(os) \in Nat /\ Fastest(os) \in Nat /\ Places(os) \in Nat
      /\ Price(os[i]) \in Nat /\ Price(os[j]) \in Nat
      /\ Stops[os[i].flight] \in Nat /\ Hours[os[i].flight] \in Nat
      /\ Stops[os[j].flight] \in Nat /\ Hours[os[j].flight] \in Nat
  BY BoundsFacts DEF Places
<1>2. far(i) \in Int /\ far(j) \in Int /\ far(i) <= far(j)
  <2>1. PICK st \in Nat : st = Stops[os[i].flight]
    BY <1>1
  <2>2. PICK h \in Nat : h = Hours[os[i].flight]
    BY <1>1
  <2>3. PICK tt \in Nat : tt = Stops[os[j].flight]
    BY <1>1
  <2>4. PICK k \in Nat : k = Hours[os[j].flight]
    BY <1>1
  <2>5. PICK f \in Nat : f = Fastest(os)
    BY <1>1
  <2>6. far(i) = 180 * st + 25 * (h - f) /\ far(j) = 180 * tt + 25 * (k - f)
    BY <2>1, <2>2, <2>3, <2>4, <2>5
  <2>7. st <= tt /\ h <= k
    BY <2>1, <2>2, <2>3, <2>4
  <2> HIDE DEF far
  <2> QED BY <2>6, <2>7
<1>3. a \in Nat /\ b \in Nat
  BY SMTT(30), <1>1
<1>4. /\ CommercialScore(os, os[i]) = a * Price(os[i]) + b * far(i) + 0
      /\ CommercialScore(os, os[j]) = a * Price(os[j]) + b * far(j) + 0
  BY DEF CommercialScore, Places
<1> HIDE DEF far, a, b
<1>5. /\ a * Price(os[i]) \in Int /\ a * Price(os[j]) \in Int
      /\ a * Price(os[i]) <= a * Price(os[j])
  BY SMTT(30), <1>1, <1>3, TimesIsMonotone
<1>6. b * far(i) \in Int /\ b * far(j) \in Int /\ b * far(i) <= b * far(j)
  BY <1>2, <1>3, TimesIsMonotone
<1> QED BY <1>4, <1>5, <1>6

\* What the three plain orders and the commercial one put first is not worse.
LEMMA PlainOrder ==
    ASSUME NEW os \in Seq(OptionRow), Priced(os), NEW mode,
           NEW i \in DOMAIN os, NEW j \in DOMAIN os
    PROVE  /\ Plain(os, mode)[i] \in Keys(3)
           /\ \/ Less(Plain(os, mode)[i], Plain(os, mode)[j])
              \/ Plain(os, mode)[i] = Plain(os, mode)[j]
              => NotWorse(os[i], os[j])
<1> DEFINE price(k) == Price(os[k])
           stops(k) == Stops[os[k].flight]
           hours(k) == Hours[os[k].flight]
           key(k) == CASE mode = "price" -> <<price(k), stops(k), hours(k)>>
                       [] mode = "duration" -> <<hours(k), stops(k), price(k)>>
                       [] OTHER -> <<stops(k), price(k), hours(k)>>
<1>1. /\ price(i) \in Nat /\ stops(i) \in Nat /\ hours(i) \in Nat
      /\ price(j) \in Nat /\ stops(j) \in Nat /\ hours(j) \in Nat
  BY BoundsFacts
<1>2. Plain(os, mode)[i] = key(i) /\ Plain(os, mode)[j] = key(j)
  BY DEF Plain
<1>3. NotWorse(os[i], os[j]) <=> \/ price(i) < price(j) \/ stops(i) < stops(j)
                                \/ hours(i) < hours(j)
                                \/ /\ price(i) = price(j) /\ stops(i) = stops(j)
                                   /\ hours(i) = hours(j)
  BY DEF NotWorse
<1> HIDE DEF price, stops, hours
<1>4. key(i) \in Keys(3)
  BY <1>1 DEF Keys
<1>5. ASSUME NEW x1, NEW x2, NEW x3, NEW y1, NEW y2, NEW y3,
             Less(<<x1, x2, x3>>, <<y1, y2, y3>>)
      PROVE  x1 < y1 \/ x2 < y2 \/ x3 < y3
  BY <1>5 DEF Less
<1>6. ASSUME Less(key(i), key(j)) PROVE NotWorse(os[i], os[j])
  <2>1. CASE mode = "price"
    BY <1>3, <1>5, <1>6, <2>1
  <2>2. CASE mode # "price" /\ mode = "duration"
    BY <1>3, <1>5, <1>6, <2>2
  <2>3. CASE mode # "price" /\ mode # "duration"
    BY <1>3, <1>5, <1>6, <2>3
  <2> QED BY <2>1, <2>2, <2>3
<1>7. ASSUME key(i) = key(j) PROVE NotWorse(os[i], os[j])
  BY <1>3, <1>7
<1> QED BY <1>2, <1>4, <1>6, <1>7

LEMMA CommercialOrder ==
    ASSUME request \in Requests, NEW os \in Seq(OptionRow), Priced(os),
           NEW i \in DOMAIN os, NEW j \in DOMAIN os
    PROVE  /\ Commercial(os)[i] \in Keys(4) /\ Balanced(os)[i] \in Keys(4)
           /\ /\ request.times = <<>>
              /\ \/ Less(Commercial(os)[i], Commercial(os)[j])
                 \/ Commercial(os)[i] = Commercial(os)[j]
              => NotWorse(os[i], os[j])
<1> DEFINE price(k) == Price(os[k])
           stops(k) == Stops[os[k].flight]
           hours(k) == Hours[os[k].flight]
           score(k) == CommercialScore(os, os[k])
           key(k) == <<score(k), stops(k), price(k), hours(k)>>
<1>1. /\ price(i) \in Nat /\ stops(i) \in Nat /\ hours(i) \in Nat
      /\ price(j) \in Nat /\ stops(j) \in Nat /\ hours(j) \in Nat
  BY BoundsFacts
<1>2. score(i) \in Int /\ score(j) \in Int /\ BalancedScore(os, os[i]) \in Int
  BY ScoreTypes
<1>3. Commercial(os)[i] = key(i) /\ Commercial(os)[j] = key(j)
  BY DEF Commercial
<1>4. Balanced(os)[i] = <<BalancedScore(os, os[i]), stops(i), price(i), hours(i)>>
  BY DEF Balanced
<1>5. NotWorse(os[i], os[j]) <=> \/ price(i) < price(j) \/ stops(i) < stops(j)
                                \/ hours(i) < hours(j)
                                \/ /\ price(i) = price(j) /\ stops(i) = stops(j)
                                   /\ hours(i) = hours(j)
  BY DEF NotWorse
<1>6. ASSUME request.times = <<>>, price(j) <= price(i), stops(j) <= stops(i),
             hours(j) <= hours(i)
      PROVE  score(j) <= score(i)
  BY <1>6, ScoreIsMonotone
<1> HIDE DEF price, stops, hours, score
<1>7. key(i) \in Keys(4)
  BY <1>1, <1>2 DEF Keys
<1>8. Balanced(os)[i] \in Keys(4)
  BY <1>1, <1>2, <1>4 DEF Keys
<1>9. ASSUME request.times = <<>>, Less(key(i), key(j)), ~NotWorse(os[i], os[j])
      PROVE  FALSE
  <2>1. score(i) < score(j) \/ stops(i) < stops(j) \/ price(i) < price(j)
        \/ hours(i) < hours(j)
    BY <1>9 DEF Less
  <2>2. score(j) <= score(i)
    BY <1>1, <1>5, <1>6, <1>9
  <2> QED BY <1>2, <1>5, <1>9, <2>1, <2>2
<1>10. ASSUME key(i) = key(j) PROVE NotWorse(os[i], os[j])
  BY <1>5, <1>10
<1> QED BY <1>3, <1>7, <1>8, <1>9, <1>10

\* Sorted by keys that never put the worse first.
LEMMA SortedNotWorse ==
    ASSUME NEW os \in Seq(OptionRow), NEW m \in Nat,
           NEW keys \in [DOMAIN os -> Keys(m)],
           \A i, j \in DOMAIN os :
             Less(keys[i], keys[j]) \/ keys[i] = keys[j] => NotWorse(os[i], os[j])
    PROVE  \A i, j \in DOMAIN os : i < j =>
             NotWorse(Sorted(os, keys)[i], Sorted(os, keys)[j])
<1>1. PICK p \in Shuffles(os) :
        /\ Sorted(os, keys) = [n \in DOMAIN os |-> os[p[n]]]
        /\ \A i, j \in DOMAIN os : i < j =>
             \/ Less(keys[p[i]], keys[p[j]])
             \/ keys[p[i]] = keys[p[j]] /\ p[i] < p[j]
  BY SortedFacts
<1> SUFFICES ASSUME NEW i \in DOMAIN os, NEW j \in DOMAIN os, i < j
             PROVE  NotWorse(Sorted(os, keys)[i], Sorted(os, keys)[j])
  OBVIOUS
<1>2. p[i] \in DOMAIN os /\ p[j] \in DOMAIN os
  BY DEF Shuffles
<1>3. Sorted(os, keys)[i] = os[p[i]] /\ Sorted(os, keys)[j] = os[p[j]]
  BY <1>1
<1>4. Less(keys[p[i]], keys[p[j]]) \/ keys[p[i]] = keys[p[j]]
  BY <1>1
<1> QED BY <1>2, <1>3, <1>4

LEMMA PricedCarries ==
    ASSUME NEW s, NEW t, Priced(s), ToSet(t) \subseteq ToSet(s)
    PROVE  Priced(t)
<1> SUFFICES ASSUME NEW i \in DOMAIN t PROVE Price(t[i]) \in Nat
  BY DEF Priced
<1>1. PICK j \in DOMAIN s : t[i] = s[j]
  BY DEF ToSet
<1> QED BY <1>1 DEF Priced

LEMMA RankFacts ==
    ASSUME request \in Requests, NEW os \in Seq(OptionRow), Priced(os)
    PROVE  /\ SameOptions(Rank(os), os)
           /\ request.times = <<>> =>
                \A i, j \in DOMAIN os : i < j => NotWorse(Rank(os)[i], Rank(os)[j])
<1>1. CASE request.mode # "balanced"
  <2> DEFINE keys == Plain(os, request.mode)
  <2>1. keys \in [DOMAIN os -> Keys(3)]
    <3>1. DOMAIN keys = DOMAIN os /\ keys = [i \in DOMAIN keys |-> keys[i]]
      BY DEF Plain
    <3>2. \A i \in DOMAIN os : keys[i] \in Keys(3)
      BY PlainOrder
    <3> HIDE DEF keys
    <3> QED BY <3>1, <3>2
  <2>2. \A i, j \in DOMAIN os :
          Less(keys[i], keys[j]) \/ keys[i] = keys[j] => NotWorse(os[i], os[j])
    BY PlainOrder
  <2>3. Rank(os) = Sorted(os, keys)
    BY <1>1 DEF Rank
  <2> HIDE DEF keys
  <2>4. SameOptions(Rank(os), os)
    BY <2>1, <2>3, SortedIsAList DEF SameOptions
  <2>5. \A i, j \in DOMAIN os : i < j =>
          NotWorse(Sorted(os, keys)[i], Sorted(os, keys)[j])
    BY <2>1, <2>2, SortedNotWorse
  <2> QED BY <2>3, <2>4, <2>5
<1>2. CASE request.mode = "balanced"
  <2> DEFINE near == Balanced(os)
             t == Sorted(os, near)
             keys == Commercial(t)
  <2>1. near \in [DOMAIN os -> Keys(4)]
    <3>1. DOMAIN near = DOMAIN os /\ near = [i \in DOMAIN near |-> near[i]]
      BY DEF Balanced
    <3>2. \A i \in DOMAIN os : near[i] \in Keys(4)
      BY CommercialOrder
    <3> HIDE DEF near
    <3> QED BY <3>1, <3>2
  <2>2. Rank(os) = Sorted(t, keys)
    BY <1>2 DEF Rank
  <2>3. SameOptions(t, os)
    <3> HIDE DEF near
    <3> QED BY <2>1, SortedIsAList DEF SameOptions
  <2> HIDE DEF t
  <2>4. t \in Seq(OptionRow) /\ Priced(t)
    BY <2>3, PricedCarries DEF SameOptions
  <2>5. keys \in [DOMAIN t -> Keys(4)]
    <3>1. DOMAIN keys = DOMAIN t /\ keys = [i \in DOMAIN keys |-> keys[i]]
      BY DEF Commercial
    <3>2. \A i \in DOMAIN t : keys[i] \in Keys(4)
      BY <2>4, CommercialOrder
    <3> HIDE DEF keys
    <3> QED BY <3>1, <3>2
  <2>6. ASSUME request.times = <<>>
        PROVE  \A i, j \in DOMAIN t :
                 Less(keys[i], keys[j]) \/ keys[i] = keys[j] => NotWorse(t[i], t[j])
    BY <2>4, <2>6, CommercialOrder
  <2> HIDE DEF keys
  <2>7. SameOptions(Rank(os), t)
    BY <2>2, <2>4, <2>5, SortedIsAList DEF SameOptions
  <2>8. SameOptions(Rank(os), os)
    BY <2>3, <2>7 DEF SameOptions
  <2>9. ASSUME request.times = <<>>
        PROVE  \A i, j \in DOMAIN t : i < j =>
                 NotWorse(Sorted(t, keys)[i], Sorted(t, keys)[j])
    BY <2>4, <2>5, <2>6, <2>9, SortedNotWorse
  <2> QED BY <2>2, <2>3, <2>8, <2>9 DEF SameOptions
<1> QED BY <1>1, <1>2

\* With nothing asked of the time, nothing moves for its sake.
LEMMA ByTimeOfNothing ==
    ASSUME request \in Requests, NEW os \in Seq(OptionRow), request.times = <<>>
    PROVE  ByTime(os) = os
<1>1. ASSUME NEW flight \in Flights PROVE Distance(flight) = <<0, 0>>
  <2>1. \A s \in [{} -> Nat] : SumOf(s) = 0
    <3>1. \A s \in [{} -> Nat] : s \in Seq(Nat) /\ \A i \in DOMAIN s : s[i] = 0
      OBVIOUS
    <3> QED BY <3>1, SumOfNothing
  <2> DEFINE times == request.times
             actual == Departs[flight]
             required == [i \in DOMAIN times |->
                            IF times[i].required THEN Outside(times[i], actual) ELSE 0]
             preferred == [i \in DOMAIN times |->
                            IF times[i].required THEN 0 ELSE Dislike(times[i], actual)]
  <2>2. Distance(flight) = <<SumOf(required), SumOf(preferred)>>
    BY DEF Distance
  <2>3. DOMAIN times = {}
    OBVIOUS
  <2> HIDE DEF times
  <2>4. required \in [{} -> Nat] /\ preferred \in [{} -> Nat]
    BY <2>3
  <2> HIDE DEF required, preferred
  <2> QED BY <2>1, <2>2, <2>4
<1> DEFINE keys == DistancesOf(os)
<1>2. /\ keys \in [DOMAIN os -> Keys(2)]
      /\ \A i, j \in DOMAIN os : keys[i] = keys[j]
  BY <1>1, FlightOf DEF DistancesOf, Keys
<1> HIDE DEF keys
<1>3. Sorted(os, keys) = os
  BY <1>2, SortedByNothing
<1> QED BY <1>3 DEF ByTime, keys

-----------------------------------------------------------------------------
(* Pages                                                                   *)

LEMMA CarriersCount ==
    ASSUME NEW os \in Seq(OptionRow),
           \A i, j \in DOMAIN os : Carrier(os[i]) = Carrier(os[j]) => i = j
    PROVE  Cardinality(CarriersOf(os)) = Len(os)
<1> DEFINE cs == [i \in DOMAIN os |-> Carrier(os[i])]
           T == CarriersOf(os)
<1>1. cs \in Seq(T) /\ Len(cs) = Len(os)
  BY DEF CarriersOf
<1>2. Unrepeated(cs)
  BY DEF Unrepeated
<1>3. ToSet(cs) = T
  BY DEF ToSet, CarriersOf
<1> HIDE DEF cs, T
<1>4. Cardinality(ToSet(cs)) = Len(cs)
  BY <1>1, <1>2, UnrepeatedCount
<1> QED BY <1>1, <1>3, <1>4 DEF T

\* The first option of each carrier goes before the rest.
LEMMA DiversifyFacts ==
    ASSUME NEW os \in Seq(OptionRow), Unrepeated(os), NEW n \in Nat \ {0}
    PROVE  LET d == Diversify(os, n)
               carriers == Cardinality(CarriersOf(os))
           IN  /\ d \in Seq(OptionRow) /\ Unrepeated(d) /\ ToSet(d) \subseteq ToSet(os)
               /\ Len(d) = IF n < Len(os) THEN n ELSE Len(os)
               /\ os # <<>> => os[1] \in ToSet(d)
               /\ Cardinality(CarriersOf(d)) = IF carriers < n THEN carriers ELSE n
<1> DEFINE new == {i \in DOMAIN os :
                     \A j \in 1..(i - 1) : Carrier(os[j]) # Carrier(os[i])}
           a == At(os, new)
           b == At(os, DOMAIN os \ new)
           t == a \o b
           d == Diversify(os, n)
<1>1. new \in SUBSET (DOMAIN os) /\ DOMAIN os = 1..Len(os) /\ Len(os) \in Nat
  OBVIOUS
<1>2. ASSUME NEW i \in new, NEW j \in new, Carrier(os[i]) = Carrier(os[j])
      PROVE  i = j
  <2>1. i \in Int /\ j \in Int /\ i >= 1 /\ j >= 1
    BY <1>1
  <2>2. ~(i < j) /\ ~(j < i)
    BY <1>2, <2>1
  <2> QED BY <2>1, <2>2
<1>3. ASSUME NEW j \in DOMAIN os
      PROVE  \E i \in new : Carrier(os[i]) = Carrier(os[j])
  <2> DEFINE S == {i \in DOMAIN os : Carrier(os[i]) = Carrier(os[j])}
  <2>1. S \subseteq Nat /\ S # {}
    BY <1>1
  <2>2. PICK i \in S : \A k \in S : i <= k
    BY <2>1, LeastNat, Zenon
  <2>3. ASSUME NEW k \in 1..(i - 1) PROVE Carrier(os[k]) # Carrier(os[i])
    <3>1. k \in DOMAIN os /\ ~(i <= k)
      BY <1>1
    <3> QED BY <2>2, <3>1
  <2> QED BY <2>2, <2>3
<1>4. os # <<>> => 1 \in new
  <2> SUFFICES ASSUME os # <<>> PROVE 1 \in new
    OBVIOUS
  <2>1. 1 \in DOMAIN os
    BY <1>1
  <2>2. \A j \in 1..(1 - 1) : FALSE
    OBVIOUS
  <2> QED BY <2>1, <2>2
<1>5. d = First(t, n)
  BY DEF Diversify
<1> HIDE DEF new
<1>6. /\ t \in Seq(OptionRow) /\ Len(t) = Len(os) /\ ToSet(t) = ToSet(os)
      /\ Unrepeated(t)
  BY <1>1, SplitFacts
<1>7. /\ a \in Seq(OptionRow) /\ ToSet(a) = {os[i] : i \in new}
      /\ \A k \in DOMAIN a : Nth(new, k) \in new /\ a[k] = os[Nth(new, k)]
      /\ \A k, l \in DOMAIN a : Nth(new, k) = Nth(new, l) => k = l
      /\ \A k, l \in DOMAIN a : k < l => Nth(new, k) < Nth(new, l)
  BY <1>1, AtFacts, AtSet
<1>8. b \in Seq(OptionRow)
  <2>1. DOMAIN os \ new \in SUBSET (DOMAIN os)
    OBVIOUS
  <2> QED BY <2>1, AtFacts
<1> HIDE DEF a, b
<1>9. \A k \in DOMAIN a : k \in DOMAIN t /\ t[k] = a[k]
  BY <1>7, <1>8, ConcatFacts
<1> HIDE DEF t, d
<1>10. /\ d \in Seq(OptionRow) /\ Len(d) = IF n < Len(t) THEN n ELSE Len(t)
       /\ DOMAIN d = 1..Len(d)
       /\ \A i \in DOMAIN d : d[i] = t[i]
       /\ ToSet(d) \subseteq ToSet(t)
       /\ Unrepeated(d)
  BY <1>5, <1>6, FirstFacts
<1>11. ASSUME NEW k \in DOMAIN a, k <= n PROVE k \in DOMAIN d /\ d[k] = a[k]
  <2>1. k \in DOMAIN t /\ t[k] = a[k]
    BY <1>9
  <2>2. k \in DOMAIN d
    BY <1>6, <1>10, <1>11, <2>1
  <2> QED BY <1>10, <2>1, <2>2
<1>12. \A k, l \in DOMAIN a : Carrier(a[k]) = Carrier(a[l]) => k = l
  BY <1>2, <1>7
<1>13. Cardinality(CarriersOf(a)) = Len(a)
  BY <1>7, <1>12, CarriersCount
<1>14. CarriersOf(a) = CarriersOf(os)
  <2>1. CarriersOf(a) \subseteq CarriersOf(os)
    BY <1>1, <1>7 DEF CarriersOf
  <2>2. ASSUME NEW j \in DOMAIN os PROVE Carrier(os[j]) \in CarriersOf(a)
    <3>1. PICK i \in new : Carrier(os[i]) = Carrier(os[j])
      BY <1>3
    <3>2. os[i] \in ToSet(a)
      BY <1>7
    <3>3. PICK k \in DOMAIN a : a[k] = os[i]
      BY <3>2 DEF ToSet
    <3> QED BY <3>1, <3>3 DEF CarriersOf
  <2> QED BY <2>1, <2>2 DEF CarriersOf
<1>15. Cardinality(CarriersOf(d))
         = IF Cardinality(CarriersOf(os)) < n THEN Cardinality(CarriersOf(os)) ELSE n
  <2>1. CASE Len(a) <= n
    <3>1. \A k \in DOMAIN a : k \in DOMAIN d /\ d[k] = a[k]
      <4>1. \A k \in DOMAIN a : k <= n
        BY <1>7, <2>1
      <4> QED BY <1>11, <4>1
    <3>2. CarriersOf(a) \subseteq CarriersOf(d)
      BY <3>1 DEF CarriersOf
    <3>3. CarriersOf(d) \subseteq CarriersOf(os)
      BY <1>6, <1>10, CarriersCarry
    <3>4. CarriersOf(d) = CarriersOf(os)
      BY <1>14, <3>2, <3>3
    <3>5. Len(a) \in Nat
      BY <1>7
    <3> HIDE DEF a, d
    <3> QED BY <1>13, <1>14, <2>1, <3>4, <3>5
  <2>2. CASE Len(a) > n
    <3>1. Len(a) <= Len(t)
      BY <1>6, <1>7, <1>9
    <3>2. Len(d) = n
      BY <1>6, <1>7, <1>10, <2>2, <3>1
    <3>3. \A k \in DOMAIN d : k \in DOMAIN a /\ d[k] = a[k]
      <4>1. \A k \in DOMAIN d : k \in DOMAIN a /\ k <= n
        BY <1>7, <1>10, <2>2, <3>2
      <4> QED BY <1>11, <4>1
    <3>4. \A k, l \in DOMAIN d : Carrier(d[k]) = Carrier(d[l]) => k = l
      BY <1>12, <3>3
    <3>5. Cardinality(CarriersOf(d)) = n
      BY <1>10, <3>2, <3>4, CarriersCount
    <3>6. Len(a) \in Nat
      BY <1>7
    <3> QED BY <1>13, <1>14, <2>2, <3>5, <3>6
  <2>3. Len(a) \in Nat
    BY <1>7
  <2> QED BY <2>1, <2>2, <2>3
<1>16. os # <<>> => os[1] \in ToSet(d)
  <2> SUFFICES ASSUME os # <<>> PROVE os[1] \in ToSet(d)
    OBVIOUS
  <2>1. PICK k \in DOMAIN a : Nth(new, k) = 1
    BY <1>1, <1>4, AtReaches DEF a
  <2>2. 1 \in DOMAIN a /\ k \in Nat /\ 1 <= k
    BY <1>7
  <2>3. Nth(new, 1) \in 1..Len(os)
    BY <1>1, <1>7, <2>2
  <2>4. k = 1
    BY <1>7, <2>1, <2>2, <2>3
  <2>5. 1 \in DOMAIN d /\ d[1] = a[1]
    BY <1>11, <2>2
  <2>6. a[1] = os[1]
    BY <1>7, <2>1, <2>4
  <2> QED BY <2>5, <2>6 DEF ToSet
<1> QED BY <1>6, <1>10, <1>15, <1>16 DEF d

LEMMA VisibleFacts ==
    ASSUME request \in Requests, NEW os \in Seq(OptionRow), Unrepeated(os)
    PROVE  LET v == VisibleOf(os)
               n == request.maxOptions
               carriers == Cardinality(CarriersOf(os))
           IN  /\ v \in Seq(OptionRow) /\ Unrepeated(v) /\ ToSet(v) \subseteq ToSet(os)
               /\ Len(v) = IF n < Len(os) THEN n ELSE Len(os)
               /\ os # <<>> => os[1] \in ToSet(v)
               /\ \A i, j \in DOMAIN v : i < j =>
                    Distance(v[i].flight)[1] <= Distance(v[j].flight)[1]
               /\ request.preferred = {} =>
                    Cardinality(CarriersOf(v)) = IF carriers < n THEN carriers ELSE n
<1> DEFINE n == request.maxOptions
           carriers == Cardinality(CarriersOf(os))
           x == IF request.preferred # {} THEN First(os, n) ELSE Diversify(os, n)
           v == VisibleOf(os)
<1>1. n \in Nat \ {0}
  BY ResultAssumption
<1>2. v = ByTime(x)
  BY DEF VisibleOf
<1> HIDE DEF n, v
<1>3. /\ x \in Seq(OptionRow) /\ Unrepeated(x) /\ ToSet(x) \subseteq ToSet(os)
      /\ Len(x) = IF n < Len(os) THEN n ELSE Len(os)
      /\ os # <<>> => os[1] \in ToSet(x)
      /\ request.preferred = {} =>
           Cardinality(CarriersOf(x)) = IF carriers < n THEN carriers ELSE n
  <2>1. CASE request.preferred # {}
    <3>1. x = First(os, n)
      BY <2>1
    <3> HIDE DEF x
    <3>2. /\ x \in Seq(OptionRow) /\ Unrepeated(x) /\ ToSet(x) \subseteq ToSet(os)
          /\ Len(x) = IF n < Len(os) THEN n ELSE Len(os)
          /\ DOMAIN x = 1..Len(x) /\ \A i \in DOMAIN x : x[i] = os[i]
      BY <1>1, <3>1, FirstFacts
    <3>3. ASSUME os # <<>> PROVE os[1] \in ToSet(x)
      <4>1. Len(os) \in Nat /\ Len(os) # 0
        BY <3>3
      <4>2. 1 \in DOMAIN x
        BY <1>1, <3>2, <4>1
      <4> QED BY <3>2, <4>2 DEF ToSet
    <3> QED BY <2>1, <3>2, <3>3
  <2>2. CASE request.preferred = {}
    <3>1. x = Diversify(os, n)
      BY <2>2
    <3> HIDE DEF x
    <3> QED BY <1>1, <3>1, DiversifyFacts
  <2> QED BY <2>1, <2>2
<1> HIDE DEF x
<1>4. /\ SameOptions(v, x)
      /\ \A i, j \in DOMAIN x : i < j =>
           Distance(v[i].flight)[1] <= Distance(v[j].flight)[1]
  BY <1>2, <1>3, ByTimeFacts
<1>5. CarriersOf(v) = CarriersOf(x)
  <2>1. ToSet(v) \subseteq ToSet(x) /\ ToSet(x) \subseteq ToSet(v)
    BY <1>4 DEF SameOptions
  <2>2. CarriersOf(v) \subseteq CarriersOf(x)
    BY <2>1, CarriersCarry
  <2>3. CarriersOf(x) \subseteq CarriersOf(v)
    BY <2>1, CarriersCarry
  <2> QED BY <2>2, <2>3
<1> HIDE DEF carriers
<1>6. /\ v \in Seq(OptionRow) /\ Unrepeated(v) /\ ToSet(v) = ToSet(x)
      /\ Len(v) = Len(x) /\ DOMAIN v = DOMAIN x
  BY <1>3, <1>4 DEF SameOptions
<1> QED BY <1>3, <1>4, <1>5, <1>6 DEF v, n, carriers

\* The page comes first, then the other candidates, up to the cap.
LEMMA PagesFacts ==
    ASSUME request \in Requests, NEW os \in Seq(OptionRow), Unrepeated(os)
    PROVE  /\ Pages(os) \in Seq(OptionRow) /\ Unrepeated(Pages(os))
           /\ ToSet(Pages(os)) \subseteq ToSet(os)
           /\ Len(Pages(os)) = IF Len(os) < Cap THEN Len(os) ELSE Cap
           /\ First(Pages(os), request.maxOptions) = VisibleOf(os)
<1> DEFINE n == request.maxOptions
           v == VisibleOf(os)
           seen == {i \in DOMAIN os : os[i] \in ToSet(v)}
           rest == {i \in DOMAIN os : os[i] \notin ToSet(v)}
           b == At(os, rest)
           t == v \o b
           pages == Pages(os)
<1>1. n \in 1..Cap /\ Cap \in Nat /\ n \in Nat
  BY ResultAssumption
<1>2. pages = First(t, Cap)
  BY DEF Pages
<1>3. /\ v \in Seq(OptionRow) /\ Unrepeated(v) /\ ToSet(v) \subseteq ToSet(os)
      /\ Len(v) = IF n < Len(os) THEN n ELSE Len(os)
  BY VisibleFacts
<1>4. /\ seen \in SUBSET (DOMAIN os) /\ rest \in SUBSET (DOMAIN os)
      /\ rest = DOMAIN os \ seen
  OBVIOUS
<1> HIDE DEF v, n, pages
<1>5. {os[i] : i \in seen} = ToSet(v)
  BY <1>3 DEF ToSet
<1>6. ToSet(v) \cap {os[i] : i \in rest} = {}
  OBVIOUS
<1> HIDE DEF seen, rest
<1>7. /\ b \in Seq(OptionRow) /\ Unrepeated(b) /\ ToSet(b) = {os[i] : i \in rest}
      /\ Len(b) = Cardinality(rest) /\ Cardinality(rest) \in Nat
  <2>1. Unrepeated(b)
    BY <1>4, AtUnrepeated
  <2>2. ToSet(b) = {os[i] : i \in rest}
    BY <1>4, AtSet
  <2>3. /\ b \in Seq(OptionRow) /\ Len(b) = Cardinality(rest)
        /\ Cardinality(rest) \in Nat
    BY <1>4, AtFacts
  <2> HIDE DEF b
  <2> QED BY <2>1, <2>2, <2>3
<1>8. Len(v) + Len(b) = Len(os)
  <2> DEFINE a == At(os, seen)
  <2>1. a \in Seq(OptionRow) /\ Unrepeated(a) /\ ToSet(a) = ToSet(v)
    <3>1. Unrepeated(a)
      BY <1>4, AtUnrepeated
    <3>2. ToSet(a) = {os[i] : i \in seen}
      BY <1>4, AtSet
    <3> QED BY <1>4, <1>5, <3>1, <3>2, AtFacts
  <2>2. Len(a \o b) = Len(os)
    BY <1>4, SplitFacts
  <2> HIDE DEF a, b
  <2>3. Len(a) = Len(v)
    BY <1>3, <2>1, UnrepeatedCount
  <2> QED BY <1>7, <2>1, <2>2, <2>3
<1> HIDE DEF b
<1>9. /\ t \in Seq(OptionRow) /\ Len(t) = Len(os)
      /\ \A i \in DOMAIN v : i \in DOMAIN t /\ t[i] = v[i]
      /\ ToSet(t) \subseteq ToSet(os)
  <2>1. ToSet(b) \subseteq ToSet(os)
    BY <1>4, <1>7 DEF ToSet
  <2> QED BY <1>3, <1>7, <1>8, <2>1, ConcatFacts
<1>10. Unrepeated(t)
  BY <1>3, <1>6, <1>7, ConcatUnrepeated
<1> HIDE DEF t
<1>11. /\ pages \in Seq(OptionRow) /\ Unrepeated(pages)
       /\ ToSet(pages) \subseteq ToSet(t) /\ DOMAIN pages = 1..Len(pages)
       /\ Len(pages) = IF Cap < Len(t) THEN Cap ELSE Len(t)
       /\ \A i \in DOMAIN pages : pages[i] = t[i]
  BY <1>1, <1>2, <1>9, <1>10, FirstFacts
<1>12. First(pages, n) = v
  <2> DEFINE page == First(pages, n)
  <2>1. /\ page \in Seq(OptionRow) /\ DOMAIN page = 1..Len(page)
        /\ Len(page) = IF n < Len(pages) THEN n ELSE Len(pages)
        /\ DOMAIN page \subseteq DOMAIN pages
        /\ \A i \in DOMAIN page : page[i] = pages[i]
    BY <1>1, <1>11, FirstFacts
  <2>2. Len(os) \in Nat
    OBVIOUS
  <2> HIDE DEF page
  <2>3. Len(page) = Len(v)
    BY <1>1, <1>3, <1>9, <1>11, <2>1, <2>2
  <2>4. DOMAIN v = 1..Len(v)
    BY <1>3
  <2>5. \A i \in 1..Len(v) : page[i] = v[i]
    BY <1>9, <1>11, <2>1, <2>3, <2>4
  <2>6. page = v
    <3>1. page = [i \in 1..Len(page) |-> page[i]]
      BY <2>1
    <3>2. v = [i \in 1..Len(v) |-> v[i]]
      BY <1>3
    <3> QED BY <2>3, <2>5, <3>1, <3>2
  <2> QED BY <2>6 DEF page
<1>13. Len(pages) = IF Len(os) < Cap THEN Len(os) ELSE Cap
  <2>1. Len(os) \in Nat
    OBVIOUS
  <2> QED BY <1>1, <1>9, <1>11, <2>1
<1> QED BY <1>9, <1>11, <1>12, <1>13 DEF pages, v, n

-----------------------------------------------------------------------------
(* An answer                                                               *)

\* An option of one currency, with fares that were offered.
LEMMA OptionFacts ==
    ASSUME NEW flight \in Flights, NEW currency \in Currencies,
           NEW fares \in Seq(Fare), fares # <<>>, NEW offers,
           \A f \in ToSet(fares) : <<currency, flight, f>> \in offers
    PROVE  LET o == Option(flight, currency, fares)
           IN  /\ o \in OptionRow /\ Genuine(o, offers) /\ o.flight = flight
               /\ o.fares[currency] = fares
               /\ \A c \in Currencies : c # currency => o.fares[c] = <<>>
<1> DEFINE o == Option(flight, currency, fares)
<1>1. 1 \in DOMAIN fares /\ fares[1] \in Fare /\ fares[1] \in ToSet(fares)
  <2>1. 1 \in DOMAIN fares
    OBVIOUS
  <2> QED BY <2>1 DEF ToSet
<1>2. /\ o.flight = flight /\ o.fare = <<currency, fares[1]>>
      /\ o.fares = [c \in Currencies |-> IF c = currency THEN fares ELSE <<>>]
      /\ o.rep = [c \in Currencies |-> IF c = currency THEN fares[1] ELSE None]
      /\ o = [flight |-> o.flight, fares |-> o.fares, rep |-> o.rep, fare |-> o.fare]
  BY DEF Option
<1> HIDE DEF o
<1>3. /\ o.fares \in [Currencies -> Seq(Fare)]
      /\ o.rep \in [Currencies -> Fare \cup {None}]
      /\ o.fare \in Currencies \X Fare
  <2>1. <<>> \in Seq(Fare)
    OBVIOUS
  <2> QED BY <1>1, <1>2, <2>1
<1>4. o \in OptionRow
  BY <1>2, <1>3 DEF OptionRow
<1>5. /\ \A c \in Currencies : c # currency => o.fares[c] = <<>> /\ o.rep[c] = None
      /\ o.fares[currency] = fares /\ o.rep[currency] = fares[1]
  BY <1>2
<1>6. ToSet(<<>>) = {}
  BY DEF ToSet
<1>7. o.fare[1] = currency /\ o.fare[2] = fares[1]
  BY <1>2
<1>8. Genuine(o, offers)
  BY <1>1, <1>2, <1>5, <1>6, <1>7 DEF Genuine
<1> QED BY <1>2, <1>4, <1>5, <1>8 DEF o

LEMMA AnswerFacts ==
    ASSUME NEW currency \in Currencies, NEW answer \in Answers(currency)
    PROVE  /\ answer \in Seq(OptionRow) /\ Distinct(answer)
           /\ \A i \in DOMAIN answer : answer[i].fares[currency] \in Seq(Fare)
<1>1. PICK fs \in SUBSET Flights :
        \E order \in Orders(fs), lists \in [fs -> FareLists] :
          answer = Normalized(currency, order, lists)
  BY DEF Answers
<1>2. PICK order \in Orders(fs), lists \in [fs -> FareLists] :
        answer = Normalized(currency, order, lists)
  BY <1>1
<1>3. Cardinality(fs) \in Nat
  BY ResultAssumption, FS_Subset, FS_CardinalityType
<1>4. /\ order \in [1..Cardinality(fs) -> fs]
      /\ \A i, j \in DOMAIN order : order[i] = order[j] => i = j
  BY DEF Orders
<1>5. /\ DOMAIN answer = 1..Cardinality(fs)
      /\ answer = [i \in DOMAIN answer |-> answer[i]]
      /\ \A i \in DOMAIN answer :
           answer[i] = Option(order[i], currency, lists[order[i]])
  BY <1>2, <1>4 DEF Normalized
<1>6. ASSUME NEW i \in DOMAIN answer
      PROVE  /\ answer[i] \in OptionRow /\ answer[i].flight = order[i]
             /\ answer[i].fares[currency] \in Seq(Fare)
  <2>1. order[i] \in Flights /\ lists[order[i]] \in Seq(Fare) /\ lists[order[i]] # <<>>
    BY <1>4, <1>5, ResultAssumption
  <2> DEFINE offers == {<<currency, order[i], f>> : f \in ToSet(lists[order[i]])}
  <2>2. \A f \in ToSet(lists[order[i]]) : <<currency, order[i], f>> \in offers
    OBVIOUS
  <2> HIDE DEF offers
  <2>3. PICK flight \in Flights : flight = order[i]
    BY <2>1
  <2>4. PICK fares \in Seq(Fare) : fares = lists[order[i]]
    BY <2>1
  <2>5. fares # <<>> /\ \A f \in ToSet(fares) : <<currency, flight, f>> \in offers
    BY <2>1, <2>2, <2>3, <2>4
  <2>6. LET o == Option(flight, currency, fares)
        IN  /\ o \in OptionRow /\ Genuine(o, offers) /\ o.flight = flight
            /\ o.fares[currency] = fares
            /\ \A c \in Currencies : c # currency => o.fares[c] = <<>>
    BY <2>5, OptionFacts
  <2> QED BY <1>5, <2>3, <2>4, <2>6
<1>7. answer \in Seq(OptionRow)
  BY <1>3, <1>5, <1>6
<1>8. Distinct(answer)
  BY <1>4, <1>5, <1>6 DEF Distinct
<1> QED BY <1>6, <1>7, <1>8

LEMMA InCabinFacts ==
    ASSUME NEW currency \in Currencies, NEW answer \in Answers(currency), NEW cabin
    PROVE  LET in == InCabin(answer, currency, cabin)
           IN  /\ in \in Seq(OptionRow) /\ Distinct(in) /\ OnlyIn(in, currency)
               /\ \A i \in DOMAIN in :
                    Genuine(in[i], Offers(answer, currency, cabin))
<1> DEFINE kept(o) == At(o.fares[currency], {i \in DOMAIN o.fares[currency] :
                                               o.fares[currency][i].cabin = cabin})
           rows == {i \in DOMAIN answer : kept(answer[i]) # <<>>}
           some == At(answer, rows)
           in == InCabin(answer, currency, cabin)
           offers == Offers(answer, currency, cabin)
<1>1. /\ answer \in Seq(OptionRow) /\ Distinct(answer)
      /\ \A i \in DOMAIN answer : answer[i].fares[currency] \in Seq(Fare)
  BY AnswerFacts
<1>2. rows \in SUBSET (DOMAIN answer)
  OBVIOUS
<1>3. in = [i \in DOMAIN some |-> Option(some[i].flight, currency, kept(some[i]))]
  BY DEF InCabin
<1>4. ASSUME NEW i \in DOMAIN answer
      PROVE  /\ kept(answer[i]) \in Seq(Fare)
             /\ \A f \in ToSet(kept(answer[i])) :
                  <<currency, answer[i].flight, f>> \in offers
  <2> DEFINE fares == answer[i].fares[currency]
             S == {k \in DOMAIN fares : fares[k].cabin = cabin}
  <2>1. fares \in Seq(Fare) /\ S \in SUBSET (DOMAIN fares)
    BY <1>1
  <2>2. At(fares, S) \in Seq(Fare) /\ ToSet(At(fares, S)) = {fares[k] : k \in S}
    <3> HIDE DEF fares, S
    <3> QED BY <2>1, AtFacts, AtSet
  <2>3. {fares[k] : k \in S} \subseteq {x \in ToSet(fares) : x.cabin = cabin}
    BY DEF ToSet
  <2>4. \A f \in {x \in ToSet(fares) : x.cabin = cabin} :
          <<currency, answer[i].flight, f>> \in offers
    BY DEF Offers
  <2>5. kept(answer[i]) = At(fares, S)
    OBVIOUS
  <2> HIDE DEF fares, S, offers, kept
  <2> QED BY <2>2, <2>3, <2>4, <2>5
<1> HIDE DEF in, offers
<1>5. \A i \in rows : kept(answer[i]) # <<>>
  OBVIOUS
<1> HIDE DEF kept, rows
<1>6. /\ some \in Seq(OptionRow) /\ Len(some) \in Nat /\ DOMAIN some = 1..Len(some)
      /\ \A k \in DOMAIN some : Nth(rows, k) \in rows /\ some[k] = answer[Nth(rows, k)]
      /\ ToSet(some) \subseteq ToSet(answer)
  <2>1. ToSet(some) = {answer[i] : i \in rows}
    BY <1>1, <1>2, AtSet
  <2>2. ToSet(some) \subseteq ToSet(answer)
    BY <1>2, <2>1 DEF ToSet
  <2>3. /\ some \in Seq(OptionRow)
        /\ \A k \in DOMAIN some :
             Nth(rows, k) \in rows /\ some[k] = answer[Nth(rows, k)]
    BY <1>1, <1>2, AtFacts
  <2> HIDE DEF some
  <2> QED BY <2>2, <2>3
<1>7. Distinct(some)
  <2>1. Unrepeated(some)
    BY <1>1, <1>2, AtUnrepeated, DistinctIsUnrepeated
  <2> HIDE DEF some
  <2> QED BY <1>1, <1>6, <2>1, DistinctCarries
<1> HIDE DEF some
<1>8. ASSUME NEW k \in DOMAIN some
      PROVE  /\ in[k] \in OptionRow /\ Genuine(in[k], offers)
             /\ in[k].flight = some[k].flight
             /\ \A c \in Currencies : c # currency => in[k].fares[c] = <<>>
  <2>1. PICK i \in DOMAIN answer : some[k] = answer[i] /\ kept(answer[i]) # <<>>
    BY <1>2, <1>5, <1>6
  <2>2. answer[i].flight \in Flights
    BY <1>1, FlightOf
  <2>3. PICK flight \in Flights : flight = answer[i].flight
    BY <2>2
  <2>4. PICK fares \in Seq(Fare) : fares = kept(answer[i])
    BY <1>4
  <2>5. in[k] = Option(flight, currency, fares)
    BY <1>3, <2>1, <2>3, <2>4
  <2>6. fares # <<>> /\ \A f \in ToSet(fares) : <<currency, flight, f>> \in offers
    BY <1>4, <2>1, <2>3, <2>4
  <2>7. LET o == Option(flight, currency, fares)
        IN  /\ o \in OptionRow /\ Genuine(o, offers) /\ o.flight = flight
            /\ o.fares[currency] = fares
            /\ \A c \in Currencies : c # currency => o.fares[c] = <<>>
    BY SMTT(30), <2>6, OptionFacts
  <2> QED BY <2>1, <2>3, <2>5, <2>7
<1>9. in \in Seq(OptionRow) /\ DOMAIN in = DOMAIN some
  <2>1. in \in [1..Len(some) -> OptionRow]
    BY <1>3, <1>6, <1>8
  <2> QED BY <1>6, <2>1
<1>10. Distinct(in)
  BY <1>7, <1>8, <1>9 DEF Distinct
<1>11. OnlyIn(in, currency)
  BY <1>8, <1>9 DEF OnlyIn
<1> QED BY <1>8, <1>9, <1>10, <1>11 DEF in, offers

LEMMA FitAnswer ==
    ASSUME NEW currency \in Currencies, NEW answer \in Answers(currency), NEW cabin
    PROVE  LET fit == CarriersAllowed(InCabin(answer, currency, cabin))
           IN  /\ ListFits(fit, Offers(answer, currency, cabin))
               /\ OnlyIn(fit, currency)
<1> DEFINE in == InCabin(answer, currency, cabin)
           offers == Offers(answer, currency, cabin)
           rows == {i \in DOMAIN in :
                      /\ ToSet(Carriers[in[i].flight]) \cap request.excluded = {}
                      /\ request.preferred # {} =>
                           ToSet(Carriers[in[i].flight]) \subseteq request.preferred}
           fit == At(in, rows)
<1>1. /\ in \in Seq(OptionRow) /\ Distinct(in) /\ OnlyIn(in, currency)
      /\ \A i \in DOMAIN in : Genuine(in[i], offers)
  BY InCabinFacts
<1>2. CarriersAllowed(in) = fit
  BY DEF CarriersAllowed
<1> HIDE DEF in, offers
<1>3. rows \in SUBSET (DOMAIN in) /\ \A i \in rows : Allowed(in[i].flight)
  BY DEF Allowed
<1> HIDE DEF rows
<1>4. /\ fit \in Seq(OptionRow)
      /\ \A k \in DOMAIN fit : Nth(rows, k) \in rows /\ fit[k] = in[Nth(rows, k)]
  BY <1>1, <1>3, AtFacts
<1>5. Distinct(fit)
  <2>1. Unrepeated(fit)
    BY <1>1, <1>3, AtUnrepeated, DistinctIsUnrepeated
  <2>2. ToSet(fit) \subseteq ToSet(in)
    <3>1. ToSet(fit) = {in[i] : i \in rows}
      BY <1>1, <1>3, AtSet
    <3> QED BY <1>3, <3>1 DEF ToSet
  <2> HIDE DEF fit
  <2> QED BY <1>1, <2>1, <2>2, DistinctCarries
<1> HIDE DEF fit
<1>6. \A k \in DOMAIN fit : Fits(fit[k], offers)
  BY <1>1, <1>3, <1>4 DEF Fits
<1>7. OnlyIn(fit, currency)
  BY <1>1, <1>3, <1>4 DEF OnlyIn
<1> QED BY <1>2, <1>4, <1>5, <1>6, <1>7 DEF ListFits, in, offers

-----------------------------------------------------------------------------
(* Merging                                                                 *)

LEMMA FitsMore ==
    ASSUME NEW os, NEW offers, NEW more, offers \subseteq more, ListFits(os, offers)
    PROVE  ListFits(os, more)
BY DEF ListFits, Fits, Genuine

\* A list is extended by another's new flights.
LEMMA Extended ==
    ASSUME NEW p, NEW q, NEW offers, ListFits(p, offers), ListFits(q, offers),
           NEW x \in Seq(OptionRow), DOMAIN x = DOMAIN p,
           \A i \in DOMAIN x : x[i].flight = p[i].flight /\ Fits(x[i], offers)
    PROVE  /\ ListFits(x \o NewFlights(p, q), offers)
           /\ ToSet(x \o NewFlights(p, q)) \subseteq ToSet(x) \cup ToSet(q)
<1> DEFINE rows == {i \in DOMAIN q : q[i].flight \notin FlightsOf(p)}
           b == At(q, rows)
           t == x \o b
<1>1. /\ p \in Seq(OptionRow) /\ q \in Seq(OptionRow) /\ Distinct(p) /\ Distinct(q)
      /\ \A i \in DOMAIN q : Fits(q[i], offers)
  BY DEF ListFits
<1>2. rows \in SUBSET (DOMAIN q) /\ \A i \in rows : q[i].flight \notin FlightsOf(p)
  OBVIOUS
<1>3. NewFlights(p, q) = b
  BY DEF NewFlights
<1> HIDE DEF rows
<1>4. b \in Seq(OptionRow) /\ Unrepeated(b) /\ ToSet(b) = {q[i] : i \in rows}
  <2>1. Unrepeated(b)
    BY <1>1, <1>2, AtUnrepeated, DistinctIsUnrepeated
  <2>2. ToSet(b) = {q[i] : i \in rows}
    BY <1>1, <1>2, AtSet
  <2>3. b \in Seq(OptionRow)
    BY <1>1, <1>2, AtFacts
  <2> HIDE DEF b
  <2> QED BY <2>1, <2>2, <2>3
<1>5. ToSet(b) \subseteq ToSet(q)
  BY <1>2, <1>4 DEF ToSet
<1> HIDE DEF b
<1>6. Distinct(x)
  BY <1>1 DEF Distinct
<1>7. Distinct(b)
  BY <1>1, <1>4, <1>5, DistinctCarries
<1>8. ASSUME NEW i \in DOMAIN x, NEW j \in DOMAIN b PROVE x[i].flight # b[j].flight
  <2>1. x[i].flight \in FlightsOf(p)
    BY DEF FlightsOf
  <2>2. b[j] \in ToSet(b)
    BY DEF ToSet
  <2> QED BY <1>2, <1>4, <2>1, <2>2
<1>9. /\ t \in Seq(OptionRow)
      /\ \A i \in DOMAIN x : i \in DOMAIN t /\ t[i] = x[i]
      /\ \A i \in DOMAIN b : Len(x) + i \in DOMAIN t /\ t[Len(x) + i] = b[i]
      /\ \A i \in DOMAIN t :
           \/ i \in DOMAIN x
           \/ i - Len(x) \in DOMAIN b /\ i = Len(x) + (i - Len(x))
      /\ ToSet(t) = ToSet(x) \cup ToSet(b)
  BY <1>4, ConcatFacts
<1> HIDE DEF t
<1>10. Unrepeated(x) /\ ToSet(x) \cap ToSet(b) = {}
  BY <1>6, <1>8, DistinctIsUnrepeated DEF ToSet
<1>11. ASSUME NEW i \in DOMAIN t
       PROVE  \/ i \in DOMAIN x /\ t[i] = x[i]
              \/ /\ i - Len(x) \in DOMAIN b /\ i = Len(x) + (i - Len(x))
                 /\ t[i] = b[i - Len(x)]
  <2>1. CASE i \in DOMAIN x
    BY <1>9, <2>1
  <2>2. CASE i - Len(x) \in DOMAIN b /\ i = Len(x) + (i - Len(x))
    BY <1>9, <2>2, Zenon
  <2> QED BY <1>9, <2>1, <2>2
<1>12. Distinct(t)
  <2> SUFFICES ASSUME NEW i \in DOMAIN t, NEW j \in DOMAIN t,
                      t[i].flight = t[j].flight
               PROVE  i = j
    BY DEF Distinct
  <2>1. CASE i \in DOMAIN x /\ j \in DOMAIN x
    BY <1>6, <1>9, <2>1 DEF Distinct
  <2>2. CASE i \in DOMAIN x /\ j \notin DOMAIN x
    BY <1>8, <1>9, <1>11, <2>2
  <2>3. CASE i \notin DOMAIN x /\ j \in DOMAIN x
    BY <1>8, <1>9, <1>11, <2>3
  <2>4. CASE i \notin DOMAIN x /\ j \notin DOMAIN x
    <3>1. /\ i - Len(x) \in DOMAIN b /\ i = Len(x) + (i - Len(x))
          /\ t[i] = b[i - Len(x)]
          /\ j - Len(x) \in DOMAIN b /\ j = Len(x) + (j - Len(x))
          /\ t[j] = b[j - Len(x)]
      BY <1>11, <2>4
    <3>2. i - Len(x) = j - Len(x)
      BY <1>7, <3>1 DEF Distinct
    <3> QED BY <3>1, <3>2, Zenon
  <2> QED BY <2>1, <2>2, <2>3, <2>4
<1>13. \A i \in DOMAIN t : Fits(t[i], offers)
  <2>1. \A i \in DOMAIN b : Fits(b[i], offers)
    <3> SUFFICES ASSUME NEW i \in DOMAIN b PROVE Fits(b[i], offers)
      OBVIOUS
    <3>1. PICK j \in DOMAIN q : b[i] = q[j]
      BY <1>5 DEF ToSet
    <3> QED BY <1>1, <3>1
  <2> QED BY <1>11, <2>1
<1> QED BY <1>3, <1>5, <1>9, <1>12, <1>13 DEF ListFits, t

LEMMA TheFacts ==
    ASSUME NEW os, NEW flight \in FlightsOf(os)
    PROVE  \E j \in DOMAIN os : The(os, flight) = os[j] /\ os[j].flight = flight
<1>1. \E j \in DOMAIN os : os[j].flight = flight
  BY DEF FlightsOf
<1> DEFINE j == CHOOSE i \in DOMAIN os : os[i].flight = flight
<1>2. j \in DOMAIN os /\ os[j].flight = flight
  BY <1>1, Zenon
<1>3. The(os, flight) = os[j]
  BY DEF The
<1> QED BY <1>2, <1>3

LEMMA AddNewFacts ==
    ASSUME NEW fares \in Seq(Fare), NEW more \in Seq(Fare), NEW cabin
    PROVE  LET all == AddNew(fares, Wanted(more, cabin))
           IN  /\ all \in Seq(Fare) /\ ToSet(fares) \subseteq ToSet(all)
               /\ ToSet(all) \subseteq ToSet(fares) \cup ToSet(more)
<1> DEFINE wanted == Wanted(more, cabin)
           S == {i \in DOMAIN more : FareName(more[i].cabin) = WantedName(cabin)}
           R == {i \in DOMAIN wanted : wanted[i] \notin ToSet(fares)}
           b == At(wanted, R)
<1>1. wanted = At(more, S) /\ S \in SUBSET (DOMAIN more)
  BY DEF Wanted
<1> HIDE DEF wanted, S
<1>2. wanted \in Seq(Fare) /\ ToSet(wanted) \subseteq ToSet(more)
  <2>1. At(more, S) \in Seq(Fare) /\ ToSet(At(more, S)) = {more[i] : i \in S}
    BY <1>1, AtFacts, AtSet
  <2> QED BY ZenonT(60), <1>1, <2>1 DEF ToSet
<1>3. R \in SUBSET (DOMAIN wanted)
  OBVIOUS
<1>4. AddNew(fares, wanted) = fares \o b
  BY DEF AddNew
<1> HIDE DEF R
<1>5. b \in Seq(Fare) /\ ToSet(b) \subseteq ToSet(wanted)
  <2>1. At(wanted, R) \in Seq(Fare) /\ ToSet(At(wanted, R)) = {wanted[i] : i \in R}
    BY <1>2, <1>3, AtFacts, AtSet
  <2> QED BY <1>3, <2>1 DEF ToSet
<1> HIDE DEF b
<1>6. fares \o b \in Seq(Fare) /\ ToSet(fares \o b) = ToSet(fares) \cup ToSet(b)
  BY <1>5, ConcatFacts
<1> QED BY <1>2, <1>4, <1>5, <1>6 DEF wanted

\* Equal fields, one of which is new.
LEMMA NewFares ==
    ASSUME NEW o \in OptionRow, NEW currency \in Currencies, NEW fares \in Seq(Fare)
    PROVE  LET n == [o EXCEPT !.fares[currency] = fares]
           IN  /\ n \in OptionRow /\ n.flight = o.flight /\ n.rep = o.rep
               /\ n.fare = o.fare /\ n.fares[currency] = fares
               /\ \A c \in Currencies : c # currency => n.fares[c] = o.fares[c]
BY DEF OptionRow

LEMMA MergeCabinFits ==
    ASSUME NEW currency \in Currencies, NEW cabin, NEW offers,
           NEW p, ListFits(p, offers), OnlyIn(p, currency),
           NEW q, ListFits(q, offers), OnlyIn(q, currency)
    PROVE  /\ ListFits(MergeCabin(p, q, currency, cabin), offers)
           /\ OnlyIn(MergeCabin(p, q, currency, cabin), currency)
<1> DEFINE known(i) == p[i].flight \in FlightsOf(q)
           more(i) == The(q, p[i].flight).fares[currency]
           fares(i) == AddNew(p[i].fares[currency], Wanted(more(i), cabin))
           x == [i \in DOMAIN p |->
                   IF known(i) THEN [p[i] EXCEPT !.fares[currency] = fares(i)]
                               ELSE p[i]]
           t == MergeCabin(p, q, currency, cabin)
<1>1. /\ p \in Seq(OptionRow) /\ q \in Seq(OptionRow)
      /\ \A i \in DOMAIN p : Fits(p[i], offers)
      /\ \A i \in DOMAIN q : Fits(q[i], offers)
  BY DEF ListFits
<1>2. t = x \o NewFlights(p, q)
  BY DEF MergeCabin
<1> HIDE DEF t
<1>3. ASSUME NEW i \in DOMAIN p
      PROVE  /\ x[i] \in OptionRow /\ x[i].flight = p[i].flight
             /\ Fits(x[i], offers)
             /\ \A c \in Currencies : c # currency => x[i].fares[c] = <<>>
  <2>1. p[i] \in OptionRow /\ Fits(p[i], offers)
    BY <1>1
  <2>2. \A c \in Currencies : c # currency => p[i].fares[c] = <<>>
    BY DEF OnlyIn
  <2>3. CASE ~known(i)
    BY <2>1, <2>2, <2>3
  <2>4. CASE known(i)
    <3>1. PICK j \in DOMAIN q : /\ The(q, p[i].flight) = q[j]
                                /\ q[j].flight = p[i].flight
      BY <2>4, TheFacts, Zenon
    <3>2. q[j] \in OptionRow /\ Fits(q[j], offers)
      BY <1>1
    <3> DEFINE a == p[i].fares[currency]
               b == q[j].fares[currency]
    <3>3. a \in Seq(Fare) /\ b \in Seq(Fare)
      BY <2>1, <3>2 DEF OptionRow
    <3>4. /\ \A f \in ToSet(a) : <<currency, p[i].flight, f>> \in offers
          /\ \A f \in ToSet(b) : <<currency, p[i].flight, f>> \in offers
      BY <2>1, <3>1, <3>2 DEF Fits, Genuine
    <3>5. fares(i) = AddNew(a, Wanted(b, cabin))
      BY <3>1
    <3>6. x[i] = [p[i] EXCEPT !.fares[currency] = fares(i)]
      BY <2>4
    <3> HIDE DEF x, a, b, fares
    <3>7. /\ fares(i) \in Seq(Fare) /\ ToSet(a) \subseteq ToSet(fares(i))
          /\ ToSet(fares(i)) \subseteq ToSet(a) \cup ToSet(b)
      BY <3>3, <3>5, AddNewFacts
    <3>8. /\ x[i] \in OptionRow /\ x[i].flight = p[i].flight /\ x[i].rep = p[i].rep
          /\ x[i].fare = p[i].fare /\ x[i].fares[currency] = fares(i)
          /\ \A c \in Currencies : c # currency => x[i].fares[c] = p[i].fares[c]
      <4>1. PICK new \in Seq(Fare) : new = fares(i)
        BY <3>7
      <4> QED BY <2>1, <3>6, <4>1, NewFares
    <3>9. Fits(x[i], offers)
      <4>1. Allowed(x[i].flight) /\ x[i].rep[x[i].fare[1]] = x[i].fare[2]
        BY <2>1, <3>8 DEF Fits, Genuine
      <4>2. ASSUME NEW c \in Currencies
            PROVE  /\ x[i].rep[c] # None => x[i].rep[c] \in ToSet(x[i].fares[c])
                   /\ \A f \in ToSet(x[i].fares[c]) : <<c, x[i].flight, f>> \in offers
        <5>1. /\ p[i].rep[c] # None => p[i].rep[c] \in ToSet(p[i].fares[c])
              /\ \A f \in ToSet(p[i].fares[c]) : <<c, p[i].flight, f>> \in offers
          BY <2>1 DEF Fits, Genuine
        <5>2. CASE c = currency
          BY <3>4, <3>7, <3>8, <5>1, <5>2 DEF a
        <5>3. CASE c # currency
          BY <3>8, <5>1, <5>3
        <5> QED BY <5>2, <5>3
      <4> QED BY <4>1, <4>2 DEF Fits, Genuine
    <3> QED BY <2>2, <3>8, <3>9
  <2> QED BY <2>3, <2>4
<1>4. x \in Seq(OptionRow) /\ DOMAIN x = DOMAIN p
  <2>1. x \in [1..Len(p) -> OptionRow] /\ Len(p) \in Nat
    BY <1>1, <1>3
  <2> QED BY <2>1
<1> HIDE DEF x
<1>5. ListFits(t, offers) /\ ToSet(t) \subseteq ToSet(x) \cup ToSet(q)
  BY <1>2, <1>3, <1>4, Extended
<1>6. OnlyIn(t, currency)
  <2> SUFFICES ASSUME NEW i \in DOMAIN t, NEW c \in Currencies, c # currency
               PROVE  t[i].fares[c] = <<>>
    BY DEF OnlyIn
  <2>1. t[i] \in ToSet(x) \cup ToSet(q)
    BY <1>5 DEF ToSet
  <2>2. CASE t[i] \in ToSet(x)
    BY <1>3, <1>4, <2>2 DEF ToSet
  <2>3. CASE t[i] \in ToSet(q)
    BY <2>3 DEF ToSet, OnlyIn
  <2> QED BY <2>1, <2>2, <2>3
<1> QED BY <1>5, <1>6 DEF t

\* The lists of two currencies: the fares of each are kept apart.
LEMMA MergeCurrenciesFits ==
    ASSUME NEW first \in Currencies, NEW second \in Currencies, first # second,
           NEW offers,
           NEW p, ListFits(p, offers), OnlyIn(p, first),
           NEW q, ListFits(q, offers), OnlyIn(q, second)
    PROVE  ListFits(MergeCurrencies(p, q), offers)
<1> DEFINE known(i) == p[i].flight \in FlightsOf(q)
           other(i) == The(q, p[i].flight)
           fares(i) == [c \in Currencies |->
                          IF other(i).fares[c] # <<>> THEN other(i).fares[c]
                                                      ELSE p[i].fares[c]]
           rep(i) == [c \in Currencies |->
                        IF other(i).rep[c] # None THEN other(i).rep[c]
                                                  ELSE p[i].rep[c]]
           x == [i \in DOMAIN p |->
                   IF known(i) THEN [p[i] EXCEPT !.fares = fares(i), !.rep = rep(i)]
                               ELSE p[i]]
<1>1. /\ p \in Seq(OptionRow) /\ q \in Seq(OptionRow)
      /\ \A i \in DOMAIN p : Fits(p[i], offers)
      /\ \A i \in DOMAIN q : Fits(q[i], offers)
  BY DEF ListFits
<1>2. MergeCurrencies(p, q) = x \o NewFlights(p, q)
  BY DEF MergeCurrencies
<1>3. ASSUME NEW i \in DOMAIN p
      PROVE  /\ x[i] \in OptionRow /\ x[i].flight = p[i].flight
             /\ Fits(x[i], offers)
  <2>1. p[i] \in OptionRow /\ Fits(p[i], offers)
    BY <1>1
  <2>2. CASE ~known(i)
    BY <2>1, <2>2
  <2>3. CASE known(i)
    <3>1. PICK j \in DOMAIN q : other(i) = q[j] /\ q[j].flight = p[i].flight
      BY <2>3, TheFacts, Zenon
    <3>2. q[j] \in OptionRow /\ Fits(q[j], offers)
      BY <1>1
    <3>3. /\ \A c \in Currencies : c # first => p[i].fares[c] = <<>>
          /\ \A c \in Currencies : c # second => q[j].fares[c] = <<>>
      BY DEF OnlyIn
    <3>4. /\ \A c \in Currencies : /\ p[i].fares[c] \in Seq(Fare)
                                    /\ q[j].fares[c] \in Seq(Fare)
                                    /\ p[i].rep[c] \in Fare \cup {None}
                                    /\ q[j].rep[c] \in Fare \cup {None}
          /\ p[i].fare[1] \in Currencies /\ p[i].fare[2] \in Fare
      BY <2>1, <3>2 DEF OptionRow
    <3>5. /\ p[i].rep[p[i].fare[1]] = p[i].fare[2]
          /\ \A c \in Currencies :
               /\ p[i].rep[c] # None => p[i].rep[c] \in ToSet(p[i].fares[c])
               /\ q[j].rep[c] # None => q[j].rep[c] \in ToSet(q[j].fares[c])
               /\ \A f \in ToSet(p[i].fares[c]) : <<c, p[i].flight, f>> \in offers
               /\ \A f \in ToSet(q[j].fares[c]) : <<c, p[i].flight, f>> \in offers
      BY <2>1, <3>1, <3>2 DEF Fits, Genuine
    <3>6. /\ \A c \in Currencies : c # first => p[i].rep[c] = None
          /\ \A c \in Currencies : c # second => q[j].rep[c] = None
      <4>1. ToSet(<<>>) = {}
        BY DEF ToSet
      <4> QED BY <3>3, <3>5, <4>1
    <3>7. /\ \A c \in Currencies :
               /\ fares(i)[c] = IF q[j].fares[c] # <<>> THEN q[j].fares[c]
                                                        ELSE p[i].fares[c]
               /\ rep(i)[c] = IF q[j].rep[c] # None THEN q[j].rep[c] ELSE p[i].rep[c]
          /\ fares(i) \in [Currencies -> Seq(Fare)]
          /\ rep(i) \in [Currencies -> Fare \cup {None}]
      BY <3>1, <3>4
    <3>8. x[i] = [p[i] EXCEPT !.fares = fares(i), !.rep = rep(i)]
      BY <2>3
    <3> HIDE DEF x, fares, rep
    <3>9. /\ x[i] \in OptionRow /\ x[i].flight = p[i].flight
          /\ x[i].fare = p[i].fare /\ x[i].fares = fares(i) /\ x[i].rep = rep(i)
      BY <2>1, <3>7, <3>8 DEF OptionRow
    <3>10. rep(i)[p[i].fare[1]] = p[i].fare[2]
      <4>1. p[i].fare[2] # None
        BY <3>4, ResultAssumption
      <4>2. p[i].fare[1] = first
        BY <3>4, <3>5, <3>6, <4>1
      <4> QED BY <3>5, <3>6, <3>7, <4>2
    <3>11. ASSUME NEW c \in Currencies
           PROVE  /\ rep(i)[c] # None => rep(i)[c] \in ToSet(fares(i)[c])
                  /\ \A f \in ToSet(fares(i)[c]) : <<c, p[i].flight, f>> \in offers
      <4>1. ToSet(<<>>) = {}
        BY DEF ToSet
      <4>2. CASE c = first
        BY <3>3, <3>5, <3>6, <3>7, <4>2
      <4>3. CASE c # first
        BY <3>3, <3>5, <3>6, <3>7, <4>1, <4>3
      <4> QED BY <4>2, <4>3
    <3>12. Fits(x[i], offers)
      BY <2>1, <3>9, <3>10, <3>11 DEF Fits, Genuine
    <3> QED BY <3>9, <3>12
  <2> QED BY <2>2, <2>3
<1>4. x \in Seq(OptionRow) /\ DOMAIN x = DOMAIN p
  <2>1. x = [i \in DOMAIN p |-> x[i]]
    OBVIOUS
  <2>2. Len(p) \in Nat /\ DOMAIN p = 1..Len(p)
    BY <1>1
  <2> HIDE DEF x
  <2>3. x \in [1..Len(p) -> OptionRow]
    BY <1>3, <2>1, <2>2
  <2> QED BY <2>2, <2>3
<1> HIDE DEF x
<1> QED BY <1>2, <1>3, <1>4, Extended

-----------------------------------------------------------------------------
(* Restrictions                                                            *)

LEMMA CheapestIsOne ==
    ASSUME NEW fares \in Seq(Fare), fares # <<>>
    PROVE  Cheapest(fares) \in ToSet(fares) /\ Cheapest(fares) \in Fare
<1> DEFINE best(i) == \A j \in DOMAIN fares :
                        \/ fares[i].price < fares[j].price
                        \/ fares[i].price = fares[j].price /\ i <= j
           prices == {fares[i].price : i \in DOMAIN fares}
<1>1. /\ DOMAIN fares = 1..Len(fares) /\ Len(fares) \in Nat /\ DOMAIN fares # {}
      /\ \A i \in DOMAIN fares : fares[i] \in Fare /\ fares[i].price \in Nat
  <2>1. DOMAIN fares = 1..Len(fares) /\ Len(fares) \in Nat /\ DOMAIN fares # {}
    OBVIOUS
  <2>2. \A i \in DOMAIN fares : fares[i] \in Fare
    OBVIOUS
  <2> QED BY <2>1, <2>2 DEF Fare
<1>2. prices \subseteq Nat /\ prices # {}
  BY <1>1
<1>3. PICK least \in prices : \A m \in prices : least <= m
  BY <1>2, LeastNat, Zenon
<1> DEFINE cheap == {i \in DOMAIN fares : fares[i].price = least}
<1>4. cheap \subseteq Nat /\ cheap # {}
  BY <1>1
<1>5. PICK i \in cheap : \A j \in cheap : i <= j
  BY <1>4, LeastNat, Zenon
<1>6. i \in DOMAIN fares /\ best(i)
  <2>1. \A j \in DOMAIN fares : least <= fares[j].price
    BY <1>3
  <2> QED BY <1>1, <1>2, <1>5, <2>1
<1> DEFINE chosen == CHOOSE k \in DOMAIN fares : best(k)
<1>7. chosen \in DOMAIN fares
  <2> HIDE DEF best
  <2> QED BY <1>6, Zenon
<1>8. Cheapest(fares) = fares[chosen]
  BY DEF Cheapest
<1> HIDE DEF chosen
<1> QED BY <1>1, <1>7, <1>8 DEF ToSet

LEMMA RepresentativeFacts ==
    ASSUME NEW o \in OptionRow, NEW rep \in [Currencies -> Fare \cup {None}],
           NEW c \in Currencies, rep[c] # None
    PROVE  LET fare == Representative(o, rep)
           IN  fare \in Currencies \X Fare /\ rep[fare[1]] = fare[2]
<1> DEFINE order == <<o.fare[1], "USD", "ARS">>
           Stands(k) == /\ rep[order[k]] # None
                        /\ \A l \in 1..(k - 1) : rep[order[l]] = None
           i == CHOOSE k \in 1..3 : Stands(k)
<1>1. /\ order[1] = o.fare[1] /\ order[2] = "USD" /\ order[3] = "ARS"
      /\ o.fare[1] \in Currencies /\ \A k \in 1..3 : order[k] \in Currencies
  BY DEF Currencies, OptionRow
<1>2. \E k \in 1..3 : Stands(k)
  <2>1. CASE rep[o.fare[1]] # None
    <3>1. Stands(1)
      BY <1>1, <2>1
    <3> QED BY <3>1
  <2>2. CASE rep[o.fare[1]] = None /\ rep["USD"] # None
    <3>1. Stands(2)
      BY <1>1, <2>2
    <3> QED BY <3>1
  <2>3. CASE rep[o.fare[1]] = None /\ rep["USD"] = None
    <3>1. rep["ARS"] # None
      BY <2>3 DEF Currencies
    <3>2. Stands(3)
      BY <1>1, <2>3, <3>1
    <3> QED BY <3>2
  <2> QED BY <2>1, <2>2, <2>3
<1>3. i \in 1..3 /\ Stands(i)
  BY <1>2, Zenon
<1>4. Representative(o, rep) = <<order[i], rep[order[i]]>>
  BY DEF Representative
<1> HIDE DEF i
<1>5. order[i] \in Currencies /\ rep[order[i]] \in Fare
  BY <1>1, <1>3
<1> QED BY <1>4, <1>5

LEMMA RefundableFacts ==
    ASSUME NEW os, NEW offers, ListFits(os, offers)
    PROVE  /\ ListFits(RefundableOnly(os), offers)
           /\ \A i \in DOMAIN RefundableOnly(os) : \A c \in Currencies :
                \A f \in ToSet(RefundableOnly(os)[i].fares[c]) : f.refund
<1> DEFINE kept(o) == [c \in Currencies |->
                         At(o.fares[c],
                            {i \in DOMAIN o.fares[c] : o.fares[c][i].refund})]
           rows == {i \in DOMAIN os : \E c \in Currencies : kept(os[i])[c] # <<>>}
           some == At(os, rows)
           reps(o) == [c \in Currencies |-> IF kept(o)[c] = <<>> THEN None
                                            ELSE Cheapest(kept(o)[c])]
           t == RefundableOnly(os)
<1>1. /\ os \in Seq(OptionRow) /\ Distinct(os)
      /\ \A i \in DOMAIN os : Fits(os[i], offers)
  BY DEF ListFits
<1>2. rows \in SUBSET (DOMAIN os)
  OBVIOUS
<1>3. t = [i \in DOMAIN some |->
             [some[i] EXCEPT !.fares = kept(some[i]), !.rep = reps(some[i]),
                             !.fare = Representative(some[i], reps(some[i]))]]
  BY DEF RefundableOnly
<1> HIDE DEF t
<1>4. ASSUME NEW i \in DOMAIN os, NEW c \in Currencies
      PROVE  /\ kept(os[i])[c] \in Seq(Fare)
             /\ \A f \in ToSet(kept(os[i])[c]) : f.refund /\ f \in ToSet(os[i].fares[c])
  <2> DEFINE fares == os[i].fares[c]
             S == {k \in DOMAIN fares : fares[k].refund}
  <2>1. fares \in Seq(Fare) /\ S \in SUBSET (DOMAIN fares)
    <3>1. os[i] \in OptionRow
      BY <1>1
    <3> QED BY <3>1 DEF OptionRow
  <2>2. At(fares, S) \in Seq(Fare) /\ ToSet(At(fares, S)) = {fares[k] : k \in S}
    <3> HIDE DEF fares, S
    <3> QED BY <2>1, AtFacts, AtSet
  <2>3. \A f \in {fares[k] : k \in S} : f.refund /\ f \in ToSet(fares)
    BY DEF ToSet
  <2>4. kept(os[i])[c] = At(fares, S)
    OBVIOUS
  <2> HIDE DEF fares, S, kept
  <2>5. \A f \in ToSet(kept(os[i])[c]) : f.refund /\ f \in ToSet(fares)
    BY <2>2, <2>3, <2>4
  <2> QED BY <2>2, <2>4, <2>5 DEF fares
<1>5. \A i \in rows : \E c \in Currencies : kept(os[i])[c] # <<>>
  OBVIOUS
<1>6. ASSUME NEW i \in DOMAIN os, NEW c \in Currencies
      PROVE  reps(os[i])[c] = IF kept(os[i])[c] = <<>> THEN None
                              ELSE Cheapest(kept(os[i])[c])
  OBVIOUS
<1>7. ASSUME NEW i \in DOMAIN os
      PROVE  /\ DOMAIN kept(os[i]) = Currencies /\ DOMAIN reps(os[i]) = Currencies
             /\ kept(os[i]) = [c \in Currencies |-> kept(os[i])[c]]
             /\ reps(os[i]) = [c \in Currencies |-> reps(os[i])[c]]
  OBVIOUS
<1> HIDE DEF kept, reps, rows
<1>8. /\ some \in Seq(OptionRow) /\ Len(some) \in Nat /\ DOMAIN some = 1..Len(some)
      /\ \A k \in DOMAIN some : Nth(rows, k) \in rows /\ some[k] = os[Nth(rows, k)]
      /\ ToSet(some) \subseteq ToSet(os) /\ Distinct(some)
  <2>1. ToSet(some) = {os[i] : i \in rows}
    BY <1>1, <1>2, AtSet
  <2>2. ToSet(some) \subseteq ToSet(os)
    BY <1>2, <2>1 DEF ToSet
  <2>3. /\ some \in Seq(OptionRow)
        /\ \A k \in DOMAIN some : Nth(rows, k) \in rows /\ some[k] = os[Nth(rows, k)]
    BY <1>1, <1>2, AtFacts
  <2>4. Unrepeated(some)
    BY <1>1, <1>2, AtUnrepeated, DistinctIsUnrepeated
  <2> HIDE DEF some
  <2>5. Distinct(some)
    BY <1>1, <2>2, <2>4, DistinctCarries
  <2> QED BY <2>2, <2>3, <2>5
<1> HIDE DEF some
<1>9. ASSUME NEW k \in DOMAIN some
      PROVE  /\ t[k] \in OptionRow /\ t[k].flight = some[k].flight
             /\ Fits(t[k], offers)
             /\ \A c \in Currencies : \A f \in ToSet(t[k].fares[c]) : f.refund
  <2>1. PICK i \in rows : some[k] = os[i]
    BY <1>8
  <2>2. i \in DOMAIN os /\ os[i] \in OptionRow /\ Fits(os[i], offers)
    BY <1>1, <1>2
  <2> DEFINE fares == kept(os[i])
             rep == reps(os[i])
             fare == Representative(os[i], rep)
  <2>3. fares \in [Currencies -> Seq(Fare)]
    BY <1>4, <1>7, <2>2
  <2>4. ASSUME NEW c \in Currencies
        PROVE  /\ rep[c] \in Fare \cup {None}
               /\ rep[c] # None => rep[c] \in ToSet(fares[c])
               /\ fares[c] # <<>> => rep[c] # None
    <3>1. CASE fares[c] = <<>>
      BY <1>6, <2>2, <3>1
    <3>2. CASE fares[c] # <<>>
      <4>1. PICK list \in Seq(Fare) : list = fares[c]
        BY <2>3
      <4>2. Cheapest(list) \in ToSet(list) /\ Cheapest(list) \in Fare
        BY <3>2, <4>1, CheapestIsOne
      <4>3. rep[c] = Cheapest(list)
        BY <1>6, <2>2, <3>2, <4>1
      <4> QED BY <4>1, <4>2, <4>3, ResultAssumption
    <3> QED BY <3>1, <3>2
  <2>5. rep \in [Currencies -> Fare \cup {None}]
    BY <1>7, <2>2, <2>4
  <2>6. fare \in Currencies \X Fare /\ rep[fare[1]] = fare[2]
    <3>1. PICK c \in Currencies : rep[c] # None
      BY <1>5, <2>4
    <3>2. PICK any \in [Currencies -> Fare \cup {None}] : any = rep
      BY <2>5
    <3> QED BY <2>2, <3>1, <3>2, RepresentativeFacts
  <2>7. t[k] = [os[i] EXCEPT !.fares = fares, !.rep = rep, !.fare = fare]
    BY <1>3, <2>1
  <2>8. ASSUME NEW c \in Currencies
        PROVE  \A f \in ToSet(fares[c]) :
                 f.refund /\ <<c, os[i].flight, f>> \in offers
    BY <1>4, <2>2 DEF Fits, Genuine
  <2> HIDE DEF fares, rep, fare
  <2>9. /\ t[k] \in OptionRow /\ t[k].flight = os[i].flight
        /\ t[k].fares = fares /\ t[k].rep = rep /\ t[k].fare = fare
    BY <2>2, <2>3, <2>5, <2>6, <2>7 DEF OptionRow
  <2>10. Fits(t[k], offers)
    BY <2>2, <2>4, <2>6, <2>8, <2>9 DEF Fits, Genuine
  <2> QED BY <2>1, <2>8, <2>9, <2>10
<1>10. t \in Seq(OptionRow) /\ DOMAIN t = DOMAIN some
  <2>1. t = [k \in DOMAIN some |-> t[k]]
    BY <1>3
  <2>2. t \in [1..Len(some) -> OptionRow]
    BY <1>8, <1>9, <2>1
  <2> QED BY <1>8, <2>2
<1>11. Distinct(t)
  BY <1>8, <1>9, <1>10 DEF Distinct
<1> QED BY <1>9, <1>10, <1>11 DEF ListFits, t

\* Options in time: those inside of the required hours, if there are any.
LEMMA InTimeFacts ==
    ASSUME request \in Requests, NEW os, NEW offers, ListFits(os, offers)
    PROVE  /\ ListFits(InTime(os), offers) /\ ToSet(InTime(os)) \subseteq ToSet(os)
           /\ request.times # <<>> =>
                \A i, j \in DOMAIN InTime(os) :
                  Distance(InTime(os)[i].flight)[1] = 0
                  => Distance(InTime(os)[j].flight)[1] = 0
<1> DEFINE exact == {i \in DOMAIN os : Distance(os[i].flight)[1] = 0}
           required == \E i \in DOMAIN request.times : request.times[i].required
           selected == IF required /\ exact # {} THEN At(os, exact) ELSE os
           keys == [i \in DOMAIN selected |-> TimeKey(selected[i].flight)]
           t == InTime(os)
<1>1. os \in Seq(OptionRow) /\ Distinct(os) /\ Unrepeated(os)
  BY DistinctIsUnrepeated DEF ListFits
<1>2. CASE request.times = <<>>
  <2>1. t = os
    BY <1>2 DEF InTime
  <2> QED BY <1>2, <2>1
<1>3. CASE request.times # <<>>
  <2>1. t = Sorted(selected, keys)
    BY <1>3 DEF InTime
  <2>2. /\ exact \in SUBSET (DOMAIN os)
        /\ \A i \in exact : Distance(os[i].flight)[1] = 0
        /\ \A i \in DOMAIN os : Distance(os[i].flight)[1] = 0 => i \in exact
    OBVIOUS
  <2> HIDE DEF exact, t
  <2>3. ASSUME ~required, NEW flight \in Flights PROVE Distance(flight)[1] = 0
    <3> DEFINE times == request.times
               actual == Departs[flight]
               sums == [i \in DOMAIN times |->
                          IF times[i].required THEN Outside(times[i], actual) ELSE 0]
    <3>1. times \in Seq(Constraint)
      BY ResultAssumption
    <3>2. Distance(flight)[1] = SumOf(sums)
      BY DEF Distance
    <3>3. sums \in Seq(Nat) /\ \A i \in DOMAIN sums : sums[i] = 0
      <4>1. \A i \in DOMAIN times : ~times[i].required
        BY <2>3
      <4> HIDE DEF times, actual
      <4>2. DOMAIN sums = 1..Len(times) /\ Len(times) \in Nat
        BY <3>1
      <4>3. \A i \in DOMAIN sums : sums[i] = 0
        BY <4>1
      <4>4. sums = [i \in 1..Len(times) |-> sums[i]]
        BY <4>2
      <4> HIDE DEF sums
      <4>5. sums \in [1..Len(times) -> Nat]
        BY <4>2, <4>3, <4>4
      <4> QED BY <4>2, <4>3, <4>5
    <3> HIDE DEF sums
    <3> QED BY <3>2, <3>3, SumOfNothing
  <2>4. /\ selected \in Seq(OptionRow) /\ Unrepeated(selected)
        /\ ToSet(selected) \subseteq ToSet(os)
        /\ \A i, j \in DOMAIN selected : Distance(selected[i].flight)[1] = 0
                                      => Distance(selected[j].flight)[1] = 0
    <3>1. CASE required /\ exact # {}
      <4>1. selected = At(os, exact)
        BY <3>1
      <4> HIDE DEF selected
      <4>2. selected \in Seq(OptionRow)
        BY <1>1, <2>2, <4>1, AtFacts
      <4>3. Unrepeated(selected)
        BY <1>1, <2>2, <4>1, AtUnrepeated
      <4>4. ToSet(selected) = {os[i] : i \in exact}
        BY <1>1, <2>2, <4>1, AtSet
      <4>5. ToSet(selected) \subseteq ToSet(os)
        BY <2>2, <4>4 DEF ToSet
      <4>6. \A j \in DOMAIN selected : Distance(selected[j].flight)[1] = 0
        <5> SUFFICES ASSUME NEW j \in DOMAIN selected
                     PROVE  Distance(selected[j].flight)[1] = 0
          OBVIOUS
        <5>1. selected[j] \in ToSet(selected)
          BY DEF ToSet
        <5>2. PICK i \in exact : selected[j] = os[i]
          BY <4>4, <5>1
        <5> QED BY <2>2, <5>2
      <4> QED BY <4>2, <4>3, <4>5, <4>6
    <3>2. CASE required /\ exact = {}
      <4>1. selected = os
        BY <3>2
      <4> HIDE DEF selected
      <4> QED BY <1>1, <2>2, <3>2, <4>1
    <3>3. CASE ~required
      <4>1. selected = os
        BY <3>3
      <4> HIDE DEF selected
      <4>2. \A i \in DOMAIN os : Distance(os[i].flight)[1] = 0
        BY <1>1, <2>3, <3>3, FlightOf
      <4> QED BY <1>1, <4>1, <4>2
    <3> QED BY <3>1, <3>2, <3>3
  <2> HIDE DEF selected
  <2>5. keys \in [DOMAIN selected -> Keys(3)]
    BY <2>4, FlightOf, DistanceTypes
  <2> HIDE DEF keys
  <2>6. SameOptions(t, selected)
    BY <2>1, <2>4, <2>5, SortedIsAList DEF SameOptions
  <2>7. t \in Seq(OptionRow) /\ Unrepeated(t) /\ ToSet(t) \subseteq ToSet(os)
    BY <2>4, <2>6 DEF SameOptions
  <2>8. ListFits(t, offers)
    BY <2>7, FitsCarries
  <2>9. ASSUME NEW i \in DOMAIN t, NEW j \in DOMAIN t,
               Distance(t[i].flight)[1] = 0
        PROVE  Distance(t[j].flight)[1] = 0
    <3>1. ToSet(t) = ToSet(selected)
      BY <2>6 DEF SameOptions
    <3>2. PICK k \in DOMAIN selected : t[i] = selected[k]
      BY <3>1 DEF ToSet
    <3>3. PICK l \in DOMAIN selected : t[j] = selected[l]
      BY <3>1 DEF ToSet
    <3> QED BY <2>4, <2>9, <3>2, <3>3
  <2> QED BY <2>7, <2>8, <2>9 DEF t
<1> QED BY <1>2, <1>3

-----------------------------------------------------------------------------
(* The invariant holds                                                     *)

LEMMA Quotient ==
    ASSUME NEW t \in Nat, NEW n \in Nat, NEW k \in {1, 2}, t < k * n
    PROVE  (t \div n) + 1 \in 1..k
<1>1. n > 0
  OBVIOUS
<1> DEFINE q == t \div n
<1>2. q \in Int /\ n * q <= t /\ t < n * q + n
  BY <1>1
<1> HIDE DEF q
<1>3. 0 <= q
  <2>1. CASE q <= -1
    <3>1. n * (-1 - q) \in Nat
      BY <1>1, <1>2, <2>1
    <3>2. n * (-1 - q) = -n - n * q
      BY <1>2
    <3> QED BY <1>2, <3>1, <3>2
  <2> QED BY <1>2, <2>1
<1>4. q < k
  <2>1. CASE q >= k
    <3>1. n * (q - k) \in Nat
      BY <1>1, <1>2, <2>1
    <3>2. n * (q - k) = n * q - k * n
      BY <1>2
    <3> QED BY <1>2, <3>1, <3>2
  <2> QED BY <1>2, <2>1
<1> QED BY <1>2, <1>3, <1>4 DEF q

LEMMA CurrencyFacts ==
    ASSUME request \in Requests
    PROVE  /\ Len(request.currencies) \in {1, 2}
           /\ \A i \in 1..Len(request.currencies) : request.currencies[i] \in Currencies
           /\ Len(request.currencies) = 2 =>
                request.currencies[1] # request.currencies[2]
<1>1. request.currencies \in {<<"USD">>, <<"ARS">>, <<"USD", "ARS">>, <<"ARS", "USD">>}
  BY ResultAssumption
<1> QED BY <1>1 DEF Currencies

LEMMA TurnCurrencyFacts ==
    ASSUME request \in Requests, turn \in Nat, turn < Turns
    PROVE  TurnCurrency \in Currencies
<1> DEFINE k == Len(request.currencies)
           n == Len(request.cabins)
<1>1. k \in {1, 2} /\ n \in Nat
  BY CurrencyFacts, ResultAssumption
<1>2. turn < k * n
  BY DEF Turns
<1> HIDE DEF k, n
<1>3. (turn \div n) + 1 \in 1..k
  BY <1>1, <1>2, Quotient
<1> QED BY <1>3, CurrencyFacts DEF TurnCurrency, k, n

LEMMA NothingFits ==
    ASSUME NEW offers PROVE ListFits(<<>>, offers)
BY DEF ListFits, Distinct

LEMMA InvInitially == ResultInit => ResultInv
<1> SUFFICES ASSUME ResultInit PROVE ResultInv
  OBVIOUS
<1>1. merged = [c \in Currencies |-> <<>>] /\ merged \in [Currencies -> Seq(OptionRow)]
  BY DEF ResultInit
<1>2. \A c \in Currencies : ListFits(merged[c], offered) /\ OnlyIn(merged[c], c)
  BY <1>1, NothingFits DEF OnlyIn
<1>3. ListFits(options, offered)
  BY NothingFits DEF ResultInit
<1> QED BY <1>1, <1>2, <1>3 DEF ResultInit, ResultInv

\* While the request stays, so does what is asked of it.
LEMMA SameRequest ==
    ASSUME request' = request
    PROVE  /\ \A os, offers : ListFits(os, offers)' <=> ListFits(os, offers)
           /\ \A os : Narrowed(os)' <=> Narrowed(os)
           /\ \A os : ByTime(os)' = ByTime(os)
           /\ \A os : Rank(os)' = Rank(os)
           /\ \A os : Pages(os)' = Pages(os)
<1>1. \A flight : Distance(flight)' = Distance(flight)
  BY DEF Distance
<1>2. \A os, offers : ListFits(os, offers)' <=> ListFits(os, offers)
  BY DEF ListFits, Fits, Allowed
<1>3. \A os : Narrowed(os)' <=> Narrowed(os)
  BY <1>1 DEF Narrowed
<1>4. \A os : ByTime(os)' = ByTime(os)
  BY DEF ByTime, DistancesOf, Distance
<1>5. \A os : Rank(os)' = Rank(os)
  BY SMTT(90) DEF Rank, Balanced, Commercial, Plain, BalancedScore, CommercialScore,
         SchedulePosition, Price, RankingFare, Lowest, TimeKey, Distance
<1>6. \A os : Pages(os)' = Pages(os)
  BY <1>4 DEF Pages, VisibleOf
<1> QED BY <1>2, <1>3, <1>4, <1>5, <1>6

LEMMA TakeAnswerKeeps ==
    ASSUME ResultInv, TakeAnswer PROVE ResultInv'
<1>1. /\ request \in Requests /\ turn \in Nat /\ stage = "search" /\ turn < Turns
      /\ merged \in [Currencies -> Seq(OptionRow)]
      /\ \A c \in Currencies : ListFits(merged[c], offered) /\ OnlyIn(merged[c], c)
      /\ ListFits(options, offered) /\ ranked = <<>> /\ shown = <<>>
      /\ request' = request /\ turn' = turn + 1 /\ stage' = stage
      /\ options' = options /\ ranked' = ranked /\ shown' = shown
  BY DEF ResultInv, TakeAnswer
<1> DEFINE currency == TurnCurrency
           cabin == TurnCabin
           fit(answer) == CarriersAllowed(InCabin(answer, currency, cabin))
<1>2. currency \in Currencies
  BY <1>1, TurnCurrencyFacts
<1>3. PICK answer \in Answers(currency) :
        \E u \in IF request.preferred # {} /\ fit(answer) = <<>>
                  THEN Answers(currency) ELSE {answer} :
          /\ merged' = [merged EXCEPT ![currency] =
               IF @ = <<>> THEN fit(u) ELSE MergeCabin(@, fit(u), currency, cabin)]
          /\ offered' = offered \cup Offers(u, currency, cabin)
  BY DEF TakeAnswer
<1>4. PICK used \in Answers(currency) :
        /\ merged' = [merged EXCEPT ![currency] =
             IF @ = <<>> THEN fit(used) ELSE MergeCabin(@, fit(used), currency, cabin)]
        /\ offered' = offered \cup Offers(used, currency, cabin)
  BY <1>3
<1> HIDE DEF currency, cabin
<1>5. ListFits(fit(used), Offers(used, currency, cabin)) /\ OnlyIn(fit(used), currency)
  BY <1>2, FitAnswer
<1> HIDE DEF fit
<1>6. /\ ListFits(fit(used), offered')
      /\ \A c \in Currencies : ListFits(merged[c], offered')
      /\ ListFits(options, offered')
  <2>1. Offers(used, currency, cabin) \subseteq offered' /\ offered \subseteq offered'
    BY <1>4
  <2> QED BY <1>1, <1>5, <2>1, FitsMore
<1>7. ASSUME NEW c \in Currencies
      PROVE  ListFits(merged'[c], offered') /\ OnlyIn(merged'[c], c)
  <2>1. CASE c # currency
    <3>1. merged'[c] = merged[c]
      BY <1>1, <1>2, <1>4, <2>1
    <3> QED BY <1>1, <1>6, <3>1
  <2>2. CASE c = currency /\ merged[c] = <<>>
    <3>1. merged'[c] = fit(used)
      BY <1>1, <1>2, <1>4, <2>2
    <3> QED BY <1>5, <1>6, <2>2, <3>1
  <2>3. CASE c = currency /\ merged[c] # <<>>
    <3>1. merged'[c] = MergeCabin(merged[c], fit(used), currency, cabin)
      BY <1>1, <1>2, <1>4, <2>3
    <3>2. ListFits(merged[c], offered') /\ OnlyIn(merged[c], currency)
      BY <1>1, <1>6, <2>3
    <3> QED BY <1>2, <1>5, <1>6, <2>3, <3>1, <3>2, MergeCabinFits
  <2> QED BY <2>1, <2>2, <2>3
<1>8. merged' \in [Currencies -> Seq(OptionRow)]
  <2>1. merged' = [c \in Currencies |-> merged'[c]]
    BY <1>1, <1>4
  <2>2. \A c \in Currencies : merged'[c] \in Seq(OptionRow)
    BY <1>7 DEF ListFits
  <2> QED BY <2>1, <2>2
<1>9. /\ \A c \in Currencies : ListFits(merged[c], offered)' /\ OnlyIn(merged[c], c)'
      /\ ListFits(options, offered)'
  <2>1. \A c \in Currencies : ListFits(merged[c], offered)'
    BY <1>1, <1>7, SameRequest
  <2>2. \A c \in Currencies : OnlyIn(merged[c], c)'
    BY <1>7 DEF OnlyIn
  <2>3. ListFits(options, offered)'
    BY <1>1, <1>6, SameRequest
  <2> QED BY <2>1, <2>2, <2>3
<1> QED BY <1>1, <1>8, <1>9 DEF ResultInv

\* Once the answers are in, they stay.
LEMMA AnswersStay ==
    ASSUME ResultInv, request' = request, merged' = merged, offered' = offered
    PROVE  /\ merged' \in [Currencies -> Seq(OptionRow)]
           /\ \A c \in Currencies :
                ListFits(merged[c], offered)' /\ OnlyIn(merged[c], c)'
<1>1. \A c \in Currencies : ListFits(merged[c], offered)'
  BY SameRequest DEF ResultInv
<1>2. \A c \in Currencies : OnlyIn(merged[c], c)'
  BY DEF ResultInv, OnlyIn
<1> QED BY <1>1, <1>2 DEF ResultInv

LEMMA CombineKeeps ==
    ASSUME ResultInv, Combine PROVE ResultInv'
<1>1. /\ request \in Requests /\ turn \in Nat
      /\ \A c \in Currencies : ListFits(merged[c], offered) /\ OnlyIn(merged[c], c)
      /\ ranked = <<>> /\ shown = <<>>
      /\ request' = request /\ turn' = turn /\ stage' = "combined"
      /\ merged' = merged /\ offered' = offered /\ ranked' = ranked /\ shown' = shown
  BY DEF ResultInv, Combine
<1>2. ListFits(options', offered)
  <2> DEFINE first == request.currencies[1]
             second == request.currencies[2]
  <2>1. first \in Currencies
    BY <1>1, CurrencyFacts
  <2>2. CASE Len(request.currencies) = 2
    <3>1. second \in Currencies /\ first # second
      BY <1>1, <2>2, CurrencyFacts
    <3>2. options' = MergeCurrencies(merged[first], merged[second])
      BY <2>2 DEF Combine
    <3> HIDE DEF first, second
    <3> QED BY <1>1, <2>1, <3>1, <3>2, MergeCurrenciesFits
  <2>3. CASE Len(request.currencies) # 2
    <3>1. options' = merged[first]
      BY <2>3 DEF Combine
    <3> QED BY <1>1, <2>1, <3>1
  <2> QED BY <2>2, <2>3
<1>3. ListFits(options, offered)'
  BY <1>1, <1>2, SameRequest
<1> QED BY <1>1, <1>3, AnswersStay DEF ResultInv

LEMMA NarrowKeeps ==
    ASSUME ResultInv, Narrow PROVE ResultInv'
<1>1. /\ request \in Requests /\ turn \in Nat /\ ListFits(options, offered)
      /\ ranked = <<>> /\ shown = <<>>
      /\ request' = request /\ turn' = turn /\ stage' = "restricted"
      /\ merged' = merged /\ offered' = offered /\ ranked' = ranked /\ shown' = shown
  BY DEF ResultInv, Narrow
<1> DEFINE some == IF request.refundable THEN RefundableOnly(options) ELSE options
<1>2. /\ ListFits(some, offered)
      /\ request.refundable =>
           \A i \in DOMAIN some : \A c \in Currencies :
             \A f \in ToSet(some[i].fares[c]) : f.refund
  BY <1>1, RefundableFacts
<1>3. options' = InTime(some)
  BY DEF Narrow
<1> HIDE DEF some
<1>4. /\ ListFits(options', offered) /\ ToSet(options') \subseteq ToSet(some)
      /\ request.times # <<>> =>
           \A i, j \in DOMAIN options' :
             Distance(options'[i].flight)[1] = 0 => Distance(options'[j].flight)[1] = 0
  BY <1>1, <1>2, <1>3, InTimeFacts
<1>5. Narrowed(options')
  <2>1. ASSUME request.refundable, NEW i \in DOMAIN options', NEW c \in Currencies,
               NEW f \in ToSet(options'[i].fares[c])
        PROVE  f.refund
    <3>1. PICK j \in DOMAIN some : options'[i] = some[j]
      BY <1>4 DEF ToSet
    <3> QED BY <1>2, <2>1, <3>1
  <2> QED BY <1>4, <2>1 DEF Narrowed
<1>6. ListFits(options, offered)' /\ Narrowed(options)'
  BY <1>1, <1>4, <1>5, SameRequest
<1> QED BY <1>1, <1>6, AnswersStay DEF ResultInv

LEMMA RestKeeps ==
    ASSUME ResultInv, RankAll \/ Show \/ UNCHANGED resultVars PROVE ResultInv'
<1>1. /\ request' = request /\ turn' = turn /\ options' = options
      /\ merged' = merged /\ offered' = offered
  BY DEF RankAll, Show, resultVars
<1>2. /\ ListFits(options, offered)'
      /\ stage' \notin {"search", "combined"} => Narrowed(options)'
  BY <1>1, SameRequest DEF ResultInv, RankAll, Show, resultVars
<1>3. stage' \in {"search", "combined", "restricted", "ranked", "shown"}
  BY DEF ResultInv, RankAll, Show, resultVars
<1>4. ranked' = IF stage' \in {"ranked", "shown"} THEN ByTime(Rank(options)) ELSE <<>>
  BY DEF ResultInv, RankAll, Show, resultVars
<1>5. shown' = IF stage' = "shown" THEN Pages(ranked') ELSE <<>>
  BY DEF ResultInv, RankAll, Show, resultVars
<1>6. (ranked = IF stage \in {"ranked", "shown"} THEN ByTime(Rank(options)) ELSE <<>>)'
  BY <1>1, <1>4, SameRequest
<1>7. (shown = IF stage = "shown" THEN Pages(ranked) ELSE <<>>)'
  BY <1>1, <1>5, SameRequest
<1> QED BY <1>1, <1>2, <1>3, <1>6, <1>7, AnswersStay DEF ResultInv

LEMMA InvHolds == ResultSpec => []ResultInv
<1>1. ResultInv /\ [ResultNext]_resultVars => ResultInv'
  BY TakeAnswerKeeps, CombineKeeps, NarrowKeeps, RestKeeps DEF ResultNext
<1> QED BY InvInitially, <1>1, PTL DEF ResultSpec

-----------------------------------------------------------------------------
(* What it says of the options that are ranked and shown                   *)

LEMMA FitsIsPriced ==
    ASSUME NEW os, NEW offers, ListFits(os, offers) PROVE Priced(os)
<1> SUFFICES ASSUME NEW i \in DOMAIN os PROVE Price(os[i]) \in Nat
  BY DEF Priced
<1>1. os[i] \in OptionRow /\ Fits(os[i], offers)
  BY DEF ListFits
<1> QED BY <1>1, PriceFacts

LEMMA RankedFacts ==
    ASSUME ResultInv, stage \in {"ranked", "shown"}
    PROVE  /\ ranked \in Seq(OptionRow) /\ ListFits(ranked, offered)
           /\ Unrepeated(ranked) /\ ToSet(ranked) \subseteq ToSet(options)
           /\ \A i, j \in DOMAIN ranked : i < j =>
                Distance(ranked[i].flight)[1] <= Distance(ranked[j].flight)[1]
           /\ request.times = <<>> =>
                \A i, j \in DOMAIN ranked : i < j => NotWorse(ranked[i], ranked[j])
<1> DEFINE r == Rank(options)
<1>1. /\ request \in Requests /\ ListFits(options, offered) /\ ranked = ByTime(r)
      /\ options \in Seq(OptionRow) /\ Unrepeated(options) /\ Priced(options)
  BY FitsIsPriced, DistinctIsUnrepeated DEF ResultInv, ListFits
<1>2. /\ SameOptions(r, options)
      /\ request.times = <<>> =>
           \A i, j \in DOMAIN options : i < j => NotWorse(r[i], r[j])
  BY <1>1, RankFacts
<1> HIDE DEF r
<1>3. r \in Seq(OptionRow) /\ Unrepeated(r) /\ DOMAIN r = DOMAIN options
      /\ ToSet(r) = ToSet(options)
  BY <1>1, <1>2 DEF SameOptions
<1>4. /\ SameOptions(ranked, r)
      /\ \A i, j \in DOMAIN r : i < j =>
           Distance(ranked[i].flight)[1] <= Distance(ranked[j].flight)[1]
  BY <1>1, <1>3, ByTimeFacts
<1>5. /\ ranked \in Seq(OptionRow) /\ Unrepeated(ranked) /\ DOMAIN ranked = DOMAIN r
      /\ ToSet(ranked) \subseteq ToSet(options)
  BY <1>3, <1>4 DEF SameOptions
<1>6. ListFits(ranked, offered)
  BY <1>1, <1>5, FitsCarries
<1>7. ASSUME request.times = <<>>
      PROVE  \A i, j \in DOMAIN ranked : i < j => NotWorse(ranked[i], ranked[j])
  <2>1. ranked = r
    BY <1>1, <1>3, <1>7, ByTimeOfNothing
  <2> QED BY <1>2, <1>3, <1>7, <2>1
<1> QED BY <1>4, <1>5, <1>6, <1>7

LEMMA ShownFacts ==
    ASSUME ResultInv, stage = "shown"
    PROVE  /\ shown \in Seq(OptionRow) /\ ListFits(shown, offered)
           /\ ToSet(shown) \subseteq ToSet(ranked)
           /\ Len(shown) = IF Len(ranked) < Cap THEN Len(ranked) ELSE Cap
           /\ First(shown, request.maxOptions) = VisibleOf(ranked)
<1>1. request \in Requests /\ shown = Pages(ranked)
  BY DEF ResultInv
<1>2. ranked \in Seq(OptionRow) /\ ListFits(ranked, offered) /\ Unrepeated(ranked)
  BY RankedFacts
<1>3. /\ shown \in Seq(OptionRow) /\ Unrepeated(shown)
      /\ ToSet(shown) \subseteq ToSet(ranked)
      /\ Len(shown) = IF Len(ranked) < Cap THEN Len(ranked) ELSE Cap
      /\ First(shown, request.maxOptions) = VisibleOf(ranked)
  BY <1>1, <1>2, PagesFacts
<1>4. ListFits(shown, offered)
  BY <1>2, <1>3, FitsCarries
<1> QED BY <1>3, <1>4

LEMMA AskedFor == ResultInv => ShownIsAskedFor
<1> SUFFICES ASSUME ResultInv, NEW i \in DOMAIN shown
             PROVE  /\ Allowed(shown[i].flight)
                    /\ shown[i].fare[2] \in ToSet(shown[i].fares[shown[i].fare[1]])
                    /\ \A c \in Currencies : \A f \in ToSet(shown[i].fares[c]) :
                         /\ <<c, shown[i].flight, f>> \in offered
                         /\ request.refundable => f.refund
  BY DEF ShownIsAskedFor
<1>1. stage = "shown"
  <2>1. DOMAIN <<>> = {}
    OBVIOUS
  <2> QED BY <2>1 DEF ResultInv
<1>2. /\ shown[i] \in OptionRow /\ Fits(shown[i], offered)
      /\ ToSet(shown) \subseteq ToSet(options)
  BY <1>1, ShownFacts, RankedFacts DEF ListFits
<1>3. shown[i].fare[2] \in ToSet(shown[i].fares[shown[i].fare[1]])
  <2>1. shown[i].fare[1] \in Currencies /\ shown[i].fare[2] \in Fare
    BY <1>2 DEF OptionRow
  <2>2. shown[i].fare[2] # None
    BY <2>1, ResultAssumption
  <2> QED BY <1>2, <2>1, <2>2 DEF Fits, Genuine
<1>4. PICK j \in DOMAIN options : shown[i] = options[j]
  BY <1>2 DEF ToSet
<1>5. Narrowed(options)
  BY <1>1 DEF ResultInv
<1> QED BY <1>2, <1>3, <1>4, <1>5 DEF Fits, Genuine, Narrowed

LEMMA Partition == ResultInv => PagesPartition
<1> SUFFICES ASSUME ResultInv, stage = "shown"
             PROVE  /\ Cardinality(FlightsOf(shown)) = Len(shown)
                    /\ FlightsOf(shown) \subseteq FlightsOf(ranked)
                    /\ Len(shown) = IF Len(ranked) < Cap THEN Len(ranked) ELSE Cap
                    /\ request.preferred = {} =>
                         LET page == First(shown, request.maxOptions)
                             carriers == Cardinality(CarriersOf(ranked))
                         IN  Cardinality(CarriersOf(page))
                               = IF carriers < request.maxOptions
                                   THEN carriers ELSE request.maxOptions
  BY DEF PagesPartition
<1>1. request \in Requests
  BY DEF ResultInv
<1>2. ranked \in Seq(OptionRow) /\ Unrepeated(ranked)
  BY RankedFacts
<1>3. /\ shown \in Seq(OptionRow) /\ Distinct(shown)
      /\ ToSet(shown) \subseteq ToSet(ranked)
      /\ Len(shown) = IF Len(ranked) < Cap THEN Len(ranked) ELSE Cap
      /\ First(shown, request.maxOptions) = VisibleOf(ranked)
  BY ShownFacts DEF ListFits
<1>4. request.preferred = {} =>
        Cardinality(CarriersOf(VisibleOf(ranked)))
          = IF Cardinality(CarriersOf(ranked)) < request.maxOptions
              THEN Cardinality(CarriersOf(ranked)) ELSE request.maxOptions
  BY <1>1, <1>2, VisibleFacts
<1> QED BY <1>3, <1>4, FlightsCount, FlightsCarry

LEMMA Closest == ResultInv => ClosestFirst
<1> SUFFICES ASSUME ResultInv, stage = "shown", shown # <<>>, request.times # <<>>
             PROVE  LET page == First(shown, request.maxOptions)
                    IN  /\ \A i, j \in DOMAIN page :
                             i < j => Miss(page[i].flight) <= Miss(page[j].flight)
                        /\ \A i \in DOMAIN ranked :
                             Miss(page[1].flight) <= Miss(ranked[i].flight)
                        /\ (\E f \in FlightsOf(ranked) : Miss(f) = 0) =>
                             \A f \in FlightsOf(shown) : Miss(f) = 0
  BY DEF ClosestFirst
<1> DEFINE page == First(shown, request.maxOptions)
<1>1. request \in Requests /\ Narrowed(options) /\ options \in Seq(OptionRow)
  BY DEF ResultInv, ListFits
<1>2. /\ ranked \in Seq(OptionRow) /\ Unrepeated(ranked)
      /\ ToSet(ranked) \subseteq ToSet(options)
      /\ \A i, j \in DOMAIN ranked : i < j =>
           Distance(ranked[i].flight)[1] <= Distance(ranked[j].flight)[1]
  BY RankedFacts
<1>3. /\ shown \in Seq(OptionRow) /\ ToSet(shown) \subseteq ToSet(ranked)
      /\ page = VisibleOf(ranked)
  BY ShownFacts
<1> HIDE DEF page
<1>4. /\ page \in Seq(OptionRow) /\ ToSet(page) \subseteq ToSet(ranked)
      /\ ranked # <<>> => ranked[1] \in ToSet(page)
      /\ \A i, j \in DOMAIN page : i < j =>
           Distance(page[i].flight)[1] <= Distance(page[j].flight)[1]
  BY <1>1, <1>2, <1>3, VisibleFacts
<1>5. /\ \A i \in DOMAIN page : /\ page[i].flight \in Flights
                                /\ Miss(page[i].flight) = Distance(page[i].flight)[1]
      /\ \A i \in DOMAIN ranked :
           /\ ranked[i].flight \in Flights
           /\ Miss(ranked[i].flight) = Distance(ranked[i].flight)[1]
           /\ Distance(ranked[i].flight)[1] \in Nat
  BY <1>1, <1>2, <1>4, FlightOf, MissIsDistance, DistanceTypes
<1>6. \A i, j \in DOMAIN page :
        i < j => Miss(page[i].flight) <= Miss(page[j].flight)
  BY <1>4, <1>5
<1>7. ASSUME NEW i \in DOMAIN ranked
      PROVE  Miss(page[1].flight) <= Miss(ranked[i].flight)
  <2>1. 1 \in DOMAIN ranked /\ i \in 1..Len(ranked) /\ ranked # <<>>
    BY <1>2
  <2>2. Miss(ranked[1].flight) <= Miss(ranked[i].flight)
    <3>1. CASE i = 1
      BY <1>5, <2>1, <3>1
    <3>2. CASE i # 1
      BY <1>2, <1>5, <2>1, <3>2
    <3> QED BY <3>1, <3>2
  <2>3. PICK k \in DOMAIN page : page[k] = ranked[1]
    BY <1>4, <2>1 DEF ToSet
  <2>4. 1 \in DOMAIN page /\ k \in 1..Len(page)
    BY <1>4
  <2>5. PICK m \in DOMAIN ranked : page[1] = ranked[m]
    BY <1>4, <2>4 DEF ToSet
  <2>6. Miss(page[1].flight) <= Miss(ranked[1].flight)
    <3>1. CASE k = 1
      BY <1>5, <2>1, <2>3, <3>1
    <3>2. CASE k # 1
      BY <1>6, <2>3, <2>4, <3>2
    <3> QED BY <3>1, <3>2
  <2> QED BY <1>5, <2>1, <2>2, <2>5, <2>6
<1>8. ASSUME NEW f \in FlightsOf(ranked), Miss(f) = 0, NEW g \in FlightsOf(shown)
      PROVE  Miss(g) = 0
  <2>1. PICK i \in DOMAIN ranked : f = ranked[i].flight
    BY DEF FlightsOf
  <2>2. PICK j \in DOMAIN ranked : g = ranked[j].flight
    <3>1. g \in FlightsOf(ranked)
      BY <1>3, FlightsCarry
    <3> QED BY <3>1 DEF FlightsOf
  <2>3. PICK k \in DOMAIN options : ranked[i] = options[k]
    BY <1>2 DEF ToSet
  <2>4. PICK l \in DOMAIN options : ranked[j] = options[l]
    BY <1>2 DEF ToSet
  <2> QED BY <1>1, <1>5, <1>8, <2>1, <2>2, <2>3, <2>4 DEF Narrowed
<1> QED BY <1>6, <1>7, <1>8 DEF page

LEMMA NoneWorse == ResultInv => NoWorseAbove
<1> SUFFICES ASSUME ResultInv, request.times = <<>>,
                    NEW i \in DOMAIN ranked, NEW j \in DOMAIN ranked, i < j
             PROVE  LET a == ranked[i].flight
                        b == ranked[j].flight
                        c == IF request.domestic THEN "ARS" ELSE "USD"
                        x == ranked[i].rep[c]
                        y == ranked[j].rep[c]
                    IN  x # None /\ y # None =>
                          \/ x.price < y.price \/ Stops[a] < Stops[b]
                          \/ Hours[a] < Hours[b]
                          \/ /\ x.price = y.price /\ Stops[a] = Stops[b]
                             /\ Hours[a] = Hours[b]
  BY DEF NoWorseAbove
<1>1. stage \in {"ranked", "shown"}
  <2>1. DOMAIN <<>> = {}
    OBVIOUS
  <2> QED BY <2>1 DEF ResultInv
<1>2. NotWorse(ranked[i], ranked[j]) /\ ListFits(ranked, offered)
  BY <1>1, RankedFacts
<1>3. /\ ranked[i] \in OptionRow /\ Fits(ranked[i], offered)
      /\ ranked[j] \in OptionRow /\ Fits(ranked[j], offered)
  BY <1>2 DEF ListFits
<1> DEFINE c == IF request.domestic THEN "ARS" ELSE "USD"
<1>4. /\ ranked[i].rep[c] # None => Price(ranked[i]) = ranked[i].rep[c].price
      /\ ranked[j].rep[c] # None => Price(ranked[j]) = ranked[j].rep[c].price
  BY <1>3, PriceFacts
<1> QED BY <1>2, <1>4 DEF NotWorse

-----------------------------------------------------------------------------
(* Theorems                                                                *)

\* Every fare shown was offered for that flight in that currency, and fits
\* the request (search_quote and the filters it applies).
THEOREM ResultsAreAskedFor == ResultSpec => []ShownIsAskedFor
BY InvHolds, AskedFor, PTL

\* The page and the candidates behind it lose and repeat nothing, and the
\* page has as many carriers as fit (_diversify_ranked_by_carrier).
THEOREM PagesDivide == ResultSpec => []PagesPartition
BY InvHolds, Partition, PTL

\* Time wins over price and variety (reorder_ranked_by_time,
\* apply_time_constraints).
THEOREM TimeWins == ResultSpec => []ClosestFirst
BY InvHolds, Closest, PTL

\* No mode ranks a worse option above a better one (rank_itineraries,
\* commercial_rank_itineraries).
THEOREM RanksAreSound == ResultSpec => []NoWorseAbove
BY InvHolds, NoneWorse, PTL

-----------------------------------------------------------------------------
(* The lines of a text                                                     *)

LEMMA PartsAre ==
    ASSUME NEW kind, NEW part \in Parts(kind)
    PROVE  /\ part.form \in {"none", "plain", "any", "split"}
           /\ part.form = "none" => part.before = "absent" /\ part.after = "absent"
           /\ part.form \in {"plain", "any"} =>
                part.before \in Words(kind) /\ part.after = part.before
           /\ part.form = "split" =>
                /\ part.before \in Words(kind) \cup {"absent"}
                /\ part.after \in Words(kind) \cup {"absent"}
                /\ part.before # "absent" \/ part.after # "absent"
BY DEF Parts

\* The lines of a document.
Line(n, of, what) == [at |-> n, kind |-> of, what |-> what]
Stated(n, kind, word) == Line(n, IF word = "silent" THEN "other" ELSE kind, word)

LEMMA DocumentFacts ==
    ASSUME NEW document \in Texts, NEW kind \in Kinds
    PROVE  /\ Part(document, kind) \in Parts(kind) /\ document.headed \in BOOLEAN
           /\ Heading(document, "change") = "CHANGES"
           /\ Heading(document, "refund") \in {"CANCELLATIONS", "REFUNDS"}
           /\ Start(document, kind) \in {0, 5}
           /\ Start(document, Other(kind)) = 5 - Start(document, kind)
           /\ Other(kind) \in Kinds /\ Other(kind) # kind
           /\ Kinds = {kind, Other(kind)}
           /\ Start(document, "change") = 0 <=> document.changesFirst
BY DEF Texts, Kinds, Part, Start, Other, Heading

LEMMA LinesOfPart ==
    ASSUME NEW document \in Texts, NEW kind \in Kinds, NEW l
    PROVE  LET part == Part(document, kind)
               start == Start(document, kind)
           IN  l \in PartLines(document, kind) <=>
                 \/ /\ document.headed /\ part.form # "none"
                    /\ l = Line(start + 1, "heading", Heading(document, kind))
                 \/ /\ part.form = "any"
                    /\ \/ l = Line(start + 2, "heading", "ANYTIME")
                       \/ l = Stated(start + 3, kind, part.before)
                 \/ part.form = "plain" /\ l = Stated(start + 2, kind, part.before)
                 \/ /\ part.form = "split" /\ part.before # "absent"
                    /\ \/ l = Line(start + 2, "heading", "BEFORE")
                       \/ l = Stated(start + 3, kind, part.before)
                 \/ /\ part.form = "split" /\ part.after # "absent"
                    /\ \/ l = Line(start + 4, "heading", "AFTER")
                       \/ l = Stated(start + 5, kind, part.after)
<1>1. /\ Start(document, kind) + (2 + 1) = Start(document, kind) + 3
      /\ Start(document, kind) + (4 + 1) = Start(document, kind) + 5
  BY DocumentFacts
<1> QED BY <1>1 DEF PartLines, Line, Stated

LEMMA LineParts ==
    ASSUME NEW n, NEW of, NEW what, NEW kind
    PROVE  /\ Line(n, of, what).at = n /\ Line(n, of, what).kind = of
           /\ Line(n, of, what).what = what
           /\ Stated(n, kind, what).at = n /\ Stated(n, kind, what).what = what
           /\ Stated(n, kind, what).kind = IF what = "silent" THEN "other" ELSE kind
BY DEF Line, Stated

\* Where a line of a part is, by what it is.
HeadingIs(l, part, headed, name, s) ==
    /\ l.kind = "heading"
    /\ \/ l.what = name /\ l.at = s + 1 /\ headed = TRUE /\ part.form # "none"
       \/ l.what = "ANYTIME" /\ l.at = s + 2 /\ part.form = "any"
       \/ /\ l.what = "BEFORE" /\ l.at = s + 2
          /\ part.form = "split" /\ part.before # "absent"
       \/ /\ l.what = "AFTER" /\ l.at = s + 4
          /\ part.form = "split" /\ part.after # "absent"

StatementIs(l, part, kind, s) ==
    /\ l.kind \in {kind, "other"}
    /\ (l.kind = "other") <=> (l.what = "silent")
    /\ l.what \in Words(kind)
    /\ \/ /\ part.form \in {"plain", "any"}
          /\ l.at \in {s + 2, s + 3} /\ l.what = part.before
       \/ /\ part.form = "split" /\ part.before # "absent"
          /\ l.at = s + 3 /\ l.what = part.before
       \/ /\ part.form = "split" /\ part.after # "absent"
          /\ l.at = s + 5 /\ l.what = part.after

LEMMA PartFacts ==
    ASSUME NEW document \in Texts, NEW kind \in Kinds,
           NEW l \in PartLines(document, kind)
    PROVE  LET part == Part(document, kind)
               s == Start(document, kind)
           IN  /\ l.at \in (s + 1)..(s + 5)
               /\ \/ HeadingIs(l, part, document.headed, Heading(document, kind), s)
                  \/ StatementIs(l, part, kind, s)
<1>1. PICK s : s = Start(document, kind)
  OBVIOUS
<1>2. PICK part : part = Part(document, kind)
  OBVIOUS
<1>3. /\ s \in Nat /\ s \in {0, 5} /\ part \in Parts(kind) /\ document.headed \in BOOLEAN
      /\ kind # "other"
  BY <1>1, <1>2, DocumentFacts DEF Kinds
<1>4. /\ part.form \in {"plain", "any"} =>
           part.before \in Words(kind) /\ part.before # "absent"
      /\ part.form = "split" =>
           /\ part.before # "absent" => part.before \in Words(kind)
           /\ part.after # "absent" => part.after \in Words(kind)
  BY <1>3, PartsAre DEF Words
<1> SUFFICES /\ l.at \in (s + 1)..(s + 5)
             /\ \/ HeadingIs(l, part, document.headed, Heading(document, kind), s)
                \/ StatementIs(l, part, kind, s)
  BY <1>1, <1>2
<1>5. CASE /\ document.headed /\ part.form # "none"
           /\ l = Line(s + 1, "heading", Heading(document, kind))
  BY <1>3, <1>5, LineParts DEF HeadingIs
<1>6. CASE part.form = "any" /\ l = Line(s + 2, "heading", "ANYTIME")
  BY <1>3, <1>6, LineParts DEF HeadingIs
<1>7. CASE part.form = "any" /\ l = Stated(s + 3, kind, part.before)
  BY <1>3, <1>4, <1>7, LineParts DEF StatementIs
<1>8. CASE part.form = "plain" /\ l = Stated(s + 2, kind, part.before)
  BY <1>3, <1>4, <1>8, LineParts DEF StatementIs
<1>9. CASE /\ part.form = "split" /\ part.before # "absent"
           /\ l = Line(s + 2, "heading", "BEFORE")
  BY <1>3, <1>9, LineParts DEF HeadingIs
<1>10. CASE /\ part.form = "split" /\ part.before # "absent"
            /\ l = Stated(s + 3, kind, part.before)
  BY <1>3, <1>4, <1>10, LineParts DEF StatementIs
<1>11. CASE /\ part.form = "split" /\ part.after # "absent"
            /\ l = Line(s + 4, "heading", "AFTER")
  BY <1>3, <1>11, LineParts DEF HeadingIs
<1>12. CASE /\ part.form = "split" /\ part.after # "absent"
            /\ l = Stated(s + 5, kind, part.after)
  BY <1>3, <1>4, <1>12, LineParts DEF StatementIs
<1> QED BY <1>1, <1>2, <1>5, <1>6, <1>7, <1>8, <1>9, <1>10, <1>11, <1>12, LinesOfPart

LEMMA TextFacts ==
    ASSUME NEW document \in Texts, NEW kind \in Kinds, NEW l \in Lines(document)
    PROVE  /\ l.at \in 1..10
           /\ \/ l \in PartLines(document, kind)
              \/ l \in PartLines(document, Other(kind))
           /\ l.kind = kind => l \in PartLines(document, kind)
<1>1. \/ l \in PartLines(document, kind)
      \/ l \in PartLines(document, Other(kind))
  BY DocumentFacts DEF Lines
<1>2. /\ Other(kind) \in Kinds /\ kind # Other(kind)
      /\ Start(document, kind) \in {0, 5} /\ Start(document, Other(kind)) \in {0, 5}
  BY DocumentFacts
<1>3. l.at \in 1..10
  BY <1>1, <1>2, PartFacts
<1>4. ASSUME l \in PartLines(document, Other(kind)) PROVE l.kind # kind
  <2>1. l.kind \in {"heading", "other", Other(kind)}
    <3> DEFINE k == Other(kind)
               part == Part(document, k)
               s == Start(document, k)
    <3>1. \/ HeadingIs(l, part, document.headed, Heading(document, k), s)
          \/ StatementIs(l, part, k, s)
      BY <1>2, <1>4, PartFacts
    <3> HIDE DEF part, s, k
    <3> QED BY <3>1 DEF HeadingIs, StatementIs, k
  <2>2. kind # "heading" /\ kind # "other"
    BY DEF Kinds
  <2> QED BY <1>2, <2>1, <2>2
<1> QED BY <1>1, <1>3, <1>4

\* A statement is between the heading of its part and the end of the part.
Inside(l, s) == l.at \in (s + 2)..(s + 5)

LEMMA StatementPlace ==
    ASSUME NEW document \in Texts, NEW kind \in Kinds,
           NEW l \in Lines(document), l.kind = kind
    PROVE  /\ StatementIs(l, Part(document, kind), kind, Start(document, kind))
           /\ Inside(l, Start(document, kind))
<1>1. l \in PartLines(document, kind)
  BY TextFacts
<1>2. ~HeadingIs(l, Part(document, kind), document.headed, Heading(document, kind),
                 Start(document, kind))
  BY DEF HeadingIs, Kinds
<1>3. StatementIs(l, Part(document, kind), kind, Start(document, kind))
  BY <1>1, <1>2, PartFacts
<1>4. Start(document, kind) \in {0, 5}
  BY DocumentFacts
<1> QED BY <1>3, <1>4 DEF StatementIs, Inside

-----------------------------------------------------------------------------
(* Where the headings are found                                            *)

Numbered(text) == \A l \in text : l.at \in Nat /\ l.at > 0
Heads(l, name) == l.kind = "heading" /\ l.what = name

LEMMA FindFacts ==
    ASSUME NEW text, Numbered(text), NEW name
    PROVE  /\ Find(text, name) \in Nat
           /\ Find(text, name) # 0 =>
                \E l \in text : Heads(l, name) /\ l.at = Find(text, name)
           /\ \A l \in text : Heads(l, name) =>
                Find(text, name) # 0 /\ Find(text, name) <= l.at
<1> DEFINE found == {l.at : l \in {x \in text : x.kind = "heading" /\ x.what = name}}
<1>1. found \in SUBSET Nat /\ 0 \notin found
  BY DEF Numbered
<1>2. Find(text, name) = IF found = {} THEN 0 ELSE Min(found)
  BY DEF Find
<1>3. CASE found = {}
  <2>1. \A l \in text : ~Heads(l, name)
    BY <1>3 DEF Heads
  <2>2. Find(text, name) = 0
    BY <1>2, <1>3
  <2> HIDE DEF found
  <2> QED BY <2>1, <2>2
<1>4. CASE found # {}
  <2>1. Min(found) \in found /\ \A n \in found : Min(found) <= n
    BY <1>1, <1>4, MinIsLeast
  <2>2. \E l \in text : Heads(l, name) /\ l.at = Min(found)
    BY <2>1 DEF Heads
  <2>3. \A l \in text : Heads(l, name) => l.at \in found
    BY DEF Heads
  <2>4. PICK n : n = Min(found)
    OBVIOUS
  <2>5. Find(text, name) = n
    BY <1>2, <1>4, <2>4
  <2> HIDE DEF found
  <2>6. n \in Nat /\ n # 0
    BY <1>1, <2>1, <2>4
  <2>7. \A l \in text : Heads(l, name) => n <= l.at
    BY <2>1, <2>3, <2>4
  <2> QED BY <2>2, <2>4, <2>5, <2>6, <2>7
<1> QED BY <1>3, <1>4

LEMMA PlacesKept ==
    ASSUME NEW document \in Texts
    PROVE  \A text \in SUBSET Lines(document) : Numbered(text)
<1> SUFFICES ASSUME NEW l \in Lines(document) PROVE l.at \in Nat /\ l.at > 0
  BY DEF Numbered
<1> QED BY TextFacts DEF Kinds

\* The heading of a part is above its lines.
LEMMA TitleFound ==
    ASSUME NEW document \in Texts, NEW text \in SUBSET Lines(document),
           NEW name \in Titles, Find(text, name) # 0
    PROVE  \E k \in Kinds :
             /\ name = Heading(document, k)
             /\ Find(text, name) = Start(document, k) + 1
             /\ document.headed
             /\ Part(document, k).form # "none"
             /\ \E l \in text : l.at = Start(document, k) + 1
<1>1. PICK l \in text : Heads(l, name) /\ l.at = Find(text, name)
  BY PlacesKept, FindFacts
<1>2. name \notin {"ANYTIME", "BEFORE", "AFTER"}
  BY DEF Titles
<1>3. PICK k \in Kinds : l \in PartLines(document, k)
  BY DEF Lines
<1>4. ~StatementIs(l, Part(document, k), k, Start(document, k))
  BY <1>1 DEF Heads, StatementIs, Kinds
<1>5. HeadingIs(l, Part(document, k), document.headed, Heading(document, k),
                Start(document, k))
  BY <1>3, <1>4, PartFacts
<1> QED BY <1>1, <1>2, <1>5 DEF HeadingIs, Heads

LEMMA NameFound ==
    ASSUME NEW document \in Texts, NEW kind \in Kinds,
           NEW text \in SUBSET Lines(document),
           Find(text, Heading(document, kind)) # 0
    PROVE  /\ Find(text, Heading(document, kind)) = Start(document, kind) + 1
           /\ document.headed
           /\ Part(document, kind).form # "none"
           /\ \E l \in text : l.at = Start(document, kind) + 1
<1>1. /\ Heading(document, "change") = "CHANGES"
      /\ Heading(document, "refund") \in {"CANCELLATIONS", "REFUNDS"}
  BY DocumentFacts
<1>2. \A k \in Kinds : /\ Heading(document, k) \in Titles
                       /\ Heading(document, k) = Heading(document, kind) => k = kind
  BY <1>1 DEF Kinds, Titles
<1> QED BY <1>2, TitleFound

\* A title that is not a part's is not found.
LEMMA NoTitle ==
    ASSUME NEW document \in Texts, NEW text \in SUBSET Lines(document),
           NEW name \in Titles, \A k \in Kinds : name # Heading(document, k)
    PROVE  Find(text, name) = 0
BY TitleFound

\* A part with a heading is found under it.
LEMMA PartFound ==
    ASSUME NEW document \in Texts, NEW kind \in Kinds, document.headed,
           Part(document, kind).form # "none"
    PROVE  Find(Lines(document), Heading(document, kind)) # 0
<1> DEFINE l == Line(Start(document, kind) + 1, "heading", Heading(document, kind))
<1>1. l \in Lines(document)
  BY LinesOfPart DEF Lines
<1>2. Heads(l, Heading(document, kind))
  BY LineParts DEF Heads
<1> QED BY <1>1, <1>2, PlacesKept, FindFacts

\* A section of a title keeps all that the text says of the part under it.
LEMMA SectionIsWhole ==
    ASSUME NEW document \in Texts, NEW kind \in Kinds, NEW name \in Titles,
           NEW l \in Lines(document), l.kind = kind,
           name = Heading(document, kind), Section(Lines(document), name) # {}
    PROVE  l \in Section(Lines(document), name)
<1> DEFINE text == Lines(document)
           s == Start(document, kind)
           tail == Below(text, Find(text, name))
           stops == {Find(tail, stop) : stop \in Titles \ {name}} \ {0}
<1>1. Find(text, name) # 0
  BY DEF Section
<1>2. Find(text, name) = s + 1
  BY <1>1, NameFound
<1>3. /\ s \in {0, 5} /\ Start(document, Other(kind)) = 5 - s
      /\ Kinds = {kind, Other(kind)}
  BY DocumentFacts
<1>4. l.at \in (s + 2)..(s + 5)
  BY StatementPlace DEF Inside
<1>5. l \in tail
  <2> HIDE DEF s
  <2> QED BY <1>2, <1>3, <1>4 DEF Below
<1>6. tail \in SUBSET text
  BY DEF Below
<1>7. ASSUME NEW n \in stops PROVE n = 6 /\ s = 0
  <2>1. PICK stop \in Titles \ {name} : n = Find(tail, stop) /\ n # 0
    BY <1>7
  <2>2. PICK k \in Kinds : /\ stop = Heading(document, k)
                           /\ n = Start(document, k) + 1
                           /\ \E x \in tail : x.at = Start(document, k) + 1
    BY <1>6, <2>1, TitleFound
  <2>3. k = Other(kind)
    BY <1>3, <2>1, <2>2
  <2>4. PICK x \in tail : x.at = 5 - s + 1
    BY <1>3, <2>2, <2>3
  <2>5. x.at > s + 1
    BY <1>2, <2>4 DEF Below
  <2> HIDE DEF s, tail, stops
  <2> QED BY <1>3, <2>2, <2>3, <2>4, <2>5
<1>8. ASSUME stops # {} PROVE l \in Above(tail, Min(stops))
  <2>1. stops = {6} /\ s = 0
    <3> HIDE DEF stops, s
    <3> QED BY <1>7, <1>8
  <2>2. Min({6}) = 6
    BY MinIsLeast
  <2>3. Min(stops) = 6
    BY <2>1, <2>2
  <2>4. l.at < 6
    <3> HIDE DEF s, stops
    <3> QED BY <1>4, <2>1
  <2> HIDE DEF tail, stops
  <2> QED BY <1>5, <2>3, <2>4 DEF Above
<1> QED BY <1>1, <1>5, <1>8 DEF Section

\* The block of a kind is a stretch of the text under the heading of the kind;
\* if it is not empty, the part of the kind is in it, alone if it is that of the
\* cancellations.  It is empty where the periods are lost.
LEMMA BlockFacts ==
    ASSUME NEW document \in Texts, NEW kind \in Kinds
    PROVE  LET text == Lines(document)
               block == Block(text, kind)
               s == Start(document, kind)
           IN  /\ block \subseteq text
               /\ \A l \in block : l.at > s + 1
               /\ block # {} => \A l \in text : Inside(l, s) => l \in block
               /\ kind = "refund" => block \subseteq PartLines(document, kind)
               /\ ~PeriodsLost(document, kind) =>
                    \A l \in text : l.kind = kind => block # {}
               /\ PeriodsLost(document, kind) => block = {}
<1> DEFINE text == Lines(document)
           changes == Find(text, "CHANGES")
           cancels == Find(text, "CANCELLATIONS")
           s == Start(document, kind)
           block == Block(text, kind)
<1>1. /\ s \in {0, 5} /\ Start(document, "change") \in {0, 5}
      /\ Start(document, "refund") = 5 - Start(document, "change")
      /\ kind \in {"change", "refund"} /\ document.changesFirst \in BOOLEAN
      /\ document.title \in {"CANCELLATIONS", "REFUNDS"}
      /\ document.headed \in BOOLEAN
      /\ Heading(document, "change") = "CHANGES"
      /\ Heading(document, "refund") = document.title
      /\ Part(document, "change") = document.changes
      /\ Start(document, "change") = 0 <=> document.changesFirst
  <2>1. "change" \in Kinds /\ Other("change") = "refund"
    BY DEF Kinds, Other
  <2> QED BY <2>1, DocumentFacts DEF Kinds, Heading, Texts, Part
<1>2. /\ changes \in Nat /\ cancels \in Nat
      /\ changes # 0 <=> document.headed /\ document.changes.form # "none"
      /\ changes # 0 => changes = Start(document, "change") + 1
      /\ cancels # 0 => /\ cancels = Start(document, "refund") + 1
                        /\ document.headed /\ document.title = "CANCELLATIONS"
      /\ document.headed /\ document.title = "CANCELLATIONS"
           /\ Part(document, "refund").form # "none" => cancels # 0
  <2>1. /\ "change" \in Kinds /\ "refund" \in Kinds /\ text \in SUBSET text
        /\ "CANCELLATIONS" \in Titles
    BY DEF Kinds, Titles
  <2>2. changes \in Nat /\ cancels \in Nat
    BY <2>1, PlacesKept, FindFacts
  <2>3. /\ changes # 0 => /\ changes = Start(document, "change") + 1
                          /\ document.headed /\ document.changes.form # "none"
        /\ document.headed /\ document.changes.form # "none" => changes # 0
    BY <1>1, <2>1, NameFound, PartFound
  <2>4. cancels # 0 => document.title = "CANCELLATIONS"
    <3>1. document.title # "CANCELLATIONS" =>
            \A k \in Kinds : "CANCELLATIONS" # Heading(document, k)
      BY <1>1 DEF Kinds
    <3> QED BY <2>1, <3>1, NoTitle
  <2>5. document.title = "CANCELLATIONS" =>
          /\ cancels # 0 => cancels = Start(document, "refund") + 1 /\ document.headed
          /\ document.headed /\ Part(document, "refund").form # "none" => cancels # 0
    BY <1>1, <2>1, NameFound, PartFound
  <2> QED BY <2>2, <2>3, <2>4, <2>5
<1>3. /\ \A l \in text : l.at \in 1..10
      /\ \A l \in text : l \in PartLines(document, "change") \/
                         l \in PartLines(document, "refund")
  BY TextFacts DEF Lines, Kinds
<1>4. ASSUME NEW l \in text, l.kind = kind
      PROVE  Part(document, kind).form # "none" /\ Inside(l, s)
  BY <1>4, StatementPlace DEF StatementIs
<1>5. CASE kind = "change"
  <2>1. block = IF changes = 0 THEN {} ELSE {l \in text : l.at > changes}
    BY <1>5 DEF Block, Below
  <2>2. s = Start(document, "change") /\ Part(document, kind) = document.changes
    BY <1>1, <1>5
  <2>3. ASSUME changes # 0
        PROVE  /\ \A l \in block : l.at > s + 1
               /\ \A l \in text : Inside(l, s) => l \in block
    <3> HIDE DEF changes, s, text, block
    <3> QED BY <1>1, <1>2, <1>3, <2>1, <2>2, <2>3 DEF Inside
  <2>4. PeriodsLost(document, kind) <=> ~document.headed
    BY <1>5 DEF PeriodsLost
  <2>5. ASSUME ~PeriodsLost(document, kind), NEW l \in text, l.kind = kind
        PROVE  block # {}
    <3>1. changes # 0
      BY <1>2, <1>4, <2>2, <2>4, <2>5
    <3>2. Inside(l, s)
      BY <1>4, <2>5
    <3> QED BY <2>3, <2>5, <3>1, <3>2
  <2>6. /\ block \subseteq text
        /\ changes = 0 => block = {}
        /\ PeriodsLost(document, kind) => changes = 0
    BY <1>2, <2>1, <2>4
  <2> HIDE DEF block, text, s, changes
  <2>7. /\ \A l \in block : l.at > s + 1
        /\ block # {} => \A l \in text : Inside(l, s) => l \in block
        /\ PeriodsLost(document, kind) => block = {}
        /\ kind # "refund"
    BY <1>5, <2>3, <2>6
  <2> QED BY <2>5, <2>6, <2>7 DEF block, text, s
<1>6. CASE kind = "refund"
  <2>1. block = IF cancels = 0 THEN {}
                ELSE {l \in text : /\ l.at > cancels
                                   /\ changes # 0 => l.at < changes}
    BY <1>6 DEF Block, Below, Above
  <2>2. s = Start(document, "refund")
    BY <1>6
  <2>3. PeriodsLost(document, kind) <=>
          \/ ~document.headed \/ document.title = "REFUNDS"
          \/ document.changesFirst /\ document.changes.form # "none"
    BY <1>6 DEF PeriodsLost
  <2>4. document.changes.form = "none" => PartLines(document, "change") = {}
    BY <1>1 DEF PartLines
  <2>5. ASSUME cancels # 0
        PROVE  /\ cancels = s + 1 /\ document.headed
               /\ document.title = "CANCELLATIONS"
               /\ changes # 0 => changes = 6 - s
               /\ changes = 0 <=> document.changes.form = "none"
    <3> HIDE DEF changes, cancels, s
    <3> QED BY <1>1, <1>2, <2>2, <2>5
  <2>6. ASSUME cancels # 0, s = 0 PROVE \A l \in text : Inside(l, s) => l \in block
    <3> HIDE DEF changes, cancels, s, text
    <3> QED BY <1>3, <2>1, <2>5, <2>6 DEF Inside
  <2>7. ASSUME s = 5, changes # 0 PROVE block = {}
    <3>1. cancels # 0 => cancels = 6 /\ changes = 1
      <4> HIDE DEF changes, cancels, s
      <4> QED BY <2>5, <2>7
    <3> HIDE DEF changes, cancels, text
    <3>2. \A l \in text : cancels # 0 => ~(l.at > cancels /\ l.at < changes)
      BY <1>3, <3>1
    <3> QED BY <2>1, <2>7, <3>2
  <2>8. ASSUME cancels # 0, s = 5, changes = 0
        PROVE  \A l \in text : Inside(l, s) => l \in block
    <3> HIDE DEF changes, cancels, s, text
    <3> QED BY <1>3, <2>1, <2>5, <2>8 DEF Inside
  <2>9. block # {} => \A l \in text : Inside(l, s) => l \in block
    <3>1. cancels = 0 => block = {}
      BY <2>1
    <3> HIDE DEF block, text, changes, cancels, s
    <3> QED BY <1>1, <2>6, <2>7, <2>8, <3>1
  <2>10. ASSUME NEW l \in block PROVE l.at > s + 1 /\ l \in PartLines(document, kind)
    <3>1. cancels # 0 /\ l \in text /\ l.at > cancels
      BY <2>1, <2>10
    <3>2. changes # 0 => l.at < 6 - s /\ s = 0
      <4>1. changes # 0 => s = 0
        <5> HIDE DEF block, changes, s
        <5> QED BY <1>1, <2>7, <2>10
      <4> QED BY <2>1, <2>5, <2>10, <3>1, <4>1
    <3>3. l \in PartLines(document, "change") => changes # 0
      BY <2>4, <2>5, <3>1
    <3>4. ASSUME l \in PartLines(document, "change") PROVE FALSE
      <4>1. l.at \in (Start(document, "change") + 1)..(Start(document, "change") + 5)
        BY <3>4, PartFacts DEF Kinds
      <4>2. Start(document, "change") = 5 - s
        <5> HIDE DEF s
        <5> QED BY <1>1, <2>2
      <4> HIDE DEF s, changes
      <4> QED BY <3>2, <3>3, <3>4, <4>1, <4>2
    <3>5. l \in PartLines(document, kind)
      BY <1>3, <1>6, <3>1, <3>4
    <3> HIDE DEF s, cancels
    <3> QED BY <2>5, <3>1, <3>5
  <2>11. ASSUME PeriodsLost(document, kind) PROVE block = {}
    <3>1. cancels = 0 => block = {}
      BY <2>1
    <3>2. cancels # 0 => s = 5 /\ changes # 0
      <4> HIDE DEF s, cancels, changes
      <4> QED BY <1>1, <2>2, <2>3, <2>5, <2>11
    <3> QED BY <2>7, <3>1, <3>2
  <2>12. ASSUME ~PeriodsLost(document, kind), NEW l \in text, l.kind = kind
         PROVE  block # {}
    <3>1. cancels # 0
      BY <1>1, <1>2, <1>4, <1>6, <2>3, <2>12
    <3>2. s = 0 \/ changes = 0
      <4> HIDE DEF s, cancels, changes
      <4> QED BY <1>1, <2>2, <2>3, <2>5, <2>12, <3>1
    <3>3. Inside(l, s)
      BY <1>4, <2>12
    <3>4. \A x \in text : Inside(x, s) => x \in block
      <4> HIDE DEF s, cancels, changes, text, block
      <4> QED BY <1>1, <2>6, <2>8, <3>1, <3>2
    <3> QED BY <2>12, <3>3, <3>4
  <2>13. block \subseteq text
    BY <2>1
  <2> HIDE DEF block, text, s
  <2> QED BY <2>9, <2>10, <2>11, <2>12, <2>13 DEF block, text, s
<1> QED BY <1>1, <1>5, <1>6

\* In such a stretch the headings of the periods are those of the part, or
\* they are below it.
Stretch(block, document, kind) ==
    /\ block \subseteq Lines(document) /\ block # {}
    /\ \A l \in block : l.at > Start(document, kind) + 1
    /\ \A l \in Lines(document) : Inside(l, Start(document, kind)) => l \in block

LEMMA PeriodFound ==
    ASSUME NEW document \in Texts, NEW kind \in Kinds,
           Part(document, kind).form = "split",
           NEW block, Stretch(block, document, kind)
    PROVE  LET s == Start(document, kind)
               part == Part(document, kind)
               b == Find(block, "BEFORE")
               a == Find(block, "AFTER")
           IN  /\ b \in Nat /\ a \in Nat
               /\ part.before # "absent" => b = s + 2
               /\ part.before = "absent" => b = 0 \/ b > s + 5
               /\ part.after # "absent" => a = s + 4
               /\ part.after = "absent" => a = 0 \/ a > s + 5
<1> DEFINE s == Start(document, kind)
           part == Part(document, kind)
           b == Find(block, "BEFORE")
           a == Find(block, "AFTER")
           text == Lines(document)
<1>1. /\ s \in {0, 5} /\ Start(document, Other(kind)) = 5 - s /\ Other(kind) \in Kinds
  BY DocumentFacts
<1>2. /\ Heading(document, kind) \notin {"BEFORE", "AFTER"}
      /\ Heading(document, Other(kind)) \notin {"BEFORE", "AFTER"}
  BY DocumentFacts DEF Kinds, Other
<1>3. ASSUME NEW l \in block
      PROVE  /\ Heads(l, "BEFORE") =>
                  \/ l.at = s + 2 /\ part.before # "absent"
                  \/ l.at > s + 5
             /\ Heads(l, "AFTER") =>
                  \/ l.at = s + 4 /\ part.after # "absent"
                  \/ l.at > s + 5
  <2>1. l \in text /\ l.at > s + 1
    BY DEF Stretch
  <2>2. CASE l \in PartLines(document, kind)
    <3>1. \/ HeadingIs(l, part, document.headed, Heading(document, kind), s)
          \/ StatementIs(l, part, kind, s)
      BY <2>2, PartFacts
    <3> HIDE DEF s, part
    <3> QED BY <1>2, <3>1 DEF HeadingIs, StatementIs, Heads, Kinds
  <2>3. CASE l \in PartLines(document, Other(kind))
    <3>1. /\ l.at \in (5 - s + 1)..(5 - s + 5)
          /\ \/ HeadingIs(l, Part(document, Other(kind)), document.headed,
                          Heading(document, Other(kind)), 5 - s)
             \/ StatementIs(l, Part(document, Other(kind)), Other(kind), 5 - s)
      BY <1>1, <2>3, PartFacts
    <3>2. Heads(l, "BEFORE") => l.at = 5 - s + 2
      BY <1>1, <1>2, <3>1 DEF HeadingIs, StatementIs, Heads, Kinds
    <3>3. Heads(l, "AFTER") => l.at = 5 - s + 4
      BY <1>1, <1>2, <3>1 DEF HeadingIs, StatementIs, Heads, Kinds
    <3>4. s = 0
      <4> HIDE DEF s
      <4> QED BY <1>1, <2>1, <3>1
    <3> QED BY <3>2, <3>3, <3>4
  <2> QED BY <2>1, <2>2, <2>3, TextFacts
<1>4. ASSUME part.before # "absent"
      PROVE  \E l \in block : Heads(l, "BEFORE") /\ l.at = s + 2
  <2> DEFINE l == Line(s + 2, "heading", "BEFORE")
  <2>1. l \in text
    BY <1>4, LinesOfPart DEF Lines
  <2>2. l.at = s + 2 /\ Heads(l, "BEFORE")
    BY LineParts DEF Heads
  <2>3. Inside(l, s)
    <3> HIDE DEF l, s
    <3> QED BY <1>1, <2>2 DEF Inside
  <2> QED BY <2>1, <2>2, <2>3 DEF Stretch
<1>5. ASSUME part.after # "absent"
      PROVE  \E l \in block : Heads(l, "AFTER") /\ l.at = s + 4
  <2> DEFINE l == Line(s + 4, "heading", "AFTER")
  <2>1. l \in text
    BY <1>5, LinesOfPart DEF Lines
  <2>2. l.at = s + 4 /\ Heads(l, "AFTER")
    BY LineParts DEF Heads
  <2>3. Inside(l, s)
    <3> HIDE DEF l, s
    <3> QED BY <1>1, <2>2 DEF Inside
  <2> QED BY <2>1, <2>2, <2>3 DEF Stretch
<1>6. /\ b \in Nat /\ a \in Nat
      /\ b # 0 => \E l \in block : Heads(l, "BEFORE") /\ l.at = b
      /\ a # 0 => \E l \in block : Heads(l, "AFTER") /\ l.at = a
      /\ \A l \in block : Heads(l, "BEFORE") => b # 0 /\ b <= l.at
      /\ \A l \in block : Heads(l, "AFTER") => a # 0 /\ a <= l.at
  <2>1. Numbered(block)
    BY PlacesKept DEF Stretch
  <2> QED BY <2>1, FindFacts
<1> HIDE DEF s, part, a, b, text
<1>7. /\ part.before # "absent" => b = s + 2
      /\ part.before = "absent" => b = 0 \/ b > s + 5
  BY <1>1, <1>3, <1>4, <1>6
<1>8. /\ part.after # "absent" => a = s + 4
      /\ part.after = "absent" => a = 0 \/ a > s + 5
  BY <1>1, <1>3, <1>5, <1>6
<1> QED BY <1>6, <1>7, <1>8 DEF s, part, a, b

\* What the text says of a period under the headings of the periods is what the
\* part says, and all of it when the part has periods or is alone.
LEMMA PeriodFacts ==
    ASSUME NEW document \in Texts, NEW kind \in Kinds, NEW p \in Periods,
           NEW block, Stretch(block, document, kind)
    PROVE  /\ BeforeAfter(block)[p] \subseteq Lines(document)
           /\ \A l \in BeforeAfter(block)[p] : l.kind = kind =>
                /\ Part(document, kind).form # "none"
                /\ l.what = Part(document, kind)[p]
           /\ \A l \in Lines(document) :
                /\ \/ Part(document, kind).form = "split"
                   \/ block \subseteq PartLines(document, kind)
                /\ l.kind = kind /\ l.what = Part(document, kind)[p]
                /\ Part(document, kind)[p] # "absent"
                => \E m \in BeforeAfter(block)[p] : m.kind = kind /\ m.what = l.what
<1> DEFINE s == Start(document, kind)
           part == Part(document, kind)
           b == Find(block, "BEFORE")
           a == Find(block, "AFTER")
           text == Lines(document)
           before == {l \in block : b # 0 /\ l.at > b /\ (a # 0 => l.at < a)}
           after == {l \in block : a # 0 /\ l.at > a}
           anytime == Below(block, Find(block, "ANYTIME"))
<1>1. /\ s \in {0, 5} /\ part \in Parts(kind)
      /\ part.form \in {"plain", "any"} => part.after = part.before
      /\ part.form = "split" => part.before # "absent" \/ part.after # "absent"
      /\ part.form \in {"none", "plain", "any", "split"}
  BY DocumentFacts, PartsAre
<1>2. /\ BeforeAfter(block).before =
           IF before = {} /\ after = {} THEN anytime ELSE before
      /\ BeforeAfter(block).after =
           IF before = {} /\ after = {} THEN anytime ELSE after
  BY DEF BeforeAfter, Below, Above
<1>3. /\ before \subseteq block /\ after \subseteq block /\ anytime \subseteq block
      /\ block \subseteq text
  BY DEF Below, Stretch
<1>4. BeforeAfter(block)[p] \subseteq block
  <2> HIDE DEF before, after, anytime
  <2> QED BY <1>2, <1>3 DEF Periods
<1>5. ASSUME NEW l \in block, l.kind = kind
      PROVE  /\ part.form # "none"
             /\ StatementIs(l, part, kind, s)
             /\ part.form # "split" => l.what = part[p]
  <2>1. StatementIs(l, part, kind, s)
    BY <1>3, <1>5, StatementPlace
  <2> HIDE DEF s, part
  <2> QED BY <1>1, <2>1 DEF StatementIs, Periods
<1>6. CASE part.form # "split"
  <2>1. /\ BeforeAfter(block)[p] \subseteq text
        /\ \A l \in BeforeAfter(block)[p] : l.kind = kind =>
             part.form # "none" /\ l.what = part[p]
    BY <1>3, <1>4, <1>5, <1>6
  <2>2. ASSUME block \subseteq PartLines(document, kind), NEW l \in text,
               l.kind = kind, l.what = part[p], part[p] # "absent"
        PROVE  \E m \in BeforeAfter(block)[p] : m.kind = kind /\ m.what = l.what
    <3>1. StatementIs(l, part, kind, s)
      BY <2>2, StatementPlace
    <3>2. /\ part.form \in {"plain", "any"} /\ l.what = part.before
          /\ l.what # "silent"
      BY <1>6, <2>2, <3>1 DEF StatementIs, Kinds
    <3>3. ASSUME NEW h \in block, h.kind = "heading"
          PROVE  /\ h.what \notin {"BEFORE", "AFTER"}
                 /\ h.what = "ANYTIME" => h.at = s + 2 /\ part.form = "any"
      <4>1. h \in PartLines(document, kind)
        BY <2>2
      <4>2. HeadingIs(h, part, document.headed, Heading(document, kind), s)
        BY <3>3, <4>1, PartFacts DEF StatementIs, Kinds
      <4>3. Heading(document, kind) \notin {"BEFORE", "AFTER", "ANYTIME"}
        BY DocumentFacts DEF Kinds
      <4> HIDE DEF part, s
      <4> QED BY <1>6, <4>2, <4>3 DEF HeadingIs
    <3>4. /\ Numbered(block) /\ b \in Nat /\ a \in Nat
          /\ b # 0 => \E h \in block : Heads(h, "BEFORE")
          /\ a # 0 => \E h \in block : Heads(h, "AFTER")
      <4>1. Numbered(block)
        BY PlacesKept DEF Stretch
      <4> QED BY <4>1, FindFacts
    <3>5. b = 0 /\ a = 0
      BY <3>3, <3>4 DEF Heads
    <3>6. before = {} /\ after = {}
      BY <3>5
    <3>7. BeforeAfter(block)[p] = anytime
      <4> HIDE DEF before, after, anytime
      <4> QED BY <1>2, <3>6 DEF Periods
    <3> DEFINE n == Find(block, "ANYTIME")
               m == IF part.form = "any" THEN Stated(s + 3, kind, part.before)
                                         ELSE Stated(s + 2, kind, part.before)
    <3>8. n \in Nat /\ (n # 0 => n = s + 2 /\ part.form = "any")
      <4>1. n \in Nat /\ (n # 0 => \E h \in block : Heads(h, "ANYTIME") /\ h.at = n)
        BY <3>4, FindFacts
      <4> HIDE DEF n, s, part
      <4> QED BY <3>3, <4>1 DEF Heads
    <3>9. m \in text
      <4>1. m \in PartLines(document, kind)
        <5>1. CASE part.form = "any"
          BY <5>1, LinesOfPart
        <5>2. CASE part.form = "plain"
          BY <5>2, LinesOfPart
        <5> QED BY <3>2, <5>1, <5>2
      <4> QED BY <4>1 DEF Lines
    <3>10. /\ m.at = IF part.form = "any" THEN s + 3 ELSE s + 2
           /\ m.kind = kind /\ m.what = part.before
      <4>1. part.before # "silent"
        BY <3>2
      <4> HIDE DEF part, s
      <4> QED BY <4>1, LineParts
    <3>11. Inside(m, s)
      <4> HIDE DEF m, s
      <4> QED BY <1>1, <3>10 DEF Inside
    <3>12. m \in block
      BY <3>9, <3>11 DEF Stretch
    <3>13. m.at > n
      <4> HIDE DEF m, n, s, part
      <4> QED BY <1>1, <3>8, <3>10
    <3>14. m \in anytime
      BY <3>12, <3>13 DEF Below
    <3> HIDE DEF m, anytime
    <3> QED BY <3>2, <3>7, <3>10, <3>14
  <2> HIDE DEF part, text
  <2> QED BY <1>6, <2>1, <2>2 DEF part, text
<1>7. CASE part.form = "split"
  <2>1. /\ b \in Nat /\ a \in Nat
        /\ part.before # "absent" => b = s + 2
        /\ part.before = "absent" => b = 0 \/ b > s + 5
        /\ part.after # "absent" => a = s + 4
        /\ part.after = "absent" => a = 0 \/ a > s + 5
    BY <1>7, PeriodFound
  <2>2. ASSUME part.before # "absent"
        PROVE  \E m \in before :
                 /\ m.what = part.before
                 /\ m.kind = IF part.before = "silent" THEN "other" ELSE kind
    <3> DEFINE m == Stated(s + 3, kind, part.before)
    <3>1. m \in text
      BY <1>7, <2>2, LinesOfPart DEF Lines
    <3>2. /\ m.at = s + 3 /\ m.what = part.before
          /\ m.kind = IF part.before = "silent" THEN "other" ELSE kind
      BY LineParts
    <3>3. Inside(m, s)
      <4> HIDE DEF m, s
      <4> QED BY <1>1, <3>2 DEF Inside
    <3>4. m \in block
      BY <3>1, <3>3 DEF Stretch
    <3>5. m \in before
      <4> HIDE DEF m, s, part, b, a
      <4> QED BY <1>1, <2>1, <2>2, <3>2, <3>4
    <3> QED BY <3>2, <3>5
  <2>3. ASSUME part.after # "absent"
        PROVE  \E m \in after :
                 /\ m.what = part.after
                 /\ m.kind = IF part.after = "silent" THEN "other" ELSE kind
    <3> DEFINE m == Stated(s + 5, kind, part.after)
    <3>1. m \in text
      BY <1>7, <2>3, LinesOfPart DEF Lines
    <3>2. /\ m.at = s + 5 /\ m.what = part.after
          /\ m.kind = IF part.after = "silent" THEN "other" ELSE kind
      BY LineParts
    <3>3. Inside(m, s)
      <4> HIDE DEF m, s
      <4> QED BY <1>1, <3>2 DEF Inside
    <3>4. m \in block
      BY <3>1, <3>3 DEF Stretch
    <3>5. m \in after
      <4> HIDE DEF m, s, part, b, a
      <4> QED BY <1>1, <2>1, <2>3, <3>2, <3>4
    <3> QED BY <3>2, <3>5
  <2>4. before # {} \/ after # {}
    <3> HIDE DEF before, after, part
    <3> QED BY <1>1, <1>7, <2>2, <2>3
  <2>5. BeforeAfter(block)[p] = IF p = "before" THEN before ELSE after
    <3> HIDE DEF before, after, anytime
    <3> QED BY <1>2, <2>4 DEF Periods
  <2>6. ASSUME NEW l \in before, l.kind = kind PROVE l.what = part.before
    <3>1. StatementIs(l, part, kind, s) /\ l.at > b /\ b # 0 /\ (a # 0 => l.at < a)
      BY <1>5, <2>6
    <3> HIDE DEF s, part, b, a
    <3> QED BY <1>1, <1>7, <2>1, <3>1 DEF StatementIs
  <2>7. ASSUME NEW l \in after, l.kind = kind PROVE l.what = part.after
    <3>1. StatementIs(l, part, kind, s) /\ l.at > a /\ a # 0
      BY <1>5, <2>7
    <3> HIDE DEF s, part, b, a
    <3> QED BY <1>1, <1>7, <2>1, <3>1 DEF StatementIs
  <2>8. ASSUME NEW l \in text, l.kind = kind PROVE l.what # "silent"
    <3>1. StatementIs(l, part, kind, s)
      BY <2>8, StatementPlace
    <3> QED BY <2>8, <3>1 DEF StatementIs, Kinds
  <2>9. CASE p = "before"
    <3> HIDE DEF before, after, part
    <3> QED BY <1>3, <1>7, <2>2, <2>5, <2>6, <2>8, <2>9 DEF part
  <2>10. CASE p = "after"
    <3> HIDE DEF before, after, part
    <3> QED BY <1>3, <1>7, <2>3, <2>5, <2>7, <2>8, <2>10 DEF part
  <2> QED BY <2>9, <2>10 DEF Periods
<1> QED BY <1>6, <1>7

-----------------------------------------------------------------------------
(* What the parsers understand                                             *)

\* What a reader takes for a permission or a charge is no prohibition to any.
LEMMA WordsApart ==
    ASSUME NEW r \in Readers, NEW t \in Readers
    PROVE  /\ Prohibitions(r) \cap (Permissions(t) \cup Charges) = {}
           /\ "silent" \notin Prohibitions(r) \cup Permissions(r) \cup Charges
           /\ "absent" \notin Prohibitions(r) \cup Permissions(r) \cup Charges
BY DEF Readers, Prohibitions, Permissions, Charges

\* The words of a part that can be read.
Spoken(words) == "silent" \notin words /\ "absent" \notin words

LEMMA ReadersSpeak ==
    /\ Spoken(Charges)
    /\ \A r \in Readers : Spoken(Prohibitions(r)) /\ Spoken(Permissions(r))
BY WordsApart DEF Spoken, Readers

LEMMA MeantFacts ==
    ASSUME NEW document \in Texts, NEW kind \in Kinds, NEW words, Spoken(words),
           NEW p \in Periods
    PROVE  Meant(document, kind, p) \in words <=>
             Part(document, kind).form # "none" /\ Part(document, kind)[p] \in words
BY DEF Meant, Spoken

\* The text says of a kind what its part says, for any period.
LEMMA WordSaid ==
    ASSUME NEW document \in Texts, NEW kind \in Kinds, NEW p \in Periods,
           Part(document, kind).form # "none",
           Part(document, kind)[p] \notin {"silent", "absent"}
    PROVE  \E l \in Lines(document) :
             l.kind = kind /\ l.what = Part(document, kind)[p]
<1> DEFINE part == Part(document, kind)
           s == Start(document, kind)
           word == part[p]
<1>1. /\ part.form \in {"none", "plain", "any", "split"}
      /\ part.form \in {"plain", "any"} => part.after = part.before
  BY DocumentFacts, PartsAre
<1>2. \E n \in Nat : Stated(n, kind, word) \in PartLines(document, kind)
  <2>1. s + 2 \in Nat /\ s + 3 \in Nat /\ s + 5 \in Nat
    BY DocumentFacts
  <2>2. CASE part.form = "any"
    <3>1. part.before = word
      BY <1>1, <2>2 DEF Periods
    <3>2. Stated(s + 3, kind, word) \in PartLines(document, kind)
      BY <2>2, <3>1, LinesOfPart
    <3> QED BY <2>1, <3>2
  <2>3. CASE part.form = "plain"
    <3>1. part.before = word
      BY <1>1, <2>3 DEF Periods
    <3>2. Stated(s + 2, kind, word) \in PartLines(document, kind)
      BY <2>3, <3>1, LinesOfPart
    <3> QED BY <2>1, <3>2
  <2>4. CASE part.form = "split" /\ p = "before"
    <3>1. Stated(s + 3, kind, word) \in PartLines(document, kind)
      BY <2>4, LinesOfPart
    <3> QED BY <2>1, <3>1
  <2>5. CASE part.form = "split" /\ p = "after"
    <3>1. Stated(s + 5, kind, word) \in PartLines(document, kind)
      BY <2>5, LinesOfPart
    <3> QED BY <2>1, <3>1
  <2> QED BY <1>1, <2>2, <2>3, <2>4, <2>5 DEF Periods
<1>3. PICK n \in Nat : Stated(n, kind, word) \in PartLines(document, kind)
  BY <1>2
<1>4. Stated(n, kind, word) \in Lines(document)
  BY <1>3 DEF Lines
<1>5. Stated(n, kind, word).kind = kind /\ Stated(n, kind, word).what = word
  BY LineParts
<1> QED BY <1>4, <1>5

LEMMA TextSays ==
    ASSUME NEW document \in Texts, NEW kind \in Kinds, NEW words, Spoken(words)
    PROVE  Says(Lines(document), kind, words) <=>
             \E p \in Periods : Meant(document, kind, p) \in words
<1> DEFINE part == Part(document, kind)
           s == Start(document, kind)
           text == Lines(document)
<1>1. ASSUME NEW l \in text, l.kind = kind, l.what \in words
      PROVE  \E p \in Periods : Meant(document, kind, p) \in words
  <2>1. StatementIs(l, part, kind, s)
    BY <1>1, StatementPlace
  <2>2. part.form # "none" /\ \E p \in Periods : part[p] \in words
    <3> HIDE DEF part, s
    <3> QED BY <1>1, <2>1 DEF StatementIs, Periods
  <2> QED BY <2>2, MeantFacts
<1>2. ASSUME NEW p \in Periods, Meant(document, kind, p) \in words
      PROVE  \E l \in text : l.kind = kind /\ l.what \in words
  <2>1. part.form # "none" /\ part[p] \in words
    BY <1>2, MeantFacts
  <2> QED BY <2>1, WordSaid DEF Spoken
<1> QED BY <1>1, <1>2 DEF Says

LEMMA SectionIsText ==
    ASSUME NEW document \in Texts, NEW kind \in Kinds, NEW name \in Titles,
           name = Heading(document, kind), NEW words,
           Section(Lines(document), name) # {}
    PROVE  Says(Section(Lines(document), name), kind, words) <=>
             Says(Lines(document), kind, words)
<1>1. Section(Lines(document), name) \subseteq Lines(document)
  BY DEF Section, Below, Above
<1> QED BY <1>1, SectionIsWhole DEF Says

LEMMA SectionOfPart ==
    ASSUME NEW document \in Texts, NEW kind \in Kinds, NEW name \in Titles,
           Section(Lines(document), name) # {},
           name = "CHANGES" <=> kind = "change"
    PROVE  name = Heading(document, kind)
<1>1. Find(Lines(document), name) # 0
  BY DEF Section
<1>2. PICK k \in Kinds : name = Heading(document, k)
  BY <1>1, TitleFound
<1>3. /\ Heading(document, "change") = "CHANGES"
      /\ Heading(document, "refund") \in {"CANCELLATIONS", "REFUNDS"}
  BY DocumentFacts
<1> QED BY <1>2, <1>3 DEF Kinds

LEMMA VerdictIsReading ==
    ASSUME NEW document \in Texts, NEW kind \in Kinds
    PROVE  Verdict(Lines(document), kind) = Reading(Lines(document), kind, "audit")
<1> DEFINE text == Lines(document)
           own == Section(text, Name(kind))
           section == IF own = {} /\ kind = "refund" THEN Section(text, "REFUNDS")
                                                     ELSE own
<1>1. Verdict(text, kind) =
        Reading(IF section = {} THEN text ELSE section, kind, "audit")
  BY DEF Verdict
<1>2. CASE section = {}
  BY <1>1, <1>2
<1>3. CASE section # {}
  <2>1. PICK name \in Titles : /\ section = Section(text, name)
                               /\ name = "CHANGES" <=> kind = "change"
    BY DEF Titles, Name, Kinds
  <2>2. name = Heading(document, kind)
    BY <1>3, <2>1, SectionOfPart
  <2>3. \A words : Says(section, kind, words) <=> Says(text, kind, words)
    BY <1>3, <2>1, <2>2, SectionIsText
  <2>4. Reading(section, kind, "audit") = Reading(text, kind, "audit")
    <3> HIDE DEF section, text
    <3> QED BY <2>3 DEF Reading
  <2> HIDE DEF section
  <2> QED BY <1>1, <1>3, <2>4
<1> QED BY <1>2, <1>3

\* The flat parser: what the part says in the audit's words for some period, a
\* prohibition first.
LEMMA VerdictFacts ==
    ASSUME NEW document \in Texts, NEW kind \in Kinds
    PROVE  LET verdict == Verdict(Lines(document), kind)
               says(words) == \E p \in Periods : Meant(document, kind, p) \in words
           IN  /\ verdict \in {NoValue, "allowed", "with_fee", "not_allowed"}
               /\ verdict = "not_allowed" <=> says(Prohibitions("audit"))
               /\ verdict \in {"allowed", "with_fee"} <=>
                    ~says(Prohibitions("audit")) /\ says(Permissions("audit"))
<1> DEFINE text == Lines(document)
           says(words) == \E p \in Periods : Meant(document, kind, p) \in words
           verdict == Verdict(text, kind)
<1>1. NoValue \notin {"allowed", "with_fee", "not_allowed"}
  BY NoValueAssumption DEF Statuses
<1>2. /\ Says(text, kind, Prohibitions("audit")) <=> says(Prohibitions("audit"))
      /\ Says(text, kind, Permissions("audit")) <=> says(Permissions("audit"))
  BY TextSays, ReadersSpeak DEF Readers
<1> HIDE DEF says
<1>3. /\ says(Prohibitions("audit")) => verdict = "not_allowed"
      /\ ~says(Prohibitions("audit")) /\ says(Permissions("audit")) =>
           verdict \in {"allowed", "with_fee"}
      /\ ~says(Prohibitions("audit")) /\ ~says(Permissions("audit")) =>
           verdict = NoValue
  <2>1. verdict = Reading(text, kind, "audit")
    BY VerdictIsReading
  <2> HIDE DEF text, verdict
  <2> QED BY <1>2, <2>1 DEF Reading
<1> HIDE DEF verdict
<1>4. /\ verdict \in {NoValue, "allowed", "with_fee", "not_allowed"}
      /\ verdict = "not_allowed" <=> says(Prohibitions("audit"))
      /\ verdict \in {"allowed", "with_fee"} <=>
           ~says(Prohibitions("audit")) /\ says(Permissions("audit"))
  BY <1>1, <1>3
<1> QED BY <1>4 DEF verdict, text, says

\* The parser of the periods: what the part says in its words for the period;
\* all of it if the periods are not lost and the part has some, or is that of
\* the cancellations.
LEMMA DetailsFacts ==
    ASSUME NEW document \in Texts, NEW kind \in Kinds, NEW p \in Periods
    PROVE  LET detail == Details(Lines(document), kind)[p]
               meant == Meant(document, kind, p)
           IN  /\ detail \in {NoValue, "unknown", "charged", "allowed", "with_fee",
                              "not_allowed"}
               /\ detail = "not_allowed" => meant \in Prohibitions("client")
               /\ detail \in {"allowed", "with_fee"} => meant \in Permissions("client")
               /\ detail = "charged" => meant \in Charges
               /\ PeriodsLost(document, kind) => detail = NoValue
               /\ /\ ~PeriodsLost(document, kind)
                  /\ Part(document, kind).form = "split" \/ kind = "refund"
                  => /\ meant \in Prohibitions("client") => detail = "not_allowed"
                     /\ meant \in Permissions("client") =>
                          detail \in {"allowed", "with_fee"}
                     /\ meant \notin {"silent", "absent"} => detail # NoValue
<1> DEFINE text == Lines(document)
           part == Part(document, kind)
           block == Block(text, kind)
           slice == BeforeAfter(block)[p]
           detail == Details(text, kind)[p]
           meant == Meant(document, kind, p)
           whole == part.form = "split" \/ kind = "refund"
<1>1. NoValue \notin {"unknown", "charged", "allowed", "with_fee", "not_allowed"}
  BY NoValueAssumption DEF Statuses
<1>2. detail = Detail(slice, kind)
  BY DEF Details
<1>3. /\ PeriodsLost(document, kind) => block = {}
      /\ ~PeriodsLost(document, kind) => \A l \in text : l.kind = kind => block # {}
  BY BlockFacts
<1>4. meant \notin {"silent", "absent"} =>
        /\ part.form # "none" /\ meant = part[p]
        /\ \E l \in text : l.kind = kind /\ l.what = part[p]
  BY WordSaid DEF Meant
<1>5. CASE block = {}
  <2>1. slice = {}
    <3>1. \A n : Below({}, n) = {} /\ Above({}, n) = {}
      BY DEF Below, Above
    <3> QED BY <1>5, <3>1 DEF BeforeAfter, Periods
  <2>2. detail = NoValue
    BY <1>2, <2>1 DEF Detail
  <2>3. ~PeriodsLost(document, kind) => meant \in {"silent", "absent"}
    BY <1>3, <1>4, <1>5
  <2>4. meant \in {"silent", "absent"} =>
          meant \notin Prohibitions("client") \cup Permissions("client")
    BY WordsApart DEF Readers
  <2> HIDE DEF detail, meant
  <2>5. /\ detail = NoValue
        /\ ~PeriodsLost(document, kind) =>
             /\ meant \in {"silent", "absent"}
             /\ meant \notin Prohibitions("client")
             /\ meant \notin Permissions("client")
    BY <2>2, <2>3, <2>4
  <2> QED BY <1>1, <2>5 DEF detail, meant
<1>6. CASE block # {}
  <2>1. Stretch(block, document, kind)
    BY <1>6, BlockFacts DEF Stretch
  <2>2. kind = "refund" => block \subseteq PartLines(document, kind)
    BY BlockFacts
  <2>3. /\ \A l \in slice : l.kind = kind => part.form # "none" /\ l.what = part[p]
        /\ \A l \in text :
             whole /\ l.kind = kind /\ l.what = part[p] /\ part[p] # "absent"
             => \E m \in slice : m.kind = kind /\ m.what = l.what
    BY <2>1, <2>2, PeriodFacts
  <2>4. \A words : Says(slice, kind, words) => meant \in words
    BY <2>3 DEF Says, Meant
  <2>5. ASSUME whole, meant \notin {"silent", "absent"}
        PROVE  \A words : meant \in words => Says(slice, kind, words)
    <3>1. PICK m \in slice : m.kind = kind /\ m.what = meant
      BY <1>4, <2>3, <2>5
    <3> QED BY <3>1 DEF Says
  <2>6. slice = {} => \A words : ~Says(slice, kind, words)
    BY DEF Says
  <2>7. ~PeriodsLost(document, kind)
    BY <1>3, <1>6
  <2> HIDE DEF slice, part, text, detail, meant, whole, block
  <2> DEFINE no == Says(slice, kind, Prohibitions("client"))
             yes == Says(slice, kind, Permissions("client"))
             fee == Says(slice, kind, Charges)
             reading == Reading(slice, kind, "client")
  <2>8. /\ no => reading = "not_allowed"
        /\ ~no /\ yes => reading \in {"allowed", "with_fee"}
        /\ ~no /\ ~yes => reading = NoValue
    BY DEF Reading
  <2>9. /\ slice = {} => detail = NoValue
        /\ slice # {} /\ reading # NoValue => detail = reading
        /\ slice # {} /\ reading = NoValue =>
             detail = IF fee THEN "charged" ELSE "unknown"
    BY <1>2 DEF Detail
  <2>10. /\ no => meant \in Prohibitions("client")
         /\ yes => meant \in Permissions("client")
         /\ fee => meant \in Charges
         /\ slice = {} => ~no /\ ~yes /\ ~fee
    BY <2>4, <2>6
  <2>11. ASSUME whole
         PROVE  /\ meant \in Prohibitions("client") => no /\ slice # {}
                /\ meant \in Permissions("client") => yes /\ ~no /\ slice # {}
                /\ meant \notin {"silent", "absent"} => slice # {}
    <3>1. /\ meant \in Prohibitions("client") => meant \notin {"silent", "absent"}
          /\ meant \in Permissions("client") =>
               /\ meant \notin {"silent", "absent"}
               /\ meant \notin Prohibitions("client")
      BY WordsApart DEF Readers
    <3>2. meant \notin {"silent", "absent"} => slice # {}
      <4>1. meant \notin {"silent", "absent"} => Says(slice, kind, {meant})
        BY <2>5, <2>11
      <4> QED BY <2>6, <4>1
    <3> QED BY <2>5, <2>10, <2>11, <3>1, <3>2
  <2> HIDE DEF no, yes, fee, reading
  <2>12. /\ detail \in {NoValue, "unknown", "charged", "allowed", "with_fee",
                        "not_allowed"}
         /\ detail = "not_allowed" => meant \in Prohibitions("client")
         /\ detail \in {"allowed", "with_fee"} => meant \in Permissions("client")
         /\ detail = "charged" => meant \in Charges
    BY <1>1, <2>8, <2>9, <2>10
  <2>13. whole =>
           /\ meant \in Prohibitions("client") => detail = "not_allowed"
           /\ meant \in Permissions("client") => detail \in {"allowed", "with_fee"}
           /\ meant \notin {"silent", "absent"} => detail # NoValue
    BY <1>1, <2>8, <2>9, <2>11
  <2> QED BY <2>7, <2>12, <2>13 DEF detail, meant, text, whole, part
<1> QED BY <1>5, <1>6

-----------------------------------------------------------------------------
(* What is told of rules that were read                                    *)

LEMMA WordFacts ==
    ASSUME NEW status
    PROVE  /\ Word(status) = "yes" <=> status \in {"included", "allowed"}
           /\ Word(status) = "fee" <=> status \in {"with_fee", "charged"}
           /\ Word(status) = "no" <=> status = "not_allowed"
BY DEF Word

LEMMA SummaryCases ==
    ASSUME NEW details, NEW status
    PROVE  \/ /\ \E p \in Periods : details[p] = "not_allowed"
              /\ \A p \in Periods : details[p] \in {NoValue, "not_allowed"}
              /\ SummaryText(details, status) = Both("no")
           \/ /\ \E p \in Periods : details[p] \in {"allowed", "with_fee"}
              /\ SummaryText(details, status) = [p \in Periods |-> Word(details[p])]
           \/ /\ \A p \in Periods : details[p] \notin {"allowed", "with_fee"}
              /\ SummaryText(details, status) = Both(Word(status))
<1> DEFINE found == {details[p] : p \in Periods} \ {NoValue}
<1>1. CASE found = {"not_allowed"}
  <2>1. SummaryText(details, status) = Both("no")
    BY <1>1 DEF SummaryText
  <2> QED BY <1>1, <2>1
<1>2. CASE found # {"not_allowed"} /\ found \cap {"allowed", "with_fee"} # {}
  <2>1. SummaryText(details, status) = [p \in Periods |-> Word(details[p])]
    BY <1>2 DEF SummaryText
  <2>2. \E p \in Periods : details[p] \in {"allowed", "with_fee"}
    BY <1>2
  <2> QED BY <2>1, <2>2
<1>3. CASE found # {"not_allowed"} /\ found \cap {"allowed", "with_fee"} = {}
  <2>1. SummaryText(details, status) = Both(Word(status))
    BY <1>3 DEF SummaryText
  <2>2. \A p \in Periods : details[p] \notin {"allowed", "with_fee"}
    BY <1>3, NoValueAssumption DEF Statuses
  <2> QED BY <2>1, <2>2
<1> QED BY <1>1, <1>2, <1>3

LEMMA EnrichFacts ==
    ASSUME NEW document \in Texts, NEW base, NEW kind \in Kinds,
           base = [change |-> base.change, refund |-> base.refund,
                   read |-> FALSE, summary |-> NoValue],
           Lines(document) # {}
    PROVE  LET text == Lines(document)
               verdict == Verdict(text, kind)
               e == Enrich(base, text)
           IN  /\ e.read = TRUE
               /\ e[kind] = IF verdict # NoValue THEN verdict ELSE base[kind]
               /\ e.summary[kind] = SummaryText(Details(text, kind), e[kind])
BY DEF Enrich, Kinds

\* What the parsers say of one text does not contradict each other where the
\* audit's knows it.
LEMMA SummaryAgrees ==
    ASSUME NEW document \in Texts, NEW kind \in Kinds, NEW base,
           AuditKnows(Lines(document), kind)
    PROVE  LET verdict == Verdict(Lines(document), kind)
               status == IF verdict # NoValue THEN verdict ELSE base
               summary == SummaryText(Details(Lines(document), kind), status)
           IN  /\ (\A p \in Periods : summary[p] \in {"yes", "fee"})
                    => status # "not_allowed"
               /\ (\A p \in Periods : summary[p] = "no") => status = "not_allowed"
<1> DEFINE verdict == Verdict(Lines(document), kind)
           status == IF verdict # NoValue THEN verdict ELSE base
           details == Details(Lines(document), kind)
           summary == SummaryText(details, status)
           meant(p) == Meant(document, kind, p)
<1> SUFFICES /\ (\A p \in Periods : summary[p] \in {"yes", "fee"})
                   => status # "not_allowed"
             /\ (\A p \in Periods : summary[p] = "no") => status = "not_allowed"
  OBVIOUS
<1>1. /\ verdict \in {NoValue, "allowed", "with_fee", "not_allowed"}
      /\ verdict = "not_allowed" <=>
           \E p \in Periods : meant(p) \in Prohibitions("audit")
      /\ verdict \in {"allowed", "with_fee"} =>
           \E p \in Periods : meant(p) \in Permissions("audit")
  BY VerdictFacts
<1>2. verdict # NoValue
  <2>1. /\ Spoken(Prohibitions("audit") \cup Permissions("audit"))
        /\ Says(Lines(document), kind, Prohibitions("audit") \cup Permissions("audit"))
    BY ReadersSpeak DEF AuditKnows, Readers, Spoken
  <2>2. \E p \in Periods :
          meant(p) \in Prohibitions("audit") \cup Permissions("audit")
    BY <2>1, TextSays
  <2>3. NoValue \notin {"allowed", "with_fee", "not_allowed"}
    BY NoValueAssumption DEF Statuses
  <2>4. verdict \in {"allowed", "with_fee", "not_allowed"}
    BY <2>2, VerdictFacts
  <2> QED BY <2>3, <2>4
<1>3. status = verdict
  BY <1>2
<1>4. \A p \in Periods :
        /\ details[p] \in {NoValue, "unknown", "charged", "allowed", "with_fee",
                           "not_allowed"}
        /\ details[p] = "not_allowed" => meant(p) \in Prohibitions("client")
        /\ details[p] \in {"allowed", "with_fee"} => meant(p) \in Permissions("client")
        /\ details[p] = "charged" => meant(p) \in Charges
        /\ PeriodsLost(document, kind) => details[p] = NoValue
        /\ ~PeriodsLost(document, kind) /\ Part(document, kind).form = "split" =>
             (meant(p) \notin {"silent", "absent"} => details[p] # NoValue)
  BY DetailsFacts
<1>5. \A p \in Periods :
        /\ meant(p) \in Prohibitions("audit") =>
             meant(p) \notin Permissions("client") \cup Charges
        /\ meant(p) \in Permissions("audit") =>
             /\ meant(p) \notin Prohibitions("client")
             /\ meant(p) \notin {"silent", "absent"}
  BY WordsApart DEF Readers
<1>6. Part(document, kind).form # "split" =>
        \A p \in Periods, q \in Periods : meant(p) = meant(q)
  <2>1. Part(document, kind).form # "split" =>
          Part(document, kind).after = Part(document, kind).before
    BY DocumentFacts, PartsAre
  <2> QED BY <2>1 DEF Meant, Periods
<1>7. /\ NoValue \notin {"unknown", "charged", "allowed", "with_fee", "not_allowed",
                         "included"}
      /\ "before" \in Periods /\ "after" \in Periods
  BY NoValueAssumption DEF Statuses, Periods
<1> HIDE DEF verdict, details, status, summary, meant
<1>8. CASE /\ \E p \in Periods : details[p] = "not_allowed"
           /\ \A p \in Periods : details[p] \in {NoValue, "not_allowed"}
           /\ summary = Both("no")
  <2>1. \A p \in Periods : summary[p] = "no"
    BY <1>8 DEF Both
  <2>2. ASSUME verdict \in {"allowed", "with_fee"} PROVE FALSE
    <3>1. PICK q \in Periods : meant(q) \in Permissions("audit")
      BY <1>1, <2>2
    <3>2. PICK p \in Periods : details[p] = "not_allowed"
      BY <1>8
    <3>3. meant(p) # meant(q)
      BY <1>4, <1>5, <3>1, <3>2
    <3>4. Part(document, kind).form = "split" /\ ~PeriodsLost(document, kind)
      BY <1>4, <1>6, <1>7, <3>2, <3>3
    <3>5. details[q] = "not_allowed"
      BY <1>4, <1>5, <1>8, <3>1, <3>4
    <3> QED BY <1>4, <1>5, <3>1, <3>5
  <2>3. status = "not_allowed"
    BY <1>1, <1>2, <1>3, <2>2
  <2> QED BY <1>7, <2>1, <2>3
<1>9. CASE /\ \E p \in Periods : details[p] \in {"allowed", "with_fee"}
           /\ summary = [p \in Periods |-> Word(details[p])]
  <2>1. \A p \in Periods : summary[p] = Word(details[p])
    BY <1>9
  <2>2. \E p \in Periods : summary[p] # "no"
    BY <1>9, <2>1, WordFacts
  <2>3. ASSUME \A p \in Periods : summary[p] \in {"yes", "fee"}
        PROVE  status # "not_allowed"
    <3>1. \A p \in Periods : details[p] \in {"allowed", "with_fee", "charged", "included"}
      BY <2>1, <2>3, WordFacts
    <3>2. \A p \in Periods : details[p] # "included"
      BY <1>4, <1>7
    <3>3. \A p \in Periods : meant(p) \in Permissions("client") \cup Charges
      BY <1>4, <3>1, <3>2
    <3> QED BY <1>1, <1>3, <1>5, <3>3
  <2> QED BY <2>2, <2>3
<1>10. CASE summary = Both(Word(status))
  <2>1. \A p \in Periods : summary[p] = Word(status)
    BY <1>10 DEF Both
  <2>2. /\ Word(status) \in {"yes", "fee"} => status # "not_allowed"
        /\ Word(status) = "no" => status = "not_allowed"
    BY WordFacts
  <2> QED BY <1>7, <2>1, <2>2
<1>11. \/ /\ \E p \in Periods : details[p] = "not_allowed"
          /\ \A p \in Periods : details[p] \in {NoValue, "not_allowed"}
          /\ summary = Both("no")
       \/ /\ \E p \in Periods : details[p] \in {"allowed", "with_fee"}
          /\ summary = [p \in Periods |-> Word(details[p])]
       \/ summary = Both(Word(status))
  BY SummaryCases DEF summary
<1> QED BY <1>8, <1>9, <1>10, <1>11

\* A text that forbids is told as a prohibition.
LEMMA ProhibitionTold ==
    ASSUME NEW document \in Texts, NEW kind \in Kinds, NEW base,
           Forbids(document, kind)
    PROVE  LET verdict == Verdict(Lines(document), kind)
               status == IF verdict # NoValue THEN verdict ELSE base
           IN  SummaryText(Details(Lines(document), kind), status) = Both("no")
<1> DEFINE verdict == Verdict(Lines(document), kind)
           status == IF verdict # NoValue THEN verdict ELSE base
           details == Details(Lines(document), kind)
           meant(p) == Meant(document, kind, p)
<1>1. /\ \A p \in Periods :
           meant(p) \in Prohibitions("audit") \cup Prohibitions("client")
      /\ PeriodsLost(document, kind) =>
           \E p \in Periods : meant(p) \in Prohibitions("audit")
  BY DEF Forbids
<1>2. \A p \in Periods : details[p] \notin {"allowed", "with_fee"}
  <2>1. \A p \in Periods : meant(p) \notin Permissions("client")
    BY <1>1, WordsApart DEF Readers
  <2> QED BY <2>1, DetailsFacts
<1>3. CASE \E p \in Periods : meant(p) \in Prohibitions("audit")
  <2>1. verdict = "not_allowed"
    BY <1>3, VerdictFacts
  <2>2. status = "not_allowed" /\ Word(status) = "no"
    BY <2>1, NoValueAssumption DEF Statuses, Word
  <2> QED BY <1>2, <2>2, SummaryCases
<1>4. CASE \A p \in Periods : meant(p) \notin Prohibitions("audit")
  <2>1. ~PeriodsLost(document, kind)
    BY <1>1, <1>4
  <2>2. \A p \in Periods : meant(p) = "cancellationsNotPermitted"
    BY <1>1, <1>4 DEF Prohibitions
  <2>3. kind = "refund"
    <3>1. "before" \in Periods /\ Meant(document, kind, "before") \in
            Words(kind) \cup {"silent", "absent"}
      <4>1. /\ Part(document, kind).form \in {"none", "plain", "any", "split"}
            /\ Part(document, kind).before \in Words(kind) \cup {"absent"}
        BY DocumentFacts, PartsAre
      <4> QED BY <4>1 DEF Meant, Periods
    <3> QED BY <2>2, <3>1 DEF Words, Kinds
  <2>4. \A p \in Periods : meant(p) \in Prohibitions("client")
    BY <1>1, <1>4
  <2>5. \A p \in Periods : details[p] = "not_allowed"
    BY <2>1, <2>3, <2>4, DetailsFacts
  <2>6. {details[p] : p \in Periods} \ {NoValue} = {"not_allowed"}
    <3>1. NoValue # "not_allowed" /\ "before" \in Periods
      BY NoValueAssumption DEF Statuses, Periods
    <3> HIDE DEF details
    <3> QED BY <2>5, <3>1
  <2> HIDE DEF details, status
  <2>7. SummaryText(details, status) = Both("no")
    BY <2>6 DEF SummaryText
  <2> QED BY <2>7 DEF details, status
<1> QED BY <1>3, <1>4

\* What is told as possible, the text says, or nothing and the brand does.
LEMMA PermissionStated ==
    ASSUME NEW document \in Texts, NEW kind \in Kinds, NEW base,
           NEW p \in Periods,
           LET verdict == Verdict(Lines(document), kind)
               status == IF verdict # NoValue THEN verdict ELSE base
           IN  SummaryText(Details(Lines(document), kind), status)[p]
                 \in {"yes", "fee"}
    PROVE  Word(base) \in {"yes", "fee"} \/ RulesGrant(document, kind, p)
<1> DEFINE verdict == Verdict(Lines(document), kind)
           status == IF verdict # NoValue THEN verdict ELSE base
           details == Details(Lines(document), kind)
           summary == SummaryText(details, status)
           meant(q) == Meant(document, kind, q)
           split == Part(document, kind).form = "split"
           granted == ~PeriodsLost(document, kind)
                     /\ \E q \in Periods : meant(q) \in Permissions("client")
<1>1. /\ verdict \in {NoValue, "allowed", "with_fee", "not_allowed"}
      /\ verdict \in {"allowed", "with_fee"} =>
           \E q \in Periods : meant(q) \in Permissions("audit")
  BY VerdictFacts
<1>2. \A q \in Periods :
        /\ details[q] \in {NoValue, "unknown", "charged", "allowed", "with_fee",
                           "not_allowed"}
        /\ details[q] \in {"allowed", "with_fee"} => meant(q) \in Permissions("client")
        /\ details[q] = "charged" => meant(q) \in Charges
        /\ PeriodsLost(document, kind) => details[q] = NoValue
        /\ ~PeriodsLost(document, kind) /\ split =>
             (meant(q) \in Permissions("client") => details[q] \in {"allowed", "with_fee"})
  BY DetailsFacts
<1>3. RulesGrant(document, kind, p) <=>
        IF granted THEN meant(p) \in Permissions("client") \cup Charges
        ELSE \E q \in Periods : meant(q) \in Permissions("audit")
  BY DEF RulesGrant
<1>4. NoValue \notin {"unknown", "charged", "allowed", "with_fee", "not_allowed",
                      "included"}
  BY NoValueAssumption DEF Statuses
<1>5. ~split => \A q \in Periods : meant(q) = meant(p)
  <2>1. Part(document, kind).form # "split" =>
          Part(document, kind).after = Part(document, kind).before
    BY DocumentFacts, PartsAre
  <2> QED BY <2>1 DEF Meant, Periods
<1>6. \/ summary = Both("no")
      \/ /\ \E q \in Periods : details[q] \in {"allowed", "with_fee"}
         /\ summary = [q \in Periods |-> Word(details[q])]
      \/ /\ \A q \in Periods : details[q] \notin {"allowed", "with_fee"}
         /\ summary = Both(Word(status))
  BY SummaryCases
<1>7. summary[p] \in {"yes", "fee"}
  OBVIOUS
<1>8. summary # Both("no")
  BY <1>7 DEF Both
<1> HIDE DEF verdict, details, status, summary, meant, split
<1>9. CASE /\ \E q \in Periods : details[q] \in {"allowed", "with_fee"}
           /\ summary = [q \in Periods |-> Word(details[q])]
  <2>1. granted
    BY <1>2, <1>4, <1>9
  <2>2. Word(details[p]) \in {"yes", "fee"}
    BY <1>7, <1>9
  <2>3. details[p] \in {"allowed", "with_fee", "charged"}
    BY <1>2, <1>4, <2>2, WordFacts
  <2>4. meant(p) \in Permissions("client") \cup Charges
    BY <1>2, <2>3
  <2> QED BY <1>3, <2>1, <2>4
<1>10. CASE /\ \A q \in Periods : details[q] \notin {"allowed", "with_fee"}
            /\ summary = Both(Word(status))
  <2>1. Word(status) \in {"yes", "fee"}
    BY <1>7, <1>10 DEF Both
  <2>2. CASE verdict = NoValue
    BY <2>1, <2>2 DEF status
  <2>3. CASE verdict # NoValue
    <3>1. status = verdict
      BY <2>3 DEF status
    <3>2. verdict \in {"allowed", "with_fee"}
      BY <1>1, <2>1, <2>3, <3>1, WordFacts
    <3>3. \E q \in Periods : meant(q) \in Permissions("audit")
      BY <1>1, <3>2
    <3>4. granted => meant(p) \in Permissions("client")
      <4>1. granted => ~split
        BY <1>2, <1>10
      <4> QED BY <1>5, <4>1
    <3> QED BY <1>3, <3>3, <3>4
  <2> QED BY <2>2, <2>3
<1> QED BY <1>6, <1>8, <1>9, <1>10

-----------------------------------------------------------------------------
(* The fares that are sold are fares of the option                         *)

Among(t, s) == t \in Seq(FareOption) /\ ToSet(t) \subseteq ToSet(s)

LEMMA AtAmong ==
    ASSUME NEW s \in Seq(FareOption), NEW S \in SUBSET (DOMAIN s)
    PROVE  Among(At(s, S), s)
BY AtFacts, AtSet DEF Among, ToSet

LEMMA FirstAmong ==
    ASSUME NEW s \in Seq(FareOption), NEW n \in Nat PROVE Among(First(s, n), s)
BY FirstFacts DEF Among

LEMMA ConcatAmong ==
    ASSUME NEW s, NEW t, NEW u, Among(t, s), Among(u, s) PROVE Among(t \o u, s)
BY ConcatFacts DEF Among

LEMMA AmongAmong ==
    ASSUME NEW s, NEW t, NEW u, Among(t, s), Among(u, t) PROVE Among(u, s)
BY DEF Among

LEMMA ByPriceAmong ==
    ASSUME NEW s \in Seq(FareOption) PROVE Among(ByPrice(s), s)
<1> DEFINE keys == [i \in DOMAIN s |-> <<s[i].price>>]
<1>1. keys \in [DOMAIN s -> Keys(1)]
  <2>1. \A i \in DOMAIN s : s[i].price \in Nat
    <3>1. \A f \in FareOption : f.price \in Nat
      BY DEF FareOption
    <3>2. \A i \in DOMAIN s : s[i] \in FareOption
      OBVIOUS
    <3> QED BY <3>1, <3>2
  <2> QED BY <2>1 DEF Keys
<1> QED BY <1>1, SortedIsAList DEF ByPrice, Among

LEMMA LadderAmong ==
    ASSUME NEW s \in Seq(FareOption) PROVE Among(Ladder(s), s)
<1> DEFINE branded == At(s, {i \in DOMAIN s : s[i].brand # NoValue})
           lowest(i) == \A j \in 1..(i - 1) : branded[j].brand # branded[i].brand
<1>1. Among(branded, s)
  BY AtAmong
<1> HIDE DEF branded
<1>2. Among(At(branded, {i \in DOMAIN branded : lowest(i)}), branded)
  BY <1>1, AtAmong DEF Among
<1>3. Among(First(s, 1), s)
  BY FirstAmong
<1>4. Ladder(s) \in {First(s, 1), At(branded, {i \in DOMAIN branded : lowest(i)})}
  BY DEF Ladder, branded
<1> QED BY <1>1, <1>2, <1>3, <1>4, AmongAmong

LEMMA CompactAmong ==
    ASSUME NEW s \in Seq(FareOption) PROVE Among(CompactEconomy(s), s)
<1> DEFINE rest == At(s, DOMAIN s \ {1})
           flexible == At(rest, {i \in DOMAIN rest : rest[i].brand = "FLEX"})
           second == IF flexible # <<>> THEN flexible ELSE rest
<1>1. Among(rest, s)
  BY AtAmong
<1>2. Among(flexible, rest)
  <2> HIDE DEF rest
  <2> QED BY <1>1, AtAmong DEF Among
<1>3. Among(second, s)
  <2> HIDE DEF rest, flexible
  <2> QED BY <1>1, <1>2, AmongAmong
<1> HIDE DEF second
<1>4. Among(First(second, 1), s)
  BY <1>3, FirstAmong, AmongAmong DEF Among
<1>5. Among(First(s, 1), s)
  BY FirstAmong
<1>6. CompactEconomy(s) = First(s, 1) \o First(second, 1)
  BY DEF CompactEconomy, second
<1> QED BY <1>4, <1>5, <1>6, ConcatAmong

LEMMA SoldAmong ==
    ASSUME NEW option, option.fares \in Seq(FareOption), NEW requested
    PROVE  Among(CommercialFares(option, requested), option.fares)
<1> DEFINE s == option.fares
           of(cabin) == OfCabin(ByPrice(s), cabin)
           upper(cabin) == IF cabin \in requested THEN Ladder(of(cabin))
                                                  ELSE First(of(cabin), 1)
           selected == CompactEconomy(of("economy")) \o upper("premium")
                       \o upper("business") \o upper("first")
<1>1. ASSUME NEW cabin PROVE Among(of(cabin), s)
  <2>1. Among(ByPrice(s), s)
    BY ByPriceAmong
  <2>2. Among(of(cabin), ByPrice(s))
    BY <2>1, AtAmong DEF OfCabin, Among
  <2> QED BY <2>1, <2>2, AmongAmong
<1> HIDE DEF of
<1>2. ASSUME NEW cabin PROVE Among(upper(cabin), s)
  <2>1. of(cabin) \in Seq(FareOption)
    BY <1>1 DEF Among
  <2>2. Among(upper(cabin), of(cabin))
    BY <2>1, LadderAmong, FirstAmong
  <2> QED BY <1>1, <2>2, AmongAmong
<1>3. Among(CompactEconomy(of("economy")), s)
  <2>1. of("economy") \in Seq(FareOption)
    BY <1>1 DEF Among
  <2> QED BY <1>1, <2>1, CompactAmong, AmongAmong
<1> HIDE DEF upper
<1>4. Among(selected, s)
  <2>1. Among(CompactEconomy(of("economy")) \o upper("premium"), s)
    BY <1>2, <1>3, ConcatAmong
  <2>2. Among(CompactEconomy(of("economy")) \o upper("premium")
              \o upper("business"), s)
    BY <1>2, <2>1, ConcatAmong
  <2> QED BY <1>2, <2>2, ConcatAmong
<1>5. Among(First(s, 1), s)
  BY FirstAmong
<1>6. CommercialFares(option, requested) \in {selected, First(s, 1)}
  BY DEF CommercialFares, of, upper
<1> QED BY <1>4, <1>5, <1>6

-----------------------------------------------------------------------------
(* The invariant                                                           *)

\* What was parsed for a fare basis is the text of rules that were read for it.
ReadFrom(code) ==
    \/ parsed[code] = {}
    \/ \E query \in DOMAIN rules :
         query[2] = code /\ parsed[code] = Lines(rules[query])

\* The audit and what is told are made of what was parsed.
RulesInv ==
    /\ quote \in Quotes
    /\ \A query \in todo : query[2] \in DOMAIN Documents
    /\ \A query \in DOMAIN rules : rules[query] \in Texts
    /\ \A code \in DOMAIN parsed : ReadFrom(code)
    /\ phase \in {"start", "lookup", "audited", "told"}
    /\ phase = "start" => parsed = NoAnswers
    /\ audit = IF phase \in {"audited", "told"} THEN AuditAll(parsed) ELSE <<>>
    /\ told = IF phase = "told" THEN Telling ELSE <<>>

LEMMA QuoteFacts ==
    ASSUME quote \in Quotes, NEW i \in DOMAIN Chosen
    PROVE  /\ Chosen[i].fares \in Seq(FareOption)
           /\ quote.selected[i] \in 0..Len(CommercialFares(Chosen[i], quote.requested))
BY RulesAssumption DEF Chosen

LEMMA AuditedAmong ==
    ASSUME quote \in Quotes, NEW i \in DOMAIN Chosen
    PROVE  /\ Audited(Chosen[i]) \in Seq(FareOption)
           /\ ToSet(Audited(Chosen[i])) \subseteq ToSet(Chosen[i].fares)
BY QuoteFacts, SoldAmong DEF Audited, Among

LEMMA QueriesKnown ==
    ASSUME quote \in Quotes, NEW query \in Queries
    PROVE  query[2] \in DOMAIN Documents
<1>1. PICK i \in DOMAIN Chosen : query[2] \in BasisOf(Audited(Chosen[i]))
  BY DEF Queries
<1>2. PICK k \in DOMAIN Audited(Chosen[i]) :
        query[2] \in ToSet(Audited(Chosen[i])[k].basis)
  BY <1>1 DEF BasisOf
<1>3. Audited(Chosen[i])[k] \in FareOption
  BY AuditedAmong
<1>4. Audited(Chosen[i])[k].basis \in Seq(DOMAIN Documents)
  BY <1>3 DEF FareOption
<1> QED BY <1>2, <1>4 DEF ToSet

LEMMA ShownAmong ==
    ASSUME quote \in Quotes, NEW i \in DOMAIN Chosen, NEW k \in DOMAIN Shown(i)
    PROVE  Shown(i)[k] \in ToSet(Chosen[i].fares)
<1> DEFINE fares == CommercialFares(Chosen[i], quote.requested)
           selected == quote.selected[i]
<1>1. fares \in Seq(FareOption) /\ ToSet(fares) \subseteq ToSet(Chosen[i].fares)
  BY QuoteFacts, SoldAmong DEF Among
<1>2. selected \in 0..Len(fares)
  BY QuoteFacts
<1>3. Shown(i) = IF selected = 0 THEN fares ELSE <<fares[selected]>>
  BY DEF Shown
<1> HIDE DEF fares, selected
<1>4. CASE selected = 0
  BY <1>1, <1>3, <1>4 DEF ToSet
<1>5. CASE selected # 0
  <2>1. selected \in DOMAIN fares
    BY <1>1, <1>2, <1>5
  <2>2. Shown(i)[k] = fares[selected]
    BY <1>3, <1>5
  <2> QED BY <1>1, <2>1, <2>2 DEF ToSet
<1> QED BY <1>4, <1>5

LEMMA RulesInitially == RulesInit => RulesInv
BY DEF RulesInit, RulesInv, NoAnswers

LEMMA OpenSessionKeeps == RulesInv /\ OpenSession => RulesInv'
<1> SUFFICES ASSUME RulesInv, OpenSession PROVE RulesInv'
  OBVIOUS
<1>1. /\ quote' = quote /\ rules' = rules /\ parsed' = parsed /\ told' = told
      /\ phase = "start"
  BY DEF OpenSession
<1>2. /\ quote \in Quotes /\ parsed = NoAnswers /\ told = <<>> /\ audit = <<>>
      /\ \A query \in todo : query[2] \in DOMAIN Documents
      /\ \A query \in DOMAIN rules : rules[query] \in Texts
      /\ \A code \in DOMAIN parsed : ReadFrom(code)
  BY <1>1 DEF RulesInv
<1>3. AuditAll(NoAnswers)' = AuditAll(NoAnswers)
  BY <1>1 DEF AuditAll, Chosen, NoAnswers
<1>4. \/ phase' = "lookup" /\ todo' = Queries /\ audit' = audit
      \/ phase' = "audited" /\ todo' = todo /\ audit' = AuditAll(NoAnswers)
  BY DEF OpenSession
<1>5. \A query \in todo' : query[2] \in DOMAIN Documents
  BY <1>2, <1>4, QueriesKnown
<1>6. \A code \in DOMAIN parsed' : ReadFrom(code)'
  BY <1>1, <1>2 DEF ReadFrom
<1>7. audit' = IF phase' \in {"audited", "told"} THEN AuditAll(parsed)' ELSE <<>>
  BY <1>1, <1>2, <1>3, <1>4 DEF AuditAll
<1> QED BY <1>1, <1>2, <1>4, <1>5, <1>6, <1>7 DEF RulesInv

LEMMA LookUpKeeps == RulesInv /\ LookUp => RulesInv'
<1> SUFFICES ASSUME RulesInv, LookUp PROVE RulesInv'
  OBVIOUS
<1> DEFINE query == CHOOSE q \in todo : TRUE
<1>1. /\ quote' = quote /\ phase = "lookup" /\ phase' = phase
      /\ audit' = audit /\ told' = told /\ todo' \subseteq todo /\ query \in todo
  BY DEF LookUp
<1>2. /\ quote \in Quotes /\ told = <<>> /\ audit = <<>>
      /\ \A q \in todo : q[2] \in DOMAIN Documents
      /\ \A q \in DOMAIN rules : rules[q] \in Texts
      /\ \A code \in DOMAIN parsed : ReadFrom(code)
  BY <1>1 DEF RulesInv
<1>3. \/ rules' = rules /\ parsed' = parsed
      \/ rules' = rules /\ parsed' = With(parsed, query[2], {})
      \/ \E document \in Documents[query[2]] :
           /\ parsed' = With(parsed, query[2], Lines(document))
           /\ rules' = With(rules, query, document)
  BY DEF LookUp
<1> HIDE DEF query
<1>4. Documents[query[2]] \subseteq Texts
  BY <1>1, <1>2, RulesAssumption
<1>5. /\ \A q \in DOMAIN rules' : rules'[q] \in Texts
      /\ \A code \in DOMAIN parsed' : ReadFrom(code)'
  <2>1. CASE rules' = rules /\ parsed' = parsed
    BY <1>2, <2>1 DEF ReadFrom
  <2>2. CASE rules' = rules /\ parsed' = With(parsed, query[2], {})
    BY <1>2, <2>2 DEF ReadFrom, With
  <2>3. ASSUME NEW document \in Documents[query[2]],
               parsed' = With(parsed, query[2], Lines(document)),
               rules' = With(rules, query, document)
        PROVE  /\ \A q \in DOMAIN rules' : rules'[q] \in Texts
               /\ \A code \in DOMAIN parsed' : ReadFrom(code)'
    <3>1. \A q \in DOMAIN rules' : rules'[q] \in Texts
      BY <1>2, <1>4, <2>3 DEF With
    <3>2. ASSUME NEW code \in DOMAIN parsed' PROVE ReadFrom(code)'
      <4>1. CASE code = query[2]
        <5>1. parsed'[code] = Lines(document)
          BY <2>3, <4>1 DEF With
        <5>2. query \in DOMAIN rules' /\ rules'[query] = document
          BY <2>3 DEF With
        <5> QED BY <4>1, <5>1, <5>2 DEF ReadFrom
      <4>2. CASE code # query[2]
        <5>1. code \in DOMAIN parsed /\ parsed'[code] = parsed[code]
          BY <2>3, <3>2, <4>2 DEF With
        <5>2. \A q \in DOMAIN rules :
                q[2] = code => q \in DOMAIN rules' /\ rules'[q] = rules[q]
          BY <2>3, <4>2 DEF With
        <5>3. ReadFrom(code)
          BY <1>2, <5>1
        <5> QED BY <5>1, <5>2, <5>3 DEF ReadFrom
      <4> QED BY <4>1, <4>2
    <3> QED BY <3>1, <3>2
  <2> QED BY <1>3, <2>1, <2>2, <2>3
<1> QED BY <1>1, <1>2, <1>5 DEF RulesInv

LEMMA ConcludeKeeps == RulesInv /\ Conclude => RulesInv'
<1> SUFFICES ASSUME RulesInv, Conclude PROVE RulesInv'
  OBVIOUS
<1>1. /\ quote' = quote /\ rules' = rules /\ parsed' = parsed /\ told' = told
      /\ todo' = todo /\ phase = "lookup" /\ phase' = "audited"
      /\ audit' = AuditAll(parsed)
  BY DEF Conclude
<1>2. AuditAll(parsed)' = AuditAll(parsed)
  BY <1>1 DEF AuditAll, Chosen
<1>3. \A code \in DOMAIN parsed' : ReadFrom(code)'
  BY <1>1 DEF ReadFrom, RulesInv
<1> QED BY <1>1, <1>2, <1>3 DEF RulesInv

LEMMA TellKeeps == RulesInv /\ Tell => RulesInv'
<1> SUFFICES ASSUME RulesInv, Tell PROVE RulesInv'
  OBVIOUS
<1>1. /\ quote' = quote /\ rules' = rules /\ parsed' = parsed /\ audit' = audit
      /\ todo' = todo /\ phase = "audited" /\ phase' = "told" /\ told' = Telling
  BY DEF Tell
<1>2. AuditAll(parsed)' = AuditAll(parsed)
  BY <1>1 DEF AuditAll, Chosen
<1>3. Telling' = Telling
  BY <1>1 DEF Telling, Shown, Chosen
<1>4. \A code \in DOMAIN parsed' : ReadFrom(code)'
  BY <1>1 DEF ReadFrom, RulesInv
<1> QED BY <1>1, <1>2, <1>3, <1>4 DEF RulesInv

LEMMA RulesStay == RulesInv /\ UNCHANGED ruleVars => RulesInv'
BY DEF RulesInv, ruleVars, ReadFrom, AuditAll, Telling, Shown, Chosen

LEMMA RulesHold == RulesSpec => []RulesInv
<1>1. RulesInv /\ [RulesNext]_ruleVars => RulesInv'
  BY OpenSessionKeeps, LookUpKeeps, ConcludeKeeps, TellKeeps, RulesStay DEF RulesNext
<1> QED BY RulesInitially, <1>1, PTL DEF RulesSpec

-----------------------------------------------------------------------------
(* The properties                                                          *)

\* An audit with rules was made of a text that was read for a fare basis.
LEMMA AuditFacts ==
    ASSUME RulesInv, NEW i \in DOMAIN audit
    PROVE  /\ i \in DOMAIN Chosen
           /\ DOMAIN audit[i] = DOMAIN Audited(Chosen[i])
           /\ \A k \in DOMAIN audit[i] :
                LET fare == Audited(Chosen[i])[k]
                IN  /\ audit[i][k] = AuditWith(fare, parsed)
                    /\ fare \in FareOption
<1>1. audit = AuditAll(parsed)
  BY DEF RulesInv
<1>2. i \in DOMAIN Chosen
  BY <1>1 DEF AuditAll
<1>3. Audited(Chosen[i]) \in Seq(FareOption)
  BY <1>2, AuditedAmong DEF RulesInv
<1> QED BY <1>1, <1>2, <1>3 DEF AuditAll

LEMMA AuditReads ==
    ASSUME RulesInv, NEW fare \in FareOption, AuditWith(fare, parsed).read = TRUE
    PROVE  \E query \in DOMAIN rules :
             /\ query[2] \in ToSet(fare.basis) /\ rules[query] \in Texts
             /\ Answer(fare, parsed) = Lines(rules[query])
             /\ Lines(rules[query]) # {}
             /\ AuditWith(fare, parsed) =
                  Enrich(AuditFare(fare), Lines(rules[query]))
<1> DEFINE known == Answered(fare, parsed)
           code == fare.basis[Min(known)]
<1>1. AuditFare(fare).read = FALSE
  BY DEF AuditFare
<1>2. AuditWith(fare, parsed) = IF known = {} THEN AuditFare(fare)
                                ELSE Enrich(AuditFare(fare), parsed[code])
  BY DEF AuditWith, Answer
<1>3. known # {}
  BY <1>1, <1>2
<1>4. fare.basis \in Seq(DOMAIN Documents)
  BY DEF FareOption
<1>5. Min(known) \in known
  <2>1. known \in SUBSET Nat
    BY <1>4 DEF Answered
  <2> HIDE DEF known
  <2> QED BY <1>3, <2>1, MinIsLeast
<1>6. code \in ToSet(fare.basis) /\ code \in DOMAIN parsed
  BY <1>5 DEF ToSet, Answered
<1>7. Answer(fare, parsed) = parsed[code]
  BY DEF Answer
<1> HIDE DEF code, known
<1>8. AuditWith(fare, parsed) = Enrich(AuditFare(fare), parsed[code])
  BY <1>2, <1>3
<1>9. parsed[code] # {}
  BY <1>1, <1>8 DEF Enrich
<1>10. PICK query \in DOMAIN rules :
         query[2] = code /\ parsed[code] = Lines(rules[query])
  BY <1>6, <1>9 DEF RulesInv, ReadFrom
<1> QED BY <1>6, <1>7, <1>8, <1>9, <1>10 DEF RulesInv

LEMMA EnrichedFare ==
    ASSUME NEW document \in Texts, NEW fare, NEW kind \in Kinds,
           Lines(document) # {}
    PROVE  LET verdict == Verdict(Lines(document), kind)
               base == AuditFare(fare)[kind]
               e == Enrich(AuditFare(fare), Lines(document))
           IN  /\ e.read = TRUE
               /\ e[kind] = IF verdict # NoValue THEN verdict ELSE base
               /\ e.summary[kind] = SummaryText(Details(Lines(document), kind), e[kind])
<1> DEFINE base == AuditFare(fare)
<1>1. base = [change |-> base.change, refund |-> base.refund,
              read |-> FALSE, summary |-> NoValue]
  BY DEF AuditFare
<1> HIDE DEF base
<1>2. LET verdict == Verdict(Lines(document), kind)
          e == Enrich(base, Lines(document))
      IN  /\ e.read = TRUE
          /\ e[kind] = IF verdict # NoValue THEN verdict ELSE base[kind]
          /\ e.summary[kind] = SummaryText(Details(Lines(document), kind), e[kind])
  BY <1>1, EnrichFacts
<1> QED BY <1>2 DEF base

LEMMA Agreed == RulesInv => AgentAndClientAgree
<1> SUFFICES ASSUME RulesInv, NEW i \in DOMAIN audit, NEW k \in DOMAIN audit[i],
                    audit[i][k].read, NEW kind \in Kinds,
                    AuditKnows(Answer(Audited(Chosen[i])[k], parsed), kind)
             PROVE  LET words == {audit[i][k].summary[kind][p] : p \in Periods}
                    IN  /\ words \subseteq {"yes", "fee"} =>
                             audit[i][k][kind] # "not_allowed"
                        /\ words = {"no"} => audit[i][k][kind] = "not_allowed"
  BY DEF AgentAndClientAgree
<1> DEFINE fare == Audited(Chosen[i])[k]
<1>1. /\ fare \in FareOption /\ audit[i][k] = AuditWith(fare, parsed)
      /\ AuditKnows(Answer(fare, parsed), kind)
  BY AuditFacts
<1> HIDE DEF fare
<1>2. AuditWith(fare, parsed).read = TRUE
  <2>1. AuditWith(fare, parsed).read \in BOOLEAN
    BY DEF AuditWith, AuditFare, Enrich
  <2> QED BY <1>1, <2>1
<1>3. PICK query \in DOMAIN rules :
        /\ rules[query] \in Texts /\ Lines(rules[query]) # {}
        /\ AuditKnows(Lines(rules[query]), kind)
        /\ audit[i][k] = Enrich(AuditFare(fare), Lines(rules[query]))
  BY <1>1, <1>2, AuditReads
<1> DEFINE verdict == Verdict(Lines(rules[query]), kind)
           status == IF verdict # NoValue THEN verdict ELSE AuditFare(fare)[kind]
           summary == SummaryText(Details(Lines(rules[query]), kind), status)
<1>4. audit[i][k][kind] = status /\ audit[i][k].summary[kind] = summary
  <2> DEFINE e == Enrich(AuditFare(fare), Lines(rules[query]))
  <2>1. /\ e[kind] = status
        /\ e.summary[kind] = SummaryText(Details(Lines(rules[query]), kind), e[kind])
    BY <1>3, EnrichedFare
  <2>2. audit[i][k] = e
    BY <1>3
  <2> HIDE DEF e, status
  <2> QED BY <2>1, <2>2
<1>5. /\ (\A p \in Periods : summary[p] \in {"yes", "fee"}) => status # "not_allowed"
      /\ (\A p \in Periods : summary[p] = "no") => status = "not_allowed"
  BY ZenonT(40), <1>3, SummaryAgrees
<1> HIDE DEF status, summary
<1> DEFINE words == {audit[i][k].summary[kind][p] : p \in Periods}
<1>6. words = {summary[p] : p \in Periods}
  BY <1>4
<1>7. Periods # {}
  BY DEF Periods
<1>8. words \subseteq {"yes", "fee"} => status # "not_allowed"
  BY <1>5, <1>6
<1>9. words = {"no"} => status = "not_allowed"
  BY <1>5, <1>6
<1> QED BY <1>4, <1>8, <1>9

\* What a fare is told is of its brand, or of the rules of a fare alike.
LEMMA ToldFacts ==
    ASSUME RulesInv, NEW i \in DOMAIN told
    PROVE  /\ i \in DOMAIN Chosen /\ i \in DOMAIN audit
           /\ DOMAIN told[i] = DOMAIN Shown(i)
           /\ \A k \in DOMAIN told[i] :
                LET fare == Shown(i)[k]
                    audited == Audited(Chosen[i])
                    same == {l \in DOMAIN audited :
                               /\ audited[l].brand = fare.brand
                               /\ audited[l].price = fare.price
                               /\ audit[i][l].read}
                IN  /\ fare \in Alike(Chosen[i], fare)
                    /\ \A l \in same : audited[l] \in Alike(Chosen[i], fare)
                    /\ same = {} => told[i][k] = BrandText(fare)
                    /\ same # {} => \E l \in same : told[i][k] = audit[i][l].summary
<1>1. /\ phase = "told" /\ told = Telling /\ audit = AuditAll(parsed)
      /\ quote \in Quotes
  BY DEF RulesInv
<1>2. /\ i \in DOMAIN Chosen /\ i \in DOMAIN audit
      /\ DOMAIN told[i] = DOMAIN Shown(i)
  BY <1>1 DEF Telling, AuditAll
<1>3. ASSUME NEW k \in DOMAIN told[i]
      PROVE  LET fare == Shown(i)[k]
                 audited == Audited(Chosen[i])
                 same == {l \in DOMAIN audited :
                            /\ audited[l].brand = fare.brand
                            /\ audited[l].price = fare.price
                            /\ audit[i][l].read}
             IN  /\ fare \in Alike(Chosen[i], fare)
                 /\ \A l \in same : audited[l] \in Alike(Chosen[i], fare)
                 /\ same = {} => told[i][k] = BrandText(fare)
                 /\ same # {} => \E l \in same : told[i][k] = audit[i][l].summary
  <2> DEFINE fare == Shown(i)[k]
             audited == Audited(Chosen[i])
             same == {l \in DOMAIN audited :
                        /\ audited[l].brand = fare.brand
                        /\ audited[l].price = fare.price
                        /\ audit[i][l].read}
  <2>1. fare \in Alike(Chosen[i], fare)
    BY <1>1, <1>2, ShownAmong DEF Alike
  <2>2. audited \in Seq(FareOption) /\ ToSet(audited) \subseteq ToSet(Chosen[i].fares)
    BY <1>1, <1>2, AuditedAmong
  <2>3. \A l \in same : audited[l] \in Alike(Chosen[i], fare)
    <3> HIDE DEF audited, fare
    <3> QED BY <2>2 DEF Alike, ToSet
  <2>4. told[i][k] = Text(fare, audited, audit[i])
    BY <1>1, <1>2 DEF Telling
  <2>5. told[i][k] = IF same = {} THEN BrandText(fare) ELSE audit[i][Max(same)].summary
    BY <2>4 DEF Text
  <2>6. same # {} => Max(same) \in same
    <3>1. same \in SUBSET (1..Len(audited)) /\ Len(audited) \in Nat
      BY <2>2
    <3> HIDE DEF same, audited
    <3> QED BY <3>1, MaxIsGreatest
  <2> HIDE DEF same
  <2>7. /\ same = {} => told[i][k] = BrandText(fare)
        /\ same # {} => \E l \in same : told[i][k] = audit[i][l].summary
    BY <2>5, <2>6
  <2> QED BY <2>1, <2>3, <2>7 DEF same
<1> QED BY <1>2, <1>3

\* Enriched by rules that forbid, a fare's summary prohibits.
LEMMA ProhibitionEnriched ==
    ASSUME NEW fare \in FareOption, NEW kind \in Kinds, NEW document \in Texts,
           Lines(document) # {}, Forbids(document, kind)
    PROVE  Enrich(AuditFare(fare), Lines(document)).summary[kind] = Both("no")
<1> DEFINE e == Enrich(AuditFare(fare), Lines(document))
           verdict == Verdict(Lines(document), kind)
           base == AuditFare(fare)[kind]
<1>1. /\ e[kind] = IF verdict # NoValue THEN verdict ELSE base
      /\ e.summary[kind] = SummaryText(Details(Lines(document), kind), e[kind])
  BY EnrichedFare
<1>2. SummaryText(Details(Lines(document), kind),
                  IF verdict # NoValue THEN verdict ELSE base) = Both("no")
  BY ProhibitionTold
<1> HIDE DEF e, verdict, base
<1>3. e.summary[kind] = Both("no")
  BY <1>1, <1>2
<1> QED BY <1>3 DEF e

LEMMA Beaten == RulesInv => RuleBeatsBrand
<1> SUFFICES ASSUME RulesInv, NEW i \in DOMAIN told, NEW k \in DOMAIN told[i],
                    NEW kind \in Kinds, NEW fare, fare = Shown(i)[k],
                    NEW code, code = fare.basis[1],
                    fare \in ToSet(Audited(Chosen[i])),
                    Alike(Chosen[i], fare) = {fare}, Len(fare.basis) = 1,
                    code \in DOMAIN parsed, parsed[code] # {},
                    \A query \in DOMAIN rules :
                      query[2] = code => Forbids(rules[query], kind)
             PROVE  told[i][k][kind] = Both("no")
  BY DEF RuleBeatsBrand
<1> DEFINE audited == Audited(Chosen[i])
           same == {l \in DOMAIN audited : /\ audited[l].brand = fare.brand
                                           /\ audited[l].price = fare.price
                                           /\ audit[i][l].read}
<1>1. /\ i \in DOMAIN audit
      /\ \A l \in same : audited[l] \in Alike(Chosen[i], fare)
      /\ same # {} => \E l \in same : told[i][k] = audit[i][l].summary
  BY ToldFacts
<1>2. /\ DOMAIN audit[i] = DOMAIN audited
      /\ \A l \in DOMAIN audited : /\ audit[i][l] = AuditWith(audited[l], parsed)
                                   /\ audited[l] \in FareOption
  BY <1>1, AuditFacts
<1>3. PICK m \in DOMAIN audited : audited[m] = fare
  BY DEF ToSet
<1>4. fare \in FareOption
  BY <1>2, <1>3
<1>5. fare.basis \in Seq(DOMAIN Documents)
  BY <1>4 DEF FareOption
<1>6. DOMAIN fare.basis = {1} /\ ToSet(fare.basis) = {code}
  <2>1. DOMAIN fare.basis = 1..1 /\ 1..1 = {1}
    BY <1>5
  <2> QED BY <2>1 DEF ToSet
<1>7. AuditWith(fare, parsed).read = TRUE
  <2> DEFINE known == Answered(fare, parsed)
  <2>1. known = {1}
    BY <1>6 DEF Answered
  <2>2. Min(known) = 1
    BY <2>1, MinIsLeast
  <2>3. AuditWith(fare, parsed) = Enrich(AuditFare(fare), parsed[code])
    BY <2>1, <2>2 DEF AuditWith, Answer
  <2> QED BY <2>3 DEF Enrich
<1>8. same # {}
  BY <1>2, <1>3, <1>7
<1>9. PICK l \in same : told[i][k] = audit[i][l].summary
  BY <1>1, <1>8
<1>10. audited[l] = fare /\ audit[i][l] = AuditWith(fare, parsed)
  BY <1>1, <1>2, <1>9
<1> HIDE DEF same, audited
<1>11. PICK query \in DOMAIN rules :
         /\ query[2] \in ToSet(fare.basis) /\ rules[query] \in Texts
         /\ Lines(rules[query]) # {}
         /\ AuditWith(fare, parsed) = Enrich(AuditFare(fare), Lines(rules[query]))
  BY <1>4, <1>7, AuditReads
<1> DEFINE document == rules[query]
<1>12. Forbids(document, kind)
  BY <1>6, <1>11
<1>13. document \in Texts /\ Lines(document) # {}
  BY <1>11
<1> HIDE DEF document
<1>14. Enrich(AuditFare(fare), Lines(document)).summary[kind] = Both("no")
  BY <1>4, <1>12, <1>13, ProhibitionEnriched
<1>15. told[i][k] = Enrich(AuditFare(fare), Lines(document)).summary
  BY <1>9, <1>10, <1>11 DEF document
<1> QED BY <1>14, <1>15

LEMMA BrandAllows ==
    ASSUME NEW fare \in FareOption, NEW kind \in Kinds,
           Word(AuditFare(fare)[kind]) \in {"yes", "fee"}
    PROVE  BrandGrants(fare[kind])
<1>1. AuditFare(fare)[kind] \in {"included", "allowed", "with_fee", "charged"}
  BY WordFacts
<1>2. AuditFare(fare)[kind] \in {BrandStatus(fare[kind]), "unknown", "not_allowed"}
  <2>1. AuditFare(fare).change = BrandStatus(fare.change)
    BY DEF AuditFare
  <2>2. RefundStatus(fare) \in {BrandStatus(fare.refund), "unknown", "not_allowed"}
    BY DEF RefundStatus
  <2>3. AuditFare(fare).refund = RefundStatus(fare)
    BY DEF AuditFare
  <2> QED BY <2>1, <2>2, <2>3 DEF Kinds
<1>3. BrandStatus(fare[kind]) \in {"included", "allowed", "with_fee", "charged"}
  BY <1>1, <1>2
<1>4. \A features : BrandStatus(features) \in {"included", "allowed", "with_fee", "charged"}
                      => BrandGrants(features)
  <2> SUFFICES ASSUME NEW features, ~BrandGrants(features)
               PROVE  BrandStatus(features) \in {"not_allowed", "unknown"}
    OBVIOUS
  <2>1. \A p \in Periods : features[p] \notin {"F", "C"}
    BY DEF BrandGrants
  <2> QED BY <2>1 DEF BrandStatus
<1> QED BY <1>3, <1>4

LEMMA Sourced == RulesInv => PermissionHasASource
<1> SUFFICES ASSUME RulesInv, NEW i \in DOMAIN told, NEW k \in DOMAIN told[i],
                    NEW kind \in Kinds, NEW p \in Periods,
                    told[i][k][kind][p] \in {"yes", "fee"}
             PROVE  \E fare \in Alike(Chosen[i], Shown(i)[k]) :
                      \/ BrandGrants(fare[kind])
                      \/ \E query \in DOMAIN rules :
                           /\ query[2] \in ToSet(fare.basis)
                           /\ RulesGrant(rules[query], kind, p)
  BY DEF PermissionHasASource
<1> DEFINE sold == Shown(i)[k]
           audited == Audited(Chosen[i])
           same == {l \in DOMAIN audited : /\ audited[l].brand = sold.brand
                                           /\ audited[l].price = sold.price
                                           /\ audit[i][l].read}
<1>1. /\ i \in DOMAIN audit /\ i \in DOMAIN Chosen
      /\ sold \in Alike(Chosen[i], sold)
      /\ \A l \in same : audited[l] \in Alike(Chosen[i], sold)
      /\ same = {} => told[i][k] = BrandText(sold)
      /\ same # {} => \E l \in same : told[i][k] = audit[i][l].summary
  BY ToldFacts
<1>2. CASE same = {}
  <2>1. told[i][k][kind] = Both(Word(AuditFare(sold)[kind]))
    BY <1>1, <1>2 DEF BrandText, Kinds
  <2>2. Word(AuditFare(sold)[kind]) \in {"yes", "fee"}
    BY <2>1 DEF Both
  <2>3. sold \in FareOption
    <3>1. Chosen[i].fares \in Seq(FareOption)
      BY <1>1, QuoteFacts DEF RulesInv
    <3> QED BY <1>1, <3>1 DEF Alike, ToSet
  <2>4. BrandGrants(sold[kind])
    BY <2>2, <2>3, BrandAllows
  <2> QED BY <1>1, <2>4
<1>3. CASE same # {}
  <2>1. PICK l \in same : told[i][k] = audit[i][l].summary
    BY <1>1, <1>3
  <2> DEFINE fare == audited[l]
  <2>2. /\ fare \in Alike(Chosen[i], sold) /\ fare \in FareOption
        /\ audit[i][l] = AuditWith(fare, parsed)
    BY <1>1, <2>1, AuditFacts
  <2>3. AuditWith(fare, parsed).read = TRUE
    <3>1. AuditWith(fare, parsed).read
      BY <2>1, <2>2
    <3>2. AuditWith(fare, parsed).read \in BOOLEAN
      BY DEF AuditWith, AuditFare, Enrich
    <3> QED BY <3>1, <3>2
  <2> HIDE DEF fare, same, audited
  <2>4. PICK query \in DOMAIN rules :
          /\ query[2] \in ToSet(fare.basis) /\ rules[query] \in Texts
          /\ Lines(rules[query]) # {}
          /\ AuditWith(fare, parsed) = Enrich(AuditFare(fare), Lines(rules[query]))
    BY <2>2, <2>3, AuditReads
  <2> DEFINE document == rules[query]
             e == Enrich(AuditFare(fare), Lines(document))
             verdict == Verdict(Lines(document), kind)
             base == AuditFare(fare)[kind]
  <2>5. /\ e[kind] = IF verdict # NoValue THEN verdict ELSE base
        /\ e.summary[kind] = SummaryText(Details(Lines(document), kind), e[kind])
    BY <2>4, EnrichedFare
  <2>6. told[i][k][kind] = e.summary[kind]
    BY <2>1, <2>2, <2>4
  <2>7. SummaryText(Details(Lines(document), kind),
                    IF verdict # NoValue THEN verdict ELSE base)[p] \in {"yes", "fee"}
    <3> HIDE DEF e, verdict, base, document
    <3> QED BY <2>5, <2>6
  <2>8. \/ Word(base) \in {"yes", "fee"}
        \/ RulesGrant(document, kind, p)
    BY <2>4, <2>7, PermissionStated
  <2>9. Word(base) \in {"yes", "fee"} => BrandGrants(fare[kind])
    BY <2>2, BrandAllows
  <2> QED BY <2>2, <2>4, <2>8, <2>9
<1> QED BY <1>2, <1>3

-----------------------------------------------------------------------------
(* The theorems                                                            *)

\* Whatever category 16 says of a fare basis, in words the audit's parser
\* knows, that parser and the one of the periods do not contradict each other.
THEOREM ParsersAgree == RulesSpec => []AgentAndClientAgree
BY RulesHold, Agreed, PTL

\* Rules that were read and forbid, in words one of the parsers knows, are
\* told, whatever the brand says.
THEOREM RulesWin == RulesSpec => []RuleBeatsBrand
BY RulesHold, Beaten, PTL

\* Whichever lookups fail, nothing is promised without a source.
THEOREM PromisesHaveSources == RulesSpec => []PermissionHasASource
BY RulesHold, Sourced, PTL
=============================================================================
