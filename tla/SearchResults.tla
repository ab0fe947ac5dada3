--------------------------- MODULE SearchResults ---------------------------
(***************************************************************************)
(* What search_quote makes of Sabre's answers: cabin after cabin and       *)
(* currency after currency they are filtered and merged, then filtered by  *)
(* refunds and times, ranked, diversified by carrier and cut into the page *)
(* that is shown and the candidates behind it.  SearchCalls has the calls. *)
(***************************************************************************)
EXTENDS Integers, Sequences, FiniteSets, SequencesExt, Lists

CONSTANTS
    Flights,     \* a flight's number is its place in the order of signatures
    Carriers,    \* of the segments of each flight, in order
    Stops, Hours,
    Departs,     \* the hour a flight departs, counted from the first day; None
                 \* when its segments do not fit the legs asked for
    FareLists,   \* what Sabre may offer for a flight: sequences of fares
    Requests,    \* what agents ask for
    Cap,         \* 50 options at most
    None

Cabins == {"ECONOMY", "PREMIUM_ECONOMY", "BUSINESS"}
Modes == {"balanced", "price", "duration", "stops"}
Fare == [cabin : Cabins \cup {"mixed"}, price : Nat, refund : BOOLEAN]

Currencies == {"USD", "ARS"}

\* A constraint has a day or None, the first and the last hour or None, and is
\* required or preferred.
Constraint == [day : Nat \cup {None}, from : (0..23) \cup {None},
               to : (0..23) \cup {None}, required : BOOLEAN]

ASSUME ResultAssumption ==
    /\ None \notin Nat \cup Fare
    /\ Flights \subseteq Nat /\ IsFiniteSet(Flights)
    /\ Stops \in [Flights -> Nat] /\ Hours \in [Flights -> Nat \ {0}]
    /\ Departs \in [Flights -> Nat \cup {None}]
    /\ FareLists \subseteq Seq(Fare) \ {<<>>}
    /\ \A list \in FareLists : \A i, j \in DOMAIN list :
         list[i].price > 0 /\ (list[i] = list[j] => i = j)
    /\ Cap \in Nat \ {0}
    /\ \A r \in Requests :
         /\ r.currencies \in {<<"USD">>, <<"ARS">>, <<"USD", "ARS">>,
                               <<"ARS", "USD">>}
         /\ r.cabins \in Seq(Cabins) /\ r.times \in Seq(Constraint)
         /\ r.mode \in Modes /\ r.maxOptions \in 1..Cap
         /\ r.refundable \in BOOLEAN /\ r.domestic \in BOOLEAN

VARIABLES
    request,   \* the request
    turn,      \* how many answers have been taken
    offered,   \* all that Sabre offered (history): currency, flight, fare
    merged,    \* the options of each currency
    stage, options, ranked, shown

resultVars == <<request, turn, offered, merged, stage, options, ranked, shown>>

-----------------------------------------------------------------------------
(* An option is a flight with fares by currency: fares, all of them; rep,  *)
(* the one that represents a currency; fare, the one that represents it.   *)

Option(flight, currency, fares) ==
    [flight |-> flight,
     fares |-> [c \in Currencies |-> IF c = currency THEN fares ELSE <<>>],
     rep |-> [c \in Currencies |-> IF c = currency THEN fares[1] ELSE None],
     fare |-> <<currency, fares[1]>>]

\* normalize_bfm_response: one option for each flight that has a fare.
Normalized(currency, flights, lists) ==
    [i \in DOMAIN flights |-> Option(flights[i], currency, lists[flights[i]])]

Orders(S) == {order \in [1..Cardinality(S) -> S] :
                \A i, j \in DOMAIN order : order[i] = order[j] => i = j}

Answers(currency) ==
    UNION {{Normalized(currency, order, lists) :
              order \in Orders(fs), lists \in [fs -> FareLists]} :
             fs \in SUBSET Flights}

\* _filter_itineraries_to_cabin
InCabin(answer, currency, cabin) ==
    LET kept(o) == At(o.fares[currency], {i \in DOMAIN o.fares[currency] :
                                            o.fares[currency][i].cabin = cabin})
        some == At(answer, {i \in DOMAIN answer : kept(answer[i]) # <<>>})
    IN  [i \in DOMAIN some |-> Option(some[i].flight, currency, kept(some[i]))]

CarriersAllowed(answer) ==
    LET carriers(i) == ToSet(Carriers[answer[i].flight])
    IN  At(answer, {i \in DOMAIN answer :
               /\ carriers(i) \cap request.excluded = {}
               /\ request.preferred # {} => carriers(i) \subseteq request.preferred})

-----------------------------------------------------------------------------
(* merge_cabin_itineraries                                                 *)

FareName(cabin) ==
    CASE cabin = "ECONOMY" -> "economy"
      [] cabin = "PREMIUM_ECONOMY" -> "premium economy"
      [] cabin = "BUSINESS" -> "business"
      [] OTHER -> cabin

\* cabin.value.lower()
WantedName(cabin) ==
    CASE cabin = "PREMIUM_ECONOMY" -> "premium_economy"
      [] OTHER -> FareName(cabin)

FlightsOf(os) == {os[i].flight : i \in DOMAIN os}
The(os, flight) == os[CHOOSE i \in DOMAIN os : os[i].flight = flight]

Wanted(fares, cabin) ==
    At(fares, {i \in DOMAIN fares :
                 FareName(fares[i].cabin) = WantedName(cabin)})

\* Fares are the same when cabin, brand and price are: the refund rules of a
\* fare stand for its brand.
AddNew(fares, more) ==
    fares \o At(more, {i \in DOMAIN more : more[i] \notin ToSet(fares)})

\* The options of the second list whose flight is not in the first.
NewFlights(primary, more) ==
    At(more, {i \in DOMAIN more : more[i].flight \notin FlightsOf(primary)})

MergeCabinMutant(primary, companion, currency, cabin) ==
    [i \in DOMAIN primary |->
       IF i \in DOMAIN companion
         THEN [primary[i] EXCEPT !.fares[currency] =
                 AddNew(@, Wanted(companion[i].fares[currency], cabin))]
         ELSE primary[i]]
    \o NewFlights(primary, companion)
MergeCabin(primary, companion, currency, cabin) ==
    [i \in DOMAIN primary |->
       IF primary[i].flight \in FlightsOf(companion)
         THEN [primary[i] EXCEPT !.fares[currency] = AddNew(@,
                 Wanted(The(companion, primary[i].flight).fares[currency],
                        cabin))]
         ELSE primary[i]]
    \o NewFlights(primary, companion)

\* merge_currency_itineraries
MergeCurrencies(primary, secondary) ==
    LET both(o, p) ==
          [o EXCEPT
             !.fares = [c \in Currencies |->
                          IF p.fares[c] # <<>> THEN p.fares[c] ELSE o.fares[c]],
             !.rep = [c \in Currencies |->
                        IF p.rep[c] # None THEN p.rep[c] ELSE o.rep[c]]]
    IN  [i \in DOMAIN primary |->
           IF primary[i].flight \in FlightsOf(secondary)
             THEN both(primary[i], The(secondary, primary[i].flight))
             ELSE primary[i]]
        \o NewFlights(primary, secondary)

-----------------------------------------------------------------------------
(* filter_refundable_itineraries                                           *)

Cheapest(fares) ==
    fares[CHOOSE i \in DOMAIN fares :
            \A j \in DOMAIN fares :
              \/ fares[i].price < fares[j].price
              \/ fares[i].price = fares[j].price /\ i <= j]

Representative(o, rep) ==
    LET order == <<o.fare[1], "USD", "ARS">>
        i == CHOOSE k \in 1..3 : /\ rep[order[k]] # None
                                 /\ \A l \in 1..(k - 1) : rep[order[l]] = None
    IN  <<order[i], rep[order[i]]>>

RefundableOnly(os) ==
    LET kept(o) == [c \in Currencies |->
                      At(o.fares[c],
                         {i \in DOMAIN o.fares[c] : o.fares[c][i].refund})]
        some == At(os, {i \in DOMAIN os :
                          \E c \in Currencies : kept(os[i])[c] # <<>>})
        reps(o) == [c \in Currencies |-> IF kept(o)[c] = <<>> THEN None
                                         ELSE Cheapest(kept(o)[c])]
    IN  [i \in DOMAIN some |->
           [some[i] EXCEPT !.fares = kept(some[i]), !.rep = reps(some[i]),
                           !.fare = Representative(some[i], reps(some[i]))]]

-----------------------------------------------------------------------------
(* apply_time_constraints                                                  *)

Never == 100000

Window(c, actual) ==
    LET day == IF c.day = None THEN actual \div 24 ELSE c.day
        first == 24 * day + (IF c.from = None THEN 0 ELSE c.from)
        last == 24 * day + (IF c.to = None THEN 23 ELSE c.to)
    IN  [first |-> first, last |-> IF last < first THEN last + 24 ELSE last]

OutsideMutant(c, actual) ==
    IF actual = None THEN Never
    ELSE LET w == Window(c, actual)
         IN  IF actual < w.first THEN w.first - actual ELSE 0
Outside(c, actual) ==
    IF actual = None THEN Never
    ELSE LET w == Window(c, actual)
         IN  CASE actual < w.first -> w.first - actual
               [] actual > w.last -> actual - w.last
               [] OTHER -> 0

\* Preferred hours count from the middle of the window; outside of it, far
\* more than inside.
Dislike(c, actual) ==
    IF actual = None \/ c.from = None \/ c.to = None THEN Outside(c, actual)
    ELSE LET w == Window(c, actual)
             middle == (w.first + w.last) \div 2
         IN  IF Outside(c, actual) > 0 THEN 1000 + Outside(c, actual)
             ELSE IF actual < middle THEN middle - actual ELSE actual - middle

\* required_total * 1000000 + preferred_total, as a pair.
Distance(flight) ==
    LET times == request.times
        actual == Departs[flight]
    IN  <<SumOf([i \in DOMAIN times |->
                   IF times[i].required THEN Outside(times[i], actual) ELSE 0]),
          SumOf([i \in DOMAIN times |->
                   IF times[i].required THEN 0 ELSE Dislike(times[i], actual)])>>

\* sorted by time and then by signature
TimeKey(flight) == <<Distance(flight)[1], Distance(flight)[2], flight>>

DistancesOf(os) == [i \in DOMAIN os |-> Distance(os[i].flight)]

InTime(os) ==
    LET exact == {i \in DOMAIN os : Distance(os[i].flight)[1] = 0}
        required == \E i \in DOMAIN request.times : request.times[i].required
        selected == IF required /\ exact # {} THEN At(os, exact) ELSE os
    IN  IF request.times = <<>> THEN os
        ELSE Sorted(selected,
                    [i \in DOMAIN selected |-> TimeKey(selected[i].flight)])

ByTime(os) == Sorted(os, DistancesOf(os))

-----------------------------------------------------------------------------
(* rank_itineraries and commercial_rank_itineraries                        *)

RankingFare(o) ==
    LET first == IF request.domestic THEN "ARS" ELSE "USD"
        order == <<first, "USD", "ARS">>
        i == CHOOSE k \in 1..3 : /\ o.rep[order[k]] # None
                                 /\ \A l \in 1..(k - 1) : o.rep[order[l]] = None
    IN  <<order[i], o.rep[order[i]].price>>
Price(o) == RankingFare(o)[2]

Lowest(os) == Min({Price(os[i]) : i \in DOMAIN os})
Fastest(os) == Min({Hours[os[i].flight] : i \in DOMAIN os})

\* Where the flight stands when all are ordered by time and signature.
SchedulePosition(os, flight) ==
    Cardinality({i \in DOMAIN os :
        Less(TimeKey(os[i].flight), TimeKey(flight))})

\* The score, times a thousand, the lowest price and the number of options
\* less one: a ratio of prices, 18% a stop, 2.5% an hour above the fastest
\* and up to 30% for the schedule.
CommercialScore(os, o) ==
    LET places == IF Len(os) > 1 THEN Len(os) - 1 ELSE 1
    IN  1000 * places * Price(o)
        + Lowest(os) * places * (180 * Stops[o.flight]
                                 + 25 * (Hours[o.flight] - Fastest(os)))
        + (IF request.times = <<>> THEN 0
           ELSE 300 * Lowest(os) * SchedulePosition(os, o.flight))

BalancedScore(os, o) ==
    1000 * Price(o) + Lowest(os) * (150 * Stops[o.flight]
                                    + 30 * (Hours[o.flight] - Fastest(os)))

\* What the options are sorted by: two scores and the three modes.
Balanced(os) ==
    [i \in DOMAIN os |-> <<BalancedScore(os, os[i]), Stops[os[i].flight],
                           Price(os[i]), Hours[os[i].flight]>>]
Commercial(os) ==
    [i \in DOMAIN os |-> <<CommercialScore(os, os[i]), Stops[os[i].flight],
                           Price(os[i]), Hours[os[i].flight]>>]
Plain(os, mode) ==
    [i \in DOMAIN os |->
       LET price == Price(os[i])
           stops == Stops[os[i].flight]
           hours == Hours[os[i].flight]
       IN  CASE mode = "price" -> <<price, stops, hours>>
             [] mode = "duration" -> <<hours, stops, price>>
             [] OTHER -> <<stops, price, hours>>]

RankMutant(os) == Sorted(os, [i \in DOMAIN os |-> <<Price(os[i])>>])
Rank(os) ==
    LET balanced == Sorted(os, Balanced(os))
    IN  IF request.mode # "balanced" THEN Sorted(os, Plain(os, request.mode))
        ELSE Sorted(balanced, Commercial(balanced))

-----------------------------------------------------------------------------
(* _diversify_ranked_by_carrier and the pages                              *)

Carrier(o) == Head(Carriers[o.flight])

DiversifyMutant(os, limit) == First(os, limit)
Diversify(os, limit) ==
    LET new == {i \in DOMAIN os :
                  \A j \in 1..(i - 1) : Carrier(os[j]) # Carrier(os[i])}
    IN  First(At(os, new) \o At(os, DOMAIN os \ new), limit)

VisibleOf(os) ==
    ByTime(IF request.preferred # {} THEN First(os, request.maxOptions)
                                     ELSE Diversify(os, request.maxOptions))

Pages(os) ==
    LET visible == VisibleOf(os)
    IN  First(visible
              \o At(os, {i \in DOMAIN os : os[i] \notin ToSet(visible)}), Cap)

-----------------------------------------------------------------------------
(* search_quote                                                            *)

ResultInit ==
    /\ request \in Requests
    /\ turn = 0 /\ offered = {} /\ merged = [c \in Currencies |-> <<>>]
    /\ stage = "search" /\ options = <<>> /\ ranked = <<>> /\ shown = <<>>

\* Every currency is asked for every cabin, in this order.
Turns == Len(request.currencies) * Len(request.cabins)
TurnCurrency == request.currencies[(turn \div Len(request.cabins)) + 1]
TurnCabin == request.cabins[(turn % Len(request.cabins)) + 1]

\* What an answer to the search for a cabin offers in that cabin.
Offers(answer, currency, cabin) ==
    UNION {{<<currency, answer[i].flight, f>> :
              f \in {x \in ToSet(answer[i].fares[currency]) : x.cabin = cabin}} :
             i \in DOMAIN answer}

\* No answer for the preferred carriers: the same is asked without them.
TakeAnswer ==
    /\ stage = "search" /\ turn < Turns
    /\ LET currency == TurnCurrency
           cabin == TurnCabin
           fit(answer) == CarriersAllowed(InCabin(answer, currency, cabin))
       IN  \E answer \in Answers(currency) :
           \E used \in IF request.preferred # {} /\ fit(answer) = <<>>
                         THEN Answers(currency) ELSE {answer} :
             /\ merged' = [merged EXCEPT ![currency] =
                  IF @ = <<>> THEN fit(used)
                  ELSE MergeCabin(@, fit(used), currency, cabin)]
             /\ offered' = offered \cup Offers(used, currency, cabin)
    /\ turn' = turn + 1
    /\ UNCHANGED <<request, stage, options, ranked, shown>>

Combine ==
    /\ stage = "search" /\ turn = Turns /\ stage' = "combined"
    /\ options' = IF Len(request.currencies) = 2
                    THEN MergeCurrencies(merged[request.currencies[1]],
                                         merged[request.currencies[2]])
                    ELSE merged[request.currencies[1]]
    /\ UNCHANGED <<request, turn, offered, merged, ranked, shown>>

Narrow ==
    /\ stage = "combined" /\ stage' = "restricted"
    /\ options' = InTime(IF request.refundable THEN RefundableOnly(options)
                                               ELSE options)
    /\ UNCHANGED <<request, turn, offered, merged, ranked, shown>>

RankAll ==
    /\ stage = "restricted" /\ stage' = "ranked"
    /\ ranked' = ByTime(Rank(options))
    /\ UNCHANGED <<request, turn, offered, merged, options, shown>>

Show ==
    /\ stage = "ranked" /\ stage' = "shown"
    /\ shown' = Pages(ranked)
    /\ UNCHANGED <<request, turn, offered, merged, options, ranked>>

ResultNext == TakeAnswer \/ Combine \/ Narrow \/ RankAll \/ Show

ResultSpec == ResultInit /\ [][ResultNext]_resultVars
-----------------------------------------------------------------------------
(* What must hold                                                          *)

Allowed(flight) ==
    /\ ToSet(Carriers[flight]) \cap request.excluded = {}
    /\ request.preferred # {} => ToSet(Carriers[flight]) \subseteq request.preferred

\* What is shown was asked for: each fare was offered for that very flight in
\* that currency, can be refunded if the request says so, and no carrier is
\* unwanted; the fare that stands for the option is one of its own.
ShownIsAskedFor ==
    \A i \in DOMAIN shown :
        /\ Allowed(shown[i].flight)
        /\ shown[i].fare[2] \in ToSet(shown[i].fares[shown[i].fare[1]])
        /\ \A c \in Currencies : \A f \in ToSet(shown[i].fares[c]) :
             /\ <<c, shown[i].flight, f>> \in offered
             /\ request.refundable => f.refund

CarriersOf(os) == {Carrier(os[i]) : i \in DOMAIN os}

\* The page and the candidates behind it divide the ranked options: nothing is
\* shown twice and nothing is lost but what is over the cap; and unless the
\* request prefers carriers, as many of them as fit are on the page.
PagesPartition ==
    stage = "shown" =>
        /\ Cardinality(FlightsOf(shown)) = Len(shown)
        /\ FlightsOf(shown) \subseteq FlightsOf(ranked)
        /\ Len(shown) = IF Len(ranked) < Cap THEN Len(ranked) ELSE Cap
        /\ request.preferred = {} =>
             LET page == First(shown, request.maxOptions)
                 carriers == Cardinality(CarriersOf(ranked))
             IN  Cardinality(CarriersOf(page))
                   = IF carriers < request.maxOptions THEN carriers
                                                      ELSE request.maxOptions

\* The hours a constraint accepts, on the day of the flight if it has none.
HoursOf(c, actual) ==
    LET day == IF c.day = None THEN actual \div 24 ELSE c.day
        from == IF c.from = None THEN 0 ELSE c.from
        to == IF c.to = None THEN 23 ELSE c.to
    IN  {24 * day + h : h \in from..(IF to < from THEN to + 24 ELSE to)}

\* How far a flight is from the nearest hours that are required, all together.
Miss(flight) ==
    LET times == request.times
        actual == Departs[flight]
        far(h) == IF h < actual THEN actual - h ELSE h - actual
    IN  SumOf([i \in DOMAIN times |->
                 CASE ~times[i].required -> 0
                   [] times[i].required /\ actual = None -> Never
                   [] OTHER -> Min({far(h) : h \in HoursOf(times[i], actual)})])

\* Time wins over price, stops and the variety of carriers: the page goes
\* from the closest option to the farthest, begins with the closest of all
\* there are, and a flight outside of the hours required is only shown when
\* no flight is inside of them.
ClosestFirst ==
    stage = "shown" /\ shown # <<>> /\ request.times # <<>> =>
        LET page == First(shown, request.maxOptions)
        IN  /\ \A i, j \in DOMAIN page :
                 i < j => Miss(page[i].flight) <= Miss(page[j].flight)
            /\ \A i \in DOMAIN ranked :
                 Miss(page[1].flight) <= Miss(ranked[i].flight)
            /\ (\E f \in FlightsOf(ranked) : Miss(f) = 0) =>
                 \A f \in FlightsOf(shown) : Miss(f) = 0

\* No option ranks above one that, in the same currency, is at least as
\* cheap, as direct and as fast, and better in one of these, whatever the
\* mode.
NoWorseAbove ==
    request.times = <<>> =>
        \A i, j \in DOMAIN ranked : i < j =>
            LET a == ranked[i].flight
                b == ranked[j].flight
                c == IF request.domestic THEN "ARS" ELSE "USD"
                x == ranked[i].rep[c]
                y == ranked[j].rep[c]
            IN  x # None /\ y # None =>
                  \/ x.price < y.price \/ Stops[a] < Stops[b] \/ Hours[a] < Hours[b]
                  \/ x.price = y.price /\ Stops[a] = Stops[b] /\ Hours[a] = Hours[b]
=============================================================================
