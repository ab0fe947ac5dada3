--------------------------- MODULE MCSearchResults ---------------------------
(***************************************************************************)
(* Three flights: a direct one of carrier AA, a slower one with a stop that *)
(* AA and LA fly, and LA's, faster, with a stop and other legs than those   *)
(* asked for; and what agents ask.                                         *)
(***************************************************************************)
EXTENDS SearchResults

MCFlights == 1..3
MCCarriers == <<<<"AA">>, <<"AA", "LA">>, <<"LA">>>>
MCStops == <<0, 1, 1>>
MCHours == <<10, 12, 9>>
MCDeparts == <<22, 25, None>>

F(cabin, price, refund) == [cabin |-> cabin, price |-> price, refund |-> refund]

\* An Economy fare, alone or with a dearer one that can be refunded; a
\* refundable one; Business; and Economy with Business on one row.
MCFareLists ==
    {<<F("ECONOMY", 4, FALSE), F("ECONOMY", 6, TRUE)>>,
     <<F("ECONOMY", 5, TRUE)>>,
     <<F("BUSINESS", 9, FALSE)>>,
     <<F("ECONOMY", 4, FALSE), F("BUSINESS", 7, TRUE)>>}

Base == [currencies |-> <<"USD">>, cabins |-> <<"ECONOMY">>, excluded |-> {},
         preferred |-> {}, refundable |-> FALSE, times |-> <<>>,
         mode |-> "balanced", maxOptions |-> 2, domestic |-> FALSE]

Time(day, from, to, required) ==
    [day |-> day, from |-> from, to |-> to, required |-> required]

\* Two cabins, two currencies, refunds and carriers.
LadderRequests ==
    {[Base EXCEPT !.cabins = <<"ECONOMY", "BUSINESS">>, !.refundable = TRUE,
                  !.maxOptions = 1],
     [Base EXCEPT !.currencies = <<"USD", "ARS">>, !.mode = "price"],
     [Base EXCEPT !.preferred = {"LA"}, !.excluded = {"AA"}],
     [Base EXCEPT !.cabins = <<"BUSINESS", "ECONOMY">>, !.preferred = {"AA"}]}

\* Modes of ranking and windows of time: in the night, open at one end,
\* required and preferred together.
RankRequests ==
    {[Base EXCEPT !.mode = m, !.domestic = d, !.maxOptions = n,
                  !.currencies = IF d THEN <<"ARS">> ELSE <<"USD">>] :
        m \in Modes, d \in BOOLEAN, n \in {1, 2}}
    \cup {[Base EXCEPT !.mode = m, !.maxOptions = n, !.times = ts] :
            m \in {"balanced", "price"}, n \in {1, 2},
            ts \in {<<Time(0, 23, 2, TRUE)>>, <<Time(1, 10, None, TRUE)>>,
                    <<Time(0, None, 21, TRUE)>>, <<Time(None, 2, 6, TRUE)>>,
                    <<Time(0, 20, 23, TRUE), Time(0, 22, 23, FALSE)>>}}

MCRequests == LadderRequests \cup RankRequests
==============================================================================
