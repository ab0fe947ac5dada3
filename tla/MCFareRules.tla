----------------------------- MODULE MCFareRules -----------------------------
(***************************************************************************)
(* One option with every text category 16 may have; and two options of two  *)
(* carriers, with a fare basis in common, and every failure.               *)
(***************************************************************************)
EXTENDS FareRules

Same(form, what) == [form |-> form, before |-> what, after |-> what]
Split(b, a) == [form |-> "split", before |-> b, after |-> a]

Document(changes, cancels, first) ==
    [changes |-> changes, cancels |-> cancels, changesFirst |-> first,
     headed |-> TRUE, title |-> "CANCELLATIONS"]

FewDocuments ==
    {Document(Same("any", "no"), Same("any", "no"), FALSE),
     Document(Split("yes", "fee"), Same("none", "absent"), FALSE),
     Document(Split("silent", "no"), Split("cancellationsNotPermitted", "fee"), TRUE)}

MCDocuments ==
    [code \in {"Q", "YF", "YL", "YM", "W2", "JA", "JB"} |->
       IF code = "Q" THEN Texts ELSE FewDocuments]

\* The brand's features before and after the departure.
Of(b, a) == [p \in Periods |-> IF p = "before" THEN b ELSE a]
Nothing == Of(NoValue, NoValue)

F(cabin, brand, price, basis, change, refund, flag) ==
    [cabin |-> cabin, brand |-> brand, price |-> price, basis |-> basis,
     change |-> change, refund |-> refund, nonRefundable |-> flag]

\* A fare whose brand says nothing, permits, or forbids.
TextQuotes ==
    {[options |-> <<[carrier |-> "AA",
                     fares |-> <<F("economy", "LIGHT", 3, <<"Q">>, ch, re, flag)>>]>>,
      requested |-> {"economy"}, selected |-> <<0>>] :
        <<ch, re, flag>> \in {<<Nothing, Nothing, FALSE>>,
                              <<Of("F", "N"), Of(NoValue, "C"), NoValue>>,
                              <<Of("N", "N"), Of("D", NoValue), TRUE>>}}

\* Economy with a flexible fare, Premium Economy with two brands of which the
\* audit has one; the other carrier's fares, of one price and no brand, one of
\* them Business over two fare bases.
LookupQuotes ==
    LET aa == [carrier |-> "AA",
               fares |-> <<F("economy", "FLEX", 5, <<"YF">>, Of("F", "F"), Nothing, FALSE),
                           F("economy", "LIGHT", 3, <<"YL">>, Nothing, Of("N", "D"), NoValue),
                           F("premium", "W1", 6, <<"YF">>, Nothing, Nothing, NoValue),
                           F("premium", "W2", 7, <<"W2">>, Nothing, Nothing, FALSE),
                           F("economy", "MAIN", 4, <<"YM">>, Nothing, Nothing, NoValue)>>]
        la == [carrier |-> "LA",
               fares |-> <<F("business", NoValue, 9, <<"JA", "JB">>, Nothing, Nothing, TRUE),
                           F("economy", NoValue, 9, <<"YM">>, Of("F", "C"), Of("F", "N"), NoValue)>>]
        br == [carrier |-> "BR",
               fares |-> <<F("first", NoValue, 9, <<>>, Of("C", NoValue), Of("C", "C"), NoValue)>>]
    IN  {[options |-> <<aa, la>>, requested |-> {"premium"}, selected |-> <<0, 0>>],
         [options |-> <<aa>>, requested |-> {"economy"}, selected |-> <<2>>],
         [options |-> <<br>>, requested |-> {}, selected |-> <<0>>]}

MCQuotes == TextQuotes \cup LookupQuotes
=============================================================================
