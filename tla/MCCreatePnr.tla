---------------------------- MODULE MCCreatePnr ----------------------------
(* Small values for the constants of CreatePnr.                            *)
EXTENDS CreatePnr

\* Spread the slots over the processes.
MCHome == CHOOSE f \in [Slots -> Procs] :
            \A p \in Procs : \E s \in Slots : f[s] = p

MCProduct(carrier, brand, price) ==
    [itinerary |-> 1, fare |-> 1, carrier |-> carrier, brand |-> brand,
     price |-> price]

MCOneProduct == {MCProduct("AA", "light", 1)}

\* The product, and the same of which Sabre does not give carrier and brand:
\* the one is a match for the other but not the other for the one.
MCAnswers == {MCProduct("AA", "light", 1), MCProduct(NotGiven, NotGiven, 1)}
=============================================================================
