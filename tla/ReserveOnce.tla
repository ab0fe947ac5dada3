---------------------------- MODULE ReserveOnce ----------------------------
(***************************************************************************)
(* What "Reservar" promises, without quotes, requests or workers: a        *)
(* client_request_id stands for at most one Booking, the Booking keeps the *)
(* product it was made for, and whoever is answered with a Booking is      *)
(* answered with the one of its key; any request may be refused.           *)
(***************************************************************************)
CONSTANTS Keys, Slots, Products, None

VARIABLES
    booked,   \* the product of each key's Booking
    told      \* the last Booking each client was answered with

onceVars == <<booked, told>>

Init ==
    /\ booked = [k \in Keys |-> None]
    /\ told = [s \in Slots |-> None]

Book(k) ==
    /\ booked[k] = None /\ booked'[k] \in Products
    /\ booked' = [booked EXCEPT ![k] = booked'[k]]
    /\ UNCHANGED told

Tell(s, k) ==
    /\ booked[k] # None
    /\ told' = [told EXCEPT ![s] = [key |-> k, product |-> booked[k]]]
    /\ UNCHANGED booked

Refuse(s) == told' = [told EXCEPT ![s] = None] /\ UNCHANGED booked

Next ==
    \/ \E k \in Keys : Book(k)
    \/ \E s \in Slots, k \in Keys : Tell(s, k)
    \/ \E s \in Slots : Refuse(s)

Spec == Init /\ [][Next]_onceVars
=============================================================================
