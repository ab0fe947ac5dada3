---------------------------- MODULE SingleFlight ----------------------------
(***************************************************************************)
(* What the pricing refresh promises about writes, without requests, rows  *)
(* or sessions: one owner at a time, each owner acquires once and writes   *)
(* at most one price quote, and a write takes effect only while its owner  *)
(* owns - so ownership is never given back with a write in the air.        *)
(***************************************************************************)
CONSTANTS
    Owners,
    Nobody

VARIABLES
    owner,    \* who may write now
    spent,    \* everybody that ever owned
    made      \* <<number of a price quote, who wrote it>>

flightVars == <<owner, spent, made>>

Init == owner = Nobody /\ spent = {} /\ made = {}

Acquire(o) ==
    /\ owner = Nobody /\ o \notin spent
    /\ owner' = o
    /\ spent' = spent \cup {o}
    /\ UNCHANGED made

\* One more price quote, with a number of its own, by the owner.
Commit ==
    /\ owner # Nobody
    /\ \E new \in made' :
         /\ new[2] = owner
         /\ \A m \in made : m[1] # new[1] /\ m[2] # owner
         /\ made' = made \cup {new}
    /\ UNCHANGED <<owner, spent>>

Release == owner # Nobody /\ owner' = Nobody /\ UNCHANGED <<spent, made>>

Next == (\E o \in Owners : Acquire(o)) \/ Commit \/ Release

Spec == Init /\ [][Next]_flightVars
=============================================================================
