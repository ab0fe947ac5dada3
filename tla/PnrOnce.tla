------------------------------ MODULE PnrOnce ------------------------------
(***************************************************************************)
(* What Create PNR promises, without requests, workers or rows: Sabre is   *)
(* asked for one PNR at a time, a request is repeated only after Sabre has *)
(* definitely refused the one before, and once the outcome is unknown      *)
(* nothing is ever asked again.                                            *)
(***************************************************************************)
EXTENDS Naturals

VARIABLES
    state,    \* what the application knows
    made      \* PNRs that exist in Sabre

onceVars == <<state, made>>

Init == state = "idle" /\ made = 0

Send == state = "idle" /\ state' = "sending" /\ UNCHANGED made

\* Sabre creates the PNR, perhaps long after the application stopped waiting.
Commit ==
    /\ state \in {"sending", "unknown"} /\ made = 0
    /\ made' = 1 /\ UNCHANGED state

Confirm == state = "sending" /\ made = 1 /\ state' = "done" /\ UNCHANGED made

Refuse == state = "sending" /\ made = 0 /\ state' = "idle" /\ UNCHANGED made

\* No usable answer, or the worker that waited for it died.
LoseTrack == state = "sending" /\ state' = "unknown" /\ UNCHANGED made

Next == Send \/ Commit \/ Confirm \/ Refuse \/ LoseTrack

Spec == Init /\ [][Next]_onceVars
=============================================================================
