----------------------------- MODULE WriteOnce -----------------------------
(***************************************************************************)
(* What post_once promises its caller about a write that must not be       *)
(* repeated: it reaches Sabre at most once, "not sent" means it never did  *)
(* and never will, an answer of Sabre means it did, and "ambiguous"        *)
(* promises nothing.                                                       *)
(***************************************************************************)
CONSTANTS Writes

VARIABLES
    reached,   \* <<write, copy>>: what Sabre received
    told       \* what the caller of each write was told

writeVars == <<reached, told>>

Verdicts == {"answered", "not_sent", "ambiguous"}

Init == reached = {} /\ told = [w \in Writes |-> "nothing"]

Got(w) == \E copy \in reached : copy[1] = w

Reach(w) ==
    /\ ~Got(w) /\ told[w] \in {"nothing", "ambiguous"}
    /\ \E copy \in reached' : copy[1] = w /\ reached' = reached \cup {copy}
    /\ UNCHANGED told

Tell(w, verdict) ==
    /\ told[w] = "nothing"
    /\ verdict = "answered" => Got(w)
    /\ verdict = "not_sent" => ~Got(w)
    /\ told' = [told EXCEPT ![w] = verdict]
    /\ UNCHANGED reached

Next == \E w \in Writes : Reach(w) \/ \E v \in Verdicts : Tell(w, v)

Spec == Init /\ [][Next]_writeVars
=============================================================================
