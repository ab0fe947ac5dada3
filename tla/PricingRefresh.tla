--------------------------- MODULE PricingRefresh ---------------------------
(***************************************************************************)
(* Refreshing the stored fare of one created PNR: requests acquire the     *)
(* active-Booking mutex, discover a same-brand price, retain it as a new   *)
(* price quote (PQ) in a SOAP session, end the transaction, read the PNR   *)
(* back and record the pricing authority, while Sabre moves the price and  *)
(* the itinerary, answers get lost and workers die.  Every request may be  *)
(* served by a worker of its own: all database and SOAP calls interleave.  *)
(***************************************************************************)
EXTENDS Naturals, Sequences, FiniteSets

CONSTANTS
    Slots,            \* requests in progress
    Keys,             \* client_request_id values
    Totals,           \* prices of the brand
    None,             \* no key, no total
    MaxCrashes        \* bound: workers that die

ASSUME RefreshAssumption ==
    /\ None \notin Keys /\ None \notin Totals
    /\ MaxCrashes \in Nat

VARIABLES
    attempts,         \* PnrPricingRefreshAttemptRow by client_request_id
    authorities,      \* PnrPricingAuthorityRows, in order
    req,              \* requests in progress
    pqs,              \* Sabre: the PNR's price quotes, by record number
    area,             \* Sabre: the PQ retained in the session of a request
    undecided,        \* Sabre: EndTransactions whose fate nobody here knows
    price,            \* Sabre: what the brand costs now
    crashes

sabre == <<pqs, area, undecided, price>>
vars == <<attempts, authorities, req, pqs, area, undecided, price, crashes>>

-----------------------------------------------------------------------------
Statuses == {"prepared", "submitting", "succeeded", "failed_safe", "no_write",
             "reconciliation_required"}

\* active: active_booking_id is set, the row holds the mutex of the Booking.
AttemptRows == [total : Totals, status : Statuses, active : BOOLEAN]
NoRow == [total |-> None, status |-> "none", active |-> FALSE]

\* current: ACTIVE and ItineraryChanged = false; changed: ACTIVE and not so.
Marks == {"current", "changed", "inactive"}
PriceQuotes == [total : Totals, by : Keys \cup {None}, mark : Marks]

AuthorityRows == [record : Nat, total : Totals, by : Keys]

StorePcs == {"open", "preview", "retain", "ignore", "end"}
Pcs == {"idle", "insert", "discover", "read", "submit", "readback",
        "authorize", "mark"} \cup StorePcs

\* total: the confirmed price.  before: the record numbers selected before the
\* store.  record: the one found after it.  goal: the status to be recorded.
Idle == [pc |-> "idle", key |-> None, total |-> None, before |-> {},
         record |-> 0, goal |-> "none"]

Goto(s, pc) == req' = [req EXCEPT ![s].pc = pc]
Settle(s, goal) == req' = [req EXCEPT ![s].pc = "mark", ![s].goal = goal]
End(s) == req' = [req EXCEPT ![s] = Idle]

MutexFree == \A k \in Keys : ~attempts[k].active

\* select_pnr_pricing: current PQs supersede the other ACTIVE ones.
CurrentPqs == {n \in DOMAIN pqs : pqs[n].mark = "current"}
ActivePqs == {n \in DOMAIN pqs : pqs[n].mark # "inactive"}
SelectedPqs == IF CurrentPqs # {} THEN CurrentPqs ELSE ActivePqs

-----------------------------------------------------------------------------
(* PnrPricingRefreshAttemptService.prepare                                 *)

\* No row has this key and none is active; a known key replays what its row
\* says and an active row refuses, both without any effect.
Prepare(s, key, total) ==
    /\ req[s].pc = "idle"
    /\ attempts[key] = NoRow /\ MutexFree
    /\ req' = [req EXCEPT ![s] =
                 [Idle EXCEPT !.pc = "insert", !.key = key, !.total = total]]
    /\ UNCHANGED <<attempts, authorities, sabre, crashes>>

InsertRowMutant(s) ==
    /\ req[s].pc = "insert"
    /\ attempts[req[s].key] = NoRow
    /\ attempts' = [attempts EXCEPT ![req[s].key] =
                      [total |-> req[s].total, status |-> "prepared",
                       active |-> TRUE]]
    /\ Goto(s, "discover")
    /\ UNCHANGED <<authorities, sabre, crashes>>
InsertRow(s) ==
    /\ req[s].pc = "insert"
    /\ attempts[req[s].key] = NoRow /\ MutexFree
    /\ attempts' = [attempts EXCEPT ![req[s].key] =
                      [total |-> req[s].total, status |-> "prepared",
                       active |-> TRUE]]
    /\ Goto(s, "discover")
    /\ UNCHANGED <<authorities, sabre, crashes>>

\* IntegrityError: one of the two unique constraints chose another request.
LoseRow(s) ==
    /\ req[s].pc = "insert"
    /\ attempts[req[s].key] # NoRow \/ ~MutexFree
    /\ End(s)
    /\ UNCHANGED <<attempts, authorities, sabre, crashes>>

-----------------------------------------------------------------------------
(* PnrAutomaticSameBrandRefreshService.refresh                             *)

\* The candidate found costs what the agent confirmed.
Discover(s) ==
    /\ req[s].pc = "discover"
    /\ price = req[s].total
    /\ Goto(s, "read")
    /\ UNCHANGED <<attempts, authorities, sabre, crashes>>

\* Never stack another PQ over one that is current.
ReadBefore(s) ==
    /\ req[s].pc = "read"
    /\ CurrentPqs = {}
    /\ req' = [req EXCEPT ![s].pc = "submit", ![s].before = SelectedPqs]
    /\ UNCHANGED <<attempts, authorities, sabre, crashes>>

BlockMutant(s) ==
    /\ req[s].pc \in {"discover", "read"}
    /\ End(s)
    /\ UNCHANGED <<attempts, authorities, sabre, crashes>>
\* Not required, not found, another price, no fresh read, DOCS missing, a PQ
\* that is current, a closed gate: nothing was written.
Block(s) ==
    /\ req[s].pc \in {"discover", "read"}
    /\ Settle(s, "no_write")
    /\ UNCHANGED <<attempts, authorities, sabre, crashes>>

MarkSubmitting(s) ==
    /\ req[s].pc = "submit"
    /\ attempts[req[s].key].status = "prepared"
    /\ attempts' = [attempts EXCEPT ![req[s].key].status = "submitting"]
    /\ Goto(s, "open")
    /\ UNCHANGED <<authorities, sabre, crashes>>

-----------------------------------------------------------------------------
(* SabreSoapBrandPqStoreService.store, one SOAP call per action            *)

\* The session exists and holds the PNR with the expected segments.
OpenSession(s) ==
    /\ req[s].pc = "open"
    /\ Goto(s, "preview")
    /\ UNCHANGED <<attempts, authorities, sabre, crashes>>

Preview(s) ==
    /\ req[s].pc = "preview"
    /\ IF price = req[s].total THEN Goto(s, "retain")
                               ELSE Settle(s, "failed_safe")
    /\ UNCHANGED <<attempts, authorities, sabre, crashes>>

\* A SabreBrandPqStoreError before anything was retained.
StoreRefused(s) ==
    /\ req[s].pc \in {"open", "preview"}
    /\ Settle(s, "failed_safe")
    /\ UNCHANGED <<attempts, authorities, sabre, crashes>>

\* Any other exception, HTTP and XML errors among them: after SUBMITTING it
\* asks for reconciliation whether or not something was written.
StoreRaises(s) ==
    /\ req[s].pc \in {"open", "preview"}
    /\ Settle(s, "reconciliation_required")
    /\ UNCHANGED <<attempts, authorities, sabre, crashes>>

\* The retained price is validated again before the transaction is ended.
RetainedFitsMutant(s) == TRUE
RetainedFits(s) == area'[s] = req[s].total

Retain(s) ==
    /\ req[s].pc = "retain"
    /\ area' = [area EXCEPT ![s] = price]
    /\ Goto(s, IF RetainedFits(s) THEN "end" ELSE "ignore")
    /\ UNCHANGED <<attempts, authorities, pqs, undecided, price, crashes>>

\* The retain command was sent and its answer cannot be used.
RetainUnclear(s) ==
    /\ req[s].pc = "retain"
    /\ \E kept \in {None, price} : area' = [area EXCEPT ![s] = kept]
    /\ Goto(s, "ignore")
    /\ UNCHANGED <<attempts, authorities, pqs, undecided, price, crashes>>

\* Sabre drops what a session retained when it is ignored, closed or dies.
Discard(s) == area' = [area EXCEPT ![s] = None]

Ignore(s) ==
    /\ req[s].pc = "ignore"
    /\ Settle(s, "failed_safe")
    /\ Discard(s)
    /\ UNCHANGED <<attempts, authorities, pqs, undecided, price, crashes>>

IgnoreFails(s) ==
    /\ req[s].pc = "ignore"
    /\ Settle(s, "reconciliation_required")
    /\ Discard(s)
    /\ UNCHANGED <<attempts, authorities, pqs, undecided, price, crashes>>

\* The PQ a transaction commits; the airline may just have changed the
\* itinerary.
Committed(key, total) ==
    \E mark \in {"current", "changed"} :
        pqs' = Append(pqs, [total |-> total, by |-> key, mark |-> mark])

EndTransaction(s) ==
    /\ req[s].pc = "end"
    /\ Committed(req[s].key, area[s])
    /\ Discard(s)
    /\ Goto(s, "readback")
    /\ UNCHANGED <<attempts, authorities, undecided, price, crashes>>

InFlight(s) == [key |-> req[s].key, total |-> area[s]]

EndUnclearMutant(s) ==
    /\ req[s].pc = "end"
    /\ undecided' = undecided \cup {InFlight(s)}
    /\ Discard(s)
    /\ Settle(s, "failed_safe")
    /\ UNCHANGED <<attempts, authorities, pqs, price, crashes>>
\* No answer, an HTTP error, unreadable XML or a status other than Complete.
EndUnclear(s) ==
    /\ req[s].pc = "end"
    /\ undecided' = undecided \cup {InFlight(s)}
    /\ Discard(s)
    /\ Settle(s, "reconciliation_required")
    /\ UNCHANGED <<attempts, authorities, pqs, price, crashes>>

-----------------------------------------------------------------------------
(* Read-back, authority, outcome                                           *)

\* Exactly one PQ is selected, it is new, current and costs what was confirmed.
NewPq(s, n) ==
    /\ SelectedPqs = {n} /\ n \notin req[s].before
    /\ pqs[n].mark = "current" /\ pqs[n].total = req[s].total

ReadBack(s) ==
    /\ req[s].pc = "readback"
    /\ \E n \in DOMAIN pqs :
         /\ NewPq(s, n)
         /\ req' = [req EXCEPT ![s].pc = "authorize", ![s].record = n]
    /\ UNCHANGED <<attempts, authorities, sabre, crashes>>

SaveAuthority(s) ==
    /\ req[s].pc = "authorize"
    /\ authorities' = Append(authorities,
         [record |-> req[s].record, total |-> req[s].total,
          by |-> req[s].key])
    /\ Settle(s, "succeeded")
    /\ UNCHANGED <<attempts, sabre, crashes>>

UnverifiedMutant(s) ==
    /\ req[s].pc \in {"readback", "authorize"}
    /\ Settle(s, "failed_safe")
    /\ UNCHANGED <<attempts, authorities, sabre, crashes>>
\* The read or its verification fails, or the authority cannot be saved.
Unverified(s) ==
    /\ req[s].pc \in {"readback", "authorize"}
    /\ Settle(s, "reconciliation_required")
    /\ UNCHANGED <<attempts, authorities, sabre, crashes>>

\* A final status gives the mutex back, except RECONCILIATION_REQUIRED.
KeepsMutex(goal) == goal = "reconciliation_required"

MarkOutcome(s) ==
    /\ req[s].pc = "mark"
    /\ attempts[req[s].key].status =
         IF req[s].goal = "no_write" THEN "prepared" ELSE "submitting"
    /\ attempts' = [attempts EXCEPT
         ![req[s].key].status = req[s].goal,
         ![req[s].key].active = KeepsMutex(req[s].goal)]
    /\ End(s)
    /\ UNCHANGED <<authorities, sabre, crashes>>

-----------------------------------------------------------------------------
(* What happens around the requests                                        *)

\* A worker dies; the EndTransaction it was about to send may have been sent.
Crash(s) ==
    /\ req[s].pc # "idle" /\ crashes < MaxCrashes
    /\ crashes' = crashes + 1
    /\ End(s)
    /\ Discard(s)
    /\ \/ UNCHANGED undecided
       \/ /\ req[s].pc = "end"
          /\ undecided' = undecided \cup {InFlight(s)}
    /\ UNCHANGED <<attempts, authorities, pqs, price>>

\* A transaction nobody waits for any more is committed late, or never.
SabreDecides ==
    /\ \E e \in undecided :
         /\ undecided' = undecided \ {e}
         /\ Committed(e.key, e.total) \/ UNCHANGED pqs
    /\ UNCHANGED <<attempts, authorities, req, area, price, crashes>>

PriceMoves ==
    /\ price' \in Totals \ {price}
    /\ UNCHANGED <<attempts, authorities, req, pqs, area, undecided, crashes>>

\* The airline changes the itinerary: no PQ is current any more.
ItineraryChanges ==
    /\ CurrentPqs # {}
    /\ pqs' = [n \in DOMAIN pqs |->
                 IF n \in CurrentPqs THEN [pqs[n] EXCEPT !.mark = "changed"]
                                     ELSE pqs[n]]
    /\ UNCHANGED <<attempts, authorities, req, area, undecided, price, crashes>>

-----------------------------------------------------------------------------
Init ==
    /\ attempts = [k \in Keys |-> NoRow]
    /\ authorities = <<>>
    /\ req = [s \in Slots |-> Idle]
    /\ pqs \in {<<>>} \cup
         {<<[total |-> t, by |-> None, mark |-> m]>> :
            t \in Totals, m \in Marks}
    /\ area = [s \in Slots |-> None]
    /\ undecided = {}
    /\ price \in Totals
    /\ crashes = 0

\* What a request does once it was accepted.
Advance(s) ==
    \/ InsertRow(s) \/ LoseRow(s)
    \/ Discover(s) \/ ReadBefore(s) \/ Block(s) \/ MarkSubmitting(s)
    \/ OpenSession(s) \/ Preview(s) \/ StoreRefused(s) \/ StoreRaises(s)
    \/ Retain(s) \/ RetainUnclear(s) \/ Ignore(s) \/ IgnoreFails(s)
    \/ EndTransaction(s) \/ EndUnclear(s)
    \/ ReadBack(s) \/ SaveAuthority(s) \/ Unverified(s) \/ MarkOutcome(s)

Next ==
    \/ \E s \in Slots :
         \/ \E key \in Keys, total \in Totals : Prepare(s, key, total)
         \/ Advance(s)
         \/ Crash(s)
    \/ SabreDecides \/ PriceMoves \/ ItineraryChanges

Spec == Init /\ [][Next]_vars

\* A request that was accepted goes on until it ends: every SOAP call times out.
FairSpec == Spec /\ \A s \in Slots : WF_vars(Advance(s))

-----------------------------------------------------------------------------
(* Properties                                                              *)

Requests ==
    [pc : Pcs, key : Keys \cup {None}, total : Totals \cup {None},
     before : SUBSET Nat, record : Nat, goal : Statuses \cup {"none"}]

Transactions == [key : Keys, total : Totals]

\* Type invariant of the pricing refresh.
RefreshTypeOK ==
    /\ attempts \in [Keys -> AttemptRows \cup {NoRow}]
    /\ authorities \in Seq(AuthorityRows)
    /\ req \in [Slots -> Requests]
    /\ pqs \in Seq(PriceQuotes)
    /\ area \in [Slots -> Totals \cup {None}]
    /\ undecided \subseteq Transactions
    /\ price \in Totals
    /\ crashes \in Nat

\* While a PQ is retained in some session, or a transaction may still commit,
\* its attempt holds the mutex: nobody else can start a second write.
MutexCoversWrites ==
    /\ \A s \in Slots : area[s] # None =>
         /\ req[s].key # None
         /\ attempts[req[s].key].active
    /\ \A e \in undecided : attempts[e.key].active

\* Sabre never stores a price that differs from the one the agent confirmed,
\* however the price moves between discovery, preview and retain.
SoldAsConfirmed ==
    \A n \in DOMAIN pqs : pqs[n].by \in Keys =>
        pqs[n].total = attempts[pqs[n].by].total

\* FAILED_SAFE and NO_WRITE tell the truth: nothing was, or will be, written.
SafeMeansNothingWritten ==
    \A k \in Keys : attempts[k].status \in {"failed_safe", "no_write"} =>
        /\ \A n \in DOMAIN pqs : pqs[n].by # k
        /\ \A e \in undecided : e.key # k

Authorized(n) ==
    \E i \in DOMAIN authorities :
        authorities[i] =
            [record |-> n, total |-> pqs[n].total, by |-> pqs[n].by]

\* Once the mutex is free every PQ this application stored has its pricing
\* authority: what is sold later is what was verified.
EveryPqIsAuthorized ==
    MutexFree =>
        \A n \in DOMAIN pqs : pqs[n].by \in Keys => Authorized(n)

\* No retry, crash or late commit stacks a PQ over one that is current.
OneCurrentPq == \A m, n \in CurrentPqs : m = n

\* An unknown outcome is never retried: "No se permite reintentar
\* automaticamente."  No row of the Booking changes or appears any more.
UnknownIsFinal ==
    [][ (\E k \in Keys : attempts[k].status = "reconciliation_required")
          => UNCHANGED attempts ]_vars

\* A request that owns an attempt.
Holds(s) == req[s].pc \notin {"idle", "insert"}

\* The row a request works on is where the request thinks it is, and what it
\* is about to record is true.
RequestFits(s) ==
    /\ req[s].pc # "idle" => req[s].key \in Keys /\ req[s].total \in Totals
    /\ Holds(s) =>
         /\ attempts[req[s].key].total = req[s].total
         /\ attempts[req[s].key].status =
              IF \/ req[s].pc \in {"discover", "read", "submit"}
                 \/ req[s].pc = "mark" /\ req[s].goal = "no_write"
                THEN "prepared" ELSE "submitting"
    /\ req[s].pc = "mark" =>
         req[s].goal \in {"succeeded", "failed_safe", "no_write",
                          "reconciliation_required"}
    /\ area[s] # None => req[s].pc \in {"ignore", "end"}
    /\ req[s].pc = "end" => area[s] = req[s].total
    /\ req[s].pc \in {"submit"} \cup StorePcs => CurrentPqs = {}
    /\ req[s].pc = "readback" =>
         \A n \in CurrentPqs : pqs[n].by = req[s].key
    /\ req[s].pc = "authorize" =>
         /\ req[s].record \in DOMAIN pqs
         /\ pqs[req[s].record].by = req[s].key
         /\ pqs[req[s].record].total = req[s].total
    /\ req[s].pc = "mark" /\ req[s].goal = "succeeded" =>
         \A n \in DOMAIN pqs : pqs[n].by = req[s].key => Authorized(n)

\* The attempt of a transaction that may still commit can only be reconciled.
TransactionFits(e) ==
    /\ attempts[e.key].active
    /\ attempts[e.key].total = e.total
    /\ attempts[e.key].status \in {"submitting", "reconciliation_required"}
    /\ CurrentPqs = {}
    /\ \A n \in DOMAIN pqs : pqs[n].by # e.key
    /\ \A s \in Slots : Holds(s) =>
         req[s].pc = "mark" /\ req[s].goal = "reconciliation_required"

\* The attempt of a stored PQ wrote it once, at the price it was confirmed at.
PqFits(n) ==
    pqs[n].by \in Keys =>
        /\ attempts[pqs[n].by].total = pqs[n].total
        /\ attempts[pqs[n].by].status \in
             {"submitting", "reconciliation_required", "succeeded"}
        /\ attempts[pqs[n].by].status = "succeeded" => Authorized(n)
        /\ \A s \in Slots : Holds(s) /\ req[s].key = pqs[n].by =>
             \/ req[s].pc \in {"readback", "authorize"}
             \/ /\ req[s].pc = "mark"
                /\ req[s].goal \in {"succeeded", "reconciliation_required"}
        /\ \A m \in DOMAIN pqs : pqs[m].by = pqs[n].by => m = n

\* The mutex: one active row, active exactly while its outcome is open, and
\* one request that works on it.
MutexInv ==
    /\ \A j, k \in Keys : attempts[j].active /\ attempts[k].active => j = k
    /\ \A k \in Keys :
         attempts[k].active =
            (attempts[k].status \in
                {"prepared", "submitting", "reconciliation_required"})
    /\ \A s, t \in Slots : Holds(s) /\ Holds(t) => s = t

\* The inductive invariant of the pricing refresh.
RefreshInv ==
    /\ RefreshTypeOK
    /\ MutexInv
    /\ \A s \in Slots : RequestFits(s)
    /\ \A e \in undecided : TransactionFits(e)
    /\ \A n \in DOMAIN pqs : PqFits(n)
    /\ OneCurrentPq

\* Who owns the mutex, and who wrote what.
Owner == IF MutexFree THEN None
                      ELSE CHOOSE k \in Keys : attempts[k].active

Spent == {k \in Keys : attempts[k] # NoRow}
Made ==
    {<<n, pqs[n].by>> : n \in {m \in DOMAIN pqs : pqs[m].by \in Keys}}

Flight ==
    INSTANCE SingleFlight WITH
        Owners <- Keys, Nobody <- None,
        owner <- Owner, spent <- Spent, made <- Made

\* The pricing refresh implements SingleFlight.
ImplementsSingleFlight == Flight!Spec

\* Unless a worker dies, no attempt holds the mutex for ever without saying
\* that it needs reconciliation.
AttemptsSettle ==
    [](crashes = 0) =>
        \A k \in Keys :
            attempts[k].status \in {"prepared", "submitting"}
              ~> attempts[k].status \notin {"prepared", "submitting"}
=============================================================================
