-------------------------- MODULE CreatePnrProofs --------------------------
(***************************************************************************)
(* First the funnel, for every number of workers, slots, forms, products   *)
(* and revisions: FunnelInv is inductive.  Two facts carry the argument.   *)
(* A step that leaves the rows alone can only break what a request knows   *)
(* about them (QuietStep).  A step that writes produces a new revision,    *)
(* and with it every other request in flight becomes outdated: what it     *)
(* knows need not fit any more (WritingStep).                              *)
(*                                                                         *)
(* Then Create PNR, for every number of workers, requests and keys:        *)
(* CreateInv is inductive, and what a created Booking and its attempt      *)
(* promise follows.  The funnel's lemmas carry over: a step of Create PNR  *)
(* that leaves the rows alone is a quiet step of the funnel, and the only  *)
(* other one, recording PNR_CREATED, produces a new revision.              *)
(***************************************************************************)
EXTENDS CreatePnr, FiniteSetTheorems, TLAPS

-----------------------------------------------------------------------------
(* The funnel                                                              *)

RequestFits(s) ==
    /\ req[s].rev <= booking.revision
    /\ ResolveFits(s) /\ EditFits(s) /\ AnswerFits(s)

\* The points at which a request relies on what it read.
Relying == {"resolve", "edit", "provider"}

\* The idle request, and any request that relies on nothing it read,
\* fits every Booking.
LEMMA HarmlessRequest ==
    ASSUME NEW s \in Slots, req'[s].pc \notin Relying
    PROVE  ResolveFits(s)' /\ EditFits(s)' /\ AnswerFits(s)'
BY DEF Relying, ResolveFits, EditFits, AnswerFits

\* A request that did not change still fits if the rows did not change.
LEMMA QuietRequest ==
    ASSUME NEW s \in Slots, req'[s] = req[s], UNCHANGED rows, RequestFits(s)
    PROVE  RequestFits(s)'
BY DEF RequestFits, ResolveFits, EditFits, AnswerFits, rows, StillCurrent,
       PassengersComplete, ContactComplete

\* A request that did not change is outdated by a new revision.
LEMMA OutdatedRequest ==
    ASSUME NEW s \in Slots, req'[s] = req[s], RequestFits(s), TypeOK,
           booking'.revision = booking.revision + 1,
           Len(offers') \in Nat, Len(offers') >= Len(offers)
    PROVE  RequestFits(s)'
<1>1. /\ req[s].rev \in Nat /\ booking.revision \in Nat
      /\ Len(offers) \in Nat
  BY DEF TypeOK, RequestType, BookingRow
<1>2. ~StillCurrent(s)' /\ req'[s].rev <= booking'.revision
  BY <1>1 DEF StillCurrent, RequestFits
<1>3. ResolveFits(s)' /\ EditFits(s)'
  BY <1>2 DEF RequestFits, ResolveFits, EditFits
<1>4. AnswerFits(s)'
  <2>1. req[s].pc = "provider" => req[s].source \in 1..Len(offers)
    BY DEF RequestFits, AnswerFits
  <2>2. req'[s].pc = "provider" => req'[s].source \in 1..Len(offers')
    BY <1>1, <2>1
  <2> QED BY <1>2, <2>2 DEF AnswerFits
<1> QED BY <1>2, <1>3, <1>4 DEF RequestFits

-----------------------------------------------------------------------------
\* A step that leaves the rows alone keeps the invariant if it keeps every
\* request in type and in agreement with the rows.
LEMMA QuietStep ==
    ASSUME FunnelInv, UNCHANGED rows,
           req' \in [Slots -> RequestType],
           \A s \in Slots : /\ req'[s].source \in 0..Len(offers)
                            /\ RequestFits(s)',
           turn' \in [Procs -> Slots \cup {Nobody}],
           lock' \in [Procs -> Slots \cup {Nobody}]
    PROVE  FunnelInv'
<1>1. TypeOK'
  BY DEF FunnelInv, TypeOK, rows
<1>2. RevalidatedOnce' /\ ReadyIsEarned' /\ StaleMeansRevalidate'
      /\ ProductPreserved'
  BY DEF FunnelInv, rows, RevalidatedOnce, ReadyIsEarned,
         StaleMeansRevalidate, ProductPreserved, PassengersComplete,
         ContactComplete
<1> QED BY <1>1, <1>2 DEF FunnelInv, RequestFits

\* The same, for the common step of one request that ends up relying on
\* nothing.
LEMMA QuietStepOfOne ==
    ASSUME FunnelInv, UNCHANGED rows, NEW s \in Slots, NEW r \in RequestType,
           r.pc \notin Relying, r.rev <= booking.revision,
           r.source \in 0..Len(offers),
           req' = [req EXCEPT ![s] = r],
           turn' \in [Procs -> Slots \cup {Nobody}],
           lock' \in [Procs -> Slots \cup {Nobody}]
    PROVE  FunnelInv'
<1>1. req \in [Slots -> RequestType]
      /\ \A t \in Slots : req[t].source \in 0..Len(offers)
  BY DEF FunnelInv, TypeOK
<1>2. req' \in [Slots -> RequestType]
      /\ \A t \in Slots : req'[t].source \in 0..Len(offers)
  BY <1>1
<1>3. ASSUME NEW t \in Slots PROVE RequestFits(t)'
  <2>1. CASE t = s
    BY <1>1, <2>1, HarmlessRequest DEF RequestFits, rows
  <2>2. CASE t # s
    <3>1. req'[t] = req[t] /\ RequestFits(t)
      BY <1>1, <2>2 DEF FunnelInv, RequestFits
    <3> QED BY <3>1, QuietRequest
  <2> QED BY <2>1, <2>2
<1> QED BY <1>2, <1>3, QuietStep

\* A step that produces a new revision keeps the invariant if the rows it
\* writes are well-formed and consistent.
LEMMA WritingStep ==
    ASSUME FunnelInv, NEW s \in Slots, NEW r \in RequestType,
           r.pc \notin Relying, r.rev <= booking.revision + 1,
           r.source \in 0..Len(offers),
           req' = [req EXCEPT ![s] = r],
           booking' \in BookingRow,
           booking'.revision = booking.revision + 1,
           offers' \in Seq(Offer), Len(offers') >= Len(offers),
           booking'.accepted \in 1..Len(offers'),
           latest' \in RevalidationRow,
           passengers' \in PaxData, contact' \in ContactData,
           turn' \in [Procs -> Slots \cup {Nobody}],
           lock' \in [Procs -> Slots \cup {Nobody}],
           RevalidatedOnce', ReadyIsEarned', StaleMeansRevalidate',
           ProductPreserved'
    PROVE  FunnelInv'
<1>1. req \in [Slots -> RequestType]
      /\ (\A t \in Slots : req[t].source \in 0..Len(offers))
      /\ Len(offers) \in Nat /\ Len(offers') \in Nat
  BY DEF FunnelInv, TypeOK
<1>2. req' \in [Slots -> RequestType]
      /\ \A t \in Slots : req'[t].source \in 0..Len(offers')
  BY <1>1
<1>3. ASSUME NEW t \in Slots PROVE RequestFits(t)'
  <2>1. CASE t = s
    BY <1>1, <2>1, HarmlessRequest DEF RequestFits
  <2>2. CASE t # s
    <3>1. req'[t] = req[t] /\ RequestFits(t) /\ TypeOK
      BY <1>1, <2>2 DEF FunnelInv, RequestFits
    <3> QED BY <1>1, <3>1, OutdatedRequest
  <2> QED BY <2>1, <2>2
<1>4. TypeOK'
  BY <1>2 DEF TypeOK
<1> QED BY <1>3, <1>4 DEF FunnelInv, RequestFits

-----------------------------------------------------------------------------
(* The actions                                                             *)

\* The turn and the locks of the processes stay in type.
LEMMA TurnType ==
    ASSUME FunnelInv, NEW s \in Slots
    PROVE  /\ KeepRunning(s) \/ GiveUpLoop(s)
                => turn' \in [Procs -> Slots \cup {Nobody}]
           /\ Release(s) => lock' \in [Procs -> Slots \cup {Nobody}]
           /\ UNCHANGED lock => lock' \in [Procs -> Slots \cup {Nobody}]
BY FunnelAssumption DEF FunnelInv, TypeOK, KeepRunning, GiveUpLoop, Release

LEMMA IdleRequestType ==
    /\ IdleRequest \in RequestType
    /\ IdleRequest.pc = "idle" /\ IdleRequest.rev = 0
    /\ IdleRequest.source = 0 /\ IdleRequest.kind = "none"
    /\ IdleRequest.pc \notin Relying
BY FunnelAssumption
   DEF Relying, IdleRequest, RequestType, Kinds, FunnelPcs, NoTarget, BookingStatuses,
       RevalidationStatuses

\* A request that ends, whatever else is written.
LEMMA FinishQuietly ==
    ASSUME FunnelInv, UNCHANGED rows, NEW s \in Slots, Finish(s),
           Release(s) \/ UNCHANGED lock
    PROVE  FunnelInv'
<1>1. req' = [req EXCEPT ![s] = IdleRequest] /\ GiveUpLoop(s)
  BY DEF Finish
<1>2. booking.revision \in Nat /\ Len(offers) \in Nat
  BY DEF FunnelInv, TypeOK, BookingRow
<1>3. IdleRequest.rev <= booking.revision
      /\ IdleRequest.source \in 0..Len(offers)
  BY <1>2, IdleRequestType
<1> QED BY <1>1, <1>3, IdleRequestType, TurnType, QuietStepOfOne

LEMMA RespondQuietly ==
    ASSUME FunnelInv, UNCHANGED rows, NEW s \in Slots, Respond(s),
           Release(s) \/ UNCHANGED lock
    PROVE  FunnelInv'
<1>1. CASE Finish(s)
  BY <1>1, FinishQuietly
<1>2. CASE ~Finish(s)
  <2> DEFINE r == [req[s] EXCEPT !.pc = "prepare", !.rev = booking.revision]
  <2>1. req' = [req EXCEPT ![s] = r] /\ KeepRunning(s)
    <3>1. req' = [req EXCEPT ![s].pc = "prepare", ![s].rev = booking.revision]
          /\ KeepRunning(s)
      BY <1>2 DEF Respond
    <3> QED BY <3>1 DEF FunnelInv, TypeOK
  <2>2. /\ req[s] \in RequestType /\ booking.revision \in Nat
        /\ Len(offers) \in Nat /\ req[s].source \in 0..Len(offers)
    BY DEF FunnelInv, TypeOK, BookingRow
  <2>3. /\ r \in RequestType /\ r.pc = "prepare"
        /\ r.rev = booking.revision /\ r.source = req[s].source
    BY <2>2 DEF RequestType, CreatePcs
  <2> HIDE DEF r
  <2>4. /\ r.pc \notin Relying /\ r.rev <= booking.revision
        /\ r.source \in 0..Len(offers)
    BY <2>2, <2>3 DEF Relying
  <2>5. /\ turn' \in [Procs -> Slots \cup {Nobody}]
        /\ lock' \in [Procs -> Slots \cup {Nobody}]
    BY <2>1, TurnType
  <2> QED BY <2>1, <2>3, <2>4, <2>5, QuietStepOfOne
<1> QED BY <1>1, <1>2

\* A step of one request that leaves the rows alone and the request in
\* agreement with them.
LEMMA FittingStepOfOne ==
    ASSUME FunnelInv, UNCHANGED rows, NEW s \in Slots, NEW r \in RequestType,
           r.source \in 0..Len(offers), r.rev <= booking.revision,
           req' = [req EXCEPT ![s] = r],
           ResolveFits(s)', EditFits(s)', AnswerFits(s)',
           turn' \in [Procs -> Slots \cup {Nobody}],
           lock' \in [Procs -> Slots \cup {Nobody}]
    PROVE  FunnelInv'
<1>1. req \in [Slots -> RequestType]
      /\ \A t \in Slots : req[t].source \in 0..Len(offers)
  BY DEF FunnelInv, TypeOK
<1>2. req' \in [Slots -> RequestType]
      /\ \A t \in Slots : req'[t].source \in 0..Len(offers)
  BY <1>1
<1>3. ASSUME NEW t \in Slots PROVE RequestFits(t)'
  <2>1. CASE t = s
    BY <1>1, <2>1 DEF RequestFits, rows
  <2>2. CASE t # s
    <3>1. req'[t] = req[t] /\ RequestFits(t)
      BY <1>1, <2>2 DEF FunnelInv, RequestFits
    <3> QED BY <3>1, QuietRequest
  <2> QED BY <2>1, <2>2
<1> QED BY <1>2, <1>3, QuietStep

LEMMA EditPassengersStep ==
    ASSUME FunnelInv, NEW s \in Slots, NEW data \in PaxData,
           EditPassengers(s, data)
    PROVE  FunnelInv'
<1> DEFINE target == ResolveAfterPassengerEdit(booking.status, booking.reval,
                                               data \in CompletePax)
           r == [kind |-> "passengers", pc |-> "edit",
                 rev |-> booking.revision, saved |-> data,
                 target |-> target, source |-> 0]
<1>1. /\ booking.status \in BookingStatuses
      /\ booking.reval \in RevalidationStatuses
      /\ booking.revision \in Nat /\ Len(offers) \in Nat
      /\ req \in [Slots -> RequestType]
  BY DEF FunnelInv, TypeOK, BookingRow
<1>2. target \in [status : BookingStatuses, reval : RevalidationStatuses]
  BY <1>1 DEF ResolveAfterPassengerEdit, ResolveAfterMaterialMutation,
              InvalidateAfterMaterialMutation, BookingStatuses,
              RevalidationStatuses
<1> HIDE DEF target
<1>3. req' = [req EXCEPT ![s] = r] /\ KeepRunning(s)
      /\ UNCHANGED <<rows, lock>> /\ booking.status \notin TerminalStatuses
  BY DEF EditPassengers, Edit, target
<1>4. r \in RequestType
  BY <1>1, <1>2 DEF RequestType, Kinds, FunnelPcs
<1>5. req'[s] = r
  BY <1>1, <1>3
<1>6. EditFits(s)'
  BY <1>3, <1>5 DEF EditFits, rows, target
<1>7. AnswerFits(s)' /\ ResolveFits(s)'
  BY <1>5 DEF AnswerFits, ResolveFits
<1>8. r.source \in 0..Len(offers) /\ r.rev <= booking.revision
  BY <1>1
<1>9. /\ turn' \in [Procs -> Slots \cup {Nobody}]
      /\ lock' \in [Procs -> Slots \cup {Nobody}]
  BY <1>3, TurnType
<1> HIDE DEF r
<1> QED BY <1>3, <1>4, <1>6, <1>7, <1>8, <1>9, FittingStepOfOne

LEMMA EditContactStep ==
    ASSUME FunnelInv, NEW s \in Slots, NEW data \in ContactData,
           EditContact(s, data)
    PROVE  FunnelInv'
<1> DEFINE target == [status |-> booking.status, reval |-> booking.reval]
           r == [kind |-> "contact", pc |-> "resolve",
                 rev |-> booking.revision, saved |-> data,
                 target |-> target, source |-> 0]
<1>1. /\ booking.status \in BookingStatuses
      /\ booking.reval \in RevalidationStatuses
      /\ booking.revision \in Nat /\ Len(offers) \in Nat
      /\ req \in [Slots -> RequestType]
  BY DEF FunnelInv, TypeOK, BookingRow
<1>2. target \in [status : BookingStatuses, reval : RevalidationStatuses]
  BY <1>1
<1>3. req' = [req EXCEPT ![s] = r] /\ KeepRunning(s)
      /\ UNCHANGED <<rows, lock>> /\ booking.status \notin TerminalStatuses
  BY DEF EditContact, Edit
<1>4. r \in RequestType
  BY <1>1, <1>2 DEF RequestType, Kinds, FunnelPcs
<1>5. req'[s] = r
  BY <1>1, <1>3
<1>6. ResolveFits(s)'
  BY <1>3, <1>5 DEF ResolveFits, rows
<1>7. AnswerFits(s)' /\ EditFits(s)'
  BY <1>5 DEF AnswerFits, EditFits
<1>8. r.source \in 0..Len(offers) /\ r.rev <= booking.revision
  BY <1>1
<1>9. /\ turn' \in [Procs -> Slots \cup {Nobody}]
      /\ lock' \in [Procs -> Slots \cup {Nobody}]
  BY <1>3, TurnType
<1> HIDE DEF r
<1> QED BY <1>3, <1>4, <1>6, <1>7, <1>8, <1>9, FittingStepOfOne

LEMMA ResolveContactStep ==
    ASSUME FunnelInv, NEW s \in Slots, ResolveContact(s)
    PROVE  FunnelInv'
<1> DEFINE from == req[s].target
           target == ResolveAfterMaterialMutation(from.status, from.reval,
                       PassengersComplete, req[s].saved \in CompleteContact)
           r == [req[s] EXCEPT !.pc = "edit", !.target = target]
<1>1. /\ req \in [Slots -> RequestType] /\ req[s] \in RequestType
      /\ from \in [status : BookingStatuses, reval : RevalidationStatuses]
      /\ req[s].source \in 0..Len(offers)
      /\ req[s].rev <= booking.revision
      /\ ResolveFits(s) /\ req[s].pc = "resolve"
  BY DEF FunnelInv, TypeOK, RequestType, ResolveContact
<1>2. target \in [status : BookingStatuses, reval : RevalidationStatuses]
  BY <1>1 DEF ResolveAfterMaterialMutation, InvalidateAfterMaterialMutation,
              BookingStatuses, RevalidationStatuses
<1>3. req' = [req EXCEPT ![s] = r] /\ KeepRunning(s)
      /\ UNCHANGED <<rows, lock>>
  BY <1>1 DEF ResolveContact
<1>4. StillCurrent(s) =>
        target = ResolveAfterMaterialMutation(booking.status, booking.reval,
                   PassengersComplete, req[s].saved \in CompleteContact)
  BY <1>1 DEF ResolveFits
<1> HIDE DEF target
<1>5. /\ r \in RequestType /\ r.pc = "edit" /\ r.target = target
      /\ r.kind = req[s].kind /\ r.saved = req[s].saved
      /\ r.rev = req[s].rev /\ r.source = req[s].source
  BY <1>1, <1>2 DEF RequestType, FunnelPcs
<1> HIDE DEF r
<1>6. req'[s] = r
  BY <1>1, <1>3
<1>7. EditFits(s)'
  BY <1>1, <1>3, <1>4, <1>5, <1>6
     DEF EditFits, ResolveFits, StillCurrent, rows, PassengersComplete
<1>8. AnswerFits(s)' /\ ResolveFits(s)'
  BY <1>5, <1>6 DEF AnswerFits, ResolveFits
<1>9. /\ turn' \in [Procs -> Slots \cup {Nobody}]
      /\ lock' \in [Procs -> Slots \cup {Nobody}]
  BY <1>3, TurnType
<1> QED BY <1>1, <1>3, <1>5, <1>7, <1>8, <1>9, FittingStepOfOne

\* What an edit that is still current turns the Booking into.
LEMMA EditedStatuses ==
    ASSUME FunnelInv, NEW s \in Slots, req[s].pc = "edit", StillCurrent(s)
    PROVE  LET to == req[s].target
           IN  /\ to \in [status : BookingStatuses, reval : RevalidationStatuses]
               /\ to.status = "revalidation_required" <=> to.reval = "stale"
               /\ to.reval = "not_run" <=> to.status \in {"draft", "ready_for_review"}
               /\ to.reval # "not_run" => booking.reval # "not_run"
               /\ to.status \notin {"ready_to_create_pnr", "pnr_created"}
               /\ CanTransition(booking.status, to.status)
<1>1. /\ booking.status \in BookingStatuses \ TerminalStatuses
      /\ booking.reval \in RevalidationStatuses
      /\ EditFits(s) /\ RevalidatedOnce /\ StaleMeansRevalidate
      /\ req[s] \in RequestType
  BY DEF FunnelInv, TypeOK, BookingRow, EditFits
<1>2. req[s].target \in [status : BookingStatuses, reval : RevalidationStatuses]
  BY <1>1 DEF RequestType
<1>3. LET inv == InvalidateAfterMaterialMutation(booking.status, booking.reval)
      IN  \/ inv.status = "revalidation_required" /\ inv.reval = "stale"
             /\ booking.reval # "not_run"
             /\ CanTransition(booking.status, "revalidation_required")
          \/ inv.status = booking.status /\ inv.reval = "not_run"
             /\ booking.reval = "not_run"
             /\ booking.status \in {"draft", "ready_for_review"}
  BY <1>1 DEF InvalidateAfterMaterialMutation, RevalidatedOnce,
       StaleMeansRevalidate, PostRevalidationStatuses, DecisiveResults,
       BookingStatuses, RevalidationStatuses, TerminalStatuses,
       CanTransition, AllowedTransitions
<1>4. \/ /\ req[s].target.status = "revalidation_required"
         /\ req[s].target.reval = "stale" /\ booking.reval # "not_run"
         /\ CanTransition(booking.status, "revalidation_required")
      \/ /\ req[s].target.status \in {"draft", "ready_for_review"}
         /\ req[s].target.reval = "not_run"
         /\ booking.status \in {"draft", "ready_for_review"}
  BY <1>1, <1>3 DEF EditFits, ResolveAfterPassengerEdit,
       ResolveAfterMaterialMutation
<1>5. \A from, to \in {"draft", "ready_for_review"} : CanTransition(from, to)
  BY DEF CanTransition, AllowedTransitions
<1> QED BY <1>2, <1>4, <1>5

LEMMA CommitEditStep ==
    ASSUME FunnelInv, NEW s \in Slots, CommitEdit(s)
    PROVE  FunnelInv'
<1> DEFINE to == req[s].target
<1>1. /\ to \in [status : BookingStatuses, reval : RevalidationStatuses]
      /\ to.status = "revalidation_required" <=> to.reval = "stale"
      /\ to.reval = "not_run" <=> to.status \in {"draft", "ready_for_review"}
      /\ to.reval # "not_run" => booking.reval # "not_run"
      /\ to.status # "ready_to_create_pnr"
  BY EditedStatuses DEF CommitEdit
<1>2. /\ booking \in BookingRow /\ latest \in RevalidationRow
      /\ booking.revision \in Nat /\ Len(offers) \in Nat
      /\ offers \in Seq(Offer) /\ booking.accepted \in 1..Len(offers)
      /\ RevalidatedOnce /\ StaleMeansRevalidate /\ ProductPreserved
  BY DEF FunnelInv, TypeOK, BookingRow
<1>3. /\ booking' = [status |-> to.status, reval |-> to.reval,
                      revision |-> booking.revision + 1,
                      accepted |-> booking.accepted]
      /\ offers' = offers /\ UNCHANGED lock /\ Finish(s)
  BY DEF CommitEdit, EditedBooking
<1> HIDE DEF to
<1>4. /\ booking' \in BookingRow
      /\ booking'.status = to.status /\ booking'.reval = to.reval
      /\ booking'.revision = booking.revision + 1
      /\ booking'.accepted = booking.accepted
  BY <1>1, <1>2, <1>3 DEF BookingRow
<1>5. /\ latest' \in RevalidationRow /\ latest'.rev = latest.rev
      /\ latest'.stale = (latest.stale \/ (latest # NoRow /\ to.reval = "stale"
                                            /\ booking.reval # "stale"))
  BY <1>2 DEF CommitEdit, RevalidationRow, to
<1>6. RevalidatedOnce'
  BY <1>1, <1>2, <1>4, <1>5 DEF RevalidatedOnce
<1>7. ReadyIsEarned'
  BY <1>1, <1>4 DEF ReadyIsEarned
<1>8. StaleMeansRevalidate'
  <2>1. booking.reval # "not_run" => latest # NoRow
    BY <1>2 DEF RevalidatedOnce, NoRow
  <2> QED BY <1>1, <1>2, <1>4, <1>5, <2>1 DEF StaleMeansRevalidate
<1>9. ProductPreserved'
  BY <1>2, <1>3, <1>4 DEF ProductPreserved
<1>10. passengers' \in PaxData /\ contact' \in ContactData
  BY DEF FunnelInv, TypeOK, CommitEdit, EditFits
<1>11. /\ IdleRequest.pc \notin Relying
       /\ IdleRequest.rev <= booking.revision + 1
       /\ IdleRequest.source \in 0..Len(offers)
  BY <1>2, IdleRequestType
<1>12. /\ turn' \in [Procs -> Slots \cup {Nobody}]
       /\ lock' \in [Procs -> Slots \cup {Nobody}]
       /\ req' = [req EXCEPT ![s] = IdleRequest]
  BY <1>3, TurnType DEF Finish
<1>13. /\ offers' \in Seq(Offer) /\ Len(offers') >= Len(offers)
       /\ booking'.accepted \in 1..Len(offers')
  BY <1>2, <1>3, <1>4
<1> QED BY <1>4, <1>5, <1>6, <1>7, <1>8, <1>9, <1>10, <1>11, <1>12, <1>13,
           IdleRequestType, WritingStep

LEMMA RevalidateStep ==
    ASSUME FunnelInv, NEW s \in Slots, NEW rev \in 1..MaxRevision,
           Revalidate(s, rev)
    PROVE  FunnelInv'
<1> DEFINE r == [IdleRequest EXCEPT !.kind = "revalidate", !.pc = "lock",
                                    !.rev = rev]
<1>1. /\ req' = [req EXCEPT ![s] = r] /\ (KeepRunning(s) \/ GiveUpLoop(s))
      /\ UNCHANGED <<rows, lock>> /\ rev \in 1..booking.revision
  BY DEF Revalidate, EnterRevalidation
<1>2. booking.revision \in Nat /\ Len(offers) \in Nat
  BY DEF FunnelInv, TypeOK, BookingRow
<1>3. /\ r \in RequestType /\ r.pc = "lock" /\ r.rev = rev /\ r.source = 0
  <2>1. rev \in Nat
    BY <1>1, <1>2
  <2> QED BY <2>1, IdleRequestType DEF RequestType, Kinds, FunnelPcs
<1> HIDE DEF r
<1>4. /\ r.pc \notin Relying /\ r.rev <= booking.revision
      /\ r.source \in 0..Len(offers)
  BY <1>1, <1>2, <1>3 DEF Relying
<1>5. /\ turn' \in [Procs -> Slots \cup {Nobody}]
      /\ lock' \in [Procs -> Slots \cup {Nobody}]
  BY <1>1, TurnType
<1> QED BY <1>1, <1>3, <1>4, <1>5, QuietStepOfOne

LEMMA StartRevalidationStep ==
    ASSUME FunnelInv, NEW s \in Slots, StartRevalidation(s)
    PROVE  FunnelInv'
<1> DEFINE r == [req[s] EXCEPT !.pc = "provider", !.source = booking.accepted]
<1>1. /\ req \in [Slots -> RequestType] /\ req[s] \in RequestType
      /\ booking \in BookingRow
      /\ booking.accepted \in 1..Len(offers) /\ Len(offers) \in Nat
      /\ req[s].rev <= booking.revision
  BY DEF FunnelInv, TypeOK
<1>2. /\ req' = [req EXCEPT ![s] = r] /\ GiveUpLoop(s) /\ UNCHANGED rows
      /\ lock' = [lock EXCEPT ![Home[s]] = s]
      /\ Preflight(req[s].rev)
  BY <1>1 DEF StartRevalidation
<1>3. /\ r \in RequestType /\ r.pc = "provider"
      /\ r.source = booking.accepted /\ r.rev = req[s].rev
  BY <1>1 DEF RequestType, FunnelPcs, BookingRow
<1> HIDE DEF r
<1>4. req'[s] = r
  BY <1>1, <1>2
<1>5. EditFits(s)' /\ ResolveFits(s)'
  BY <1>3, <1>4 DEF EditFits, ResolveFits
<1>6. AnswerFits(s)'
  <2>1. booking.status \notin TerminalStatuses \cup {"draft"}
    BY <1>2 DEF Preflight, TerminalStatuses, PostRevalidationStatuses
  <2> QED BY <1>1, <1>2, <1>3, <1>4, <2>1
          DEF AnswerFits, rows, Preflight, PassengersComplete, ContactComplete
<1>7. /\ turn' \in [Procs -> Slots \cup {Nobody}]
      /\ lock' \in [Procs -> Slots \cup {Nobody}]
  <2>1. lock' \in [Procs -> Slots \cup {Nobody}]
    BY <1>2 DEF FunnelInv, TypeOK
  <2> QED BY <1>2, <2>1, TurnType
<1>8. r.source \in 0..Len(offers) /\ r.rev <= booking.revision
  BY <1>1, <1>3
<1> QED BY <1>2, <1>3, <1>5, <1>6, <1>7, <1>8, FittingStepOfOne

LEMMA RetryRevalidationStep ==
    ASSUME FunnelInv, NEW s \in Slots, RetryRevalidation(s)
    PROVE  FunnelInv'
BY RespondQuietly DEF RetryRevalidation

LEMMA ReadBackStep ==
    ASSUME FunnelInv, NEW s \in Slots, ReadBack(s)
    PROVE  FunnelInv'
BY RespondQuietly, FinishQuietly DEF ReadBack

\* Requests that end without a write.
LEMMA EndingStep ==
    ASSUME FunnelInv, NEW s \in Slots,
           \/ ConflictEdit(s) \/ RefuseRevalidation(s)
           \/ DiscardResult(s) \/ ProviderRefuses(s)
    PROVE  FunnelInv'
BY FinishQuietly
   DEF ConflictEdit, RefuseRevalidation, DiscardResult, ProviderRefuses

\* Comparing says "matched" only of what sells as the source does.
LEMMA MatchedSellsAs ==
    ASSUME NEW source \in Products, NEW candidate \in Products
    PROVE  /\ CompareRevalidatedOffer(source, candidate)
                \in DecisiveResults \ {"unavailable", "error"}
           /\ CompareRevalidatedOffer(source, candidate) = "matched"
                => SellsAs(source, candidate)
BY DEF CompareRevalidatedOffer, DecisiveResults, RevalidationStatuses,
       FareChanged, SellsAs

\* What sells as something that sells as the first offer sells as the first.
LEMMA SellsAsIsTransitive ==
    ASSUME NEW first, NEW middle, NEW last,
           SellsAs(first, middle), SellsAs(middle, last)
    PROVE  SellsAs(first, last)
BY DEF SellsAs

\* The transaction of a revalidation, given what it did to the offers.
LEMMA PersistStep ==
    ASSUME FunnelInv, NEW s \in Slots, req[s].pc = "provider",
           NEW result \in DecisiveResults, NEW candidate \in 0..Len(offers'),
           PersistRow(s, result, candidate),
           offers' \in Seq(Offer), Len(offers') >= Len(offers),
           \A i \in 1..Len(offers) : offers'[i] = offers[i],
           result = "matched" =>
               /\ candidate # 0
               /\ offers'[candidate].source = "revalidation"
               /\ SellsAs(offers[req[s].source].product,
                          offers'[candidate].product)
    PROVE  FunnelInv'
<1> DEFINE r == [req[s] EXCEPT !.pc = "readback"]
           rev == booking.revision + 1
           status == IF result = "matched" THEN "ready_to_create_pnr"
                                           ELSE "requires_agent_action"
           accepted == AcceptedAfter(result, candidate)
<1>1. /\ req \in [Slots -> RequestType] /\ req[s] \in RequestType
      /\ booking \in BookingRow /\ booking.revision \in Nat
      /\ Len(offers) \in Nat /\ Len(offers') \in Nat
      /\ booking.accepted \in 1..Len(offers)
      /\ req[s].source \in 0..Len(offers)
      /\ ProductPreserved
  BY DEF FunnelInv, TypeOK, BookingRow
<1>2. /\ req[s].rev = booking.revision
      /\ req[s].source = booking.accepted
      /\ PassengersComplete /\ ContactComplete
  BY DEF FunnelInv, AnswerFits, StillCurrent, PersistRow
<1>3. /\ req' = [req EXCEPT ![s] = r] /\ KeepRunning(s)
      /\ UNCHANGED <<passengers, contact, lock>>
      /\ latest' = [status |-> result, source |-> req[s].source,
                    candidate |-> candidate, stale |-> FALSE, rev |-> rev]
      /\ booking' = [status |-> status, reval |-> result, revision |-> rev,
                     accepted |-> accepted]
  BY <1>1 DEF PersistRow
<1>4. /\ result \in RevalidationStatuses \ {"not_run", "stale"}
      /\ accepted \in 1..Len(offers')
      /\ status \in BookingStatuses
      /\ status \notin {"draft", "ready_for_review", "revalidation_required"}
      /\ status = "ready_to_create_pnr" <=> result = "matched"
  BY <1>1 DEF DecisiveResults, AcceptedAfter, BookingStatuses
<1>5. /\ r \in RequestType /\ r.pc = "readback" /\ r.rev = booking.revision
      /\ r.source = req[s].source
  BY <1>1, <1>2 DEF RequestType, FunnelPcs
<1> HIDE DEF r, status
<1>6. booking' \in BookingRow /\ latest' \in RevalidationRow
      /\ booking'.accepted \in 1..Len(offers')
  BY <1>1, <1>3, <1>4 DEF BookingRow, RevalidationRow
<1>7. RevalidatedOnce'
  BY <1>1, <1>3, <1>4 DEF RevalidatedOnce
<1>8. ReadyIsEarned'
  BY <1>2, <1>3, <1>4
     DEF ReadyIsEarned, PassengersComplete, ContactComplete, AcceptedAfter
<1>9. StaleMeansRevalidate'
  BY <1>3, <1>4 DEF StaleMeansRevalidate
<1>10. ProductPreserved'
  <2>1. offers'[1] = offers[1] /\ offers'[booking.accepted] = offers[booking.accepted]
    BY <1>1
  <2>2. SellsAs(offers[1].product, offers[booking.accepted].product)
    BY <1>1 DEF ProductPreserved
  <2>3. SellsAs(offers[1].product, offers'[accepted].product)
    <3>1. CASE result = "matched"
      <4>1. SellsAs(offers[booking.accepted].product,
                    offers'[accepted].product)
        BY <1>2, <3>1 DEF AcceptedAfter
      <4> QED BY <2>2, <4>1, SellsAsIsTransitive
    <3>2. CASE result # "matched"
      BY <2>1, <2>2, <3>2 DEF AcceptedAfter
    <3> QED BY <3>1, <3>2
  <2>4. booking'.accepted = accepted
    BY <1>3
  <2> QED BY <2>1, <2>3, <2>4 DEF ProductPreserved
<1>11. /\ r.pc \notin Relying /\ r.rev <= booking.revision + 1
       /\ r.source \in 0..Len(offers) /\ booking'.revision = booking.revision + 1
  BY <1>1, <1>3, <1>5 DEF Relying
<1>12. /\ turn' \in [Procs -> Slots \cup {Nobody}]
       /\ lock' \in [Procs -> Slots \cup {Nobody}]
       /\ passengers' \in PaxData /\ contact' \in ContactData
  BY <1>3, TurnType DEF FunnelInv, TypeOK
<1> QED BY <1>3, <1>5, <1>6, <1>7, <1>8, <1>9, <1>10, <1>11, <1>12,
           WritingStep

LEMMA PersistOfferStep ==
    ASSUME FunnelInv, NEW s \in Slots, NEW product \in Products,
           PersistOffer(s, product)
    PROVE  FunnelInv'
<1> DEFINE asked == offers[req[s].source].product
           result == CompareRevalidatedOffer(asked, product)
           offer == [source |-> "revalidation", product |-> product]
<1>1. /\ offers \in Seq(Offer) /\ Len(offers) \in Nat
      /\ req[s].pc = "provider" /\ req[s].source \in 1..Len(offers)
  BY DEF FunnelInv, TypeOK, PersistOffer, AnswerFits
<1>2. /\ asked \in Products /\ offer \in Offer
      /\ offer.product = product
  <2>1. offers[req[s].source] \in Offer
    BY <1>1
  <2> QED BY <2>1 DEF Offer
<1>3. /\ offers' = Append(offers, offer)
      /\ PersistRow(s, result, Len(offers) + 1)
  BY DEF PersistOffer
<1>4. result \in DecisiveResults
      /\ (result = "matched" => SellsAs(asked, product))
  BY <1>2, MatchedSellsAs
<1> HIDE DEF offer, asked, result
<1>5. /\ offers' \in Seq(Offer) /\ Len(offers') = Len(offers) + 1
      /\ \A i \in 1..Len(offers) : offers'[i] = offers[i]
      /\ offers'[Len(offers) + 1] = offer
  BY <1>1, <1>2, <1>3
<1>6. result = "matched" =>
        /\ Len(offers) + 1 # 0
        /\ offers'[Len(offers) + 1].source = "revalidation"
        /\ SellsAs(offers[req[s].source].product,
                   offers'[Len(offers) + 1].product)
  BY <1>1, <1>2, <1>4, <1>5 DEF offer, asked
<1>7. Len(offers) + 1 \in 0..Len(offers') /\ Len(offers') >= Len(offers)
  BY <1>1, <1>5
<1> QED BY <1>1, <1>3, <1>4, <1>5, <1>6, <1>7, PersistStep

LEMMA PersistNoOfferStep ==
    ASSUME FunnelInv, NEW s \in Slots, NEW result \in {"unavailable", "error"},
           PersistNoOffer(s, result)
    PROVE  FunnelInv'
<1>1. offers' = offers /\ offers \in Seq(Offer) /\ Len(offers) \in Nat
  BY DEF FunnelInv, TypeOK, PersistNoOffer
<1>2. /\ req[s].pc = "provider" /\ PersistRow(s, result, 0)
      /\ result \in DecisiveResults /\ result # "matched"
  BY DEF PersistNoOffer, DecisiveResults, RevalidationStatuses
<1>3. 0 \in 0..Len(offers') /\ Len(offers') >= Len(offers)
      /\ \A i \in 1..Len(offers) : offers'[i] = offers[i]
  BY <1>1
<1> QED BY <1>1, <1>2, <1>3, PersistStep

LEMMA CrashStep ==
    ASSUME FunnelInv, NEW p \in Procs, Crash(p)
    PROVE  FunnelInv'
<1>1. /\ UNCHANGED rows
      /\ req' = [s \in Slots |-> IF Home[s] = p THEN IdleRequest ELSE req[s]]
      /\ turn' = [turn EXCEPT ![p] = Nobody]
      /\ lock' = [lock EXCEPT ![p] = Nobody]
  BY DEF Crash
<1>2. /\ req \in [Slots -> RequestType]
      /\ booking.revision \in Nat /\ Len(offers) \in Nat
  BY DEF FunnelInv, TypeOK, BookingRow
<1>3. req' \in [Slots -> RequestType]
  BY <1>1, <1>2, IdleRequestType
<1>4. ASSUME NEW s \in Slots
      PROVE  req'[s].source \in 0..Len(offers) /\ RequestFits(s)'
  <2>1. CASE Home[s] = p
    <3>1. req'[s] = IdleRequest
      BY <1>1, <2>1
    <3>2. ResolveFits(s)' /\ EditFits(s)' /\ AnswerFits(s)'
      BY <3>1, IdleRequestType, HarmlessRequest
    <3>3. booking' = booking
      BY <1>1 DEF rows
    <3> QED BY <1>2, <3>1, <3>2, <3>3, IdleRequestType DEF RequestFits
  <2>2. CASE Home[s] # p
    <3>1. req'[s] = req[s] /\ RequestFits(s)
      BY <1>1, <2>2 DEF FunnelInv, RequestFits
    <3>2. req[s].source \in 0..Len(offers)
      BY DEF FunnelInv, TypeOK
    <3> QED BY <1>1, <3>1, <3>2, QuietRequest
  <2> QED BY <2>1, <2>2
<1>5. /\ turn' \in [Procs -> Slots \cup {Nobody}]
      /\ lock' \in [Procs -> Slots \cup {Nobody}]
  BY <1>1 DEF FunnelInv, TypeOK
<1> QED BY <1>1, <1>3, <1>4, <1>5, QuietStep

-----------------------------------------------------------------------------
(* The invariant                                                           *)

LEMMA InitEstablishes == Init => FunnelInv
<1> SUFFICES ASSUME Init PROVE FunnelInv
  OBVIOUS
<1>1. PICK p \in Products :
        offers = <<[source |-> "initial", product |-> p]>>
  BY DEF Init
<1>2. /\ offers \in Seq(Offer) /\ Len(offers) = 1
  BY <1>1 DEF Offer
<1>3. /\ booking = [status |-> "draft", reval |-> "not_run",
                    revision |-> 1, accepted |-> 1]
      /\ latest = NoRow
      /\ passengers = NoPax /\ contact = NoContact
      /\ req = [s \in Slots |-> IdleRequest]
      /\ turn = [q \in Procs |-> Nobody] /\ lock = [q \in Procs |-> Nobody]
  BY DEF Init
<1>4. TypeOK
  BY <1>2, <1>3, IdleRequestType, FunnelAssumption
     DEF TypeOK, BookingRow, RevalidationRow, NoRow, BookingStatuses,
         RevalidationStatuses
<1>5. \A s \in Slots :
        /\ req[s].rev <= booking.revision
        /\ ResolveFits(s) /\ EditFits(s) /\ AnswerFits(s)
  BY <1>3, IdleRequestType DEF ResolveFits, EditFits, AnswerFits
<1>6. RevalidatedOnce /\ ReadyIsEarned /\ StaleMeansRevalidate
      /\ ProductPreserved
  BY <1>3 DEF RevalidatedOnce, ReadyIsEarned, StaleMeansRevalidate,
              ProductPreserved, SellsAs
<1> QED BY <1>4, <1>5, <1>6 DEF FunnelInv

LEMMA StutterPreserves ==
    ASSUME FunnelInv, UNCHANGED vars
    PROVE  FunnelInv'
<1>1. UNCHANGED rows /\ req' = req /\ turn' = turn /\ lock' = lock
  BY DEF vars, rows
<1>2. \A s \in Slots : RequestFits(s)'
  BY <1>1, QuietRequest DEF FunnelInv, RequestFits
<1> QED BY <1>1, <1>2, QuietStep DEF FunnelInv, TypeOK

LEMMA NextPreserves == FunnelInv /\ [Next]_vars => FunnelInv'
<1> SUFFICES ASSUME FunnelInv, [Next]_vars PROVE FunnelInv'
  OBVIOUS
<1>1. ASSUME NEW s \in Slots, Arrive(s) PROVE FunnelInv'
  BY <1>1, EditPassengersStep, EditContactStep, RevalidateStep DEF Arrive
<1>2. ASSUME NEW s \in Slots, Advance(s) PROVE FunnelInv'
  BY <1>2, ResolveContactStep, CommitEditStep, StartRevalidationStep, RetryRevalidationStep,
     PersistOfferStep, PersistNoOfferStep, ReadBackStep, EndingStep
     DEF Advance
<1>3. ASSUME NEW p \in Procs, Crash(p) PROVE FunnelInv'
  BY <1>3, CrashStep
<1>4. CASE UNCHANGED vars
  BY <1>4, StutterPreserves
<1> QED BY <1>1, <1>2, <1>3, <1>4 DEF Next

\* FunnelInv holds in every reachable state: no interleaving of edits,
\* answers of Sabre, retries and crashes leads out of it.
THEOREM FunnelIsSafe == Spec => []FunnelInv
<1>1. Init => FunnelInv
  BY InitEstablishes
<1>2. FunnelInv /\ [Next]_vars => FunnelInv'
  BY NextPreserves
<1> QED BY <1>1, <1>2, PTL DEF Spec

\* The type invariant.
THEOREM TypeCorrect == Spec => []TypeOK
<1>1. FunnelInv => TypeOK
  BY DEF FunnelInv
<1> QED BY <1>1, FunnelIsSafe, PTL

\* A Booking that claims to be ready for its PNR has earned it.
THEOREM ReadyEarned == Spec => []ReadyIsEarned
<1>1. FunnelInv => ReadyIsEarned
  BY DEF FunnelInv
<1> QED BY <1>1, FunnelIsSafe, PTL

\* "Stale" and "revalidation required" are one condition.
THEOREM StaleRevalidates == Spec => []StaleMeansRevalidate
<1>1. FunnelInv => StaleMeansRevalidate
  BY DEF FunnelInv
<1> QED BY <1>1, FunnelIsSafe, PTL

\* The product the agent selected is the product that is accepted.
THEOREM ProductKept == Spec => []ProductPreserved
<1>1. FunnelInv => ProductPreserved
  BY DEF FunnelInv
<1> QED BY <1>1, FunnelIsSafe, PTL

-----------------------------------------------------------------------------
(* The action properties                                                   *)

\* The steps that write are the two transactions; all others leave the rows.
LEMMA Writers ==
    ASSUME FunnelInv, [Next]_vars
    PROVE  \/ UNCHANGED rows
           \/ \E s \in Slots : CommitEdit(s)
           \/ \E s \in Slots, result \in DecisiveResults, candidate \in Nat :
                req[s].pc = "provider" /\ PersistRow(s, result, candidate)
<1>1. ASSUME NEW s \in Slots, Arrive(s) PROVE UNCHANGED rows
  BY <1>1 DEF Arrive, EditPassengers, EditContact, Revalidate
<1>2. ASSUME NEW s \in Slots, NEW product \in Products,
             PersistOffer(s, product)
      PROVE  \E result \in DecisiveResults, candidate \in Nat :
                req[s].pc = "provider" /\ PersistRow(s, result, candidate)
  <2>1. /\ req[s].pc = "provider" /\ req[s].source \in 1..Len(offers)
        /\ offers \in Seq(Offer)
    BY <1>2 DEF PersistOffer, FunnelInv, AnswerFits, TypeOK
  <2>2. offers[req[s].source] \in Offer /\ Len(offers) + 1 \in Nat
    BY <2>1
  <2>3. offers[req[s].source].product \in Products
    BY <2>2 DEF Offer
  <2>4. CompareRevalidatedOffer(offers[req[s].source].product, product)
          \in DecisiveResults
    BY <2>3, MatchedSellsAs
  <2> QED BY <1>2, <2>1, <2>2, <2>4 DEF PersistOffer
<1>3. ASSUME NEW s \in Slots, NEW result \in {"unavailable", "error"},
             PersistNoOffer(s, result)
      PROVE  \E res \in DecisiveResults, candidate \in Nat :
                req[s].pc = "provider" /\ PersistRow(s, res, candidate)
  <2>1. result \in DecisiveResults /\ 0 \in Nat
    BY DEF DecisiveResults, RevalidationStatuses
  <2> QED BY <1>3, <2>1 DEF PersistNoOffer
<1>4. ASSUME NEW s \in Slots,
             \/ ResolveContact(s) \/ ConflictEdit(s) \/ RefuseRevalidation(s)
             \/ DiscardResult(s) \/ ProviderRefuses(s)
             \/ StartRevalidation(s) \/ RetryRevalidation(s) \/ ReadBack(s)
      PROVE  UNCHANGED rows
  BY <1>4 DEF ResolveContact, ConflictEdit, RefuseRevalidation, DiscardResult,
              ProviderRefuses, StartRevalidation, RetryRevalidation, ReadBack
<1>5. ASSUME NEW p \in Procs, Crash(p) PROVE UNCHANGED rows
  BY <1>5 DEF Crash
<1>6. CASE UNCHANGED vars
  BY <1>6 DEF vars, rows
<1>7. CASE \E s \in Slots : Advance(s)
  BY <1>2, <1>3, <1>4, <1>7 DEF Advance
<1> QED BY <1>1, <1>5, <1>6, <1>7 DEF Next

\* Every change is one revision: no two states of the data share one.
THEOREM ChangesAreRevisions == Spec => RevisionCoversEveryChange
<1> DEFINE Covered == <<booking, passengers, contact, latest>>'
                        # <<booking, passengers, contact, latest>>
                      => booking'.revision = booking.revision + 1
<1>1. FunnelInv /\ [Next]_vars => Covered
  <2> SUFFICES ASSUME FunnelInv, [Next]_vars PROVE Covered
    OBVIOUS
  <2>1. CASE UNCHANGED rows
    BY <2>1 DEF rows
  <2>2. ASSUME NEW s \in Slots, CommitEdit(s) PROVE Covered
    BY <2>2 DEF CommitEdit, EditedBooking
  <2>3. ASSUME NEW s \in Slots, NEW result \in DecisiveResults,
               NEW candidate \in Nat, PersistRow(s, result, candidate)
        PROVE  Covered
    BY <2>3 DEF PersistRow
  <2> QED BY <2>1, <2>2, <2>3, Writers
<1>2. FunnelInv /\ [Next]_vars => [Covered]_vars
  BY <1>1
<1> HIDE DEF Covered
<1>3. Spec => [][Covered]_vars
  BY <1>2, FunnelIsSafe, PTL DEF Spec
<1> QED BY <1>3 DEF Covered, RevisionCoversEveryChange

\* A result is saved only over the offer Sabre was asked about, and only while
\* the forms are complete.
THEOREM ResultsFit == Spec => ResultFitsTheBooking
<1> DEFINE Fits == latest'.rev # latest.rev =>
                     /\ latest'.source = booking.accepted
                     /\ PassengersComplete /\ ContactComplete
                     /\ booking.status \notin TerminalStatuses \cup {"draft"}
<1>1. FunnelInv /\ [Next]_vars => Fits
  <2> SUFFICES ASSUME FunnelInv, [Next]_vars PROVE Fits
    OBVIOUS
  <2>1. CASE UNCHANGED rows
    BY <2>1 DEF rows
  <2>2. ASSUME NEW s \in Slots, CommitEdit(s) PROVE Fits
    <3>1. latest'.rev = latest.rev
      BY <2>2 DEF CommitEdit, FunnelInv, TypeOK, RevalidationRow
    <3> QED BY <3>1
  <2>3. ASSUME NEW s \in Slots, NEW result \in DecisiveResults,
               NEW candidate \in Nat, req[s].pc = "provider",
               PersistRow(s, result, candidate)
        PROVE  Fits
    BY <2>3 DEF PersistRow, FunnelInv, AnswerFits
  <2> QED BY <2>1, <2>2, <2>3, Writers
<1>2. FunnelInv /\ [Next]_vars => [Fits]_vars
  BY <1>1
<1> HIDE DEF Fits
<1>3. Spec => [][Fits]_vars
  BY <1>2, FunnelIsSafe, PTL DEF Spec
<1> QED BY <1>3 DEF Fits, ResultFitsTheBooking

\* The Booking moves by the transitions of booking_state.py.
THEOREM MovesAreAllowed == Spec => StatusMovesAreAllowed
<1> DEFINE Allowed ==
      \/ CanTransition(booking.status, booking'.status)
      \/ /\ CanTransition(booking.status, "revalidation_required")
         /\ CanTransition("revalidation_required", booking'.status)
         /\ latest'.rev = booking'.revision
<1>1. FunnelInv /\ [Next]_vars => Allowed
  <2> SUFFICES ASSUME FunnelInv, [Next]_vars PROVE Allowed
    OBVIOUS
  <2>1. CASE UNCHANGED rows
    BY <2>1 DEF rows, CanTransition
  <2>2. ASSUME NEW s \in Slots, CommitEdit(s) PROVE Allowed
    BY <2>2, EditedStatuses DEF CommitEdit, EditedBooking
  <2>3. ASSUME NEW s \in Slots, NEW result \in DecisiveResults,
               NEW candidate \in Nat, req[s].pc = "provider",
               PersistRow(s, result, candidate)
        PROVE  Allowed
    <3>1. CanTransition(booking.status, "revalidation_required")
      BY <2>3 DEF PersistRow, FunnelInv, AnswerFits
    <3>2. /\ booking'.status \in {"ready_to_create_pnr", "requires_agent_action"}
          /\ latest'.rev = booking'.revision
      BY <2>3 DEF PersistRow
    <3>3. CanTransition("revalidation_required", booking'.status)
      BY <3>2 DEF CanTransition, AllowedTransitions
    <3> QED BY <3>1, <3>2, <3>3
  <2> QED BY <2>1, <2>2, <2>3, Writers
<1>2. FunnelInv /\ [Next]_vars => [Allowed]_vars
  BY <1>1
<1> HIDE DEF Allowed
<1>3. Spec => [][Allowed]_vars
  BY <1>2, FunnelIsSafe, PTL DEF Spec
<1> QED BY <1>3 DEF Allowed, StatusMovesAreAllowed

-----------------------------------------------------------------------------
(* Create PNR                                                              *)

\* The attempt, once there, stays bound and a success stays a success.
AttemptGoesOn ==
    attempt # NoAttempt =>
        /\ attempt' # NoAttempt
        /\ attempt'.rev = attempt.rev /\ attempt'.offer = attempt.offer
        /\ attempt'.reval = attempt.reval
        /\ attempt.status = "succeeded" => attempt'.status = "succeeded"

\* A request that did not move keeps fitting.
LEMMA OthersFit ==
    ASSUME CreateInv, NEW t \in Slots, req'[t] = req[t], job'[t] = job[t],
           UNCHANGED rows \/ booking'.revision = booking.revision + 1,
           AttemptGoesOn, pnrs' \in Nat, pnrs' >= pnrs
    PROVE  JobFits(t)'
<1>1. /\ req[t].rev \in Nat /\ booking.revision \in Nat /\ pnrs \in Nat
      /\ req[t].rev <= booking.revision /\ JobFits(t)
  BY DEF CreateInv, CreateTypeOK, FunnelInv, TypeOK, RequestType, BookingRow
<1>2. StillCurrent(t)' => StillCurrent(t) /\ UNCHANGED rows
  BY <1>1 DEF StillCurrent, rows
<1>3. Sending(t)' = Sending(t)
  BY DEF Sending
<1> QED BY <1>1, <1>2, <1>3 DEF JobFits, AttemptGoesOn, rows

\* A request outside the points of Create PNR that matter has nothing to fit.
LEMMA NothingToFit ==
    ASSUME NEW t \in Slots,
           req'[t].pc \in FunnelPcs \cup {"prepare", "readiness"}
    PROVE  JobFits(t)'
BY DEF JobFits, FunnelPcs, Sending

-----------------------------------------------------------------------------
(* Steps that leave the rows alone                                         *)

\* One request moves, the attempt may be written.
LEMMA QuietCreateStep ==
    ASSUME CreateInv, NEW s \in Slots, NEW r \in RequestType,
           NEW j \in JobType, UNCHANGED rows,
           r.pc \notin Relying, r.rev <= booking.revision,
           r.source \in 0..Len(offers),
           req' = [req EXCEPT ![s] = r], job' = [job EXCEPT ![s] = j],
           turn' \in [Procs -> Slots \cup {Nobody}],
           lock' \in [Procs -> Slots \cup {Nobody}],
           attempt' \in AttemptRow \cup {NoAttempt}, AttemptGoesOn,
           undecided' \in Nat, pnrs' \in Nat, pnrs' >= pnrs,
           AttemptFits', JobFits(s)'
    PROVE  CreateInv'
<1>1. FunnelInv'
  BY QuietStepOfOne DEF CreateInv
<1>2. /\ req \in [Slots -> RequestType] /\ job \in [Slots -> JobType]
      /\ pnrs \in Nat
  BY DEF CreateInv, CreateTypeOK, TypeOK
<1>3. CreateTypeOK'
  BY <1>1, <1>2 DEF CreateTypeOK, FunnelInv
<1>4. ASSUME NEW t \in Slots PROVE JobFits(t)'
  <2>1. CASE t = s
    BY <2>1
  <2>2. CASE t # s
    <3>1. req'[t] = req[t] /\ job'[t] = job[t]
      BY <1>2, <2>2
    <3> QED BY <3>1, OthersFit
  <2> QED BY <2>1, <2>2
<1>5. CreatedIsConfirmed'
  <2>1. CreatedIsConfirmed /\ booking' = booking /\ latest' = latest
    BY DEF CreateInv, rows
  <2>2. attempt.status = "succeeded" => attempt # NoAttempt
    BY DEF NoAttempt
  <2> QED BY <1>2, <2>1, <2>2 DEF CreatedIsConfirmed, AttemptGoesOn
<1> QED BY <1>1, <1>3, <1>4, <1>5 DEF CreateInv

\* What every step that leaves the attempt and Sabre alone keeps.
LEMMA AttemptUntouched ==
    ASSUME CreateInv, UNCHANGED <<rows, attempt, undecided, pnrs>>
    PROVE  /\ attempt' \in AttemptRow \cup {NoAttempt} /\ AttemptGoesOn
           /\ undecided' \in Nat /\ pnrs' \in Nat /\ pnrs' >= pnrs
           /\ AttemptFits'
BY DEF CreateInv, CreateTypeOK, AttemptGoesOn, AttemptFits, rows

LEMMA NoJobType == NoJob \in JobType
BY DEF NoJob, JobType

\* The request ends.
LEMMA EndCreateStep ==
    ASSUME CreateInv, NEW s \in Slots, EndCreate(s), UNCHANGED <<rows, lock>>,
           attempt' \in AttemptRow \cup {NoAttempt}, AttemptGoesOn,
           undecided' \in Nat, pnrs' \in Nat, pnrs' >= pnrs, AttemptFits'
    PROVE  CreateInv'
<1>1. /\ req' = [req EXCEPT ![s] = IdleRequest] /\ GiveUpLoop(s)
      /\ job' = [job EXCEPT ![s] = NoJob] /\ UNCHANGED lock
  BY DEF EndCreate, Finish
<1>2. /\ req \in [Slots -> RequestType] /\ FunnelInv
      /\ booking.revision \in Nat /\ Len(offers) \in Nat
  BY DEF CreateInv, FunnelInv, TypeOK, BookingRow
<1>3. /\ IdleRequest.rev <= booking.revision
      /\ IdleRequest.source \in 0..Len(offers)
  BY <1>2, IdleRequestType
<1>4. JobFits(s)'
  <2>1. req'[s].pc = "idle"
    BY <1>1, <1>2, IdleRequestType
  <2> QED BY <2>1, NothingToFit DEF FunnelPcs
<1>5. /\ turn' \in [Procs -> Slots \cup {Nobody}]
      /\ lock' \in [Procs -> Slots \cup {Nobody}]
  BY <1>1, <1>2, TurnType
<1> QED BY <1>1, <1>3, <1>4, <1>5, IdleRequestType, NoJobType, QuietCreateStep

\* The request goes to another point of Create PNR.
LEMMA GotoStep ==
    ASSUME CreateInv, NEW s \in Slots, NEW pc \in CreatePcs, NEW j \in JobType,
           UNCHANGED <<rows, lock>>,
           req' = [req EXCEPT ![s].pc = pc], job' = [job EXCEPT ![s] = j],
           KeepRunning(s) \/ GiveUpLoop(s),
           attempt' \in AttemptRow \cup {NoAttempt}, AttemptGoesOn,
           undecided' \in Nat, pnrs' \in Nat, pnrs' >= pnrs, AttemptFits',
           JobFits(s)'
    PROVE  CreateInv'
<1> DEFINE r == [req[s] EXCEPT !.pc = pc]
<1>1. /\ req \in [Slots -> RequestType] /\ req[s] \in RequestType
      /\ FunnelInv /\ req[s].rev <= booking.revision
      /\ req[s].source \in 0..Len(offers)
  BY DEF CreateInv, FunnelInv, TypeOK
<1>2. /\ r \in RequestType /\ r.pc = pc /\ r.rev = req[s].rev
      /\ r.source = req[s].source
  BY <1>1 DEF RequestType
<1>3. req' = [req EXCEPT ![s] = r]
  BY <1>1
<1> HIDE DEF r
<1>4. r.pc \notin Relying
  BY <1>2 DEF Relying, CreatePcs
<1>5. /\ turn' \in [Procs -> Slots \cup {Nobody}]
      /\ lock' \in [Procs -> Slots \cup {Nobody}]
  BY <1>1, TurnType
<1>6. UNCHANGED rows
  OBVIOUS
<1> QED BY <1>1, <1>2, <1>3, <1>4, <1>5, <1>6, QuietCreateStep

-----------------------------------------------------------------------------
(* The workflow and the preparation of the attempt                         *)

LEMMA Typed ==
    ASSUME CreateInv, NEW s \in Slots
    PROVE  /\ req \in [Slots -> RequestType] /\ req[s] \in RequestType
           /\ job \in [Slots -> JobType] /\ job[s] \in JobType
           /\ attempt \in AttemptRow \cup {NoAttempt}
           /\ attempt # NoAttempt => attempt \in AttemptRow
           /\ undecided \in Nat /\ pnrs \in Nat
           /\ booking \in BookingRow /\ booking.revision \in Nat
           /\ booking.accepted \in 1..Len(offers) /\ Len(offers) \in Nat
           /\ latest \in RevalidationRow /\ latest.rev \in Nat
BY DEF CreateInv, CreateTypeOK, TypeOK, BookingRow, RevalidationRow

LEMMA ResumeExistingStep ==
    ASSUME CreateInv, NEW s \in Slots, NEW key \in Keys,
           ResumeExisting(s, key)
    PROVE  CreateInv'
<1> DEFINE r == [IdleRequest EXCEPT !.kind = "create", !.pc = "prepare",
                                    !.rev = attempt.rev]
           j == [NoJob EXCEPT !.key = key]
<1>1. /\ req' = [req EXCEPT ![s] = r] /\ job' = [job EXCEPT ![s] = j]
      /\ KeepRunning(s) /\ UNCHANGED <<rows, lock, attempt, undecided, pnrs>>
      /\ attempt # NoAttempt
  BY DEF ResumeExisting
<1>2. attempt.rev \in Nat /\ attempt.rev <= booking.revision
  BY <1>1, Typed DEF CreateInv, AttemptFits, AttemptRow
<1>3. /\ r \in RequestType /\ r.pc = "prepare" /\ r.rev = attempt.rev
      /\ r.source = 0
  BY <1>2, IdleRequestType DEF RequestType, Kinds, CreatePcs
<1>4. j \in JobType
  BY NoJobType DEF JobType
<1> HIDE DEF r, j
<1>5. req'[s] = r
  BY <1>1, Typed
<1>6. JobFits(s)'
  BY <1>3, <1>5, NothingToFit
<1>7. r.pc \notin Relying /\ r.source \in 0..Len(offers)
  BY <1>3, Typed DEF Relying
<1>8. /\ turn' \in [Procs -> Slots \cup {Nobody}]
      /\ lock' \in [Procs -> Slots \cup {Nobody}]
  BY <1>1, TurnType DEF CreateInv
<1>9. UNCHANGED rows /\ UNCHANGED <<rows, attempt, undecided, pnrs>>
  BY <1>1
<1> QED BY <1>1, <1>2, <1>3, <1>4, <1>6, <1>7, <1>8, <1>9, AttemptUntouched,
           QuietCreateStep

LEMMA BeginCreateStep ==
    ASSUME CreateInv, NEW s \in Slots, NEW key \in Keys, BeginCreate(s, key)
    PROVE  CreateInv'
<1> DEFINE r == [IdleRequest EXCEPT !.kind = "create", !.pc = "lock",
                                    !.rev = booking.revision]
           j == [NoJob EXCEPT !.key = key]
<1>1. /\ req' = [req EXCEPT ![s] = r] /\ job' = [job EXCEPT ![s] = j]
      /\ KeepRunning(s) \/ GiveUpLoop(s)
      /\ UNCHANGED <<rows, lock, attempt, undecided, pnrs>>
  BY DEF BeginCreate, EnterRevalidation
<1>2. booking.revision \in Nat
  BY Typed
<1>3. /\ r \in RequestType /\ r.pc = "lock" /\ r.rev = booking.revision
      /\ r.source = 0
  BY <1>2, IdleRequestType DEF RequestType, Kinds, FunnelPcs
<1>4. j \in JobType
  BY NoJobType DEF JobType
<1> HIDE DEF r, j
<1>5. req'[s] = r
  BY <1>1, Typed
<1>6. JobFits(s)'
  BY <1>3, <1>5, NothingToFit DEF FunnelPcs
<1>7. r.pc \notin Relying /\ r.source \in 0..Len(offers)
      /\ r.rev <= booking.revision
  BY <1>2, <1>3, Typed DEF Relying
<1>8. /\ turn' \in [Procs -> Slots \cup {Nobody}]
      /\ lock' \in [Procs -> Slots \cup {Nobody}]
  BY <1>1, TurnType DEF CreateInv
<1>9. UNCHANGED rows /\ UNCHANGED <<rows, attempt, undecided, pnrs>>
  BY <1>1
<1> QED BY <1>1, <1>3, <1>4, <1>6, <1>7, <1>8, <1>9, AttemptUntouched,
           QuietCreateStep

\* A step that ends the request or moves it to pc, and nothing else.
LEMMA EndsOrGoes ==
    ASSUME CreateInv, NEW s \in Slots, NEW pc \in CreatePcs, NEW j \in JobType,
           UNCHANGED <<rows, lock, attempt, undecided, pnrs>>,
           \/ EndCreate(s)
           \/ /\ req' = [req EXCEPT ![s].pc = pc]
              /\ KeepRunning(s) \/ GiveUpLoop(s)
              /\ job' = [job EXCEPT ![s] = j]
              /\ JobFits(s)'
    PROVE  CreateInv'
<1>1. /\ UNCHANGED <<rows, attempt, undecided, pnrs>>
      /\ UNCHANGED <<rows, lock>>
  OBVIOUS
<1>2. CASE EndCreate(s)
  BY <1>1, <1>2, AttemptUntouched, EndCreateStep
<1>3. CASE ~EndCreate(s)
  BY <1>1, <1>3, AttemptUntouched, GotoStep
<1> QED BY <1>2, <1>3

\* The request at its new point, for the proofs of JobFits(s)'.
LEMMA Went ==
    ASSUME CreateInv, NEW s \in Slots, NEW pc, NEW j,
           req' = [req EXCEPT ![s].pc = pc], job' = [job EXCEPT ![s] = j]
    PROVE  /\ req'[s].pc = pc /\ req'[s].rev = req[s].rev
           /\ job'[s] = j
<1>1. req[s] \in RequestType /\ req \in [Slots -> RequestType]
      /\ job \in [Slots -> JobType]
  BY Typed
<1>2. req'[s] = [req[s] EXCEPT !.pc = pc]
  BY <1>1
<1> QED BY <1>1, <1>2 DEF RequestType

LEMMA DispatchStep ==
    ASSUME CreateInv, NEW s \in Slots, Dispatch(s), attempt # NoAttempt,
           UNCHANGED <<rows, lock, attempt, undecided, pnrs>>
    PROVE  CreateInv'
<1>1. CASE attempt.status = "succeeded"
  <2>1. /\ req' = [req EXCEPT ![s].pc = "finalize"] /\ KeepRunning(s)
        /\ job' = [job EXCEPT ![s] = job[s]]
    BY <1>1, Typed DEF Dispatch, Goto
  <2>2. JobFits(s)'
    BY <1>1, <2>1, Went DEF JobFits, Sending
  <2> QED BY <2>1, <2>2, Typed, EndsOrGoes DEF CreatePcs
<1>2. CASE attempt.status \in {"prepared", "failed_safe"}
  <2> DEFINE j == [job[s] EXCEPT !.fingerprint = attempt.fingerprint]
  <2>1. j \in JobType
    BY Typed DEF JobType, AttemptRow
  <2>2. /\ req' = [req EXCEPT ![s].pc = "binding"] /\ KeepRunning(s)
        /\ job' = [job EXCEPT ![s] = j]
    BY <1>2, Typed DEF Dispatch, Goto
  <2> HIDE DEF j
  <2>3. req'[s].pc = "binding" /\ attempt' # NoAttempt
    BY <2>2, Went
  <2>4. JobFits(s)'
    BY <2>3 DEF JobFits, Sending
  <2> QED BY <2>1, <2>2, <2>4, EndsOrGoes DEF CreatePcs
<1>3. CASE attempt.status \notin {"succeeded", "prepared", "failed_safe"}
  <2>1. EndCreate(s)
    BY <1>3 DEF Dispatch
  <2>2. "prepare" \in CreatePcs
    BY DEF CreatePcs
  <2> QED BY <2>1, <2>2, NoJobType, EndsOrGoes
<1> QED BY <1>1, <1>2, <1>3

\* A request that ends and changes nothing else.
LEMMA JustEnds ==
    ASSUME CreateInv, NEW s \in Slots, EndCreate(s),
           UNCHANGED <<rows, lock, attempt, undecided, pnrs>>
    PROVE  CreateInv'
<1>1. "prepare" \in CreatePcs
  BY DEF CreatePcs
<1> QED BY <1>1, NoJobType, EndsOrGoes

LEMMA FoundExistingStep ==
    ASSUME CreateInv, NEW s \in Slots, FoundExisting(s), attempt # NoAttempt,
           UNCHANGED <<rows, lock, attempt, undecided, pnrs>>
    PROVE  CreateInv'
BY DispatchStep, JustEnds DEF FoundExisting

LEMMA PrepareNewStep ==
    ASSUME CreateInv, NEW s \in Slots, PrepareNew(s)
    PROVE  CreateInv'
<1>1. UNCHANGED <<rows, lock, attempt, undecided, pnrs>>
  BY DEF PrepareNew
<1>2. CASE EndCreate(s)
  BY <1>1, <1>2, JustEnds
<1>3. CASE ~EndCreate(s)
  <2>1. /\ req' = [req EXCEPT ![s].pc = "readiness"] /\ KeepRunning(s)
        /\ job' = [job EXCEPT ![s] = job[s]]
    BY <1>3, Typed DEF PrepareNew, Goto
  <2>2. JobFits(s)'
    BY <2>1, Went, NothingToFit
  <2> QED BY <1>1, <2>1, <2>2, Typed, EndsOrGoes DEF CreatePcs
<1> QED BY <1>2, <1>3

LEMMA CheckReadinessStep ==
    ASSUME CreateInv, NEW s \in Slots, CheckReadiness(s)
    PROVE  CreateInv'
<1>1. UNCHANGED <<rows, lock, attempt, undecided, pnrs>>
  BY DEF CheckReadiness
<1>2. CASE EndCreate(s)
  BY <1>1, <1>2, JustEnds
<1>3. CASE ~EndCreate(s)
  <2> DEFINE j == [job[s] EXCEPT !.offer = booking.accepted,
                                 !.reval = latest.rev]
  <2>1. /\ req' = [req EXCEPT ![s].pc = "insert"] /\ KeepRunning(s) /\ Ready
        /\ job' = [job EXCEPT ![s] = j]
    BY <1>3, Typed DEF CheckReadiness, Goto
  <2>2. /\ j \in JobType /\ j.offer = booking.accepted
        /\ j.reval = latest.rev
    <3>1. /\ job[s] \in JobType /\ booking.accepted \in Nat
          /\ latest.rev \in Nat
      BY Typed
    <3> QED BY <3>1 DEF JobType
  <2> HIDE DEF j
  <2>3. req'[s].pc = "insert" /\ job'[s] = j
    BY <2>1, Went
  <2>4. /\ booking' = booking /\ latest' = latest
        /\ booking.status = "ready_to_create_pnr"
        /\ latest.candidate = booking.accepted
    BY <1>1, <2>1 DEF Ready, rows
  <2>5. JobFits(s)'
    BY <2>2, <2>3, <2>4 DEF JobFits, Sending
  <2> QED BY <1>1, <2>1, <2>2, <2>5, EndsOrGoes DEF CreatePcs
<1> QED BY <1>2, <1>3

LEMMA InsertAttemptStep ==
    ASSUME CreateInv, NEW s \in Slots, InsertAttempt(s)
    PROVE  CreateInv'
<1>1. /\ UNCHANGED <<rows, lock>> /\ UNCHANGED <<undecided, pnrs>>
      /\ req' = [req EXCEPT ![s].pc = "binding"] /\ KeepRunning(s)
      /\ job' = [job EXCEPT ![s] = job[s]] /\ attempt = NoAttempt
      /\ attempt' = [status |-> "prepared", key |-> job[s].key,
                     rev |-> req[s].rev, offer |-> job[s].offer,
                     reval |-> job[s].reval, fingerprint |-> NoPayload,
                     confirmation |-> 0]
      /\ req[s].pc = "insert"
  BY Typed DEF InsertAttempt, Goto, At
<1>2. attempt' \in AttemptRow
  BY <1>1, Typed DEF AttemptRow, PnrAttemptStatuses, JobType, RequestType
<1>3. attempt'.status = "prepared" /\ attempt'.rev = req[s].rev
      /\ attempt'.offer = job[s].offer /\ attempt'.reval = job[s].reval
  BY <1>1
<1>4. attempt' # NoAttempt
  BY <1>3 DEF NoAttempt
<1>5. JobFits(s)'
  BY <1>1, <1>4, Went DEF JobFits, Sending
<1>6. AttemptFits'
  BY <1>1, <1>3 DEF AttemptFits, CreateInv, FunnelInv, JobFits, StillCurrent,
                    rows
<1>7. AttemptGoesOn /\ undecided' \in Nat /\ pnrs' \in Nat /\ pnrs' >= pnrs
  BY <1>1, Typed DEF AttemptGoesOn
<1> QED BY <1>1, <1>2, <1>5, <1>6, <1>7, Typed, GotoStep DEF CreatePcs
-----------------------------------------------------------------------------
(* Binding, payload, marks and answers                                     *)

LEMMA CheckBindingStep ==
    ASSUME CreateInv, NEW s \in Slots, CheckBinding(s)
    PROVE  CreateInv'
<1>1. /\ UNCHANGED <<rows, lock, attempt, undecided, pnrs>>
      /\ req[s].pc = "binding"
  BY DEF CheckBinding, At
<1>2. CASE EndCreate(s)
  BY <1>1, <1>2, JustEnds
<1>3. CASE ~EndCreate(s)
  <2>1. /\ req' = [req EXCEPT ![s].pc = "build"] /\ KeepRunning(s)
        /\ job' = [job EXCEPT ![s] = job[s]]
    BY <1>3, Typed DEF CheckBinding, Goto
  <2>2. req'[s].pc = "build" /\ attempt' # NoAttempt
    BY <1>1, <2>1, Went DEF CreateInv, JobFits
  <2>3. JobFits(s)'
    BY <2>2 DEF JobFits, Sending
  <2> QED BY <1>1, <2>1, <2>3, Typed, EndsOrGoes DEF CreatePcs
<1> QED BY <1>2, <1>3

LEMMA BuildPayloadStep ==
    ASSUME CreateInv, NEW s \in Slots, BuildPayload(s)
    PROVE  CreateInv'
<1> DEFINE j == [job[s] EXCEPT !.payload = Payload, !.goal = "submitting"]
<1>1. /\ UNCHANGED <<rows, lock, attempt, undecided, pnrs>>
      /\ req[s].pc = "build"
      /\ req' = [req EXCEPT ![s].pc = "mark"] /\ KeepRunning(s)
      /\ job' = [job EXCEPT ![s] = j]
  BY Typed DEF BuildPayload, At, Goto
<1>2. /\ j \in JobType /\ j.goal = "submitting"
  <2>1. Payload \in Payloads
    <3>1. offers[booking.accepted] \in Offer
      BY Typed DEF CreateInv, FunnelInv, TypeOK
    <3> QED BY <3>1
            DEF Payload, Payloads, CreateInv, FunnelInv, TypeOK, Offer
  <2>2. job[s] \in JobType /\ "submitting" \in PnrAttemptStatuses
    BY Typed DEF PnrAttemptStatuses
  <2> QED BY <2>1, <2>2 DEF JobType
<1> HIDE DEF j
<1>3. req'[s].pc = "mark" /\ job'[s] = j /\ attempt' # NoAttempt
  <2>1. attempt' # NoAttempt
    BY <1>1 DEF CreateInv, JobFits
  <2>2. req'[s].pc = "mark" /\ job'[s] = j
    BY <1>1, Went
  <2> QED BY <2>1, <2>2
<1>4. JobFits(s)'
  BY <1>2, <1>3 DEF JobFits, Sending
<1>5. "mark" \in CreatePcs
  BY DEF CreatePcs
<1> QED BY <1>1, <1>2, <1>4, <1>5, EndsOrGoes

LEMMA MarkReadStep ==
    ASSUME CreateInv, NEW s \in Slots, MarkRead(s)
    PROVE  CreateInv'
<1>1. /\ UNCHANGED <<rows, lock, attempt, undecided, pnrs>>
      /\ req[s].pc = "mark"
  BY DEF MarkRead, At
<1>2. CASE EndCreate(s)
  BY <1>1, <1>2, JustEnds
<1>3. CASE ~EndCreate(s)
  <2> DEFINE j == [job[s] EXCEPT !.seen = attempt.status]
  <2>1. /\ req' = [req EXCEPT ![s].pc = "cas"] /\ KeepRunning(s)
        /\ job' = [job EXCEPT ![s] = j]
        /\ CanTransitionPnrAttempt(attempt.status, job[s].goal)
    BY <1>3, Typed DEF MarkRead, Goto
  <2>2. attempt # NoAttempt /\ JobFits(s)
    BY <1>1 DEF CreateInv, JobFits
  <2>3. /\ j \in JobType /\ j.seen = attempt.status
        /\ j.goal = job[s].goal
    <3>1. job[s] \in JobType /\ attempt \in AttemptRow
      BY <2>2, Typed
    <3> QED BY <3>1 DEF JobType, AttemptRow
  <2> HIDE DEF j
  <2>4. req'[s].pc = "cas" /\ job'[s] = j /\ attempt' # NoAttempt
        /\ pnrs' = pnrs
    BY <1>1, <2>1, <2>2, Went
  <2>5. JobFits(s)'
    BY <1>1, <2>1, <2>2, <2>3, <2>4 DEF JobFits, Sending
  <2> QED BY <1>1, <2>1, <2>3, <2>5, EndsOrGoes DEF CreatePcs
<1> QED BY <1>2, <1>3

\* What a conditional update of the attempt keeps.
LEMMA MarkGoesOn ==
    ASSUME CreateInv, NEW s \in Slots, req[s].pc = "cas", SeenIsCurrent(s),
           UNCHANGED <<undecided, pnrs>>, UNCHANGED rows,
           attempt' \in AttemptRow,
           attempt'.status = job[s].goal,
           attempt'.rev = attempt.rev, attempt'.offer = attempt.offer,
           attempt'.reval = attempt.reval
    PROVE  /\ attempt' # NoAttempt /\ AttemptGoesOn /\ AttemptFits'
           /\ undecided' \in Nat /\ pnrs' \in Nat /\ pnrs' >= pnrs
<1>1. /\ attempt # NoAttempt /\ AttemptFits
      /\ CanTransitionPnrAttempt(attempt.status, job[s].goal)
      /\ job[s].goal = "succeeded" => pnrs > 0
  BY DEF CreateInv, JobFits, SeenIsCurrent, Sending
<1>2. attempt' # NoAttempt
  BY DEF AttemptRow, NoAttempt, PnrAttemptStatuses
<1>3. attempt.status = "succeeded" => attempt'.status = "succeeded"
  BY <1>1 DEF CanTransitionPnrAttempt, AllowedAttemptTransitions
<1>4. AttemptFits'
  BY <1>1 DEF AttemptFits, rows
<1> QED BY <1>1, <1>2, <1>3, <1>4, Typed DEF AttemptGoesOn

LEMMA MarkSubmittingStep ==
    ASSUME CreateInv, NEW s \in Slots, MarkSubmitting(s)
    PROVE  CreateInv'
<1>1. /\ UNCHANGED <<rows, lock>> /\ UNCHANGED <<undecided, pnrs>>
      /\ UNCHANGED rows
      /\ req[s].pc = "cas" /\ job[s].goal = "submitting" /\ SeenIsCurrent(s)
      /\ req' = [req EXCEPT ![s].pc = "sabre"] /\ GiveUpLoop(s)
      /\ job' = [job EXCEPT ![s] = job[s]]
      /\ attempt' = [attempt EXCEPT !.status = "submitting",
                                    !.fingerprint = job[s].payload,
                                    !.confirmation = 0]
  BY Typed DEF MarkSubmitting, At
<1>2. attempt \in AttemptRow
  BY <1>1, Typed DEF CreateInv, JobFits
<1>3. /\ attempt' \in AttemptRow /\ attempt'.status = "submitting"
      /\ attempt'.rev = attempt.rev /\ attempt'.offer = attempt.offer
      /\ attempt'.reval = attempt.reval
  <2>1. job[s].payload \in Payloads \cup {NoPayload}
        /\ "submitting" \in PnrAttemptStatuses
    BY Typed DEF JobType, PnrAttemptStatuses
  <2> QED BY <1>1, <1>2, <2>1 DEF AttemptRow
<1>4. /\ attempt' # NoAttempt /\ AttemptGoesOn /\ AttemptFits'
      /\ undecided' \in Nat /\ pnrs' \in Nat /\ pnrs' >= pnrs
  BY <1>1, <1>3, MarkGoesOn
<1>5. req'[s].pc = "sabre"
  BY <1>1, Went
<1>6. JobFits(s)'
  BY <1>4, <1>5 DEF JobFits
<1>7. "sabre" \in CreatePcs
  BY DEF CreatePcs
<1> QED BY <1>1, <1>3, <1>4, <1>6, <1>7, Typed, GotoStep

LEMMA MarkOutcomeStep ==
    ASSUME CreateInv, NEW s \in Slots, MarkOutcome(s)
    PROVE  CreateInv'
<1>1. /\ UNCHANGED <<rows, lock>> /\ UNCHANGED <<undecided, pnrs>>
      /\ UNCHANGED rows
      /\ req[s].pc = "cas" /\ SeenIsCurrent(s)
      /\ attempt' = [attempt EXCEPT
                       !.status = job[s].goal,
                       !.confirmation = IF job[s].goal = "succeeded"
                                          THEN job[s].confirmation ELSE @]
  BY DEF MarkOutcome, At
<1>2. /\ attempt \in AttemptRow
      /\ job[s].goal \in PnrAttemptStatuses /\ job[s].confirmation \in Nat
  BY <1>1, Typed DEF CreateInv, JobFits, PnrAttemptStatuses, JobType
<1>3. /\ attempt' \in AttemptRow /\ attempt'.status = job[s].goal
      /\ attempt'.rev = attempt.rev /\ attempt'.offer = attempt.offer
      /\ attempt'.reval = attempt.reval
  BY <1>1, <1>2 DEF AttemptRow
<1>4. /\ attempt' # NoAttempt /\ AttemptGoesOn /\ AttemptFits'
      /\ undecided' \in Nat /\ pnrs' \in Nat /\ pnrs' >= pnrs
  BY <1>1, <1>3, MarkGoesOn
<1>5. CASE job[s].goal = "succeeded"
  <2>1. /\ req' = [req EXCEPT ![s].pc = "finalize"] /\ KeepRunning(s)
        /\ job' = [job EXCEPT ![s] = job[s]]
    BY <1>5, Typed DEF MarkOutcome, Goto
  <2>2. req'[s].pc = "finalize"
    BY <2>1, Went
  <2>3. JobFits(s)'
    BY <1>3, <1>4, <1>5, <2>2 DEF JobFits, Sending
  <2>4. "finalize" \in CreatePcs
    BY DEF CreatePcs
  <2> QED BY <1>1, <1>3, <1>4, <2>1, <2>3, <2>4, Typed, GotoStep
<1>6. CASE job[s].goal # "succeeded"
  <2>1. EndCreate(s)
    BY <1>6 DEF MarkOutcome
  <2> QED BY <1>1, <1>3, <1>4, <2>1, EndCreateStep
<1> QED BY <1>5, <1>6

\* An answer of Sabre.
LEMMA AnsweredStep ==
    ASSUME CreateInv, NEW s \in Slots,
           NEW goal \in {"succeeded", "failed_safe",
                         "reconciliation_required"},
           NEW confirmation \in Nat, Answered(s, goal, confirmation),
           undecided' \in Nat, pnrs' \in Nat, pnrs' >= pnrs,
           goal = "succeeded" => pnrs' > 0
    PROVE  CreateInv'
<1> DEFINE j == [job[s] EXCEPT !.goal = goal, !.confirmation = confirmation]
<1>1. /\ UNCHANGED <<rows, lock>> /\ attempt' = attempt
      /\ req[s].pc = "sabre"
      /\ req' = [req EXCEPT ![s].pc = "mark"] /\ KeepRunning(s)
      /\ job' = [job EXCEPT ![s] = j]
  BY Typed DEF Answered, At, Goto
<1>2. j \in JobType /\ j.goal = goal
  <2>1. job[s] \in JobType /\ goal \in PnrAttemptStatuses
    BY Typed DEF PnrAttemptStatuses
  <2> QED BY <2>1 DEF JobType
<1> HIDE DEF j
<1>3. req'[s].pc = "mark" /\ job'[s] = j /\ attempt' # NoAttempt
  <2>1. attempt' # NoAttempt
    BY <1>1 DEF CreateInv, JobFits
  <2>2. req'[s].pc = "mark" /\ job'[s] = j
    BY <1>1, Went
  <2> QED BY <2>1, <2>2
<1>4. JobFits(s)'
  BY <1>2, <1>3 DEF JobFits, Sending
<1>5. AttemptFits' /\ AttemptGoesOn
      /\ attempt' \in AttemptRow \cup {NoAttempt}
  BY <1>1, Typed DEF AttemptFits, AttemptGoesOn, CreateInv, rows
<1>6. "mark" \in CreatePcs
  BY DEF CreatePcs
<1> QED BY <1>1, <1>2, <1>4, <1>5, <1>6, GotoStep

LEMMA SabreAnswersStep ==
    ASSUME CreateInv, NEW s \in Slots,
           SabreConfirms(s) \/ SabreRefuses(s) \/ SabreAmbiguous(s)
    PROVE  CreateInv'
<1>1. undecided \in Nat /\ pnrs \in Nat
  BY Typed
<1>2. CASE SabreConfirms(s)
  BY <1>1, <1>2, AnsweredStep DEF SabreConfirms
<1>3. CASE SabreRefuses(s)
  BY <1>1, <1>3, AnsweredStep DEF SabreRefuses
<1>4. CASE SabreAmbiguous(s)
  BY <1>1, <1>4, AnsweredStep DEF SabreAmbiguous
<1> QED BY <1>2, <1>3, <1>4

\* Steps that end the request, or look up a row that exists.
LEMMA EndingCreateSteps ==
    ASSUME CreateInv, NEW s \in Slots,
           \/ PrepareExisting(s) \/ LoseInsert(s)
           \/ PayloadFails(s) \/ MarkConflict(s)
    PROVE  CreateInv'
<1>1. CASE PrepareExisting(s)
  BY <1>1, FoundExistingStep DEF PrepareExisting
<1>2. CASE LoseInsert(s)
  BY <1>2, FoundExistingStep DEF LoseInsert
<1>3. CASE PayloadFails(s)
  BY <1>3, JustEnds DEF PayloadFails
<1>4. CASE MarkConflict(s)
  BY <1>4, JustEnds DEF MarkConflict
<1> QED BY <1>1, <1>2, <1>3, <1>4
-----------------------------------------------------------------------------
(* Recording PNR_CREATED                                                   *)

LEMMA FinalizeReadStep ==
    ASSUME CreateInv, NEW s \in Slots, FinalizeRead(s)
    PROVE  CreateInv'
<1>1. /\ UNCHANGED <<rows, lock, attempt, undecided, pnrs>>
      /\ req[s].pc = "finalize"
  BY DEF FinalizeRead, At
<1>2. CASE EndCreate(s)
  BY <1>1, <1>2, JustEnds
<1>3. CASE ~EndCreate(s)
  <2>1. /\ req' = [req EXCEPT ![s].pc = "finalcas"] /\ KeepRunning(s)
        /\ job' = [job EXCEPT ![s] = job[s]]
    BY <1>3, Typed DEF FinalizeRead, Goto
  <2>2. /\ req'[s].pc = "finalcas"
    BY <2>1, Went
  <2>3. attempt' # NoAttempt /\ attempt'.status = "succeeded"
    BY <1>1 DEF CreateInv, JobFits
  <2>4. JobFits(s)'
    BY <2>2, <2>3 DEF JobFits, Sending
  <2>5. "finalcas" \in CreatePcs
    BY DEF CreatePcs
  <2> QED BY <1>1, <2>1, <2>4, <2>5, Typed, EndsOrGoes
<1> QED BY <1>2, <1>3

\* The update finds nothing to finalize.
LEMMA FinalizeNothing ==
    ASSUME CreateInv, NEW s \in Slots, FinalizeWrite(s), ~StillBound
    PROVE  CreateInv'
<1>1. UNCHANGED <<rows, lock, attempt, undecided, pnrs>> /\ EndCreate(s)
  BY DEF FinalizeWrite, rows
<1> QED BY <1>1, JustEnds

LEMMA FinalizeSomething ==
    ASSUME CreateInv, NEW s \in Slots, FinalizeWrite(s), StillBound
    PROVE  CreateInv'
<1>1. /\ req' = [req EXCEPT ![s] = IdleRequest] /\ GiveUpLoop(s)
      /\ job' = [job EXCEPT ![s] = NoJob]
      /\ UNCHANGED <<offers, latest, passengers, contact>>
      /\ UNCHANGED <<lock, attempt, undecided, pnrs>>
      /\ booking' = [booking EXCEPT !.status = "pnr_created",
                                    !.revision = attempt.rev + 1]
      /\ booking.revision = attempt.rev
      /\ booking.status = "ready_to_create_pnr"
      /\ req[s].pc = "finalcas"
  BY DEF FinalizeWrite, EndCreate, Finish, StillBound, At
<1>2. /\ attempt # NoAttempt /\ attempt.status = "succeeded"
      /\ AttemptFits /\ pnrs > 0 /\ FunnelInv
      /\ attempt.rev \in Nat
  <2>1. attempt # NoAttempt /\ attempt.status = "succeeded" /\ AttemptFits
        /\ FunnelInv
    BY <1>1 DEF CreateInv, JobFits
  <2> QED BY <2>1, Typed DEF AttemptFits, AttemptRow
<1>3. /\ booking'.status = "pnr_created" /\ booking'.reval = booking.reval
      /\ booking'.revision = booking.revision + 1
      /\ booking'.accepted = booking.accepted
      /\ booking' \in BookingRow
  <2>1. booking \in BookingRow /\ "pnr_created" \in BookingStatuses
    BY Typed DEF BookingStatuses
  <2>2. /\ booking' = [booking EXCEPT !.status = "pnr_created",
                                      !.revision = booking.revision + 1]
        /\ booking.revision + 1 \in Nat
    BY <1>1, <1>2
  <2> QED BY <2>1, <2>2 DEF BookingRow
<1>4. FunnelInv'
  <2>1. /\ offers \in Seq(Offer) /\ latest \in RevalidationRow
        /\ passengers \in PaxData /\ contact \in ContactData
        /\ booking.revision \in Nat /\ Len(offers) \in Nat
        /\ booking.accepted \in 1..Len(offers)
    BY <1>2, Typed DEF FunnelInv, TypeOK
  <2>2. /\ IdleRequest.rev <= booking.revision + 1
        /\ IdleRequest.source \in 0..Len(offers)
    BY <2>1, IdleRequestType
  <2>3. RevalidatedOnce'
    BY <1>1, <1>2, <1>3 DEF FunnelInv, RevalidatedOnce
  <2>4. ReadyIsEarned'
    BY <1>3 DEF ReadyIsEarned
  <2>5. StaleMeansRevalidate'
    BY <1>1, <1>2, <1>3 DEF FunnelInv, StaleMeansRevalidate
  <2>6. ProductPreserved'
    BY <1>1, <1>2, <1>3 DEF FunnelInv, ProductPreserved
  <2>7. /\ turn' \in [Procs -> Slots \cup {Nobody}]
        /\ lock' \in [Procs -> Slots \cup {Nobody}]
    BY <1>1, <1>2, TurnType
  <2>8. /\ offers' \in Seq(Offer) /\ Len(offers') >= Len(offers)
        /\ booking'.accepted \in 1..Len(offers') /\ latest' \in RevalidationRow
        /\ passengers' \in PaxData /\ contact' \in ContactData
    BY <1>1, <1>3, <2>1
  <2> QED BY <1>1, <1>2, <1>3, <2>2, <2>3, <2>4, <2>5, <2>6, <2>7, <2>8,
             IdleRequestType, WritingStep
<1>5. CreateTypeOK'
  BY <1>1, <1>4, Typed, NoJobType DEF CreateTypeOK, FunnelInv
<1>6. AttemptFits'
  BY <1>1, <1>2, <1>3, Typed DEF AttemptFits
<1>7. ASSUME NEW t \in Slots PROVE JobFits(t)'
  <2>1. CASE t = s
    <3>1. req'[t].pc = "idle"
      BY <1>1, <2>1, Typed, IdleRequestType
    <3> QED BY <3>1, NothingToFit DEF FunnelPcs
  <2>2. CASE t # s
    <3>1. req'[t] = req[t] /\ job'[t] = job[t]
      BY <1>1, <2>2, Typed
    <3>2. AttemptGoesOn /\ pnrs' \in Nat /\ pnrs' >= pnrs
      BY <1>1, Typed DEF AttemptGoesOn
    <3> QED BY <1>3, <3>1, <3>2, OthersFit
  <2> QED BY <2>1, <2>2
<1>8. CreatedIsConfirmed'
  BY <1>1, <1>2, <1>3 DEF CreatedIsConfirmed, AttemptFits
<1> QED BY <1>4, <1>5, <1>6, <1>7, <1>8 DEF CreateInv

LEMMA FinalizeWriteStep ==
    ASSUME CreateInv, NEW s \in Slots, FinalizeWrite(s)
    PROVE  CreateInv'
BY FinalizeNothing, FinalizeSomething

-----------------------------------------------------------------------------
(* The funnel underneath, crashes and Sabre                                *)

\* A step of the funnel leaves the rows, or makes a new revision of a Booking
\* that is not, and does not become, terminal.
LEMMA FunnelRows ==
    ASSUME FunnelInv, [Next]_vars
    PROVE  \/ UNCHANGED rows
           \/ /\ booking'.revision = booking.revision + 1
              /\ booking.status # "pnr_created"
              /\ booking'.status # "pnr_created"
<1>1. ASSUME NEW s \in Slots, CommitEdit(s)
      PROVE  /\ booking'.revision = booking.revision + 1
             /\ booking.status # "pnr_created"
             /\ booking'.status # "pnr_created"
  <2>1. req[s].pc = "edit" /\ StillCurrent(s) /\ booking' = EditedBooking(s)
    BY <1>1 DEF CommitEdit
  <2>2. req[s].target.status # "pnr_created"
    BY <2>1, EditedStatuses
  <2>3. booking.status # "pnr_created"
    BY <2>1 DEF FunnelInv, EditFits, TerminalStatuses
  <2> QED BY <2>1, <2>2, <2>3 DEF EditedBooking
<1>2. ASSUME NEW s \in Slots, NEW result \in DecisiveResults,
             NEW candidate \in Nat,
             req[s].pc = "provider", PersistRow(s, result, candidate)
      PROVE  /\ booking'.revision = booking.revision + 1
             /\ booking.status # "pnr_created"
             /\ booking'.status # "pnr_created"
  BY <1>2 DEF PersistRow, FunnelInv, AnswerFits, TerminalStatuses
<1> QED BY <1>1, <1>2, Writers

\* One request of the funnel takes the step, and ends at a point of the funnel
\* or at the preparation of the attempt.
LEMMA FunnelMoves ==
    ASSUME NEW s \in Slots, Arrive(s) \/ Advance(s), req \in [Slots -> RequestType]
    PROVE  /\ \A t \in Slots \ {s} : req'[t] = req[t]
           /\ req'[s].pc \in FunnelPcs \cup {"prepare"}
<1>1. ASSUME Finish(s)
      PROVE  /\ \A t \in Slots \ {s} : req'[t] = req[t]
             /\ req'[s].pc \in FunnelPcs \cup {"prepare"}
  BY <1>1, IdleRequestType DEF Finish, FunnelPcs
<1>2. ASSUME NEW pc \in FunnelPcs \cup {"prepare"}, NEW r,
             req' = [req EXCEPT ![s] = r], r.pc = pc
      PROVE  /\ \A t \in Slots \ {s} : req'[t] = req[t]
             /\ req'[s].pc \in FunnelPcs \cup {"prepare"}
  BY <1>2
<1>3. ASSUME Respond(s), ~Finish(s)
      PROVE  /\ \A t \in Slots \ {s} : req'[t] = req[t]
             /\ req'[s].pc \in FunnelPcs \cup {"prepare"}
  <2>1. req' = [req EXCEPT ![s].pc = "prepare", ![s].rev = booking.revision]
    BY <1>3 DEF Respond
  <2>2. req'[s].pc = "prepare"
    BY <2>1 DEF RequestType
  <2> QED BY <2>1, <2>2
<1>4. CASE Arrive(s)
  <2>1. ASSUME NEW data \in PaxData, EditPassengers(s, data)
        PROVE  /\ \A t \in Slots \ {s} : req'[t] = req[t]
               /\ req'[s].pc = "edit"
    BY <2>1 DEF EditPassengers, Edit
  <2>2. ASSUME NEW data \in ContactData, EditContact(s, data)
        PROVE  /\ \A t \in Slots \ {s} : req'[t] = req[t]
               /\ req'[s].pc = "resolve"
    BY <2>2 DEF EditContact, Edit
  <2>3. ASSUME NEW rev \in 1..MaxRevision, Revalidate(s, rev)
        PROVE  /\ \A t \in Slots \ {s} : req'[t] = req[t]
               /\ req'[s].pc = "lock"
    BY <2>3 DEF Revalidate, EnterRevalidation, IdleRequest
  <2> QED BY <1>4, <2>1, <2>2, <2>3 DEF Arrive, FunnelPcs
<1>5. CASE Advance(s)
  <2>1. CASE ResolveContact(s)
    <3>1. (\A t \in Slots \ {s} : req'[t] = req[t]) /\ req'[s].pc = "edit"
      BY <2>1 DEF ResolveContact, RequestType
    <3> QED BY <3>1 DEF FunnelPcs
  <2>2. CASE StartRevalidation(s)
    <3>1. (\A t \in Slots \ {s} : req'[t] = req[t]) /\ req'[s].pc = "provider"
      BY <2>2 DEF StartRevalidation, RequestType
    <3> QED BY <3>1 DEF FunnelPcs
  <2>3. ASSUME NEW result, NEW candidate, PersistRow(s, result, candidate)
        PROVE  (\A t \in Slots \ {s} : req'[t] = req[t]) /\ req'[s].pc = "readback"
    BY <2>3 DEF PersistRow, RequestType
  <2>4. CASE \/ \E product \in Products : PersistOffer(s, product)
             \/ \E result \in {"unavailable", "error"} : PersistNoOffer(s, result)
    <3>1. \E result, candidate : PersistRow(s, result, candidate)
      BY <2>4 DEF PersistOffer, PersistNoOffer
    <3> QED BY <2>3, <3>1 DEF FunnelPcs
  <2>5. CASE RetryRevalidation(s) \/ ReadBack(s)
    <3>1. Respond(s) \/ Finish(s)
      BY <2>5 DEF RetryRevalidation, ReadBack
    <3> QED BY <1>1, <1>3, <3>1
  <2>6. CASE \/ CommitEdit(s) \/ ConflictEdit(s) \/ RefuseRevalidation(s)
             \/ DiscardResult(s) \/ ProviderRefuses(s)
    <3>1. Finish(s)
      BY <2>6 DEF CommitEdit, ConflictEdit, RefuseRevalidation, DiscardResult,
                  ProviderRefuses
    <3> QED BY <1>1, <3>1
  <2> QED BY <1>5, <2>1, <2>2, <2>4, <2>5, <2>6 DEF Advance
<1> QED BY <1>4, <1>5
\* A step under which the attempt and Sabre stay as they are, and every request
\* stays, or ends up where there is nothing to fit.
LEMMA FunnelKeeps ==
    ASSUME CreateInv, FunnelInv',
           \/ UNCHANGED rows
           \/ /\ booking'.revision = booking.revision + 1
              /\ booking.status # "pnr_created"
              /\ booking'.status # "pnr_created",
           job' \in [Slots -> JobType],
           \A t \in Slots : \/ req'[t] = req[t] /\ job'[t] = job[t]
                            \/ req'[t].pc \in FunnelPcs \cup {"prepare"},
           attempt' = attempt, pnrs' = pnrs, undecided' \in Nat
    PROVE  CreateInv'
<1>1. AttemptGoesOn /\ pnrs' \in Nat /\ pnrs' >= pnrs
  BY Typed DEF AttemptGoesOn, CreateInv, CreateTypeOK
<1>2. CreateTypeOK'
  BY DEF CreateInv, CreateTypeOK, FunnelInv
<1>3. UNCHANGED rows \/ booking'.revision = booking.revision + 1
  OBVIOUS
<1>4. \A t \in Slots : JobFits(t)'
  BY <1>1, <1>3, OthersFit, NothingToFit
<1>5. AttemptFits'
  <2>1. /\ booking.revision \in Nat /\ AttemptFits
        /\ attempt # NoAttempt => attempt.rev \in Nat
    BY DEF CreateInv, CreateTypeOK, TypeOK, BookingRow, AttemptRow
  <2>2. CASE UNCHANGED rows
    BY <2>1, <2>2 DEF AttemptFits, rows
  <2>3. CASE booking'.revision = booking.revision + 1
    BY <2>1, <2>3 DEF AttemptFits
  <2> QED BY <2>2, <2>3
<1>6. CreatedIsConfirmed'
  BY DEF CreateInv, CreatedIsConfirmed, rows
<1> QED BY <1>2, <1>4, <1>5, <1>6 DEF CreateInv

LEMMA FunnelStepStep ==
    ASSUME CreateInv, NEW s \in Slots, FunnelStep(s)
    PROVE  CreateInv'
<1>1. FunnelInv /\ Next /\ req \in [Slots -> RequestType]
  BY DEF CreateInv, FunnelInv, TypeOK, FunnelStep, Next
<1>2. FunnelInv'
  BY <1>1, NextPreserves
<1>3. job' = [t \in Slots |-> IF req'[t].pc = "idle" THEN NoJob ELSE job[t]]
      /\ attempt' = attempt /\ pnrs' = pnrs /\ undecided' = undecided
  BY DEF FunnelStep
<1>4. /\ \A t \in Slots \ {s} : req'[t] = req[t]
      /\ req'[s].pc \in FunnelPcs \cup {"prepare"}
  BY <1>1, FunnelMoves DEF FunnelStep
<1>5. job' \in [Slots -> JobType] /\ undecided' \in Nat
  BY <1>3, Typed, NoJobType
<1>6. \A t \in Slots : \/ req'[t] = req[t] /\ job'[t] = job[t]
                       \/ req'[t].pc \in FunnelPcs \cup {"prepare"}
  BY <1>3, <1>4 DEF FunnelPcs
<1> QED BY <1>1, <1>2, <1>3, <1>5, <1>6, FunnelRows, FunnelKeeps

LEMMA CreateCrashStep ==
    ASSUME CreateInv, NEW p \in Procs, CreateCrash(p)
    PROVE  CreateInv'
<1> DEFINE sending == {s \in Slots : Home[s] = p /\ req[s].pc = "sabre"}
<1>1. /\ FunnelInv /\ Next /\ UNCHANGED rows
      /\ req' = [s \in Slots |-> IF Home[s] = p THEN IdleRequest ELSE req[s]]
      /\ job' = [s \in Slots |-> IF Home[s] = p THEN NoJob ELSE job[s]]
      /\ undecided' = undecided + Cardinality(sending)
      /\ attempt' = attempt /\ pnrs' = pnrs
  BY DEF CreateInv, CreateCrash, Crash, Next
<1>2. FunnelInv'
  BY <1>1, NextPreserves
<1>3. Cardinality(sending) \in Nat
  BY CreateAssumption, FS_Subset, FS_CardinalityType
<1> HIDE DEF sending
<1>4. undecided' \in Nat
  BY <1>1, <1>3 DEF CreateInv, CreateTypeOK
<1>5. job' \in [Slots -> JobType]
  BY <1>1, NoJobType DEF CreateInv, CreateTypeOK
<1>6. \A t \in Slots : \/ req'[t] = req[t] /\ job'[t] = job[t]
                       \/ req'[t].pc \in FunnelPcs \cup {"prepare"}
  BY <1>1, IdleRequestType DEF FunnelPcs
<1> QED BY <1>1, <1>2, <1>4, <1>5, <1>6, FunnelKeeps

\* Sabre decides about a request nobody waits for.
LEMMA SabreDecidesStep ==
    ASSUME CreateInv, SabreDecides
    PROVE  CreateInv'
<1>1. /\ UNCHANGED vars /\ attempt' = attempt /\ job' = job
      /\ UNCHANGED rows /\ req' = req
  BY DEF SabreDecides, vars, rows
<1>2. undecided' \in Nat /\ pnrs' \in Nat /\ pnrs' >= pnrs
  BY DEF SabreDecides, CreateInv, CreateTypeOK
<1>3. FunnelInv'
  BY <1>1, StutterPreserves DEF CreateInv
<1>4. CreateTypeOK'
  BY <1>1, <1>2, <1>3 DEF CreateInv, CreateTypeOK, FunnelInv
<1>5. AttemptGoesOn
  BY <1>1 DEF AttemptGoesOn
<1>6. \A t \in Slots : JobFits(t)'
  BY <1>1, <1>2, <1>5, OthersFit
<1>7. pnrs \in Nat /\ booking' = booking /\ latest' = latest
  BY <1>1 DEF rows, CreateInv, CreateTypeOK
<1>8. AttemptFits' /\ CreatedIsConfirmed'
  BY <1>1, <1>2, <1>7 DEF AttemptFits, CreatedIsConfirmed, CreateInv
<1> QED BY <1>3, <1>4, <1>6, <1>8 DEF CreateInv

LEMMA CreateStutter ==
    ASSUME CreateInv, UNCHANGED allVars
    PROVE  CreateInv'
<1>1. /\ UNCHANGED vars /\ attempt' = attempt /\ job' = job
      /\ UNCHANGED rows /\ req' = req /\ pnrs' = pnrs
      /\ undecided' = undecided
  BY DEF allVars, vars, rows
<1>2. FunnelInv'
  BY <1>1, StutterPreserves DEF CreateInv
<1>3. job' \in [Slots -> JobType] /\ undecided' \in Nat
  BY <1>1 DEF CreateInv, CreateTypeOK
<1> QED BY <1>1, <1>2, <1>3, FunnelKeeps

-----------------------------------------------------------------------------
(* The invariant                                                           *)

LEMMA CreateInitEstablishes == CreateInit => CreateInv
<1> SUFFICES ASSUME CreateInit PROVE CreateInv
  OBVIOUS
<1>1. FunnelInv /\ attempt = NoAttempt /\ job = [s \in Slots |-> NoJob]
      /\ undecided = 0 /\ pnrs = 0
  BY InitEstablishes DEF CreateInit
<1>2. /\ \A s \in Slots : req[s].pc = "idle"
      /\ booking.status = "draft"
  BY IdleRequestType DEF CreateInit, Init
<1>3. \A s \in Slots : JobFits(s)
  BY <1>2 DEF JobFits, Sending
<1>4. CreateTypeOK
  BY <1>1, NoJobType DEF CreateTypeOK, FunnelInv
<1>5. AttemptFits /\ CreatedIsConfirmed
  BY <1>1, <1>2 DEF AttemptFits, CreatedIsConfirmed
<1> QED BY <1>1, <1>3, <1>4, <1>5 DEF CreateInv

LEMMA CreateNextPreserves == CreateInv /\ [CreateNext]_allVars => CreateInv'
<1> SUFFICES ASSUME CreateInv, [CreateNext]_allVars PROVE CreateInv'
  OBVIOUS
<1>1. ASSUME NEW s \in Slots, CreateStep(s) PROVE CreateInv'
  BY <1>1, ResumeExistingStep, BeginCreateStep, PrepareNewStep,
     CheckReadinessStep, InsertAttemptStep, CheckBindingStep,
     BuildPayloadStep, MarkReadStep, MarkSubmittingStep, MarkOutcomeStep,
     SabreAnswersStep, FinalizeReadStep, FinalizeWriteStep, EndingCreateSteps
     DEF CreateStep, CreateArrive, CreateAdvance
<1>2. CASE UNCHANGED allVars
  BY <1>2, CreateStutter
<1> QED BY <1>1, <1>2, FunnelStepStep, CreateCrashStep, SabreDecidesStep
        DEF CreateNext

\* CreateInv holds in every reachable state, for any number of workers.
THEOREM CreateIsSafe == CreateSpec => []CreateInv
<1>1. CreateInit => CreateInv
  BY CreateInitEstablishes
<1>2. CreateInv /\ [CreateNext]_allVars => CreateInv'
  BY CreateNextPreserves
<1> QED BY <1>1, <1>2, PTL DEF CreateSpec

\* The type invariant of Create PNR.
THEOREM CreateTypeCorrect == CreateSpec => []CreateTypeOK
<1>1. CreateInv => CreateTypeOK
  BY DEF CreateInv
<1> QED BY <1>1, CreateIsSafe, PTL

\* A Booking that says PNR_CREATED has its confirmed attempt, bound to the
\* revision, the offer and the revalidation it was created from.
THEOREM CreatedConfirmed == CreateSpec => []CreatedIsConfirmed
<1>1. CreateInv => CreatedIsConfirmed
  BY DEF CreateInv
<1> QED BY <1>1, CreateIsSafe, PTL

\* A success that was not recorded on the Booking can still be.
THEOREM SuccessFinalizes == CreateSpec => []SuccessCanBeFinalized
<1>1. CreateInv => SuccessCanBeFinalized
  BY DEF CreateInv, AttemptFits, SuccessCanBeFinalized, NoAttempt
<1> QED BY <1>1, CreateIsSafe, PTL
-----------------------------------------------------------------------------
(* The action properties                                                   *)

\* Who writes the attempt.
LEMMA AttemptWriters ==
    ASSUME [CreateNext]_allVars
    PROVE  \/ attempt' = attempt
           \/ \E s \in Slots :
                InsertAttempt(s) \/ MarkSubmitting(s) \/ MarkOutcome(s)
<1>1. ASSUME NEW s \in Slots, CreateStep(s)
      PROVE  \/ attempt' = attempt
             \/ InsertAttempt(s) \/ MarkSubmitting(s) \/ MarkOutcome(s)
  BY <1>1 DEF CreateStep, CreateArrive, CreateAdvance, ResumeExisting, BeginCreate, PrepareExisting,
       PrepareNew, CheckReadiness, LoseInsert, CheckBinding, BuildPayload,
       PayloadFails, MarkRead, MarkConflict, SabreConfirms, SabreRefuses,
       SabreAmbiguous, Answered, FinalizeRead, FinalizeWrite
<1>2. CASE UNCHANGED allVars
  BY <1>2 DEF allVars
<1> QED BY <1>1, <1>2 DEF CreateNext, FunnelStep, CreateCrash, SabreDecides

\* What a request is about to store is a move the attempt may make.
LEMMA MarksAreMoves ==
    ASSUME CreateInv, NEW s \in Slots, MarkSubmitting(s) \/ MarkOutcome(s)
    PROVE  /\ attempt \in AttemptRow
           /\ CanTransitionPnrAttempt(attempt.status, job[s].goal)
           /\ attempt'.status = job[s].goal
           /\ \A f \in {"key", "rev", "offer", "reval"} :
                attempt'[f] = attempt[f]
<1>1. req[s].pc = "cas" /\ SeenIsCurrent(s)
  BY DEF MarkSubmitting, MarkOutcome, At
<1>2. attempt \in AttemptRow
      /\ CanTransitionPnrAttempt(attempt.status, job[s].goal)
  BY <1>1, Typed DEF CreateInv, JobFits, SeenIsCurrent
<1>3. CASE MarkSubmitting(s)
  BY <1>2, <1>3 DEF MarkSubmitting, AttemptRow
<1>4. CASE MarkOutcome(s)
  BY <1>2, <1>4 DEF MarkOutcome, AttemptRow
<1> QED BY <1>2, <1>3, <1>4

\* The attempt moves as booking_pnr_state.py says and stays bound.
THEOREM AttemptMoves == CreateSpec => AttemptMovesAreAllowed
<1> DEFINE Moves == attempt # NoAttempt =>
              /\ CanTransitionPnrAttempt(attempt.status, attempt'.status)
              /\ \A f \in {"key", "rev", "offer", "reval"} :
                    attempt'[f] = attempt[f]
<1>1. CreateInv /\ [CreateNext]_allVars => Moves
  <2> SUFFICES ASSUME CreateInv, [CreateNext]_allVars PROVE Moves
    OBVIOUS
  <2>1. CASE attempt' = attempt
    BY <2>1 DEF CanTransitionPnrAttempt
  <2>2. ASSUME NEW s \in Slots, InsertAttempt(s) PROVE Moves
    BY <2>2 DEF InsertAttempt
  <2>3. ASSUME NEW s \in Slots, MarkSubmitting(s) \/ MarkOutcome(s)
        PROVE  Moves
    BY <2>3, MarksAreMoves
  <2> QED BY <2>1, <2>2, <2>3, AttemptWriters
<1>2. CreateInv /\ [CreateNext]_allVars => [Moves]_allVars
  BY <1>1
<1> HIDE DEF Moves
<1>3. CreateSpec => [][Moves]_allVars
  BY <1>2, CreateIsSafe, PTL DEF CreateSpec
<1> QED BY <1>3 DEF Moves, AttemptMovesAreAllowed

\* After PNR_CREATED nothing that was sold changes, whatever the number of
\* workers, but for the PNR that the attempt names.
THEOREM SaleFrozen == CreateSpec => SaleIsFrozen
<1> DEFINE Kept == [attempt EXCEPT !.confirmation = attempt'.confirmation]
           Frozen == booking.status = "pnr_created" =>
              /\ UNCHANGED <<booking, offers, latest, passengers, contact>>
              /\ attempt' = Kept
<1>1. CreateInv /\ [CreateNext]_allVars => Frozen
  <2> SUFFICES ASSUME CreateInv, [CreateNext]_allVars,
                      booking.status = "pnr_created"
               PROVE  UNCHANGED rows /\ attempt' = Kept
    BY DEF rows
  <2>1. /\ attempt.status = "succeeded" /\ attempt # NoAttempt
        /\ attempt \in AttemptRow
    BY DEF CreateInv, CreateTypeOK, CreatedIsConfirmed, NoAttempt
  <2>2. attempt' = Kept
    <3>1. ASSUME NEW s \in Slots, InsertAttempt(s) PROVE attempt' = Kept
      BY <2>1, <3>1 DEF InsertAttempt
    <3>2. ASSUME NEW s \in Slots, MarkSubmitting(s) PROVE attempt' = Kept
      BY <2>1, <3>2, MarksAreMoves
         DEF MarkSubmitting, CanTransitionPnrAttempt,
             AllowedAttemptTransitions
    <3>3. ASSUME NEW s \in Slots, MarkOutcome(s) PROVE attempt' = Kept
      <4>1. attempt \in AttemptRow /\ job[s].goal = "succeeded"
        BY <2>1, <3>3, MarksAreMoves
           DEF CanTransitionPnrAttempt, AllowedAttemptTransitions
      <4>2. attempt' = [attempt EXCEPT !.status = "succeeded",
                                       !.confirmation = job[s].confirmation]
        BY <3>3, <4>1 DEF MarkOutcome
      <4> QED BY <2>1, <4>1, <4>2 DEF AttemptRow
    <3>4. attempt' = attempt => attempt' = Kept
      BY <2>1 DEF AttemptRow
    <3> QED BY <3>1, <3>2, <3>3, <3>4, AttemptWriters
  <2>3. FunnelInv
    BY DEF CreateInv
  <2>4. ASSUME [Next]_vars PROVE UNCHANGED rows
    BY <2>3, <2>4, FunnelRows
  <2>5. ASSUME NEW s \in Slots, CreateStep(s) PROVE UNCHANGED rows
    <3>1. CASE FinalizeWrite(s)
      BY <3>1 DEF FinalizeWrite, StillBound, rows
    <3>2. CASE ~FinalizeWrite(s)
      BY <2>5, <3>2 DEF CreateStep, CreateArrive, CreateAdvance, ResumeExisting, BeginCreate,
           PrepareExisting, PrepareNew, CheckReadiness, InsertAttempt,
           LoseInsert, CheckBinding, BuildPayload, PayloadFails, MarkRead,
           MarkSubmitting, MarkOutcome, MarkConflict, SabreConfirms,
           SabreRefuses, SabreAmbiguous, Answered, FinalizeRead
    <3> QED BY <3>1, <3>2
  <2>6. ASSUME NEW s \in Slots, FunnelStep(s) PROVE UNCHANGED rows
    BY <2>4, <2>6 DEF FunnelStep, Next
  <2>7. ASSUME NEW p \in Procs, CreateCrash(p) PROVE UNCHANGED rows
    BY <2>7 DEF CreateCrash, Crash
  <2>8. CASE SabreDecides \/ UNCHANGED allVars
    BY <2>2, <2>8 DEF SabreDecides, allVars, vars, rows
  <2> QED BY <2>2, <2>5, <2>6, <2>7, <2>8 DEF CreateNext
<1>2. CreateInv /\ [CreateNext]_allVars => [Frozen]_allVars
  BY <1>1
<1> HIDE DEF Frozen
<1>3. CreateSpec => [][Frozen]_allVars
  BY <1>2, CreateIsSafe, PTL DEF CreateSpec
<1> QED BY <1>3 DEF Frozen, SaleIsFrozen

-----------------------------------------------------------------------------
(***************************************************************************)
(* One worker, as the deployment runs it: whatever the number of           *)
(* concurrent requests, repetitions and crashes, at most one PNR is        *)
(* created, what is sent is what was reviewed, and Create PNR implements   *)
(* PnrOnce.                                                                *)
(*                                                                         *)
(* The event loop does the work: a request that has looked at the attempt  *)
(* keeps the loop until it has marked it SUBMITTING, so nobody else acts   *)
(* in between.  With two workers somebody does, and this part is lost.     *)
(***************************************************************************)

OneWorker == \A p, q \in Procs : p = q

\* A request that waits for something other than its turn.
Waits(s) == req[s].pc \in {"idle", "lock", "provider", "sabre"}

LEMMA HomeIsOne ==
    ASSUME OneWorker, NEW s \in Slots, NEW t \in Slots
    PROVE  Home[s] = Home[t] /\ Home[s] \in Procs
BY FunnelAssumption DEF OneWorker

\* While one request acts, all others wait.
LEMMA OthersWait ==
    ASSUME OneWorker, KeepsLoop, NEW t \in Slots, MayRun(t),
           NEW s \in Slots, s # t
    PROVE  Waits(s)
BY HomeIsOne, FunnelAssumption DEF KeepsLoop, MayRun, Waits

\* Every step of a request is taken on its turn.
LEMMA ActsOnItsTurn ==
    ASSUME NEW t \in Slots, Arrive(t) \/ Advance(t) \/ CreateStep(t)
    PROVE  MayRun(t)
BY DEF Arrive, EditPassengers, EditContact, Revalidate, Advance,
       ResolveContact, CommitEdit, ConflictEdit, StartRevalidation,
       RetryRevalidation, RefuseRevalidation, PersistOffer, PersistNoOffer,
       DiscardResult, ProviderRefuses, ReadBack, CreateStep, CreateArrive, CreateAdvance, At,
       ResumeExisting, BeginCreate, PrepareExisting, PrepareNew,
       CheckReadiness, InsertAttempt, LoseInsert, CheckBinding, BuildPayload,
       PayloadFails, MarkRead, MarkSubmitting, MarkOutcome, MarkConflict,
       SabreConfirms, SabreRefuses, SabreAmbiguous, Answered, FinalizeRead,
       FinalizeWrite

\* The loop stays with the request that acted, if it goes on.
LEMMA LoopKept ==
    ASSUME OneWorker, CreateInv, KeepsLoop, NEW t \in Slots, MayRun(t),
           \A s \in Slots \ {t} : req'[s] = req[s],
           Waits(t)' \/ KeepRunning(t)
    PROVE  KeepsLoop'
<1> SUFFICES ASSUME NEW s \in Slots, ~Waits(s)'
             PROVE  turn'[Home[s]] = s
  BY DEF KeepsLoop, Waits
<1>1. s = t
  BY OthersWait DEF Waits
<1>2. turn \in [Procs -> Slots \cup {Nobody}] /\ Home[t] \in Procs
  BY HomeIsOne DEF CreateInv, CreateTypeOK, TypeOK
<1> QED BY <1>1, <1>2 DEF KeepRunning

\* A waiting request that did not move fits, unless it waits for Sabre and
\* the attempt or the PNRs changed.
LEMMA WaitingFits ==
    ASSUME NEW s \in Slots, LoopFits(s), Waits(s), req'[s] = req[s],
           req[s].pc = "sabre" =>
               attempt'.status = "submitting" /\ pnrs' + undecided' = 0
    PROVE  LoopFits(s)'
BY DEF LoopFits, Waits, AboutToSend, Sending

\* A step of request t that leaves the attempt and the PNRs alone.
LEMMA QuietLoopStep ==
    ASSUME OneWorker, CreateInv, OneWorkerInv, NEW t \in Slots, MayRun(t),
           \A s \in Slots \ {t} : req'[s] = req[s],
           Waits(t)' \/ KeepRunning(t),
           UNCHANGED <<attempt, undecided, pnrs>>,
           LoopFits(t)', Sending(t)' => Sending(t)
    PROVE  OneWorkerInv'
<1>1. KeepsLoop'
  BY LoopKept DEF OneWorkerInv
<1>2. ASSUME NEW s \in Slots, s # t
      PROVE  LoopFits(s)' /\ (Sending(s)' => Sending(s))
  <2>1. Waits(s) /\ LoopFits(s) /\ req'[s] = req[s]
    BY <1>2, OthersWait DEF OneWorkerInv
  <2>2. req[s].pc = "sabre" =>
          attempt'.status = "submitting" /\ pnrs' + undecided' = 0
    BY <2>1 DEF LoopFits, Sending
  <2> QED BY <2>1, <2>2, WaitingFits DEF Sending, Waits
<1>3. \A s \in Slots : LoopFits(s)'
  BY <1>2
<1>4. SubmittingNeverResubmits'
  BY <1>2 DEF OneWorkerInv, SubmittingNeverResubmits
<1>5. AtMostOnePnr' /\ AttemptRemembersPnr'
  BY DEF OneWorkerInv, AtMostOnePnr, AttemptRemembersPnr
<1> QED BY <1>1, <1>3, <1>4, <1>5 DEF OneWorkerInv

\* A request that is neither about to send nor sending has nothing to fit.
LEMMA NothingToLoop ==
    ASSUME NEW t \in Slots,
           req'[t].pc \in FunnelPcs \cup {"prepare", "readiness", "insert",
                                          "finalize", "finalcas"}
    PROVE  LoopFits(t)' /\ ~Sending(t)'
BY DEF FunnelPcs, LoopFits, AboutToSend, Sending

-----------------------------------------------------------------------------
(* Steps of the funnel                                                     *)

\* A request of the funnel that goes on keeps the loop.
LEMMA FunnelKeepsLoop ==
    ASSUME NEW s \in Slots, Arrive(s) \/ Advance(s),
           req \in [Slots -> RequestType]
    PROVE  Waits(s)' \/ KeepRunning(s)
<1>1. ASSUME Finish(s) PROVE Waits(s)'
  BY <1>1, IdleRequestType DEF Finish, Waits
<1>2. ASSUME Respond(s) PROVE Waits(s)' \/ KeepRunning(s)
  BY <1>1, <1>2 DEF Respond
<1>3. CASE Arrive(s)
  <2>1. ASSUME NEW rev \in 1..MaxRevision, Revalidate(s, rev)
        PROVE  Waits(s)'
    BY <2>1 DEF Revalidate, EnterRevalidation, IdleRequest, Waits
  <2> QED BY <1>3, <2>1 DEF Arrive, EditPassengers, EditContact
<1>4. CASE Advance(s)
  <2>1. CASE StartRevalidation(s)
    BY <2>1 DEF StartRevalidation, Waits, RequestType
  <2>2. CASE RetryRevalidation(s) \/ ReadBack(s)
    BY <1>1, <1>2, <2>2 DEF RetryRevalidation, ReadBack
  <2>3. CASE \/ CommitEdit(s) \/ ConflictEdit(s) \/ RefuseRevalidation(s)
             \/ DiscardResult(s) \/ ProviderRefuses(s)
    BY <1>1, <2>3 DEF CommitEdit, ConflictEdit, RefuseRevalidation,
                      DiscardResult, ProviderRefuses
  <2> QED BY <1>4, <2>1, <2>2, <2>3
          DEF Advance, ResolveContact, PersistOffer, PersistNoOffer, PersistRow
<1> QED BY <1>3, <1>4

LEMMA FunnelLoops ==
    ASSUME OneWorker, CreateInv, OneWorkerInv, NEW t \in Slots, FunnelStep(t)
    PROVE  OneWorkerInv'
<1>1. req \in [Slots -> RequestType]
  BY Typed
<1>2. /\ \A s \in Slots \ {t} : req'[s] = req[s]
      /\ req'[t].pc \in FunnelPcs \cup {"prepare"}
      /\ Waits(t)' \/ KeepRunning(t)
  BY <1>1, FunnelMoves, FunnelKeepsLoop DEF FunnelStep
<1>3. UNCHANGED <<attempt, undecided, pnrs>>
  BY DEF FunnelStep
<1>4. MayRun(t)
  BY ActsOnItsTurn DEF FunnelStep
<1>5. LoopFits(t)' /\ ~Sending(t)'
  BY <1>2, NothingToLoop
<1> QED BY <1>2, <1>3, <1>4, <1>5, QuietLoopStep
-----------------------------------------------------------------------------
(* Steps of Create PNR that leave the attempt and the PNRs alone           *)

LEMMA Ended ==
    ASSUME CreateInv, NEW t \in Slots, EndCreate(t)
    PROVE  /\ \A s \in Slots \ {t} : req'[s] = req[s]
           /\ req'[t].pc = "idle" /\ Waits(t)'
           /\ LoopFits(t)' /\ ~Sending(t)'
<1>1. /\ req' = [req EXCEPT ![t] = IdleRequest]
      /\ req \in [Slots -> RequestType]
  BY Typed DEF EndCreate, Finish
<1>2. req'[t].pc = "idle" /\ \A s \in Slots \ {t} : req'[s] = req[s]
  BY <1>1, IdleRequestType
<1> QED BY <1>2, NothingToLoop DEF Waits, FunnelPcs

LEMMA EndLoops ==
    ASSUME OneWorker, CreateInv, OneWorkerInv, NEW t \in Slots, MayRun(t),
           EndCreate(t), UNCHANGED <<attempt, undecided, pnrs>>
    PROVE  OneWorkerInv'
BY Ended, QuietLoopStep

LEMMA GotoLoops ==
    ASSUME OneWorker, CreateInv, OneWorkerInv, NEW t \in Slots, MayRun(t),
           NEW pc, req' = [req EXCEPT ![t].pc = pc], KeepRunning(t),
           UNCHANGED <<attempt, undecided, pnrs>>,
           LoopFits(t)', Sending(t)' => Sending(t)
    PROVE  OneWorkerInv'
<1>1. \A s \in Slots \ {t} : req'[s] = req[s]
  BY Typed
<1> QED BY <1>1, QuietLoopStep

\* The same for a step to where nothing has to fit.
LEMMA GotoHarmless ==
    ASSUME OneWorker, CreateInv, OneWorkerInv, NEW t \in Slots, MayRun(t),
           NEW pc \in {"prepare", "readiness", "insert", "finalize",
                       "finalcas"},
           req' = [req EXCEPT ![t].pc = pc], KeepRunning(t),
           UNCHANGED <<attempt, undecided, pnrs>>
    PROVE  OneWorkerInv'
<1>1. req'[t].pc = pc
  <2>1. req[t] \in RequestType /\ req \in [Slots -> RequestType]
    BY Typed
  <2> QED BY <2>1 DEF RequestType
<1>2. LoopFits(t)' /\ ~Sending(t)'
  BY <1>1, NothingToLoop
<1> QED BY <1>2, GotoLoops

LEMMA StartLoops ==
    ASSUME OneWorker, CreateInv, OneWorkerInv, NEW t \in Slots, NEW key \in Keys,
           ResumeExisting(t, key) \/ BeginCreate(t, key)
    PROVE  OneWorkerInv'
<1>1. /\ MayRun(t) /\ UNCHANGED <<attempt, undecided, pnrs>>
      /\ req \in [Slots -> RequestType]
  BY Typed DEF ResumeExisting, BeginCreate, At
<1>2. \A s \in Slots \ {t} : req'[s] = req[s]
  BY <1>1 DEF ResumeExisting, BeginCreate, EnterRevalidation
<1>3. CASE ResumeExisting(t, key)
  <2>1. req'[t].pc = "prepare" /\ KeepRunning(t)
    BY <1>1, <1>3 DEF ResumeExisting, IdleRequest
  <2> QED BY <1>1, <1>2, <2>1, NothingToLoop, QuietLoopStep
<1>4. CASE BeginCreate(t, key)
  <2>1. req'[t].pc = "lock"
    BY <1>1, <1>4 DEF BeginCreate, EnterRevalidation, IdleRequest
  <2>2. LoopFits(t)' /\ ~Sending(t)' /\ Waits(t)'
    BY <2>1, NothingToLoop DEF FunnelPcs, Waits
  <2> QED BY <1>1, <1>2, <2>2, QuietLoopStep
<1> QED BY <1>3, <1>4

LEMMA DispatchLoops ==
    ASSUME OneWorker, CreateInv, OneWorkerInv, NEW t \in Slots, MayRun(t),
           FoundExisting(t), UNCHANGED <<attempt, undecided, pnrs>>
    PROVE  OneWorkerInv'
<1>1. CASE EndCreate(t)
  BY <1>1, EndLoops
<1>2. CASE ~EndCreate(t)
  <2>1. CASE attempt.status = "succeeded"
    <3>1. req' = [req EXCEPT ![t].pc = "finalize"] /\ KeepRunning(t)
      BY <1>2, <2>1 DEF FoundExisting, Dispatch, Goto
    <3> QED BY <3>1, GotoHarmless
  <2>2. CASE attempt.status \in {"prepared", "failed_safe"}
    <3>1. req' = [req EXCEPT ![t].pc = "binding"] /\ KeepRunning(t)
      BY <1>2, <2>2 DEF FoundExisting, Dispatch, Goto
    <3>2. req'[t].pc = "binding"
      <4>1. req[t] \in RequestType /\ req \in [Slots -> RequestType]
        BY Typed
      <4> QED BY <3>1, <4>1 DEF RequestType
    <3>3. LoopFits(t)' /\ ~Sending(t)'
      BY <2>2, <3>2 DEF LoopFits, AboutToSend, Sending
    <3> QED BY <3>1, <3>3, GotoLoops
  <2>3. CASE attempt.status \notin {"succeeded", "prepared", "failed_safe"}
    BY <1>2, <2>3 DEF FoundExisting, Dispatch
  <2> QED BY <2>1, <2>2, <2>3
<1> QED BY <1>1, <1>2

LEMMA LookupLoops ==
    ASSUME OneWorker, CreateInv, OneWorkerInv, NEW t \in Slots,
           \/ PrepareExisting(t) \/ LoseInsert(t) \/ PrepareNew(t)
           \/ CheckReadiness(t) \/ PayloadFails(t) \/ MarkConflict(t)
           \/ FinalizeRead(t)
    PROVE  OneWorkerInv'
<1>1. MayRun(t)
  BY ActsOnItsTurn DEF CreateStep, CreateArrive, CreateAdvance
<1>2. CASE PrepareExisting(t) \/ LoseInsert(t)
  BY <1>1, <1>2, DispatchLoops DEF PrepareExisting, LoseInsert
<1>3. CASE PrepareNew(t)
  BY <1>1, <1>3, EndLoops, GotoHarmless DEF PrepareNew, Goto
<1>4. CASE CheckReadiness(t)
  BY <1>1, <1>4, EndLoops, GotoHarmless DEF CheckReadiness, Goto
<1>5. CASE PayloadFails(t) \/ MarkConflict(t)
  BY <1>1, <1>5, EndLoops DEF PayloadFails, MarkConflict
<1>6. CASE FinalizeRead(t)
  BY <1>1, <1>6, EndLoops, GotoHarmless DEF FinalizeRead, Goto
<1> QED BY <1>2, <1>3, <1>4, <1>5, <1>6

LEMMA FinalizeWriteLoops ==
    ASSUME OneWorker, CreateInv, OneWorkerInv, NEW t \in Slots,
           FinalizeWrite(t)
    PROVE  OneWorkerInv'
BY EndLoops DEF FinalizeWrite, At

\* What the rows say stays true while they stay.
LEMMA RowsStay ==
    ASSUME UNCHANGED rows, attempt' = attempt
    PROVE  /\ BindingCurrent' = BindingCurrent /\ Ready' = Ready
           /\ Payload' = Payload
BY DEF rows, BindingCurrent, Ready, Payload, PassengersComplete,
       ContactComplete

LEMMA CheckBindingLoops ==
    ASSUME OneWorker, CreateInv, OneWorkerInv, NEW t \in Slots,
           CheckBinding(t)
    PROVE  OneWorkerInv'
<1>1. /\ MayRun(t) /\ UNCHANGED <<attempt, undecided, pnrs>>
      /\ UNCHANGED rows /\ req[t].pc = "binding"
  BY DEF CheckBinding, At
<1>2. CASE EndCreate(t)
  BY <1>1, <1>2, EndLoops
<1>3. CASE ~EndCreate(t)
  <2>1. req' = [req EXCEPT ![t].pc = "build"] /\ KeepRunning(t)
        /\ BindingCurrent /\ job' = [job EXCEPT ![t] = job[t]]
    BY <1>3, Typed DEF CheckBinding, Goto
  <2>2. req'[t].pc = "build"
    BY <2>1, Went
  <2>3. attempt.status \in {"prepared", "failed_safe"}
    BY <1>1 DEF OneWorkerInv, LoopFits, AboutToSend
  <2>4. BindingCurrent'
    BY <1>1, <2>1, RowsStay
  <2>5. LoopFits(t)' /\ ~Sending(t)'
    BY <1>1, <2>2, <2>3, <2>4 DEF LoopFits, AboutToSend, Sending
  <2> QED BY <1>1, <2>1, <2>5, GotoLoops
<1> QED BY <1>2, <1>3

LEMMA BuildPayloadLoops ==
    ASSUME OneWorker, CreateInv, OneWorkerInv, NEW t \in Slots,
           BuildPayload(t)
    PROVE  OneWorkerInv'
<1> DEFINE j == [job[t] EXCEPT !.payload = Payload, !.goal = "submitting"]
<1>1. /\ MayRun(t) /\ UNCHANGED <<attempt, undecided, pnrs>>
      /\ UNCHANGED rows /\ req[t].pc = "build" /\ Ready
      /\ req' = [req EXCEPT ![t].pc = "mark"] /\ KeepRunning(t)
      /\ job' = [job EXCEPT ![t] = j]
  BY Typed DEF BuildPayload, At, Goto
<1>2. j.payload = Payload /\ j.goal = "submitting"
  <2>1. job[t] \in JobType
    BY Typed
  <2> QED BY <2>1 DEF JobType
<1> HIDE DEF j
<1>3. req'[t].pc = "mark" /\ job'[t] = j
  BY <1>1, Went
<1>4. attempt.status \in {"prepared", "failed_safe"} /\ BindingCurrent
  BY <1>1 DEF OneWorkerInv, LoopFits, AboutToSend
<1>5. BindingCurrent' /\ Ready' /\ Payload' = Payload
  BY <1>1, <1>4, RowsStay
<1>6. LoopFits(t)' /\ ~Sending(t)'
  BY <1>1, <1>2, <1>3, <1>4, <1>5 DEF LoopFits, AboutToSend, Sending
<1> QED BY <1>1, <1>6, GotoLoops

LEMMA MarkReadLoops ==
    ASSUME OneWorker, CreateInv, OneWorkerInv, NEW t \in Slots, MarkRead(t)
    PROVE  OneWorkerInv'
<1>1. /\ MayRun(t) /\ UNCHANGED <<attempt, undecided, pnrs>>
      /\ UNCHANGED rows /\ req[t].pc = "mark"
  BY DEF MarkRead, At
<1>2. CASE EndCreate(t)
  BY <1>1, <1>2, EndLoops
<1>3. CASE ~EndCreate(t)
  <2> DEFINE j == [job[t] EXCEPT !.seen = attempt.status]
  <2>1. /\ req' = [req EXCEPT ![t].pc = "cas"] /\ KeepRunning(t)
        /\ job' = [job EXCEPT ![t] = j]
    BY <1>3, Typed DEF MarkRead, Goto
  <2>2. /\ j.seen = attempt.status /\ j.goal = job[t].goal
        /\ j.payload = job[t].payload
    <3>1. job[t] \in JobType
      BY Typed
    <3> QED BY <3>1 DEF JobType
  <2> HIDE DEF j
  <2>3. req'[t].pc = "cas" /\ job'[t] = j
    BY <2>1, Went
  <2>4. LoopFits(t)
    BY DEF OneWorkerInv
  <2>5. BindingCurrent' = BindingCurrent /\ Ready' = Ready /\ Payload' = Payload
    BY <1>1, RowsStay
  <2>6. Sending(t)' = Sending(t) /\ AboutToSend(t)' = AboutToSend(t)
    BY <1>1, <2>2, <2>3 DEF Sending, AboutToSend
  <2>7. LoopFits(t)'
    BY <1>1, <2>2, <2>3, <2>4, <2>5, <2>6 DEF LoopFits
  <2> QED BY <1>1, <2>1, <2>6, <2>7, GotoLoops
<1> QED BY <1>2, <1>3
-----------------------------------------------------------------------------
(* Steps that write the attempt, and answers of Sabre                      *)

\* No PNR can exist while the attempt is in a status that may be sent.
LEMMA NoPnrYet ==
    ASSUME CreateInv, OneWorkerInv,
           attempt.status \notin
               {"submitting", "reconciliation_required", "succeeded"}
    PROVE  pnrs = 0 /\ undecided = 0 /\ \A s \in Slots : ~Sending(s)
<1>1. pnrs \in Nat /\ undecided \in Nat
  BY DEF CreateInv, CreateTypeOK
<1>2. pnrs + undecided = 0
  BY <1>1 DEF OneWorkerInv, AttemptRemembersPnr
<1>3. \A s \in Slots : ~Sending(s)
  BY DEF OneWorkerInv, LoopFits
<1> QED BY <1>1, <1>2, <1>3

\* A step of request t that writes: nobody else is sending.
LEMMA LoudLoopStep ==
    ASSUME OneWorker, CreateInv, OneWorkerInv, NEW t \in Slots, MayRun(t),
           \A s \in Slots \ {t} : req'[s] = req[s] /\ ~Sending(s),
           Waits(t)' \/ KeepRunning(t),
           LoopFits(t)', AtMostOnePnr', AttemptRemembersPnr'
    PROVE  OneWorkerInv'
<1>1. KeepsLoop'
  BY LoopKept DEF OneWorkerInv
<1>2. ASSUME NEW s \in Slots, s # t
      PROVE  LoopFits(s)' /\ ~Sending(s)'
  <2>1. Waits(s) /\ LoopFits(s) /\ req'[s] = req[s] /\ ~Sending(s)
    BY <1>2, OthersWait DEF OneWorkerInv
  <2>2. req[s].pc # "sabre"
    BY <2>1 DEF Sending
  <2> QED BY <2>1, <2>2, WaitingFits DEF Sending, Waits
<1>3. \A s \in Slots : LoopFits(s)'
  BY <1>2
<1>4. SubmittingNeverResubmits'
  BY <1>2 DEF SubmittingNeverResubmits
<1> QED BY <1>1, <1>3, <1>4 DEF OneWorkerInv

LEMMA InsertLoops ==
    ASSUME OneWorker, CreateInv, OneWorkerInv, NEW t \in Slots,
           InsertAttempt(t)
    PROVE  OneWorkerInv'
<1>1. /\ MayRun(t) /\ UNCHANGED <<undecided, pnrs>> /\ attempt = NoAttempt
      /\ req' = [req EXCEPT ![t].pc = "binding"] /\ KeepRunning(t)
      /\ job' = [job EXCEPT ![t] = job[t]]
      /\ attempt'.status = "prepared"
  BY Typed DEF InsertAttempt, At, Goto
<1>2. pnrs = 0 /\ undecided = 0 /\ \A s \in Slots : ~Sending(s)
  BY <1>1, NoPnrYet DEF NoAttempt
<1>3. req'[t].pc = "binding" /\ \A s \in Slots \ {t} : req'[s] = req[s]
  BY <1>1, Went, Typed
<1>4. LoopFits(t)'
  BY <1>1, <1>3 DEF LoopFits, AboutToSend, Sending
<1>5. AtMostOnePnr' /\ AttemptRemembersPnr'
  BY <1>1, <1>2 DEF AtMostOnePnr, AttemptRemembersPnr
<1> QED BY <1>1, <1>2, <1>3, <1>4, <1>5, LoudLoopStep

LEMMA SubmittingLoops ==
    ASSUME OneWorker, CreateInv, OneWorkerInv, NEW t \in Slots,
           MarkSubmitting(t)
    PROVE  OneWorkerInv'
<1>1. /\ MayRun(t) /\ UNCHANGED <<undecided, pnrs>>
      /\ req' = [req EXCEPT ![t].pc = "sabre"]
      /\ job' = [job EXCEPT ![t] = job[t]]
      /\ req[t].pc = "cas" /\ job[t].goal = "submitting"
      /\ attempt' = [attempt EXCEPT !.status = "submitting",
                                    !.fingerprint = job[t].payload,
                                    !.confirmation = 0]
  BY Typed DEF MarkSubmitting, At
<1>2. attempt.status \in {"prepared", "failed_safe"}
  BY <1>1 DEF OneWorkerInv, LoopFits, AboutToSend
<1>3. pnrs = 0 /\ undecided = 0 /\ \A s \in Slots : ~Sending(s)
  BY <1>2, NoPnrYet
<1>4. attempt'.status = "submitting"
  <2>1. attempt \in AttemptRow
    BY <1>1, Typed DEF CreateInv, JobFits
  <2> QED BY <1>1, <2>1 DEF AttemptRow
<1>5. req'[t].pc = "sabre" /\ \A s \in Slots \ {t} : req'[s] = req[s]
  BY <1>1, Went, Typed
<1>6. LoopFits(t)' /\ Waits(t)'
  BY <1>1, <1>3, <1>4, <1>5 DEF LoopFits, AboutToSend, Sending, Waits
<1>7. AtMostOnePnr' /\ AttemptRemembersPnr'
  BY <1>1, <1>3 DEF AtMostOnePnr, AttemptRemembersPnr
<1> QED BY <1>1, <1>3, <1>5, <1>6, <1>7, LoudLoopStep

\* A request that has sent is the only one.
LEMMA TheSender ==
    ASSUME OneWorkerInv, NEW t \in Slots, Sending(t)
    PROVE  /\ attempt.status = "submitting"
           /\ \A s \in Slots \ {t} : ~Sending(s)
BY DEF OneWorkerInv, LoopFits, SubmittingNeverResubmits

LEMMA OutcomeLoops ==
    ASSUME OneWorker, CreateInv, OneWorkerInv, NEW t \in Slots,
           MarkOutcome(t)
    PROVE  OneWorkerInv'
<1>1. /\ MayRun(t) /\ UNCHANGED <<undecided, pnrs>>
      /\ req[t].pc = "cas" /\ job[t].goal # "submitting"
      /\ attempt' = [attempt EXCEPT
                       !.status = job[t].goal,
                       !.confirmation = IF job[t].goal = "succeeded"
                                          THEN job[t].confirmation ELSE @]
  BY DEF MarkOutcome, At
<1>2. Sending(t)
  BY <1>1 DEF Sending
<1>3. \A s \in Slots \ {t} : ~Sending(s)
  BY <1>2, TheSender
<1>4. attempt'.status = job[t].goal
  <2>1. attempt \in AttemptRow
    BY <1>1, Typed DEF CreateInv, JobFits
  <2> QED BY <1>1, <2>1 DEF AttemptRow
<1>5. job[t].goal \in {"succeeded", "failed_safe", "reconciliation_required"}
  BY <1>1 DEF CreateInv, JobFits
<1>6. job[t].goal = "failed_safe" => pnrs + undecided = 0
  BY <1>2 DEF OneWorkerInv, LoopFits
<1>7. AtMostOnePnr' /\ AttemptRemembersPnr'
  BY <1>1, <1>4, <1>5, <1>6
     DEF OneWorkerInv, AtMostOnePnr, AttemptRemembersPnr
<1>8. /\ \A s \in Slots \ {t} : req'[s] = req[s]
      /\ LoopFits(t)' /\ (Waits(t)' \/ KeepRunning(t))
  <2>1. CASE job[t].goal = "succeeded"
    <3>1. req' = [req EXCEPT ![t].pc = "finalize"] /\ KeepRunning(t)
          /\ job' = [job EXCEPT ![t] = job[t]]
      BY <2>1, Typed DEF MarkOutcome, Goto
    <3>2. req'[t].pc = "finalize" /\ \A s \in Slots \ {t} : req'[s] = req[s]
      BY <3>1, Went, Typed
    <3> QED BY <3>1, <3>2, NothingToLoop
  <2>2. CASE job[t].goal # "succeeded"
    <3>1. EndCreate(t)
      BY <2>2 DEF MarkOutcome
    <3> QED BY <3>1, Ended
  <2> QED BY <2>1, <2>2
<1> QED BY <1>1, <1>3, <1>7, <1>8, LoudLoopStep

LEMMA AnswerLoops ==
    ASSUME OneWorker, CreateInv, OneWorkerInv, NEW t \in Slots,
           SabreConfirms(t) \/ SabreRefuses(t) \/ SabreAmbiguous(t)
    PROVE  OneWorkerInv'
<1>1. PICK goal \in {"succeeded", "failed_safe", "reconciliation_required"},
          confirmation \in {0, pnrs + 1} :
        /\ Answered(t, goal, confirmation)
        /\ goal = "failed_safe" => UNCHANGED <<undecided, pnrs>>
        /\ \/ UNCHANGED <<undecided, pnrs>>
           \/ pnrs' = pnrs + 1 /\ undecided' = undecided
           \/ pnrs' = pnrs /\ undecided' = undecided + 1
  BY DEF SabreConfirms, SabreRefuses, SabreAmbiguous
<1> DEFINE j == [job[t] EXCEPT !.goal = goal, !.confirmation = confirmation]
<1>2. /\ MayRun(t) /\ attempt' = attempt /\ req[t].pc = "sabre"
      /\ req' = [req EXCEPT ![t].pc = "mark"] /\ KeepRunning(t)
      /\ job' = [job EXCEPT ![t] = j]
  BY <1>1 DEF Answered, At, Goto
<1>3. j.goal = goal
  <2>1. job[t] \in JobType
    BY Typed
  <2> QED BY <2>1 DEF JobType
<1> HIDE DEF j
<1>4. /\ req'[t].pc = "mark" /\ job'[t] = j
      /\ \A s \in Slots \ {t} : req'[s] = req[s]
  BY <1>2, Went, Typed
<1>5. Sending(t)
  BY <1>2 DEF Sending
<1>6. attempt.status = "submitting" /\ \A s \in Slots \ {t} : ~Sending(s)
  BY <1>5, TheSender
<1>7. pnrs = 0 /\ undecided = 0
  <2>1. pnrs + undecided = 0 /\ pnrs \in Nat /\ undecided \in Nat
    BY <1>2 DEF OneWorkerInv, LoopFits, CreateInv, CreateTypeOK
  <2> QED BY <2>1
<1>8. LoopFits(t)'
  BY <1>1, <1>2, <1>3, <1>4, <1>6, <1>7 DEF LoopFits, AboutToSend, Sending
<1>9. AtMostOnePnr' /\ AttemptRemembersPnr'
  BY <1>1, <1>2, <1>6, <1>7 DEF AtMostOnePnr, AttemptRemembersPnr
<1> QED BY <1>2, <1>4, <1>6, <1>8, <1>9, LoudLoopStep

-----------------------------------------------------------------------------
(* Sabre and crashes                                                       *)

LEMMA DecideLoops ==
    ASSUME OneWorker, CreateInv, OneWorkerInv, SabreDecides
    PROVE  OneWorkerInv'
<1>1. /\ UNCHANGED rows /\ attempt' = attempt /\ job' = job
      /\ req' = req /\ turn' = turn
  BY DEF SabreDecides, vars, rows
<1>2. pnrs \in Nat /\ undecided \in Nat
  BY DEF CreateInv, CreateTypeOK
<1>3. /\ pnrs + undecided > 0 /\ pnrs' + undecided' <= pnrs + undecided
      /\ pnrs' \in Nat /\ undecided' \in Nat
  <2>1. /\ undecided > 0 /\ undecided' = undecided - 1
        /\ pnrs' = pnrs \/ pnrs' = pnrs + 1
    BY DEF SabreDecides
  <2> QED BY <1>2, <2>1
<1>4. KeepsLoop' /\ SubmittingNeverResubmits'
  BY <1>1 DEF OneWorkerInv, KeepsLoop, SubmittingNeverResubmits, Sending
<1>5. AtMostOnePnr' /\ AttemptRemembersPnr'
  <2>1. /\ pnrs + undecided <= 1
        /\ attempt.status \in
             {"submitting", "reconciliation_required", "succeeded"}
    BY <1>3 DEF OneWorkerInv, AtMostOnePnr, AttemptRemembersPnr
  <2>3. pnrs' + undecided' <= 1
    <3>1. \A a, b, c, d \in Nat : a + b <= c + d /\ c + d <= 1 => a + b <= 1
      OBVIOUS
    <3>2. pnrs + undecided <= 1
      BY <2>1
    <3> QED BY <1>2, <1>3, <3>1, <3>2
  <2> QED BY <1>1, <2>1, <2>3 DEF AtMostOnePnr, AttemptRemembersPnr
<1>6. ASSUME NEW s \in Slots PROVE LoopFits(s)'
  <2>1. BindingCurrent' = BindingCurrent /\ Ready' = Ready /\ Payload' = Payload
    BY <1>1, RowsStay
  <2>2. Sending(s)' = Sending(s) /\ AboutToSend(s)' = AboutToSend(s)
    BY <1>1 DEF Sending, AboutToSend
  <2>3. LoopFits(s)
    BY DEF OneWorkerInv
  <2>4. ~(req[s].pc = "sabre" \/ (Sending(s) /\ job[s].goal = "failed_safe"))
    BY <1>2, <1>3, <2>3 DEF LoopFits
  <2> QED BY <1>1, <2>1, <2>2, <2>3, <2>4 DEF LoopFits
<1> QED BY <1>4, <1>5, <1>6 DEF OneWorkerInv

\* The only worker dies, and with it the only request that may be waiting.
LEMMA CrashLoops ==
    ASSUME OneWorker, CreateInv, OneWorkerInv, NEW p \in Procs,
           CreateCrash(p)
    PROVE  OneWorkerInv'
<1> DEFINE sending == {s \in Slots : Home[s] = p /\ req[s].pc = "sabre"}
<1>1. /\ req' = [s \in Slots |-> IF Home[s] = p THEN IdleRequest ELSE req[s]]
      /\ undecided' = undecided + Cardinality(sending)
      /\ attempt' = attempt /\ pnrs' = pnrs
  BY DEF CreateCrash, Crash
<1>2. \A s \in Slots : req'[s].pc = "idle"
  BY <1>1, HomeIsOne, FunnelAssumption, IdleRequestType DEF OneWorker
<1>3. KeepsLoop' /\ SubmittingNeverResubmits'
  BY <1>2 DEF KeepsLoop, SubmittingNeverResubmits, Sending
<1>4. \A s \in Slots : LoopFits(s)'
  BY <1>2, NothingToLoop DEF FunnelPcs
<1>5. pnrs \in Nat /\ undecided \in Nat
  BY DEF CreateInv, CreateTypeOK
<1>6. CASE sending = {}
  <2>1. Cardinality(sending) = 0
    BY <1>6, FS_EmptySet
  <2>2. undecided' = undecided
    BY <1>1, <1>5, <2>1
  <2> QED BY <1>1, <1>3, <1>4, <2>2
          DEF OneWorkerInv, AtMostOnePnr, AttemptRemembersPnr
<1>7. CASE sending # {}
  <2>1. PICK s \in Slots : s \in sending
    BY <1>7
  <2>2. /\ Sending(s) /\ attempt.status = "submitting"
        /\ pnrs + undecided = 0
    BY <2>1 DEF Sending, OneWorkerInv, LoopFits
  <2>3. sending = {s}
    BY <2>1, <2>2, TheSender DEF Sending
  <2> HIDE DEF sending
  <2>4. Cardinality(sending) = 1
    BY <2>3, FS_Singleton
  <2>5. pnrs' + undecided' = 1
    BY <1>1, <1>5, <2>2, <2>4
  <2> QED BY <1>1, <1>3, <1>4, <2>2, <2>5
          DEF OneWorkerInv, AtMostOnePnr, AttemptRemembersPnr
<1> QED BY <1>6, <1>7

-----------------------------------------------------------------------------
(* The invariant                                                           *)

LEMMA OneWorkerInit == CreateInit => OneWorkerInv
<1> SUFFICES ASSUME CreateInit PROVE OneWorkerInv
  OBVIOUS
<1>1. /\ \A s \in Slots : req[s].pc = "idle"
      /\ undecided = 0 /\ pnrs = 0
  BY IdleRequestType DEF CreateInit, Init
<1>2. KeepsLoop /\ SubmittingNeverResubmits
  BY <1>1 DEF KeepsLoop, SubmittingNeverResubmits, Sending
<1>3. \A s \in Slots : LoopFits(s)
  BY <1>1 DEF LoopFits, AboutToSend, Sending
<1> QED BY <1>1, <1>2, <1>3
        DEF OneWorkerInv, AtMostOnePnr, AttemptRemembersPnr

LEMMA OneWorkerStutter ==
    ASSUME OneWorkerInv, UNCHANGED allVars
    PROVE  OneWorkerInv'
<1>1. UNCHANGED rows /\ attempt' = attempt /\ job' = job /\ req' = req
      /\ turn' = turn /\ undecided' = undecided /\ pnrs' = pnrs
  BY DEF allVars, rows
<1>2. BindingCurrent' = BindingCurrent /\ Ready' = Ready /\ Payload' = Payload
  BY <1>1, RowsStay
<1>3. \A s \in Slots : LoopFits(s)'
  BY <1>1, <1>2 DEF OneWorkerInv, LoopFits, Sending, AboutToSend
<1> QED BY <1>1, <1>3
        DEF OneWorkerInv, KeepsLoop, SubmittingNeverResubmits, Sending,
            AtMostOnePnr, AttemptRemembersPnr

LEMMA OneWorkerNext ==
    ASSUME OneWorker
    PROVE  CreateInv /\ OneWorkerInv /\ [CreateNext]_allVars => OneWorkerInv'
<1> SUFFICES ASSUME CreateInv, OneWorkerInv, [CreateNext]_allVars
             PROVE  OneWorkerInv'
  OBVIOUS
<1>1. ASSUME NEW s \in Slots, CreateStep(s) PROVE OneWorkerInv'
  BY <1>1, StartLoops, LookupLoops, FinalizeWriteLoops, CheckBindingLoops,
     BuildPayloadLoops, MarkReadLoops, InsertLoops, SubmittingLoops,
     OutcomeLoops, AnswerLoops DEF CreateStep, CreateArrive, CreateAdvance
<1>2. CASE UNCHANGED allVars
  BY <1>2, OneWorkerStutter
<1> QED BY <1>1, <1>2, FunnelLoops, CrashLoops, DecideLoops DEF CreateNext

\* OneWorkerInv holds in every reachable state.
THEOREM OneWorkerIsSafe ==
    ASSUME OneWorker
    PROVE  CreateSpec => []OneWorkerInv
<1>1. CreateInit => OneWorkerInv
  BY OneWorkerInit
<1>2. CreateInv /\ OneWorkerInv /\ [CreateNext]_allVars => OneWorkerInv'
  BY OneWorkerNext
<1> QED BY <1>1, <1>2, CreateIsSafe, PTL DEF CreateSpec

\* However often Create PNR is clicked, repeated or interrupted, Sabre creates
\* at most one PNR for the Booking.
THEOREM OnePnr ==
    ASSUME OneWorker
    PROVE  CreateSpec => []AtMostOnePnr
<1>1. OneWorkerInv => AtMostOnePnr
  BY DEF OneWorkerInv
<1> QED BY <1>1, OneWorkerIsSafe, PTL

\* A PNR that exists, or may exist, is never forgotten.
THEOREM PnrRemembered ==
    ASSUME OneWorker
    PROVE  CreateSpec => []AttemptRemembersPnr
<1>1. OneWorkerInv => AttemptRemembersPnr
  BY DEF OneWorkerInv
<1> QED BY <1>1, OneWorkerIsSafe, PTL

\* A submission is never doubled.
THEOREM NeverResubmits ==
    ASSUME OneWorker
    PROVE  CreateSpec => []SubmittingNeverResubmits
<1>1. OneWorkerInv => SubmittingNeverResubmits
  BY DEF OneWorkerInv
<1> QED BY <1>1, OneWorkerIsSafe, PTL

\* After PNR_CREATED nothing that was sold changes, and the attempt goes on
\* naming the PNR that it named: no second success is on its way.
THEOREM CreatedFrozen ==
    ASSUME OneWorker
    PROVE  CreateSpec => CreatedIsFrozen
<1> DEFINE Kept == [attempt EXCEPT !.confirmation = attempt'.confirmation]
           Sold == booking.status = "pnr_created" =>
              /\ UNCHANGED <<booking, offers, latest, passengers, contact>>
              /\ attempt' = Kept
           Named == booking.status = "pnr_created" => attempt' = attempt
           Frozen == booking.status = "pnr_created" =>
              UNCHANGED <<booking, offers, latest, passengers, contact,
                          attempt>>
<1>1. CreateInv /\ OneWorkerInv /\ [CreateNext]_allVars => Named
  <2> SUFFICES ASSUME CreateInv, OneWorkerInv, [CreateNext]_allVars,
                      booking.status = "pnr_created"
               PROVE  attempt' = attempt
    OBVIOUS
  <2>1. attempt.status = "succeeded" /\ attempt # NoAttempt
    BY DEF CreateInv, CreatedIsConfirmed, NoAttempt
  <2>2. ASSUME NEW s \in Slots, MarkSubmitting(s) PROVE FALSE
    BY <2>1, <2>2
       DEF MarkSubmitting, At, OneWorkerInv, LoopFits, AboutToSend
  <2>3. ASSUME NEW s \in Slots, MarkOutcome(s) PROVE FALSE
    BY <2>1, <2>3, TheSender DEF MarkOutcome, At, Sending
  <2>4. ASSUME NEW s \in Slots, InsertAttempt(s) PROVE FALSE
    BY <2>1, <2>4 DEF InsertAttempt
  <2> QED BY <2>2, <2>3, <2>4, AttemptWriters
<1>2. CreateInv /\ OneWorkerInv /\ [CreateNext]_allVars => [Named]_allVars
  BY <1>1
<1>3. [Sold]_allVars /\ [Named]_allVars => [Frozen]_allVars
  BY DEF allVars
<1>4. CreateSpec => [][Sold]_allVars
  BY SaleFrozen DEF SaleIsFrozen
<1> HIDE DEF Sold, Named, Frozen
<1>5. CreateSpec => [][Frozen]_allVars
  BY <1>2, <1>3, <1>4, CreateIsSafe, OneWorkerIsSafe, PTL DEF CreateSpec
<1> QED BY <1>5 DEF Frozen, CreatedIsFrozen
-----------------------------------------------------------------------------
(* What is sent                                                            *)

\* Only MarkSubmitting sends.
LEMMA Senders ==
    ASSUME CreateInv, [CreateNext]_allVars, NEW s \in Slots,
           req[s].pc # "sabre", req'[s].pc = "sabre"
    PROVE  MarkSubmitting(s)
<1>1. req \in [Slots -> RequestType] /\ FunnelInv
  BY Typed DEF CreateInv, CreateTypeOK, TypeOK
<1>2. ASSUME NEW t \in Slots, FunnelStep(t) PROVE FALSE
  BY <1>1, <1>2, FunnelMoves DEF FunnelStep, FunnelPcs
<1>3. ASSUME NEW p \in Procs, CreateCrash(p) PROVE FALSE
  BY <1>3, IdleRequestType DEF CreateCrash, Crash
<1>4. CASE SabreDecides \/ UNCHANGED allVars
  BY <1>4 DEF SabreDecides, vars, allVars
<1>5. ASSUME NEW t \in Slots, CreateStep(t), ~MarkSubmitting(t) PROVE FALSE
  <2>1. CASE EndCreate(t)
    BY <2>1, Ended
  <2>2. ASSUME NEW pc, req' = [req EXCEPT ![t].pc = pc], pc # "sabre"
        PROVE  FALSE
    BY <1>1, <2>2 DEF RequestType
  <2>3. ASSUME NEW key \in Keys, ResumeExisting(t, key) \/ BeginCreate(t, key)
        PROVE  FALSE
    BY <1>1, <2>3
       DEF ResumeExisting, BeginCreate, EnterRevalidation, IdleRequest
  <2>4. CASE \/ PrepareExisting(t) \/ LoseInsert(t)
    BY <2>1, <2>2, <2>4
       DEF PrepareExisting, LoseInsert, FoundExisting, Dispatch, Goto
  <2>5. CASE \/ PrepareNew(t) \/ CheckReadiness(t) \/ InsertAttempt(t)
             \/ CheckBinding(t) \/ BuildPayload(t) \/ PayloadFails(t)
             \/ MarkRead(t) \/ MarkOutcome(t) \/ MarkConflict(t)
    BY <2>1, <2>2, <2>5
       DEF PrepareNew, CheckReadiness, InsertAttempt, CheckBinding,
           BuildPayload, PayloadFails, MarkRead, MarkOutcome, MarkConflict,
           Goto
  <2>6. CASE \/ SabreConfirms(t) \/ SabreRefuses(t) \/ SabreAmbiguous(t)
             \/ FinalizeRead(t) \/ FinalizeWrite(t)
    BY <2>1, <2>2, <2>6
       DEF SabreConfirms, SabreRefuses, SabreAmbiguous, Answered,
           FinalizeRead, FinalizeWrite, Goto
  <2> QED BY <1>5, <2>3, <2>4, <2>5, <2>6 DEF CreateStep, CreateArrive, CreateAdvance
<1>6. ASSUME NEW t \in Slots, MarkSubmitting(t) PROVE t = s
  BY <1>1, <1>6 DEF MarkSubmitting
<1> QED BY <1>2, <1>3, <1>4, <1>5, <1>6 DEF CreateNext

\* What is sent is what was reviewed and revalidated.
THEOREM SendsReviewed ==
    ASSUME OneWorker
    PROVE  CreateSpec => SendsWhatWasReviewed
<1> DEFINE Reviewed == \A s \in Slots :
              req[s].pc # "sabre" /\ req'[s].pc = "sabre" =>
                /\ Ready
                /\ booking.revision = attempt.rev
                /\ booking.accepted = attempt.offer
                /\ job[s].payload = Payload
<1>1. CreateInv /\ OneWorkerInv /\ [CreateNext]_allVars => Reviewed
  <2> SUFFICES ASSUME CreateInv, OneWorkerInv, [CreateNext]_allVars,
                      NEW s \in Slots,
                      req[s].pc # "sabre", req'[s].pc = "sabre"
               PROVE  /\ Ready
                      /\ booking.revision = attempt.rev
                      /\ booking.accepted = attempt.offer
                      /\ job[s].payload = Payload
    OBVIOUS
  <2>1. MarkSubmitting(s)
    BY Senders
  <2> QED BY <2>1
          DEF MarkSubmitting, At, OneWorkerInv, LoopFits, BindingCurrent
<1>2. CreateInv /\ OneWorkerInv /\ [CreateNext]_allVars => [Reviewed]_allVars
  BY <1>1
<1> HIDE DEF Reviewed
<1>3. CreateSpec => [][Reviewed]_allVars
  BY <1>2, CreateIsSafe, OneWorkerIsSafe, PTL DEF CreateSpec
<1> QED BY <1>3 DEF Reviewed, SendsWhatWasReviewed

-----------------------------------------------------------------------------
(* Create PNR implements PnrOnce                                           *)

\* The refinement mapping, case by case.
LEMMA OnceStates ==
    /\ attempt.status = "succeeded" => OnceState = "done"
    /\ attempt.status = "reconciliation_required" => OnceState = "unknown"
    /\ attempt.status = "submitting" =>
         IF \E s \in Slots : Sending(s) THEN OnceState = "sending"
                                        ELSE OnceState = "unknown"
    /\ attempt.status \notin
         {"succeeded", "reconciliation_required", "submitting"}
         => OnceState = "idle"
BY DEF OnceState

LEMMA OnceStatesNext ==
    /\ attempt'.status = "succeeded" => OnceState' = "done"
    /\ attempt'.status = "reconciliation_required" => OnceState' = "unknown"
    /\ attempt'.status = "submitting" =>
         IF \E s \in Slots : Sending(s)' THEN OnceState' = "sending"
                                         ELSE OnceState' = "unknown"
    /\ attempt'.status \notin
         {"succeeded", "reconciliation_required", "submitting"}
         => OnceState' = "idle"
BY DEF OnceState

\* A step that starts no submission, and leaves the attempt and the PNRs
\* alone, is invisible or loses track of a submission.
LEMMA QuietOnce ==
    ASSUME attempt' = attempt, pnrs' = pnrs,
           \A s \in Slots : Sending(s)' => Sending(s)
    PROVE  [Once!Next]_(Once!onceVars)
<1>1. CASE attempt.status = "submitting"
  <2>1. CASE \E s \in Slots : Sending(s)'
    <3>1. OnceState = "sending" /\ OnceState' = "sending"
      BY <1>1, <2>1, OnceStates, OnceStatesNext
    <3> QED BY <3>1 DEF Once!onceVars
  <2>2. CASE ~\E s \in Slots : Sending(s)'
    <3>1. OnceState \in {"sending", "unknown"} /\ OnceState' = "unknown"
      BY <1>1, <2>2, OnceStates, OnceStatesNext
    <3> QED BY <3>1 DEF Once!onceVars, Once!Next, Once!LoseTrack
  <2> QED BY <2>1, <2>2
<1>2. CASE attempt.status # "submitting"
  <2>1. OnceState' = OnceState
    BY <1>2, OnceStates, OnceStatesNext
  <2> QED BY <2>1 DEF Once!onceVars
<1> QED BY <1>1, <1>2
\* The other requests neither start nor stop sending.
LEMMA OthersSendAsBefore ==
    ASSUME CreateInv, NEW t \in Slots, NEW s \in Slots, s # t,
           CreateStep(t) \/ FunnelStep(t)
    PROVE  Sending(s)' = Sending(s)
<1>1. /\ req \in [Slots -> RequestType] /\ job \in [Slots -> JobType]
  BY Typed
<1>2. CASE FunnelStep(t)
  <2>1. req'[s] = req[s]
    BY <1>1, <1>2, FunnelMoves DEF FunnelStep
  <2>2. req[s].pc # "idle" => job'[s] = job[s]
    BY <1>2, <2>1 DEF FunnelStep
  <2> QED BY <2>1, <2>2 DEF Sending
<1>3. CASE CreateStep(t)
  <2>1. EndCreate(t) => req'[s] = req[s] /\ job'[s] = job[s]
    BY <1>1 DEF EndCreate, Finish
  <2>2. req'[s] = req[s] /\ job'[s] = job[s]
    BY <1>1, <1>3, <2>1
       DEF CreateStep, CreateArrive, CreateAdvance, ResumeExisting, BeginCreate, EnterRevalidation,
           PrepareExisting, LoseInsert, FoundExisting, Dispatch, Goto,
           PrepareNew, CheckReadiness, InsertAttempt, CheckBinding,
           BuildPayload, PayloadFails, MarkRead, MarkSubmitting, MarkOutcome,
           MarkConflict, SabreConfirms, SabreRefuses, SabreAmbiguous,
           Answered, FinalizeRead, FinalizeWrite
  <2> QED BY <2>2 DEF Sending
<1> QED BY <1>2, <1>3

\* Of the steps of a request only MarkSubmitting starts a submission.
LEMMA NobodyElseSends ==
    ASSUME CreateInv, NEW t \in Slots, CreateStep(t) \/ FunnelStep(t),
           ~MarkSubmitting(t), Sending(t)'
    PROVE  Sending(t)
<1>1. /\ req \in [Slots -> RequestType] /\ job \in [Slots -> JobType]
      /\ req[t] \in RequestType /\ job[t] \in JobType
  BY Typed
<1>2. ASSUME FunnelStep(t) PROVE FALSE
  BY <1>1, <1>2, FunnelMoves, NothingToLoop DEF FunnelStep
<1>3. ASSUME EndCreate(t) PROVE FALSE
  BY <1>3, Ended
<1>4. ASSUME NEW pc \in {"readiness", "insert", "binding", "build",
                         "finalize", "finalcas"},
             req' = [req EXCEPT ![t].pc = pc]
      PROVE  FALSE
  BY <1>1, <1>4 DEF RequestType, Sending
<1>5. ASSUME NEW key \in Keys, ResumeExisting(t, key) \/ BeginCreate(t, key)
      PROVE  FALSE
  BY ZenonT(60), <1>1, <1>5 DEF ResumeExisting, BeginCreate, EnterRevalidation,
                    IdleRequest, Sending
<1>6. ASSUME BuildPayload(t) PROVE FALSE
  <2>1. job'[t].goal = "submitting" /\ req'[t].pc = "mark"
    BY <1>1, <1>6 DEF BuildPayload, Goto, RequestType, JobType
  <2> QED BY <2>1 DEF Sending
<1>7. CASE MarkRead(t) /\ ~EndCreate(t)
  <2>1. req[t].pc = "mark" /\ job'[t].goal = job[t].goal
    BY <1>1, <1>7 DEF MarkRead, At, JobType
  <2>2. req'[t].pc = "cas"
    BY <1>1, <1>7 DEF MarkRead, Goto, RequestType
  <2> QED BY <2>1, <2>2 DEF Sending
<1>8. CASE SabreConfirms(t) \/ SabreRefuses(t) \/ SabreAmbiguous(t)
  BY <1>8 DEF SabreConfirms, SabreRefuses, SabreAmbiguous, Answered, At,
              Sending
<1>9. ASSUME \/ PrepareExisting(t) \/ LoseInsert(t) \/ PrepareNew(t)
             \/ CheckReadiness(t) \/ InsertAttempt(t) \/ CheckBinding(t)
             \/ PayloadFails(t) \/ MarkOutcome(t) \/ MarkConflict(t)
             \/ FinalizeRead(t) \/ FinalizeWrite(t)
      PROVE  FALSE
  BY <1>3, <1>4, <1>9
     DEF PrepareExisting, LoseInsert, FoundExisting, Dispatch, Goto,
         PrepareNew, CheckReadiness, InsertAttempt, CheckBinding,
         PayloadFails, MarkOutcome, MarkConflict, FinalizeRead, FinalizeWrite
<1> QED BY <1>2, <1>3, <1>5, <1>6, <1>7, <1>8, <1>9 DEF CreateStep, CreateArrive, CreateAdvance

\* Every step of Create PNR is a step of PnrOnce, or invisible.
LEMMA OnceStep ==
    ASSUME OneWorker, CreateInv, OneWorkerInv, [CreateNext]_allVars
    PROVE  [Once!Next]_(Once!onceVars)
<1>1. pnrs \in Nat /\ undecided \in Nat
  BY DEF CreateInv, CreateTypeOK
<1>2. ASSUME NEW t \in Slots, InsertAttempt(t)
      PROVE  [Once!Next]_(Once!onceVars)
  <2>1. OnceState = "idle" /\ OnceState' = "idle" /\ pnrs' = pnrs
    BY <1>2, OnceStates, OnceStatesNext DEF InsertAttempt, NoAttempt
  <2> QED BY <2>1 DEF Once!onceVars
<1>3. ASSUME NEW t \in Slots, MarkSubmitting(t)
      PROVE  [Once!Next]_(Once!onceVars)
  <2>1. attempt.status \in {"prepared", "failed_safe"} /\ attempt \in AttemptRow
    BY <1>3, Typed DEF MarkSubmitting, At, OneWorkerInv, LoopFits,
                       AboutToSend, CreateInv, JobFits
  <2>2. attempt'.status = "submitting" /\ pnrs' = pnrs
    BY <1>3, <2>1 DEF MarkSubmitting, AttemptRow
  <2>3. Sending(t)'
    BY <1>3, Typed DEF MarkSubmitting, Sending, RequestType
  <2>4. OnceState = "idle" /\ OnceState' = "sending"
    BY <2>1, <2>2, <2>3, OnceStates, OnceStatesNext
  <2> QED BY <2>2, <2>4 DEF Once!Next, Once!Send
<1>4. ASSUME NEW t \in Slots, MarkOutcome(t)
      PROVE  [Once!Next]_(Once!onceVars)
  <2>1. /\ Sending(t) /\ pnrs' = pnrs /\ attempt \in AttemptRow
        /\ attempt' = [attempt EXCEPT
                         !.status = job[t].goal,
                         !.confirmation = IF job[t].goal = "succeeded"
                                            THEN job[t].confirmation ELSE @]
        /\ job[t].goal \in {"succeeded", "failed_safe",
                            "reconciliation_required"}
        /\ job[t].goal = "succeeded" => pnrs > 0
    BY <1>4, Typed DEF MarkOutcome, At, Sending, CreateInv, JobFits
  <2>2. /\ attempt'.status = job[t].goal
        /\ OnceState = "sending"
    BY <2>1, TheSender, OnceStates DEF AttemptRow
  <2>3. /\ job[t].goal = "succeeded" => pnrs = 1
        /\ job[t].goal = "failed_safe" => pnrs = 0
    BY <1>1, <2>1 DEF OneWorkerInv, AtMostOnePnr, LoopFits
  <2>4. CASE job[t].goal = "succeeded"
    BY <2>1, <2>2, <2>3, <2>4, OnceStatesNext DEF Once!Next, Once!Confirm
  <2>5. CASE job[t].goal = "failed_safe"
    BY <2>1, <2>2, <2>3, <2>5, OnceStatesNext DEF Once!Next, Once!Refuse
  <2>6. CASE job[t].goal = "reconciliation_required"
    BY <2>1, <2>2, <2>6, OnceStatesNext DEF Once!Next, Once!LoseTrack
  <2> QED BY <2>1, <2>4, <2>5, <2>6
<1>5. ASSUME NEW t \in Slots, SabreConfirms(t)
      PROVE  [Once!Next]_(Once!onceVars)
  <2>1. Sending(t) /\ attempt' = attempt /\ pnrs' = pnrs + 1
        /\ req[t].pc = "sabre"
    BY <1>5 DEF SabreConfirms, Answered, At, Sending
  <2>2. pnrs = 0 /\ attempt.status = "submitting"
    <3>1. pnrs + undecided = 0
      BY <2>1 DEF OneWorkerInv, LoopFits
    <3> QED BY <1>1, <2>1, <3>1, TheSender
  <2>3. Sending(t)'
    BY <1>5, Typed
       DEF SabreConfirms, Answered, Goto, Sending, RequestType, JobType
  <2>4. OnceState = "sending" /\ OnceState' = "sending"
    BY <2>1, <2>2, <2>3, OnceStates, OnceStatesNext
  <2> QED BY <2>1, <2>2, <2>4 DEF Once!Next, Once!Commit
<1>6. CASE SabreDecides
  <2>1. /\ attempt' = attempt /\ \A s \in Slots : Sending(s)' = Sending(s)
        /\ undecided > 0 /\ (pnrs' = pnrs \/ pnrs' = pnrs + 1)
    BY <1>6 DEF SabreDecides, vars, Sending
  <2>2. pnrs = 0 /\ attempt.status \in {"submitting", "reconciliation_required"}
    <3>1. /\ pnrs + undecided <= 1
          /\ attempt.status = "succeeded" => pnrs > 0
      BY DEF OneWorkerInv, AtMostOnePnr, CreateInv, AttemptFits, NoAttempt
    <3>2. pnrs = 0 /\ pnrs + undecided > 0
      BY <1>1, <2>1, <3>1
    <3> QED BY <3>1, <3>2 DEF OneWorkerInv, AttemptRemembersPnr
  <2>3. OnceState' = OnceState /\ OnceState \in {"sending", "unknown"}
    BY <2>1, <2>2, OnceStates, OnceStatesNext
  <2> QED BY <2>1, <2>2, <2>3 DEF Once!Next, Once!Commit, Once!onceVars
<1>7. ASSUME NEW t \in Slots, FunnelStep(t)
      PROVE  [Once!Next]_(Once!onceVars)
  <2>1. ~MarkSubmitting(t)
    <3>1. UNCHANGED attempt /\ (req'[t].pc \in FunnelPcs \cup {"prepare"})
      BY <1>7, Typed, FunnelMoves DEF FunnelStep
    <3>2. MarkSubmitting(t) => req'[t].pc = "sabre"
      BY Typed DEF MarkSubmitting, RequestType
    <3> QED BY <3>1, <3>2 DEF FunnelPcs
  <2>2. \A s \in Slots : Sending(s)' => Sending(s)
    BY <1>7, <2>1, NobodyElseSends, OthersSendAsBefore
  <2> QED BY <1>7, <2>2, QuietOnce DEF FunnelStep
<1>8. ASSUME NEW t \in Slots, CreateStep(t), ~InsertAttempt(t),
             ~MarkSubmitting(t), ~MarkOutcome(t), ~SabreConfirms(t)
      PROVE  [Once!Next]_(Once!onceVars)
  <2>1. \A s \in Slots : Sending(s)' => Sending(s)
    BY <1>8, NobodyElseSends, OthersSendAsBefore
  <2>2. attempt' = attempt /\ pnrs' = pnrs
    BY <1>8 DEF CreateStep, CreateArrive, CreateAdvance, ResumeExisting, BeginCreate, PrepareExisting,
         PrepareNew, CheckReadiness, LoseInsert, CheckBinding, BuildPayload,
         PayloadFails, MarkRead, MarkConflict, SabreRefuses, SabreAmbiguous,
         Answered, FinalizeRead, FinalizeWrite
  <2> QED BY <2>1, <2>2, QuietOnce
<1>9. ASSUME NEW p \in Procs, CreateCrash(p)
      PROVE  [Once!Next]_(Once!onceVars)
  <2>1. \A s \in Slots : Sending(s)' => Sending(s)
    BY <1>9, IdleRequestType DEF CreateCrash, Crash, Sending
  <2> QED BY <1>9, <2>1, QuietOnce DEF CreateCrash
<1>10. CASE UNCHANGED allVars
  <2>1. \A s \in Slots : Sending(s)' => Sending(s)
    BY <1>10 DEF allVars, Sending
  <2> QED BY <1>10, <2>1, QuietOnce DEF allVars
<1> QED BY <1>2, <1>3, <1>4, <1>5, <1>6, <1>7, <1>8, <1>9, <1>10 DEF CreateNext

\* Create PNR on one worker implements PnrOnce.
THEOREM Implements ==
    ASSUME OneWorker
    PROVE  CreateSpec => ImplementsOnce
<1>1. CreateInit => Once!Init
  <2> SUFFICES ASSUME CreateInit PROVE OnceState = "idle" /\ pnrs = 0
    BY DEF Once!Init
  <2> QED BY OnceStates DEF CreateInit, NoAttempt
<1>2. CreateInv /\ OneWorkerInv /\ [CreateNext]_allVars
        => [Once!Next]_(Once!onceVars)
  BY OnceStep
<1>3. CreateSpec => Once!Spec
  BY <1>1, <1>2, CreateIsSafe, OneWorkerIsSafe, PTL DEF CreateSpec, Once!Spec
<1> QED BY <1>3 DEF ImplementsOnce
=============================================================================
