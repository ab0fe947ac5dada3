----------------------------- MODULE CreatePnr -----------------------------
(***************************************************************************)
(* Create PNR on top of the funnel: the workflow revalidates, persists the *)
(* one attempt of the Booking, marks it SUBMITTING, calls Sabre's          *)
(* non-idempotent createBooking and records what came back, while agents   *)
(* go on editing and revalidating, requests are repeated and workers die.  *)
(***************************************************************************)
EXTENDS BookingFunnel

CONSTANTS
    Keys,             \* client_request_id values
    None,             \* no key, no product
    MaxCalls          \* bound: no createBooking is sent beyond these PNRs

ASSUME CreateAssumption ==
    /\ None \notin Keys
    /\ MaxCalls \in Nat
    /\ IsFiniteSet(Slots)

VARIABLES
    attempt,          \* the BookingPnrAttemptRow of this Booking, if any
    job,              \* what each Create PNR request carries in memory
    undecided,        \* createBooking requests whose fate nobody here knows
    pnrs              \* PNRs Sabre has created for this Booking

createVars == <<attempt, job, undecided, pnrs>>
allVars == <<booking, offers, latest, passengers, contact, req, turn, lock,
             attempt, job, undecided, pnrs>>

-----------------------------------------------------------------------------
(* The payload is what createBooking is told; its fingerprint, a digest, is *)
(* represented by the payload itself.                                       *)
Payloads == [passengers : PaxData, contact : ContactData, product : Products]

NoPayload == [passengers |-> NoPax, contact |-> NoContact, product |-> None]

Payload ==
    [passengers |-> passengers, contact |-> contact,
     product |-> offers[booking.accepted].product]

\* confirmation: which PNR the row names, 0 for none.  It stands for
\* confirmation_id, provider_reference and completed_at, written together.
NoAttempt ==
    [status |-> "none", key |-> None, rev |-> 0, offer |-> 0, reval |-> 0,
     fingerprint |-> NoPayload, confirmation |-> 0]

\* offer, reval: what readiness reported.  fingerprint: the one of the attempt
\* as read.  goal, seen: the status _transition moves to and the one it read.
\* confirmation: the PNR that Sabre answered with.
NoJob ==
    [key |-> None, offer |-> 0, reval |-> 0, fingerprint |-> NoPayload,
     payload |-> NoPayload, goal |-> "none", seen |-> "none",
     confirmation |-> 0]

\* The readiness gate of BookingCreatePnrReadinessService.
Ready ==
    /\ booking.status = "ready_to_create_pnr"
    /\ booking.reval = "matched"
    /\ booking.accepted # 0
    /\ offers[booking.accepted].source = "revalidation"
    /\ PassengersComplete /\ ContactComplete
    /\ latest # NoRow
    /\ latest.status = "matched" /\ ~latest.stale
    /\ latest.candidate = booking.accepted

At(s, pc) == req[s].pc = pc /\ MayRun(s)
Goto(s, pc) == req' = [req EXCEPT ![s].pc = pc] /\ KeepRunning(s)
EndCreate(s) == Finish(s) /\ job' = [job EXCEPT ![s] = NoJob]

-----------------------------------------------------------------------------
(* The workflow                                                            *)

\* An attempt exists: only its own key resumes it, at the revision it bound.
ResumeExisting(s, key) ==
    /\ At(s, "idle")
    /\ attempt # NoAttempt /\ attempt.key = key
    /\ req' = [req EXCEPT ![s] = [IdleRequest EXCEPT
                 !.kind = "create", !.pc = "prepare", !.rev = attempt.rev]]
    /\ KeepRunning(s)
    /\ job' = [job EXCEPT ![s] = [NoJob EXCEPT !.key = key]]
    /\ UNCHANGED <<rows, lock, attempt, undecided, pnrs>>

\* No attempt: a fresh revalidation of the revision the client saw comes first.
BeginCreate(s, key) ==
    /\ At(s, "idle")
    /\ attempt = NoAttempt
    /\ booking.revision < MaxRevision
    /\ EnterRevalidation(s, "create", booking.revision)
    /\ job' = [job EXCEPT ![s] = [NoJob EXCEPT !.key = key]]
    /\ UNCHANGED <<rows, lock, attempt, undecided, pnrs>>

-----------------------------------------------------------------------------
(* BookingPnrAttemptService.prepare                                        *)

DispatchMutant(s) ==
    IF attempt.status = "succeeded"
      THEN Goto(s, "finalize") /\ UNCHANGED job
      ELSE /\ Goto(s, "binding")
           /\ job' = [job EXCEPT ![s].fingerprint = attempt.fingerprint]
\* execute()'s dispatch on the attempt it was given.
Dispatch(s) ==
    CASE attempt.status = "succeeded" ->
           Goto(s, "finalize") /\ UNCHANGED job
      [] attempt.status \in {"prepared", "failed_safe"} ->
           /\ Goto(s, "binding")
           /\ job' = [job EXCEPT ![s].fingerprint = attempt.fingerprint]
      [] OTHER -> EndCreate(s)

\* A row was found, by key or by Booking: only an exact retry goes on.
FoundExisting(s) ==
    IF attempt.key = job[s].key /\ attempt.rev = req[s].rev
      THEN Dispatch(s)
      ELSE EndCreate(s)

PrepareExisting(s) ==
    /\ At(s, "prepare") /\ attempt # NoAttempt
    /\ FoundExisting(s)
    /\ UNCHANGED <<rows, lock, attempt, undecided, pnrs>>

PrepareNew(s) ==
    /\ At(s, "prepare") /\ attempt = NoAttempt
    /\ IF req[s].rev = booking.revision
         THEN Goto(s, "readiness") /\ UNCHANGED job
         ELSE EndCreate(s)
    /\ UNCHANGED <<rows, lock, attempt, undecided, pnrs>>

\* Not ready, or a snapshot that Create PNR does not support.
CheckReadiness(s) ==
    /\ At(s, "readiness")
    /\ \/ /\ Ready
          /\ Goto(s, "insert")
          /\ job' = [job EXCEPT ![s].offer = booking.accepted,
                                ![s].reval = latest.rev]
       \/ EndCreate(s)
    /\ UNCHANGED <<rows, lock, attempt, undecided, pnrs>>

InsertAttempt(s) ==
    /\ At(s, "insert") /\ attempt = NoAttempt
    /\ attempt' = [status |-> "prepared", key |-> job[s].key,
                   rev |-> req[s].rev, offer |-> job[s].offer,
                   reval |-> job[s].reval, fingerprint |-> NoPayload,
                   confirmation |-> 0]
    /\ Goto(s, "binding")
    /\ UNCHANGED <<rows, lock, job, undecided, pnrs>>

\* IntegrityError: the unique constraints chose another request's row.
LoseInsert(s) ==
    /\ At(s, "insert") /\ attempt # NoAttempt
    /\ FoundExisting(s)
    /\ UNCHANGED <<rows, lock, attempt, undecided, pnrs>>

-----------------------------------------------------------------------------
(* BookingPnrExecutionService.execute                                      *)

\* _assert_binding_current.
BindingCurrentMutant == booking.status = "ready_to_create_pnr"
BindingCurrent ==
    /\ booking.revision = attempt.rev
    /\ booking.accepted = attempt.offer
    /\ booking.status = "ready_to_create_pnr"

CheckBinding(s) ==
    /\ At(s, "binding")
    /\ IF BindingCurrent THEN Goto(s, "build") /\ UNCHANGED job
                         ELSE EndCreate(s)
    /\ UNCHANGED <<rows, lock, attempt, undecided, pnrs>>

BuildPayload(s) ==
    /\ At(s, "build")
    /\ Ready /\ job[s].fingerprint \in {NoPayload, Payload}
    /\ Goto(s, "mark")
    /\ job' = [job EXCEPT ![s].payload = Payload, ![s].goal = "submitting"]
    /\ UNCHANGED <<rows, lock, attempt, undecided, pnrs>>

\* Not ready any more, another fingerprint, or an offer the builder cannot
\* express (connections, mixed brands).
PayloadFails(s) ==
    /\ At(s, "build")
    /\ EndCreate(s)
    /\ UNCHANGED <<rows, lock, attempt, undecided, pnrs>>

\* _transition: read the row, check the move ...
MarkRead(s) ==
    /\ At(s, "mark")
    /\ IF /\ CanTransitionPnrAttempt(attempt.status, job[s].goal)
          /\ job[s].goal = "submitting" =>
               attempt.fingerprint \in {NoPayload, job[s].payload}
         THEN /\ Goto(s, "cas")
              /\ job' = [job EXCEPT ![s].seen = attempt.status]
         ELSE EndCreate(s)
    /\ UNCHANGED <<rows, lock, attempt, undecided, pnrs>>

\* The condition of the update: the status is the one that was read.
SeenIsCurrent(s) == attempt.status = job[s].seen

\* ... and write it if the status is still the one that was read.
MarkSubmitting(s) ==
    /\ At(s, "cas") /\ job[s].goal = "submitting"
    /\ SeenIsCurrent(s)
    /\ pnrs + undecided < MaxCalls
    /\ attempt' = [attempt EXCEPT !.status = "submitting",
                                  !.fingerprint = job[s].payload,
                                  !.confirmation = 0]
    /\ req' = [req EXCEPT ![s].pc = "sabre"]
    /\ GiveUpLoop(s)
    /\ UNCHANGED <<rows, lock, job, undecided, pnrs>>

\* Only a success names a PNR.  A success may follow a success, so that of two
\* requests whose calls both succeeded the later one replaces the PNR.
MarkOutcome(s) ==
    /\ At(s, "cas") /\ job[s].goal # "submitting"
    /\ SeenIsCurrent(s)
    /\ attempt' = [attempt EXCEPT
                     !.status = job[s].goal,
                     !.confirmation = IF job[s].goal = "succeeded"
                                        THEN job[s].confirmation ELSE @]
    /\ IF job[s].goal = "succeeded"
         THEN Goto(s, "finalize") /\ UNCHANGED job
         ELSE EndCreate(s)
    /\ UNCHANGED <<rows, lock, undecided, pnrs>>

MarkConflict(s) ==
    /\ At(s, "cas") /\ ~SeenIsCurrent(s)
    /\ EndCreate(s)
    /\ UNCHANGED <<rows, lock, attempt, undecided, pnrs>>

-----------------------------------------------------------------------------
(* Sabre                                                                   *)

Answered(s, goal, confirmation) ==
    /\ At(s, "sabre")
    /\ Goto(s, "mark")
    /\ job' = [job EXCEPT ![s].goal = goal, ![s].confirmation = confirmation]
    /\ UNCHANGED <<rows, lock, attempt>>

\* A confirmation id.
SabreConfirms(s) ==
    /\ Answered(s, "succeeded", pnrs + 1)
    /\ pnrs' = pnrs + 1 /\ UNCHANGED undecided

\* Not sent, disabled, a 4xx or an explicit BAD_REQUEST: no PNR exists.
SabreRefuses(s) ==
    Answered(s, "failed_safe", 0) /\ UNCHANGED <<undecided, pnrs>>

SabreAmbiguousMutant(s) ==
    /\ Answered(s, "failed_safe", 0)
    /\ undecided' = undecided + 1 /\ UNCHANGED pnrs
\* A lost answer, a 5xx, no confirmation id or any other exception.
SabreAmbiguous(s) ==
    /\ Answered(s, "reconciliation_required", 0)
    /\ undecided' = undecided + 1 /\ UNCHANGED pnrs

\* A request nobody waits for any more does or does not create a PNR.
SabreDecides ==
    /\ undecided > 0
    /\ undecided' = undecided - 1
    /\ pnrs' \in {pnrs, pnrs + 1}
    /\ UNCHANGED <<vars, attempt, job>>

-----------------------------------------------------------------------------
(* _finalize_booking_success                                               *)

FinalizeRead(s) ==
    /\ At(s, "finalize")
    /\ IF /\ booking.status # "pnr_created"
          /\ CanTransition(booking.status, "pnr_created")
          /\ booking.revision = attempt.rev
         THEN Goto(s, "finalcas") /\ UNCHANGED job
         ELSE EndCreate(s)
    /\ UNCHANGED <<rows, lock, attempt, undecided, pnrs>>

\* The condition of the update that finalizes.
StillBoundMutant == booking.status = "ready_to_create_pnr"
StillBound ==
    /\ booking.revision = attempt.rev
    /\ booking.status = "ready_to_create_pnr"

FinalizeWrite(s) ==
    /\ At(s, "finalcas")
    /\ booking' = IF StillBound
                    THEN [booking EXCEPT !.status = "pnr_created",
                                         !.revision = attempt.rev + 1]
                    ELSE booking
    /\ EndCreate(s)
    /\ UNCHANGED <<offers, latest, passengers, contact, lock, attempt,
                   undecided, pnrs>>

-----------------------------------------------------------------------------
\* A step of the funnel; a request that ends leaves nothing in memory.
FunnelStep(s) ==
    /\ Arrive(s) \/ Advance(s)
    /\ job' = [t \in Slots |-> IF req'[t].pc = "idle" THEN NoJob ELSE job[t]]
    /\ UNCHANGED <<attempt, undecided, pnrs>>

\* A worker dies: the createBooking requests it waited for go on without it.
CreateCrash(p) ==
    /\ Crash(p)
    /\ job' = [s \in Slots |-> IF Home[s] = p THEN NoJob ELSE job[s]]
    /\ undecided' = undecided
         + Cardinality({s \in Slots : Home[s] = p /\ req[s].pc = "sabre"})
    /\ UNCHANGED <<attempt, pnrs>>

CreateInit ==
    /\ Init
    /\ attempt = NoAttempt
    /\ job = [s \in Slots |-> NoJob]
    /\ undecided = 0 /\ pnrs = 0

CreateArrive(s) ==
    \E key \in Keys : ResumeExisting(s, key) \/ BeginCreate(s, key)

\* The steps a Create PNR request takes by itself.
CreateAdvance(s) ==
    \/ PrepareExisting(s) \/ PrepareNew(s) \/ CheckReadiness(s)
    \/ InsertAttempt(s) \/ LoseInsert(s)
    \/ CheckBinding(s) \/ BuildPayload(s) \/ PayloadFails(s)
    \/ MarkRead(s) \/ MarkSubmitting(s) \/ MarkOutcome(s) \/ MarkConflict(s)
    \/ SabreConfirms(s) \/ SabreRefuses(s) \/ SabreAmbiguous(s)
    \/ FinalizeRead(s) \/ FinalizeWrite(s)

CreateStep(s) == CreateArrive(s) \/ CreateAdvance(s)

CreateNext ==
    \/ \E s \in Slots : FunnelStep(s) \/ CreateStep(s)
    \/ \E p \in Procs : CreateCrash(p)
    \/ SabreDecides

CreateSpec == CreateInit /\ [][CreateNext]_allVars

\* Ready callbacks and lock waiters are served first come, first served, and
\* every call to Sabre ends, by its timeout if need be.  Nobody obliges the
\* agents to do anything, nor a worker to crash.
GoesOn(s) ==
    CreateAdvance(s) \/ (FunnelStep(s) /\ req[s].pc # "idle")

CreateFairSpec == CreateSpec /\ \A s \in Slots : SF_allVars(GoesOn(s))

-----------------------------------------------------------------------------
(* Properties                                                              *)

AttemptRow ==
    [status : PnrAttemptStatuses, key : Keys \cup {None}, rev : Nat, offer : Nat,
     reval : Nat, fingerprint : Payloads \cup {NoPayload}, confirmation : Nat]

JobType ==
    [key : Keys \cup {None}, offer : Nat, reval : Nat,
     fingerprint : Payloads \cup {NoPayload},
     payload : Payloads \cup {NoPayload},
     goal : PnrAttemptStatuses \cup {"none"},
     seen : PnrAttemptStatuses \cup {"none"}, confirmation : Nat]

\* Type invariant of Create PNR on top of the funnel.
CreateTypeOK ==
    /\ TypeOK
    /\ attempt \in AttemptRow \cup {NoAttempt}
    /\ job \in [Slots -> JobType]
    /\ undecided \in Nat /\ pnrs \in Nat

\* A request whose createBooking is on its way, or answered but not recorded.
Sending(s) ==
    \/ req[s].pc = "sabre"
    \/ req[s].pc \in {"mark", "cas"} /\ job[s].goal # "submitting"

\* However often Create PNR is clicked, repeated or interrupted, Sabre creates
\* at most one PNR for the Booking.
AtMostOnePnr == pnrs + undecided <= 1

\* A PNR that exists, or may exist, is never forgotten: the attempt row says
\* so, and no status from which the request would be sent again is stored.
AttemptRemembersPnr ==
    pnrs + undecided > 0 =>
        attempt.status \in
            {"submitting", "reconciliation_required", "succeeded"}

\* A submission is never doubled: "El intento PNR no puede reenviarse
\* automaticamente".
SubmittingNeverResubmits ==
    \A s, t \in Slots : Sending(s) /\ Sending(t) => s = t

\* What is sent is what was reviewed and revalidated: the bound revision is
\* the current one, it passes the readiness gate, and the payload is the data
\* of that moment.
SendsWhatWasReviewed ==
    [][ \A s \in Slots :
          req[s].pc # "sabre" /\ req'[s].pc = "sabre" =>
            /\ Ready
            /\ booking.revision = attempt.rev
            /\ booking.accepted = attempt.offer
            /\ job[s].payload = Payload ]_allVars

\* A Booking says PNR_CREATED only on the confirmed attempt that was bound to
\* the revision just before, to its accepted offer and latest revalidation.
CreatedIsConfirmed ==
    booking.status = "pnr_created" =>
        /\ attempt.status = "succeeded" /\ pnrs > 0
        /\ booking.revision = attempt.rev + 1
        /\ booking.accepted = attempt.offer
        /\ latest.rev = attempt.reval /\ latest.candidate = attempt.offer

\* Once the PNR is recorded the Booking, its forms, offers and revalidation do
\* not change any more, nor the attempt but for the PNR that it names.
SaleIsFrozen ==
    [][ booking.status = "pnr_created" =>
          /\ UNCHANGED <<booking, offers, latest, passengers, contact>>
          /\ attempt' = [attempt EXCEPT
                           !.confirmation = attempt'.confirmation] ]_allVars

\* Once the PNR is recorded nothing that was sold changes any more: not the
\* Booking, its forms, its offers, its revalidation or its attempt, the PNR
\* that the attempt names included.  This needs the one worker: two whose
\* calls both succeeded record one PNR after the other (MarkOutcome).
CreatedIsFrozen ==
    [][ booking.status = "pnr_created" =>
          UNCHANGED <<booking, offers, latest, passengers, contact,
                      attempt>> ]_allVars

\* A worker that dies between "attempt succeeded" and "Booking PNR_CREATED"
\* loses nothing: until somebody edits the Booking, repeating the request
\* finds it in a state that finalizes.
SuccessCanBeFinalized ==
    /\ attempt.status = "succeeded"
    /\ booking.revision = attempt.rev
    => booking.status = "ready_to_create_pnr"

\* The attempt never leaves a final status and moves only as
\* booking_pnr_state.py says; what it was bound to never changes.
AttemptMovesAreAllowed ==
    [][ attempt # NoAttempt =>
          /\ CanTransitionPnrAttempt(attempt.status, attempt'.status)
          /\ \A f \in {"key", "rev", "offer", "reval"} :
                attempt'[f] = attempt[f] ]_allVars

\* The attempt of a Booking that has not changed since it was bound still fits
\* it, and a succeeded attempt has its PNR.
AttemptFits ==
    attempt # NoAttempt =>
        /\ attempt.rev <= booking.revision
        /\ attempt.status = "succeeded" => pnrs > 0
        /\ booking.revision = attempt.rev =>
             /\ booking.status = "ready_to_create_pnr"
             /\ booking.accepted = attempt.offer
             /\ latest.rev = attempt.reval
             /\ latest.candidate = attempt.offer

\* What a Create PNR request in flight knows: the readiness it is about to
\* bind is that of its revision, and the attempt it works on exists.
JobFits(s) ==
    /\ req[s].pc = "insert" /\ StillCurrent(s) =>
         /\ booking.status = "ready_to_create_pnr"
         /\ booking.accepted = job[s].offer
         /\ latest.rev = job[s].reval /\ latest.candidate = job[s].offer
    /\ req[s].pc \in {"binding", "build", "mark", "cas", "sabre",
                      "finalize", "finalcas"} => attempt # NoAttempt
    /\ req[s].pc \in {"mark", "cas"} =>
         job[s].goal \in {"submitting", "succeeded", "failed_safe",
                          "reconciliation_required"}
    /\ req[s].pc = "cas" => CanTransitionPnrAttempt(job[s].seen, job[s].goal)
    /\ Sending(s) /\ job[s].goal = "succeeded" /\ req[s].pc # "sabre"
         => pnrs > 0
    /\ req[s].pc \in {"finalize", "finalcas"} => attempt.status = "succeeded"

\* The inductive invariant of Create PNR for any number of workers.
CreateInv ==
    /\ FunnelInv /\ CreateTypeOK
    /\ AttemptFits
    /\ \A s \in Slots : JobFits(s)
    /\ CreatedIsConfirmed

\* Between two awaits a request keeps the loop of its worker.
KeepsLoop ==
    \A s \in Slots :
        req[s].pc \notin {"idle", "lock", "provider", "sabre"}
            => turn[Home[s]] = s

\* A request that is about to send, on the only worker.
AboutToSend(s) ==
    \/ req[s].pc \in {"binding", "build"}
    \/ req[s].pc \in {"mark", "cas"} /\ job[s].goal = "submitting"

\* What one worker's loop adds: until a request has sent, nobody else touches
\* the attempt or the Booking; from then on the attempt is its own.
LoopFits(s) ==
    /\ AboutToSend(s) => attempt.status \in {"prepared", "failed_safe"}
    /\ req[s].pc = "build" => BindingCurrent
    /\ req[s].pc \in {"mark", "cas"} /\ job[s].goal = "submitting" =>
         Ready /\ BindingCurrent /\ job[s].payload = Payload
    /\ req[s].pc = "cas" => attempt.status = job[s].seen
    /\ Sending(s) => attempt.status = "submitting"
    /\ req[s].pc = "sabre" \/ (Sending(s) /\ job[s].goal = "failed_safe")
         => pnrs + undecided = 0

\* The inductive invariant of Create PNR on one worker.
OneWorkerInv ==
    /\ KeepsLoop
    /\ \A s \in Slots : LoopFits(s)
    /\ SubmittingNeverResubmits
    /\ AtMostOnePnr
    /\ AttemptRemembersPnr

\* What PnrOnce calls state.
OnceState ==
    CASE attempt.status = "succeeded" -> "done"
      [] attempt.status = "reconciliation_required" -> "unknown"
      [] attempt.status = "submitting" ->
           IF \E s \in Slots : Sending(s) THEN "sending" ELSE "unknown"
      [] OTHER -> "idle"

Once == INSTANCE PnrOnce WITH state <- OnceState, made <- pnrs

\* Create PNR implements PnrOnce.
ImplementsOnce == Once!Spec
=============================================================================
