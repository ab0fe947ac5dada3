--------------------------- MODULE BookingFunnel ---------------------------
(***************************************************************************)
(* One Booking between "Reservar" and "Create PNR": agents save passengers *)
(* and contact and revalidate the accepted offer with Sabre.               *)
(*                                                                         *)
(* The rows of the database (booking, its immutable offer revisions, its   *)
(* latest revalidation row, passengers, contact) are shared by worker      *)
(* processes.  A worker runs its requests on one event loop: a request     *)
(* keeps the loop (turn) from one await to the next, while requests of     *)
(* different workers interleave between any two database calls.            *)
(*                                                                         *)
(* A request that is refused leaves everything unchanged, so its refusal   *)
(* is either the absence of a step (a first check fails) or a step that    *)
(* only frees the request's slot.                                          *)
(***************************************************************************)
EXTENDS BookingState, Naturals, Sequences, FiniteSets

CONSTANTS
    Procs,            \* worker processes
    Slots,            \* request handlers
    Home,             \* the process of each slot
    Nobody,           \* no slot
    PaxData,          \* what the passenger form can hold
    CompletePax,      \* the contents with every required field
    NoPax,            \* the materialised empty passenger slots
    ContactData, CompleteContact, NoContact,
    Products,         \* what an offer snapshot sells
    NotGiven,         \* a carrier or brand that Sabre did not give
    MaxRevision       \* bound: no request starts above this revision

ASSUME FunnelAssumption ==
    /\ Home \in [Slots -> Procs]
    /\ Nobody \notin Slots
    /\ CompletePax \subseteq PaxData
    /\ CompleteContact \subseteq ContactData
    /\ NoPax \in PaxData \ CompletePax
    /\ NoContact \in ContactData \ CompleteContact
    /\ MaxRevision \in Nat

VARIABLES
    booking,          \* BookingRow
    offers,           \* BookingOfferRevisionRow of this Booking, by number
    latest,           \* the BookingRevalidationRow with the greatest id
    passengers, contact,
    req,              \* the request each slot is serving
    turn,             \* the slot that holds each process's event loop
    lock              \* _REVALIDATION_LOCKS of each process, for this Booking

rows == <<booking, offers, latest, passengers, contact>>
vars == <<booking, offers, latest, passengers, contact, req, turn, lock>>

-----------------------------------------------------------------------------
(* Rows and requests                                                       *)

BookingRow ==
    [status : BookingStatuses, reval : RevalidationStatuses,
     revision : Nat, accepted : Nat]

Offer == [source : {"initial", "revalidation"}, product : Products]

\* rev is the Booking revision the row's transaction produced: it identifies
\* the row, as revalidation_id does.
RevalidationRow ==
    [status : RevalidationStatuses, source : Nat, candidate : Nat,
     stale : BOOLEAN, rev : Nat]

NoRow == [status |-> "not_run", source |-> 0, candidate |-> 0,
          stale |-> FALSE, rev |-> 0]

Kinds == {"none", "passengers", "contact", "revalidate", "create"}

FunnelPcs == {"idle", "resolve", "edit", "lock", "provider", "readback"}

\* The points of a Create PNR request outside the funnel (CreatePnr).
CreatePcs ==
    {"prepare", "readiness", "insert", "binding", "build", "mark", "cas",
     "sabre", "finalize", "finalcas"}

\* rev: the revision the client sent.  saved, target: the form of an edit and
\* the statuses it resolved to.  source: the accepted offer revalidated.
NoTarget == [status |-> "draft", reval |-> "not_run"]

IdleRequest ==
    [kind |-> "none", pc |-> "idle", rev |-> 0, saved |-> NoPax,
     target |-> NoTarget, source |-> 0]

\* The conditional update of every writer: the row still has the revision the
\* request was made for.  Otherwise the whole transaction is rolled back.
StillCurrentMutant(s) == TRUE
StillCurrent(s) == booking.revision = req[s].rev

PassengersComplete == passengers \in CompletePax
ContactComplete == contact \in CompleteContact

-----------------------------------------------------------------------------
(* The event loop                                                          *)

MayRun(s) == turn[Home[s]] \in {Nobody, s}
KeepRunning(s) == turn' = [turn EXCEPT ![Home[s]] = s]
GiveUpLoop(s) == turn' = [turn EXCEPT ![Home[s]] = Nobody]

Finish(s) == req' = [req EXCEPT ![s] = IdleRequest] /\ GiveUpLoop(s)

Release(s) == lock' = [lock EXCEPT ![Home[s]] = Nobody]

-----------------------------------------------------------------------------
(* Saving passengers and contact                                           *)

\* A form that is being saved, and the statuses it starts from or resolves to.
Edit(kind, pc, data, target) ==
    [kind |-> kind, pc |-> pc, rev |-> booking.revision, saved |-> data,
     target |-> target, source |-> 0]

\* BookingPassengerService.update up to its transaction.  An unchanged form
\* answers OK and a revision other than the current one conflicts: neither
\* writes anything.
EditPassengers(s, data) ==
    /\ req[s].pc = "idle" /\ MayRun(s)
    /\ booking.status \notin TerminalStatuses
    /\ data # passengers
    /\ booking.revision < MaxRevision
    /\ req' = [req EXCEPT ![s] = Edit("passengers", "edit", data,
                 ResolveAfterPassengerEdit(booking.status, booking.reval,
                                           data \in CompletePax))]
    /\ KeepRunning(s)
    /\ UNCHANGED <<rows, lock>>

\* BookingContactService.update: read the Booking and the contact ...
EditContact(s, data) ==
    /\ req[s].pc = "idle" /\ MayRun(s)
    /\ booking.status \notin TerminalStatuses
    /\ data # contact
    /\ booking.revision < MaxRevision
    /\ req' = [req EXCEPT ![s] = Edit("contact", "resolve", data,
                 [status |-> booking.status, reval |-> booking.reval])]
    /\ KeepRunning(s)
    /\ UNCHANGED <<rows, lock>>

\* ... then the passengers, and resolve the statuses from both.
ResolveContact(s) ==
    /\ req[s].pc = "resolve" /\ MayRun(s)
    /\ req' = [req EXCEPT ![s].pc = "edit", ![s].target =
                 ResolveAfterMaterialMutation(req[s].target.status,
                   req[s].target.reval, PassengersComplete,
                   req[s].saved \in CompleteContact)]
    /\ KeepRunning(s)
    /\ UNCHANGED <<rows, lock>>

\* The Booking an edit saves.
EditedBookingMutant(s) ==
    [status |-> req[s].target.status, reval |-> req[s].target.reval,
     revision |-> booking.revision, accepted |-> booking.accepted]
EditedBooking(s) ==
    [status |-> req[s].target.status, reval |-> req[s].target.reval,
     revision |-> booking.revision + 1, accepted |-> booking.accepted]

\* The transaction of both: the form, the Booking if its revision is still
\* the one the client sent, and the staleness of the revalidation rows.
CommitEdit(s) ==
    /\ req[s].pc = "edit" /\ MayRun(s)
    /\ StillCurrent(s)
    /\ IF req[s].kind = "passengers"
         THEN passengers' = req[s].saved /\ UNCHANGED contact
         ELSE contact' = req[s].saved /\ UNCHANGED passengers
    /\ booking' = EditedBooking(s)
    /\ latest' = [latest EXCEPT !.stale =
                    \/ @
                    \/ /\ latest # NoRow
                       /\ req[s].target.reval = "stale"
                       /\ booking.reval # "stale"]
    /\ Finish(s)
    /\ UNCHANGED <<offers, lock>>

ConflictEdit(s) ==
    /\ req[s].pc = "edit" /\ MayRun(s)
    /\ ~StillCurrent(s)
    /\ Finish(s)
    /\ UNCHANGED <<rows, lock>>

-----------------------------------------------------------------------------
(* Revalidation                                                            *)

\* Enter revalidate(): take the process's lock for the Booking or wait for it.
EnterRevalidation(s, kind, rev) ==
    /\ req' = [req EXCEPT ![s] = [IdleRequest EXCEPT
                 !.kind = kind, !.pc = "lock", !.rev = rev]]
    /\ IF lock[Home[s]] = Nobody THEN KeepRunning(s) ELSE GiveUpLoop(s)

\* POST /revalidation: the client may hold any revision the Booking has had.
Revalidate(s, rev) ==
    /\ req[s].pc = "idle" /\ MayRun(s)
    /\ rev \in 1..booking.revision /\ rev < MaxRevision
    /\ EnterRevalidation(s, "revalidate", rev)
    /\ UNCHANGED <<rows, lock>>

\* _safe_retry_row: the request already produced the current revision.
SafeRetry(rev) ==
    /\ rev + 1 = booking.revision
    /\ latest # NoRow /\ ~latest.stale
    /\ latest.status = booking.reval
    /\ latest.rev = booking.revision

PreflightMutant(rev) ==
    /\ booking.status \in PostRevalidationStatuses \cup {"ready_for_review"}
    /\ rev = booking.revision
    /\ booking.accepted # 0
Preflight(rev) ==
    /\ booking.status \in PostRevalidationStatuses \cup {"ready_for_review"}
    /\ rev = booking.revision
    /\ PassengersComplete /\ ContactComplete
    /\ booking.accepted # 0
    /\ CanTransition(booking.status, "revalidation_required")

\* What the caller does with the response: the endpoint returns it; Create PNR
\* goes on with the revision it carries, if the exact product is confirmed.
Respond(s) ==
    IF /\ req[s].kind = "create"
       /\ booking.reval = "matched"
       /\ booking.status = "ready_to_create_pnr"
      THEN /\ req' = [req EXCEPT ![s].pc = "prepare",
                                 ![s].rev = booking.revision]
           /\ KeepRunning(s)
      ELSE Finish(s)

\* _revalidate_locked up to the await of the provider.
StartRevalidation(s) ==
    /\ req[s].pc = "lock" /\ MayRun(s) /\ lock[Home[s]] = Nobody
    /\ ~SafeRetry(req[s].rev) /\ Preflight(req[s].rev)
    /\ req' = [req EXCEPT ![s].pc = "provider",
                          ![s].source = booking.accepted]
    /\ lock' = [lock EXCEPT ![Home[s]] = s]
    /\ GiveUpLoop(s)
    /\ UNCHANGED rows

\* The same request again: the persisted result, without calling Sabre.
RetryRevalidation(s) ==
    /\ req[s].pc = "lock" /\ MayRun(s) /\ lock[Home[s]] = Nobody
    /\ SafeRetry(req[s].rev)
    /\ Respond(s)
    /\ UNCHANGED <<rows, lock>>

RefuseRevalidation(s) ==
    /\ req[s].pc = "lock" /\ MayRun(s) /\ lock[Home[s]] = Nobody
    /\ ~SafeRetry(req[s].rev) /\ ~Preflight(req[s].rev)
    /\ Finish(s)
    /\ UNCHANGED <<rows, lock>>

\* _fare_identity_changes.  fare is what every answer gives (currency, cabin,
\* fare basis).  The validating carrier counts if both give it; a brand, like
\* the modifier and the components that go with it, if the source has one.
FareChangedMutant(source, candidate) == candidate.fare # source.fare
FareChanged(source, candidate) ==
    \/ candidate.fare # source.fare
    \/ /\ NotGiven \notin {source.carrier, candidate.carrier}
       /\ candidate.carrier # source.carrier
    \/ source.brand # NotGiven /\ candidate.brand # source.brand

\* compare_revalidated_offer: itinerary first, then fare identity, then price.
CompareRevalidatedOffer(source, candidate) ==
    CASE candidate.itinerary # source.itinerary -> "itinerary_changed"
      [] FareChanged(source, candidate) -> "fare_changed"
      [] candidate.price # source.price -> "price_changed"
      [] OTHER -> "matched"

\* Only a matched candidate becomes the accepted offer.
AcceptedAfter(result, candidate) ==
    IF result = "matched" THEN candidate ELSE booking.accepted

\* The writes of _persist_result's transaction when its conditional update of
\* the Booking finds the revision the client sent.
PersistRow(s, result, candidate) ==
    /\ StillCurrent(s)
    /\ latest' = [status |-> result, source |-> req[s].source,
                  candidate |-> candidate, stale |-> FALSE,
                  rev |-> booking.revision + 1]
    /\ booking' =
         [status |-> IF result = "matched" THEN "ready_to_create_pnr"
                                           ELSE "requires_agent_action",
          reval |-> result,
          revision |-> booking.revision + 1,
          accepted |-> AcceptedAfter(result, candidate)]
    /\ req' = [req EXCEPT ![s].pc = "readback"]
    /\ KeepRunning(s)
    /\ UNCHANGED <<passengers, contact, lock>>

\* Sabre answers with options; the best one is the candidate.
PersistOffer(s, product) ==
    /\ req[s].pc = "provider" /\ MayRun(s)
    /\ offers' = Append(offers, [source |-> "revalidation",
                                 product |-> product])
    /\ PersistRow(s,
         CompareRevalidatedOffer(offers[req[s].source].product, product),
         Len(offers) + 1)

\* Sabre has no availability, or fails, or answers nothing usable.
PersistNoOffer(s, result) ==
    /\ req[s].pc = "provider" /\ MayRun(s)
    /\ result \in {"unavailable", "error"}
    /\ PersistRow(s, result, 0)
    /\ UNCHANGED offers

\* The Booking changed while Sabre answered: the result is discarded.
DiscardResult(s) ==
    /\ req[s].pc = "provider" /\ MayRun(s)
    /\ ~StillCurrent(s)
    /\ Finish(s) /\ Release(s)
    /\ UNCHANGED rows

ProviderRefusesMutant(s) ==
    /\ req[s].pc = "provider" /\ MayRun(s)
    /\ Finish(s)
    /\ UNCHANGED <<rows, lock>>
\* RevalidationRequestError: the request could not be built; nothing is saved.
ProviderRefuses(s) ==
    /\ req[s].pc = "provider" /\ MayRun(s)
    /\ Finish(s) /\ Release(s)
    /\ UNCHANGED rows

\* Re-read after the commit.  Another process may have revalidated again: the
\* latest row is then not this one and the request fails.
ReadBack(s) ==
    /\ req[s].pc = "readback" /\ MayRun(s)
    /\ Release(s)
    /\ IF latest.rev = req[s].rev + 1 THEN Respond(s) ELSE Finish(s)
    /\ UNCHANGED rows

-----------------------------------------------------------------------------
\* A worker dies and is restarted: its requests and locks are gone.
Crash(p) ==
    /\ req' = [s \in Slots |-> IF Home[s] = p THEN IdleRequest ELSE req[s]]
    /\ turn' = [turn EXCEPT ![p] = Nobody]
    /\ lock' = [lock EXCEPT ![p] = Nobody]
    /\ UNCHANGED rows

Init ==
    /\ booking = [status |-> "draft", reval |-> "not_run",
                  revision |-> 1, accepted |-> 1]
    /\ \E p \in Products :
         offers = <<[source |-> "initial", product |-> p]>>
    /\ latest = NoRow
    /\ passengers = NoPax /\ contact = NoContact
    /\ req = [s \in Slots |-> IdleRequest]
    /\ turn = [p \in Procs |-> Nobody]
    /\ lock = [p \in Procs |-> Nobody]

\* The steps a request takes by itself once it has been received.
Advance(s) ==
    \/ ResolveContact(s) \/ CommitEdit(s) \/ ConflictEdit(s)
    \/ StartRevalidation(s) \/ RetryRevalidation(s) \/ RefuseRevalidation(s)
    \/ \E product \in Products : PersistOffer(s, product)
    \/ \E result \in {"unavailable", "error"} : PersistNoOffer(s, result)
    \/ DiscardResult(s) \/ ProviderRefuses(s)
    \/ ReadBack(s)

Arrive(s) ==
    \/ \E data \in PaxData : EditPassengers(s, data)
    \/ \E data \in ContactData : EditContact(s, data)
    \/ \E rev \in 1..MaxRevision : Revalidate(s, rev)

Next ==
    \/ \E s \in Slots : Arrive(s) \/ Advance(s)
    \/ \E p \in Procs : Crash(p)

Spec == Init /\ [][Next]_vars

-----------------------------------------------------------------------------
(* Properties                                                              *)

RequestType ==
    [kind : Kinds, pc : FunnelPcs \cup CreatePcs, rev : Nat,
     saved : PaxData \cup ContactData,
     target : [status : BookingStatuses, reval : RevalidationStatuses],
     source : Nat]

\* Type invariant of the funnel.
TypeOK ==
    /\ booking \in BookingRow
    /\ offers \in Seq(Offer) /\ booking.accepted \in 1..Len(offers)
    /\ latest \in RevalidationRow
    /\ passengers \in PaxData /\ contact \in ContactData
    /\ req \in [Slots -> RequestType]
    /\ \A s \in Slots : req[s].source \in 0..Len(offers)
    /\ turn \in [Procs -> Slots \cup {Nobody}]
    /\ lock \in [Procs -> Slots \cup {Nobody}]

\* A Booking is ready to create its PNR only with complete passengers and
\* contact and while its accepted offer is the candidate of the latest,
\* matched and still fresh revalidation: what the readiness gate of Create PNR
\* asks holds whenever the status claims it, whoever edited meanwhile.
ReadyIsEarned ==
    booking.status = "ready_to_create_pnr" =>
        /\ booking.reval = "matched"
        /\ PassengersComplete /\ ContactComplete
        /\ latest.status = "matched" /\ ~latest.stale
        /\ latest.candidate = booking.accepted
        /\ offers[booking.accepted].source = "revalidation"

\* "Stale" and "must revalidate" are one condition, and they come with a
\* revalidation row marked stale: no interleaving of edits and answers leaves
\* a Booking asking for a revalidation it still shows as fresh.
StaleMeansRevalidate ==
    /\ booking.status = "revalidation_required" <=> booking.reval = "stale"
    /\ booking.reval = "stale" => latest.stale

\* No sequence of revalidations replaces the product the agent selected,
\* although every match replaces the offer that the next one is compared with:
\* the accepted offer has the itinerary, the fare and the price of the first
\* one, and its brand if it had one.  (Of the carrier nothing can be said: one
\* that is given, then missing, then another still matches twice.)
SellsAs(first, product) ==
    /\ product.itinerary = first.itinerary
    /\ product.fare = first.fare
    /\ product.price = first.price
    /\ first.brand # NotGiven => product.brand = first.brand

ProductPreserved ==
    SellsAs(offers[1].product, offers[booking.accepted].product)

\* Every change of the Booking, its forms or its result is one revision: a
\* client that holds the current revision holds the current data.
RevisionCoversEveryChange ==
    [][ <<booking, passengers, contact, latest>>'
          # <<booking, passengers, contact, latest>>
        => booking'.revision = booking.revision + 1 ]_vars

\* A revalidation result is saved only over the very offer Sabre was asked
\* about, and only while the passengers and the contact are still complete.
ResultFitsTheBooking ==
    [][ latest'.rev # latest.rev =>
          /\ latest'.source = booking.accepted
          /\ PassengersComplete /\ ContactComplete
          /\ booking.status \notin TerminalStatuses \cup {"draft"} ]_vars

\* The funnel moves by transitions of booking_state.py; a revalidation result
\* is two of them at once, through revalidation_required.
StatusMovesAreAllowed ==
    [][ \/ CanTransition(booking.status, booking'.status)
        \/ /\ CanTransition(booking.status, "revalidation_required")
           /\ CanTransition("revalidation_required", booking'.status)
           /\ latest'.rev = booking'.revision ]_vars

\* What a request in flight still knows.  While its revision is the current
\* one, the statuses it starts from are the Booking's and an edit's target is
\* what resolving its form now would give ...
ResolveFits(s) ==
    req[s].pc = "resolve" =>
        /\ req[s].kind = "contact" /\ req[s].saved \in ContactData
        /\ StillCurrent(s) =>
             /\ booking.status \notin TerminalStatuses
             /\ req[s].target =
                  [status |-> booking.status, reval |-> booking.reval]

EditFits(s) ==
    req[s].pc = "edit" =>
        /\ \/ req[s].kind = "passengers" /\ req[s].saved \in PaxData
           \/ req[s].kind = "contact" /\ req[s].saved \in ContactData
        /\ StillCurrent(s) =>
             /\ booking.status \notin TerminalStatuses
             /\ req[s].target =
                  IF req[s].kind = "passengers"
                    THEN ResolveAfterPassengerEdit(booking.status,
                           booking.reval, req[s].saved \in CompletePax)
                    ELSE ResolveAfterMaterialMutation(booking.status,
                           booking.reval, PassengersComplete,
                           req[s].saved \in CompleteContact)

\* ... and a revalidation asks about the accepted offer of a complete Booking.
AnswerFits(s) ==
    req[s].pc = "provider" =>
        /\ req[s].source \in 1..Len(offers)
        /\ StillCurrent(s) =>
             /\ req[s].source = booking.accepted
             /\ PassengersComplete /\ ContactComplete
             /\ booking.status \notin TerminalStatuses \cup {"draft"}
             /\ CanTransition(booking.status, "revalidation_required")

\* A Booking that was revalidated once has left the review statuses for good
\* and has a revalidation row.
RevalidatedOnce ==
    /\ booking.reval = "not_run" <=> booking.status \in {"draft", "ready_for_review"}
    /\ booking.reval # "not_run" => latest.rev > 0

\* The inductive invariant of the funnel: what every answer and every write
\* relies on about the requests that are in flight at the same time.
FunnelInv ==
    /\ TypeOK
    /\ \A s \in Slots :
         /\ req[s].rev <= booking.revision
         /\ ResolveFits(s) /\ EditFits(s) /\ AnswerFits(s)
    /\ RevalidatedOnce
    /\ ReadyIsEarned
    /\ StaleMeansRevalidate
    /\ ProductPreserved

\* Every request ends, also the ones that wait for the revalidation lock
\* behind others that fail, are refused or are retried.
RequestsEnd == \A s \in Slots : req[s].pc # "idle" ~> req[s].pc = "idle"
=============================================================================
