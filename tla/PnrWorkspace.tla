---------------------------- MODULE PnrWorkspace ----------------------------
(***************************************************************************)
(* GET /bookings/{id}/pnr-workspace: read the PNR in Sabre, retry, replace *)
(* the one cached snapshot, read it back and answer with what it is fit    *)
(* for.  The handler is synchronous, so it occupies the event loop of its  *)
(* worker: requests of one worker follow each other, those of several      *)
(* workers interleave.  Meanwhile agents and airlines change the PNR and a *)
(* pricing refresh stores a price quote and then its pricing authority.    *)
(***************************************************************************)
EXTENDS Integers

CONSTANTS
    Workers,
    Requests,       \* GETs
    Home,           \* the worker of each
    Totals,         \* what a price quote may amount to
    BookedTotal,    \* what the Booking was sold for
    ReadAttempts,
    MaxChanges,     \* bound: how often the PNR changes
    MaxFaults,      \* bound: reads that fail or answer with another PNR
    None

ASSUME WorkspaceAssumption ==
    /\ Home \in [Requests -> Workers]
    /\ BookedTotal \in Totals
    /\ ReadAttempts \in Nat \ {0}
    /\ MaxChanges \in Nat /\ MaxFaults \in Nat

VARIABLES
    pnr,         \* the PNR in Sabre
    authority,   \* the latest pricing authority, or None
    refreshing,  \* a price quote is stored and its authority is not
    cache,       \* the row of pnr_workspace_snapshots, or None
    req,         \* the requests
    faults

workspaceVars == <<pnr, authority, refreshing, cache, req, faults>>

-----------------------------------------------------------------------------
(* version counts the changes of the PNR; pq: its current price quote.  Its *)
(* segments are those the Booking was sold with, as many but others, or    *)
(* another number of them.                                                 *)

Segments == {"sold", "changed", "miscounted"}

Pnr == [version : 0..MaxChanges, segments : Segments, pq : 0..MaxChanges,
        total : Totals]

\* All that _read_with_retry compares; a Booking with a PNR has an accepted
\* offer to count the segments of.
AsManyAsSold(p) == p.segments # "miscounted"
Authority == [pq : 0..MaxChanges, total : Totals]

\* What a request answers: the snapshot it shows, or None; whether it says
\* the snapshot was read now; and whether it is ready for pre-issue.
Answer == [shown : Pnr \cup {None}, stale : BOOLEAN, ready : BOOLEAN]

Steps == {"new", "reading", "save", "reread", "assess", "cached",
          "done", "lost"}

\* asked: the version when the request came in (history).
Request == [step : Steps, asked : 0..MaxChanges, tries : 0..ReadAttempts,
            read : Pnr \cup {None}, answer : Answer \cup {None}]

ASSUME NoneIsNoValue == None \notin Pnr \cup Authority \cup Answer

NewRequest == [step |-> "new", asked |-> 0, tries |-> 0, read |-> None,
               answer |-> None]

WorkspaceInit ==
    /\ pnr \in [version : {0}, segments : Segments, pq : {0},
               total : {BookedTotal}]
    /\ authority = None /\ refreshing = FALSE /\ cache = None
    /\ req = [r \in Requests |-> NewRequest] /\ faults = 0

\* The request is being served.
Serving(r) == req[r].step \notin {"new", "done", "lost"}

Occupied(w) == \E r \in Requests : Home[r] = w /\ Serving(r)

-----------------------------------------------------------------------------
(* Reading the PNR.                                                        *)

\* The Booking is PNR_CREATED and its attempt has the locator: neither
\* changes any more.
Get(r) ==
    /\ req[r].step = "new" /\ ~Occupied(Home[r])
    /\ req' = [req EXCEPT ![r].step = "reading", ![r].asked = pnr.version]
    /\ UNCHANGED <<pnr, authority, refreshing, cache, faults>>

\* Sabre answers with the PNR.  Another number of segments than was sold is
\* read again, as long as there are attempts left.
Retrieve(r) ==
    /\ req[r].step = "reading"
    /\ req' = [req EXCEPT
         ![r].read = pnr, ![r].tries = @ + 1,
         ![r].step = IF AsManyAsSold(pnr) \/ req[r].tries + 1 = ReadAttempts
                       THEN "save" ELSE "reading"]
    /\ UNCHANGED <<pnr, authority, refreshing, cache, faults>>

\* The read fails.  On the last attempt an earlier answer is of no use.
ReadFails(r) ==
    /\ req[r].step = "reading" /\ faults < MaxFaults
    /\ faults' = faults + 1
    /\ req' = [req EXCEPT
         ![r].tries = @ + 1,
         ![r].step = IF req[r].tries + 1 = ReadAttempts
                       THEN "cached" ELSE "reading"]
    /\ UNCHANGED <<pnr, authority, refreshing, cache>>

\* Sabre answers with another locator: no further attempt, nothing is saved.
OtherLocator(r) ==
    /\ req[r].step = "reading" /\ faults < MaxFaults
    /\ faults' = faults + 1
    /\ req' = [req EXCEPT ![r].step = "cached"]
    /\ UNCHANGED <<pnr, authority, refreshing, cache>>

-----------------------------------------------------------------------------
(* PnrWorkspaceSnapshotRepository: the upsert and the read back are        *)
(* transactions of their own.                                              *)

SaveMutant(r) ==
    /\ req[r].step = "save"
    /\ cache' = IF AsManyAsSold(req[r].read) \/ cache = None
                  THEN req[r].read ELSE cache
    /\ req' = [req EXCEPT
         ![r].step = IF AsManyAsSold(req[r].read) THEN "reread" ELSE "assess"]
    /\ UNCHANGED <<pnr, authority, refreshing, faults>>
Save(r) ==
    /\ req[r].step = "save"
    /\ cache' = req[r].read
    /\ req' = [req EXCEPT ![r].step = "reread"]
    /\ UNCHANGED <<pnr, authority, refreshing, faults>>

Reread(r) ==
    /\ req[r].step = "reread"
    /\ req' = [req EXCEPT ![r].read = cache, ![r].step = "assess"]
    /\ UNCHANGED <<pnr, authority, refreshing, cache, faults>>

-----------------------------------------------------------------------------
(* The assessment, reduced to what changes here: IssueGates has the rest.  *)

PricingHoldsMutant(p, a) ==
    p.total \in {BookedTotal} \cup (IF a = None THEN {} ELSE {a.total})
PricingHolds(p, a) ==
    IF a = None THEN p.total = BookedTotal
                ELSE a.pq = p.pq /\ a.total = p.total

\* build_pnr_pre_issue_readiness
ReadinessMutant(p, a, stale) == p.segments = "sold" /\ PricingHolds(p, a)
Readiness(p, a, stale) ==
    ~stale /\ p.segments = "sold" /\ PricingHolds(p, a)

Reply(r, shown, stale) ==
    req' = [req EXCEPT
      ![r].step = "done",
      ![r].answer = [shown |-> shown, stale |-> stale,
                     ready |-> shown # None
                                 /\ Readiness(shown, authority, stale)]]

\* The latest authority is read after the snapshot.
Assess(r) ==
    /\ req[r].step = "assess" /\ Reply(r, req[r].read, FALSE)
    /\ UNCHANGED <<pnr, authority, refreshing, cache, faults>>

\* _read_error: the cached snapshot, said to be stale; without one nothing is
\* shown.
ReadError(r) ==
    /\ req[r].step = "cached" /\ Reply(r, cache, cache # None)
    /\ UNCHANGED <<pnr, authority, refreshing, cache, faults>>

\* A worker dies with the request it serves.
Crash(w) ==
    /\ \E r \in Requests :
         /\ Home[r] = w /\ Serving(r)
         /\ req' = [req EXCEPT ![r].step = "lost"]
    /\ UNCHANGED <<pnr, authority, refreshing, cache, faults>>

-----------------------------------------------------------------------------
(* What happens beside the requests.                                       *)

\* Segments change, are cancelled or become visible.
ChangeItinerary ==
    /\ pnr.version < MaxChanges
    /\ \E segments \in Segments \ {pnr.segments} :
         pnr' = [pnr EXCEPT !.version = @ + 1, !.segments = segments]
    /\ UNCHANGED <<authority, refreshing, cache, req, faults>>

\* A refresh, one at a time, replaces the price quote ...
StorePq ==
    /\ pnr.version < MaxChanges /\ ~refreshing
    /\ \E total \in Totals :
         pnr' = [pnr EXCEPT !.version = @ + 1, !.pq = @ + 1, !.total = total]
    /\ refreshing' = TRUE
    /\ UNCHANGED <<authority, cache, req, faults>>

\* ... and saves what it verified.
SaveAuthority ==
    /\ refreshing /\ refreshing' = FALSE
    /\ authority' = [pq |-> pnr.pq, total |-> pnr.total]
    /\ UNCHANGED <<pnr, cache, req, faults>>

-----------------------------------------------------------------------------
Serve(r) ==
    \/ Retrieve(r) \/ ReadFails(r) \/ OtherLocator(r)
    \/ Save(r) \/ Reread(r) \/ Assess(r) \/ ReadError(r)

WorkspaceNext ==
    \/ \E r \in Requests : Get(r) \/ Serve(r)
    \/ \E w \in Workers : Crash(w)
    \/ ChangeItinerary \/ StorePq \/ SaveAuthority

WorkspaceSpec == WorkspaceInit /\ [][WorkspaceNext]_workspaceVars

-----------------------------------------------------------------------------
(* Properties                                                              *)

Answered == {r \in Requests : req[r].step = "done"}
Shows(r) == req[r].answer.shown # None

\* "READY requires a successful remote read for this response, not a stale
\* cached snapshot" (pnr_pre_issue_readiness_service.py:25): the snapshot of a
\* ready answer is no older than the request.
ReadyWasReadNow ==
    \A r \in Answered :
        req[r].answer.ready => req[r].answer.shown.version >= req[r].asked

\* An agent who asks again never sees an older PNR than before, whether the
\* answers are fresh or stale.
ViewMovesForward ==
    [][ \A r, s \in Requests :
          /\ req[r].step = "done" /\ Shows(r)
          /\ req[s].step # "done" /\ req'[s].step = "done"
          => /\ req'[s].answer.shown # None
             /\ req'[s].answer.shown.version >= req[r].answer.shown.version
      ]_workspaceVars

\* A refresh stores a price quote and its authority later, a request reads them
\* one after the other: a ready answer never shows a quote that a verified one
\* has replaced, nor a new total that is not verified yet.
ReadyPriceIsVerified ==
    [][ \A r \in Requests :
          req[r].step # "done" /\ req'[r].step = "done" /\ req'[r].answer.ready
          => LET shown == req'[r].answer.shown
             IN  /\ authority # None => shown.pq = authority.pq
                 /\ refreshing /\ shown.pq = pnr.pq =>
                      authority = None /\ shown.total = BookedTotal
      ]_workspaceVars

\* A PNR whose segments are not those that were sold is never shown as ready;
\* with another number of them it is shown as read now only after the last
\* attempt.  Other segments of the same number are believed at once.
IncompleteIsLastResort ==
    \A r \in Answered :
        Shows(r) =>
            /\ req[r].answer.shown.segments # "sold" => ~req[r].answer.ready
            /\ \/ AsManyAsSold(req[r].answer.shown)
               \/ req[r].answer.stale \/ req[r].tries = ReadAttempts

\* What a request answers is what it did.
AnswersAreHonest == ReadyWasReadNow /\ IncompleteIsLastResort

-----------------------------------------------------------------------------
(* The inductive invariant                                                 *)

\* Type invariant of the PNR, its cache and the requests about it.
WorkspaceTypeOK ==
    /\ pnr \in Pnr
    /\ authority \in Authority \cup {None} /\ refreshing \in BOOLEAN
    /\ cache \in Pnr \cup {None}
    /\ req \in [Requests -> Request] /\ faults \in 0..MaxFaults

\* Versions count up: a price quote is never from a later version than its
\* PNR, and while a refresh has stored one that it has not verified yet, an
\* authority is for an earlier one.
VersionsFit ==
    /\ pnr.pq <= pnr.version
    /\ cache # None => cache.version <= pnr.version
    /\ authority # None => /\ authority.pq <= pnr.pq
                           /\ refreshing => authority.pq < pnr.pq

\* What a request holds that is about to be saved or answered: a PNR read
\* after the request came in and not older than the cache, which it equals
\* from the moment it is saved.
ReadFits(r) ==
    /\ req[r].step \notin {"new", "lost"} => req[r].asked <= pnr.version
    /\ req[r].step = "reading" => req[r].tries < ReadAttempts
    /\ req[r].step \in {"save", "reread", "assess"} =>
         /\ req[r].read # None
         /\ req[r].asked <= req[r].read.version
         /\ req[r].read.version <= pnr.version
         /\ cache # None => cache.version <= req[r].read.version
         /\ AsManyAsSold(req[r].read) \/ req[r].tries = ReadAttempts
    /\ req[r].step \in {"reread", "assess"} => cache = req[r].read

\* What was answered came out of the cache as it was then.
AnswerFits(r) ==
    req[r].step = "done" =>
        /\ req[r].answer # None
        /\ Shows(r) =>
             /\ cache # None
             /\ req[r].answer.shown.version <= cache.version
        /\ req[r].answer.ready =>
             /\ Shows(r) /\ req[r].answer.shown.segments = "sold"
             /\ req[r].asked <= req[r].answer.shown.version
        /\ Shows(r) /\ ~AsManyAsSold(req[r].answer.shown) =>
             req[r].answer.stale \/ req[r].tries = ReadAttempts

\* On one worker the requests follow each other.
WorkspaceInv ==
    /\ WorkspaceTypeOK /\ VersionsFit
    /\ \A r, s \in Requests : Serving(r) /\ Serving(s) => r = s
    /\ \A r \in Requests : ReadFits(r) /\ AnswerFits(r)
=============================================================================
