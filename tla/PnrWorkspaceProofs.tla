------------------------- MODULE PnrWorkspaceProofs -------------------------
(***************************************************************************)
(* Reading the PNR, for any number of requests, attempts, faults and       *)
(* changes.  That a ready price is verified follows from WorkspaceBase,    *)
(* which is inductive on any number of workers.  On one worker             *)
(* WorkspaceInv is inductive too: an answer that says it is ready was read *)
(* for that request, and what agents see moves forward.                    *)
(***************************************************************************)
EXTENDS PnrWorkspace, TLAPS

\* A request that will read has an attempt left; what it is about to save is a PNR
\* that Sabre returned.
ReadGoesOn(r) ==
    /\ req[r].step \in {"new", "reading"} => req[r].tries < ReadAttempts
    /\ req[r].step = "save" => /\ req[r].read # None
                               /\ req[r].read.version <= pnr.version

\* What holds on any number of workers.
WorkspaceBase ==
    WorkspaceTypeOK /\ VersionsFit /\ \A r \in Requests : ReadGoesOn(r)

LEMMA OneRequest ==
    ASSUME WorkspaceTypeOK, NEW r \in Requests
    PROVE  /\ req[r] \in Request /\ req[r].tries \in 0..ReadAttempts
           /\ req[r].asked \in 0..MaxChanges
           /\ req[r].read # None => req[r].read \in Pnr
           /\ req[r].answer # None => req[r].answer \in Answer
           /\ cache # None => cache \in Pnr
           /\ pnr.version \in 0..MaxChanges /\ pnr.pq \in 0..MaxChanges
           /\ ReadAttempts \in Nat \ {0} /\ MaxChanges \in Nat
           /\ MaxFaults \in Nat
BY WorkspaceAssumption DEF WorkspaceTypeOK, Request, Pnr

-----------------------------------------------------------------------------
(* Any number of workers                                                   *)

LEMMA NewTypes ==
    /\ NewRequest \in Request
    /\ NewRequest.step = "new" /\ NewRequest.tries < ReadAttempts
    /\ None \notin Pnr /\ None \notin Authority /\ None \notin Answer
BY NoneIsNoValue, WorkspaceAssumption DEF NewRequest, Request, Steps

LEMMA BaseInitially == WorkspaceInit => WorkspaceBase
<1> SUFFICES ASSUME WorkspaceInit PROVE WorkspaceBase
  OBVIOUS
<1>1. pnr \in Pnr /\ pnr.pq = 0 /\ pnr.version = 0
  BY WorkspaceAssumption DEF WorkspaceInit, Pnr
<1>2. req \in [Requests -> Request]
  BY NewTypes DEF WorkspaceInit
<1>3. ASSUME NEW r \in Requests PROVE ReadGoesOn(r)
  <2>1. req[r] = NewRequest
    BY DEF WorkspaceInit
  <2> QED BY <2>1, NewTypes DEF ReadGoesOn
<1>4. refreshing \in BOOLEAN /\ ~refreshing
  BY Zenon DEF WorkspaceInit
<1>5. WorkspaceTypeOK /\ VersionsFit
  BY <1>1, <1>2, <1>4, WorkspaceAssumption
     DEF WorkspaceInit, WorkspaceTypeOK, VersionsFit
<1> QED BY <1>3, <1>5 DEF WorkspaceBase

\* One request moves, and at most the cache with it.
LEMMA RequestMoves ==
    ASSUME WorkspaceBase, NEW r \in Requests,
           req' \in [Requests -> Request],
           \A t \in Requests \ {r} : req'[t] = req[t],
           UNCHANGED <<pnr, authority, refreshing>>,
           \/ UNCHANGED cache
           \/ cache' \in Pnr /\ cache'.version <= pnr.version,
           faults' \in 0..MaxFaults, ReadGoesOn(r)'
    PROVE  WorkspaceBase'
<1>1. ASSUME NEW t \in Requests PROVE ReadGoesOn(t)'
  <2>1. CASE t # r
    BY <2>1 DEF WorkspaceBase, ReadGoesOn
  <2> QED BY <2>1
<1>2. WorkspaceTypeOK'
  BY DEF WorkspaceBase, WorkspaceTypeOK
<1>3. VersionsFit'
  BY DEF WorkspaceBase, VersionsFit
<1> QED BY <1>1, <1>2, <1>3 DEF WorkspaceBase

\* An answer only ends its request.
LEMMA ReplyMoves ==
    ASSUME WorkspaceTypeOK, NEW r \in Requests,
           NEW shown \in Pnr \cup {None}, NEW stale \in BOOLEAN,
           Reply(r, shown, stale)
    PROVE  /\ req' \in [Requests -> Request]
           /\ \A t \in Requests \ {r} : req'[t] = req[t]
           /\ req'[r].step = "done" /\ req'[r].answer # None
           /\ req'[r].asked = req[r].asked /\ req'[r].tries = req[r].tries
           /\ req'[r].answer.shown = shown /\ req'[r].answer.stale = stale
           /\ req'[r].answer.ready <=>
                shown # None /\ Readiness(shown, authority, stale)
<1> DEFINE a == [shown |-> shown, stale |-> stale,
                 ready |-> shown # None /\ Readiness(shown, authority, stale)]
<1>1. a \in Answer /\ a.shown = shown /\ a.stale = stale
      /\ (a.ready <=> shown # None /\ Readiness(shown, authority, stale))
  BY DEF Answer
<1>2. req' = [req EXCEPT ![r].step = "done", ![r].answer = a]
  BY DEF Reply
<1> HIDE DEF a
<1> DEFINE q == [req[r] EXCEPT !.step = "done", !.answer = a]
<1>3. req \in [Requests -> Request] /\ req[r] \in Request
  BY DEF WorkspaceTypeOK
<1>4. /\ q \in Request /\ q.answer = a /\ q.step = "done"
      /\ q.asked = req[r].asked /\ q.tries = req[r].tries
  BY <1>1, <1>3 DEF Request, Steps
<1>5. req' = [req EXCEPT ![r] = q]
  BY <1>2, <1>3 DEF Request
<1> HIDE DEF q
<1>6. /\ req' \in [Requests -> Request] /\ req'[r] = q
      /\ \A t \in Requests \ {r} : req'[t] = req[t]
  BY <1>3, <1>4, <1>5
<1> QED BY <1>1, <1>4, <1>6, NewTypes

LEMMA ServeKeeps ==
    ASSUME WorkspaceBase, NEW r \in Requests, Get(r) \/ Serve(r)
    PROVE  WorkspaceBase'
<1>1. WorkspaceTypeOK /\ VersionsFit /\ ReadGoesOn(r)
  BY DEF WorkspaceBase
<1>2. /\ req \in [Requests -> Request] /\ faults \in 0..MaxFaults
      /\ pnr \in Pnr /\ cache \in Pnr \cup {None}
  BY <1>1 DEF WorkspaceTypeOK
<1>3. /\ req[r] \in Request /\ req[r].tries \in 0..ReadAttempts
      /\ ReadAttempts \in Nat \ {0} /\ MaxFaults \in Nat
      /\ pnr.version \in 0..MaxChanges /\ pnr # None /\ MaxChanges \in Nat
  BY <1>1, <1>2, OneRequest, NewTypes
<1> DEFINE tries == req[r].tries + 1
<1>4. CASE Get(r)
  <2>1. /\ req' \in [Requests -> Request] /\ ReadGoesOn(r)'
        /\ \A t \in Requests \ {r} : req'[t] = req[t]
    BY <1>1, <1>2, <1>3, <1>4 DEF Get, ReadGoesOn, Request, Steps
  <2> QED BY <1>2, <1>4, <2>1, RequestMoves DEF Get
<1>5. CASE Retrieve(r)
  <2>1. tries \in 1..ReadAttempts
    BY <1>1, <1>3, <1>5 DEF Retrieve, ReadGoesOn
  <2>2. req' = [req EXCEPT
                  ![r].read = pnr, ![r].tries = tries,
                  ![r].step = IF AsManyAsSold(pnr) \/ tries = ReadAttempts
                                THEN "save" ELSE "reading"]
    BY <1>5 DEF Retrieve
  <2> HIDE DEF tries
  <2>3. /\ req' \in [Requests -> Request] /\ ReadGoesOn(r)'
        /\ \A t \in Requests \ {r} : req'[t] = req[t]
    <3>1. /\ req' \in [Requests -> Request]
          /\ \A t \in Requests \ {r} : req'[t] = req[t]
          /\ req'[r].read = pnr /\ req'[r].tries = tries
          /\ req'[r].step \in {"save", "reading"}
          /\ req'[r].step = "reading" => tries # ReadAttempts
      <4> DEFINE step == IF AsManyAsSold(pnr) \/ tries = ReadAttempts
                           THEN "save" ELSE "reading"
      <4>1. /\ step \in {"save", "reading"} /\ step \in Steps
            /\ step = "reading" => tries # ReadAttempts
        BY DEF Steps
      <4>2. req' = [req EXCEPT ![r].read = pnr, ![r].tries = tries,
                               ![r].step = step]
        BY <2>2
      <4> HIDE DEF step
      <4> DEFINE q == [req[r] EXCEPT !.read = pnr, !.tries = tries,
                                     !.step = step]
      <4>3. tries \in 0..ReadAttempts
        BY <1>3, <2>1
      <4>4. /\ q \in Request
            /\ q.read = pnr /\ q.tries = tries /\ q.step = step
        BY <1>2, <1>3, <4>1, <4>3 DEF Request
      <4>5. req' = [req EXCEPT ![r] = q]
        BY <1>2, <1>3, <4>2 DEF Request
      <4> HIDE DEF q
      <4> QED BY <1>2, <4>1, <4>4, <4>5
    <3>2. UNCHANGED pnr
      BY <1>5 DEF Retrieve
    <3> QED BY <1>3, <2>1, <3>1, <3>2 DEF ReadGoesOn
  <2> QED BY <1>2, <1>5, <2>3, RequestMoves DEF Retrieve
<1>6. CASE ReadFails(r)
  <2>1. tries \in 1..ReadAttempts /\ faults' \in 0..MaxFaults
    BY <1>1, <1>2, <1>3, <1>6 DEF ReadFails, ReadGoesOn
  <2> DEFINE step == IF tries = ReadAttempts THEN "cached" ELSE "reading"
  <2>2. /\ req' = [req EXCEPT ![r].tries = tries, ![r].step = step]
        /\ step \in {"cached", "reading"} /\ step \in Steps
        /\ step = "reading" => tries # ReadAttempts
    BY <1>6 DEF ReadFails, Steps
  <2> HIDE DEF tries, step
  <2>3. /\ req' \in [Requests -> Request] /\ ReadGoesOn(r)'
        /\ \A t \in Requests \ {r} : req'[t] = req[t]
    <3> DEFINE q == [req[r] EXCEPT !.tries = tries, !.step = step]
    <3>1. tries \in 0..ReadAttempts
      BY <1>3, <2>1
    <3>2. q \in Request /\ q.tries = tries /\ q.step = step
      BY <1>2, <1>3, <2>2, <3>1 DEF Request
    <3>3. req' = [req EXCEPT ![r] = q]
      BY <1>2, <1>3, <2>2 DEF Request
    <3> HIDE DEF q
    <3>4. step = "reading" => tries < ReadAttempts
      BY <1>3, <2>1, <2>2
    <3>5. /\ req' \in [Requests -> Request] /\ req'[r] = q
          /\ \A t \in Requests \ {r} : req'[t] = req[t]
      BY <1>2, <3>2, <3>3
    <3> QED BY <2>2, <3>2, <3>4, <3>5 DEF ReadGoesOn
  <2> QED BY <1>2, <1>6, <2>1, <2>3, RequestMoves DEF ReadFails
<1>7. CASE OtherLocator(r)
  <2>1. /\ req' \in [Requests -> Request] /\ ReadGoesOn(r)'
        /\ \A t \in Requests \ {r} : req'[t] = req[t]
    BY <1>2, <1>3, <1>7 DEF OtherLocator, ReadGoesOn, Request, Steps
  <2>2. faults' \in 0..MaxFaults
    BY <1>2, <1>3, <1>7 DEF OtherLocator
  <2> QED BY <1>2, <1>7, <2>1, <2>2, RequestMoves DEF OtherLocator
<1>8. CASE Save(r)
  <2>1. /\ req' \in [Requests -> Request] /\ ReadGoesOn(r)'
        /\ \A t \in Requests \ {r} : req'[t] = req[t]
    BY <1>2, <1>3, <1>8 DEF Save, ReadGoesOn, Request, Steps
  <2>2. cache' \in Pnr /\ cache'.version <= pnr.version
    BY <1>1, <1>8, OneRequest DEF Save, ReadGoesOn
  <2> QED BY <1>2, <1>8, <2>1, <2>2, RequestMoves DEF Save
<1>9. CASE Reread(r)
  <2>1. /\ req' \in [Requests -> Request] /\ ReadGoesOn(r)'
        /\ \A t \in Requests \ {r} : req'[t] = req[t]
    BY <1>2, <1>3, <1>9 DEF Reread, ReadGoesOn, Request, Steps
  <2> QED BY <1>2, <1>9, <2>1, RequestMoves DEF Reread
<1>10. CASE Assess(r)
  <2>1. /\ Reply(r, req[r].read, FALSE) /\ req[r].read \in Pnr \cup {None}
    BY <1>1, <1>10, OneRequest DEF Assess
  <2>2. /\ req' \in [Requests -> Request] /\ req'[r].step = "done"
        /\ \A t \in Requests \ {r} : req'[t] = req[t]
    BY <1>1, <2>1, ReplyMoves
  <2> QED BY <1>2, <1>10, <2>2, RequestMoves DEF Assess, ReadGoesOn
<1>11. CASE ReadError(r)
  <2>1. /\ Reply(r, cache, cache # None) /\ (cache # None) \in BOOLEAN
    BY <1>11 DEF ReadError
  <2>2. /\ req' \in [Requests -> Request] /\ req'[r].step = "done"
        /\ \A t \in Requests \ {r} : req'[t] = req[t]
    BY <1>1, <1>2, <2>1, ReplyMoves
  <2> QED BY <1>2, <1>11, <2>2, RequestMoves DEF ReadError, ReadGoesOn
<1> QED BY <1>4, <1>5, <1>6, <1>7, <1>8, <1>9, <1>10, <1>11 DEF Serve

\* What happens to the PNR beside the requests.
LEMMA OutsideKeeps ==
    ASSUME WorkspaceBase, ChangeItinerary \/ StorePq \/ SaveAuthority
    PROVE  WorkspaceBase' /\ pnr'.version >= pnr.version
           /\ UNCHANGED <<cache, req, faults>>
<1>1. /\ WorkspaceTypeOK /\ VersionsFit /\ pnr \in Pnr
      /\ pnr.version \in 0..MaxChanges /\ pnr.pq \in 0..MaxChanges
      /\ pnr.total \in Totals /\ pnr.segments \in Segments /\ MaxChanges \in Nat
      /\ cache # None => cache \in Pnr
      /\ authority # None => authority \in Authority
  BY WorkspaceAssumption DEF WorkspaceBase, WorkspaceTypeOK, Pnr
<1>2. ASSUME pnr' \in Pnr, pnr'.version = pnr.version + 1,
             UNCHANGED <<cache, req, faults>>
      PROVE  \A r \in Requests : ReadGoesOn(r)'
  <2> SUFFICES ASSUME NEW r \in Requests PROVE ReadGoesOn(r)'
    OBVIOUS
  <2>1. ReadGoesOn(r) /\ (req[r].read # None => req[r].read \in Pnr)
    BY <1>1, OneRequest DEF WorkspaceBase
  <2> QED BY <1>1, <1>2, <2>1 DEF ReadGoesOn, Pnr
<1>3. CASE ChangeItinerary
  <2>1. PICK segments \in Segments :
          pnr' = [pnr EXCEPT !.version = @ + 1, !.segments = segments]
    BY <1>3 DEF ChangeItinerary
  <2>2. pnr.version + 1 \in 0..MaxChanges
    <3>1. pnr.version < MaxChanges
      BY <1>3, Zenon DEF ChangeItinerary
    <3> QED BY <1>1, <3>1
  <2>3. UNCHANGED <<authority, refreshing, cache, req, faults>>
    BY <1>3, Zenon DEF ChangeItinerary
  <2>4. pnr' \in Pnr /\ pnr'.version = pnr.version + 1 /\ pnr'.pq = pnr.pq
    BY <1>1, <2>1, <2>2 DEF Pnr
  <2>5. WorkspaceTypeOK' /\ VersionsFit'
    BY <1>1, <2>3, <2>4 DEF WorkspaceTypeOK, VersionsFit, Pnr
  <2> QED BY <1>1, <1>2, <2>3, <2>4, <2>5 DEF WorkspaceBase
<1>4. CASE StorePq
  <2>1. /\ pnr' \in Pnr /\ pnr'.version = pnr.version + 1
        /\ pnr'.pq = pnr.pq + 1
        /\ UNCHANGED <<authority, cache, req, faults>>
    <3>1. PICK total \in Totals :
            pnr' = [pnr EXCEPT !.version = @ + 1, !.pq = @ + 1, !.total = total]
      BY <1>4 DEF StorePq
    <3>2. pnr.version + 1 \in 0..MaxChanges /\ pnr.pq + 1 \in 0..MaxChanges
      <4>1. pnr.version < MaxChanges
        BY <1>4, Zenon DEF StorePq
      <4>2. pnr.pq <= pnr.version
        BY <1>1, Zenon DEF VersionsFit
      <4> QED BY <1>1, <4>1, <4>2
    <3> QED BY <1>1, <1>4, <3>1, <3>2 DEF StorePq, Pnr
  <2>2. WorkspaceTypeOK' /\ VersionsFit'
    <3>1. authority # None => authority.pq \in 0..MaxChanges
      BY <1>1 DEF Authority
    <3>2. refreshing' \in BOOLEAN
      BY <1>4, Zenon DEF StorePq
    <3> QED BY <1>1, <2>1, <3>1, <3>2 DEF WorkspaceTypeOK, VersionsFit, Pnr
  <2> QED BY <1>1, <1>2, <2>1, <2>2 DEF WorkspaceBase
<1>5. CASE SaveAuthority
  <2>1. /\ authority' \in Authority /\ authority'.pq = pnr.pq
        /\ UNCHANGED <<pnr, cache, req, faults>>
    BY <1>1, <1>5 DEF SaveAuthority, Authority
  <2>2. WorkspaceTypeOK' /\ VersionsFit'
    <3>1. refreshing' \in BOOLEAN /\ ~refreshing'
      BY <1>5, Zenon DEF SaveAuthority
    <3> QED BY <1>1, <2>1, <3>1 DEF WorkspaceTypeOK, VersionsFit
  <2>3. \A r \in Requests : ReadGoesOn(r)'
    BY <2>1 DEF WorkspaceBase, ReadGoesOn
  <2> QED BY <1>1, <2>1, <2>2, <2>3 DEF WorkspaceBase
<1> QED BY <1>3, <1>4, <1>5

LEMMA CrashKeeps ==
    ASSUME WorkspaceBase, NEW w \in Workers, Crash(w)
    PROVE  WorkspaceBase'
<1>1. PICK r \in Requests : req' = [req EXCEPT ![r].step = "lost"]
  BY DEF Crash
<1>2. /\ req' \in [Requests -> Request] /\ ReadGoesOn(r)'
      /\ \A t \in Requests \ {r} : req'[t] = req[t]
  BY <1>1 DEF WorkspaceBase, WorkspaceTypeOK, Request, Steps, ReadGoesOn
<1>3. faults' \in 0..MaxFaults
  BY DEF Crash, WorkspaceBase, WorkspaceTypeOK
<1> QED BY <1>2, <1>3, RequestMoves DEF Crash

LEMMA BaseKeeps ==
    WorkspaceBase /\ [WorkspaceNext]_workspaceVars => WorkspaceBase'
<1>1. ASSUME WorkspaceBase, UNCHANGED workspaceVars PROVE WorkspaceBase'
  BY <1>1 DEF workspaceVars, WorkspaceBase, WorkspaceTypeOK, VersionsFit,
              ReadGoesOn
<1> QED BY <1>1, ServeKeeps, CrashKeeps, OutsideKeeps DEF WorkspaceNext

LEMMA BaseHolds == WorkspaceSpec => []WorkspaceBase
BY BaseInitially, BaseKeeps, PTL DEF WorkspaceSpec

\* Type correctness of the PNR, its cache and the requests about it.
THEOREM WorkspaceTypes == WorkspaceSpec => []WorkspaceTypeOK
<1>1. WorkspaceBase => WorkspaceTypeOK
  BY DEF WorkspaceBase
<1> QED BY <1>1, BaseHolds, PTL

\* Only the two replies end a request with an answer.
LEMMA WhoAnswers ==
    ASSUME WorkspaceTypeOK, [WorkspaceNext]_workspaceVars,
           NEW r \in Requests, req[r].step # "done", req'[r].step = "done"
    PROVE  Assess(r) \/ ReadError(r)
<1>1. req \in [Requests -> Request] /\ req' # req
  BY DEF WorkspaceTypeOK
<1>2. WorkspaceNext
  BY <1>1 DEF workspaceVars
<1>3. ~ (ChangeItinerary \/ StorePq \/ SaveAuthority)
  BY <1>1 DEF ChangeItinerary, StorePq, SaveAuthority
<1>4. ASSUME NEW w \in Workers, Crash(w) PROVE FALSE
  <2>1. PICK s \in Requests : req' = [req EXCEPT ![s].step = "lost"]
    BY <1>4 DEF Crash
  <2> QED BY <1>1, <2>1 DEF Request
<1>5. PICK s \in Requests : Get(s) \/ Serve(s)
  BY <1>2, <1>3, <1>4 DEF WorkspaceNext
<1>6. CASE s # r
  <2>1. req'[r] = req[r]
    BY <1>1, <1>5, <1>6
       DEF Get, Serve, Retrieve, ReadFails, OtherLocator, Save, Reread, Assess,
           ReadError, Reply
  <2> QED BY <2>1
<1>7. CASE s = r
  <2>1. ~ (Get(r) \/ Retrieve(r) \/ ReadFails(r) \/ OtherLocator(r)
             \/ Save(r) \/ Reread(r))
    BY <1>1
       DEF Get, Retrieve, ReadFails, OtherLocator, Save, Reread, Request
  <2> QED BY <1>5, <1>7, <2>1 DEF Serve
<1> QED BY <1>6, <1>7

\* What is answered: a stale answer is never ready, a fresh one shows what the
\* request holds.
LEMMA WhatIsAnswered ==
    ASSUME WorkspaceTypeOK, NEW r \in Requests, Assess(r) \/ ReadError(r)
    PROVE  /\ req' \in [Requests -> Request]
           /\ \A t \in Requests \ {r} : req'[t] = req[t]
           /\ req'[r].step = "done" /\ req'[r].answer # None
           /\ req'[r].asked = req[r].asked /\ req'[r].tries = req[r].tries
           /\ UNCHANGED <<pnr, authority, refreshing, cache, faults>>
           /\ ReadError(r) => /\ req'[r].answer.shown = cache
                              /\ req'[r].answer.stale <=> cache # None
                              /\ ~req'[r].answer.ready
           /\ Assess(r) => /\ req'[r].answer.shown = req[r].read
                           /\ req'[r].answer.ready =>
                                /\ req[r].read # None /\ req[r].read.segments = "sold"
                                /\ PricingHolds(req[r].read, authority)
<1>1. CASE Assess(r)
  <2>1. Reply(r, req[r].read, FALSE) /\ req[r].read \in Pnr \cup {None}
    BY <1>1, OneRequest DEF Assess
  <2>2. ~ReadError(r)
    BY <1>1 DEF Assess, ReadError
  <2> QED BY <1>1, <2>1, <2>2, ReplyMoves DEF Assess, Readiness
<1>2. CASE ReadError(r)
  <2> DEFINE stale == cache # None
  <2>1. Reply(r, cache, stale) /\ stale \in BOOLEAN
        /\ cache \in Pnr \cup {None} /\ (stale <=> cache # None)
    BY <1>2 DEF ReadError, WorkspaceTypeOK
  <2>2. ~Assess(r)
    BY <1>2 DEF Assess, ReadError
  <2> HIDE DEF stale
  <2> QED BY <1>2, <2>1, <2>2, ReplyMoves DEF ReadError, Readiness
<1> QED BY <1>1, <1>2

\* On any number of workers a ready answer never shows a price quote that a
\* verified one has replaced, nor a new total that is not verified yet: the
\* latest authority is read after the snapshot.
THEOREM ReadyIsVerified == WorkspaceSpec => ReadyPriceIsVerified
<1> DEFINE Step ==
      \A r \in Requests :
          req[r].step # "done" /\ req'[r].step = "done" /\ req'[r].answer.ready
          => LET shown == req'[r].answer.shown
             IN  /\ authority # None => shown.pq = authority.pq
                 /\ refreshing /\ shown.pq = pnr.pq =>
                      authority = None /\ shown.total = BookedTotal
<1>1. ASSUME WorkspaceBase, [WorkspaceNext]_workspaceVars PROVE Step
  <2> SUFFICES ASSUME NEW r \in Requests, req[r].step # "done",
                      req'[r].step = "done", req'[r].answer.ready
               PROVE  LET shown == req'[r].answer.shown
                      IN  /\ authority # None => shown.pq = authority.pq
                          /\ refreshing /\ shown.pq = pnr.pq =>
                               authority = None /\ shown.total = BookedTotal
    OBVIOUS
  <2>1. WorkspaceTypeOK /\ VersionsFit
    BY <1>1 DEF WorkspaceBase
  <2>2. Assess(r) \/ ReadError(r)
    BY <1>1, <2>1, WhoAnswers
  <2>3. /\ req'[r].answer.shown = req[r].read
        /\ PricingHolds(req[r].read, authority)
    BY <2>1, <2>2, WhatIsAnswered
  <2>4. authority # None /\ refreshing => authority.pq # pnr.pq
    <3>1. authority # None => authority.pq \in 0..MaxChanges
      BY <2>1 DEF WorkspaceTypeOK, Authority
    <3> QED BY <2>1, <3>1, WorkspaceAssumption, OneRequest DEF VersionsFit
  <2> QED BY <2>3, <2>4 DEF PricingHolds
<1> QED BY <1>1, BaseHolds, PTL DEF ReadyPriceIsVerified, WorkspaceSpec

-----------------------------------------------------------------------------
(* One worker                                                              *)

\* The requests are all served by the same worker.
OneWorker == \A r, s \in Requests : Home[r] = Home[s]

\* What is inductive on one worker.
OneWorkerInv == WorkspaceBase /\ WorkspaceInv

LEMMA InvInitially == WorkspaceInit => OneWorkerInv
<1> SUFFICES ASSUME WorkspaceInit PROVE OneWorkerInv
  OBVIOUS
<1>1. WorkspaceBase
  BY BaseInitially
<1>2. \A r \in Requests : req[r].step = "new"
  BY NewTypes DEF WorkspaceInit
<1> QED BY <1>1, <1>2
        DEF OneWorkerInv, WorkspaceBase, WorkspaceInv, Serving, ReadFits,
            AnswerFits

\* The request that is served goes on: what the others hold does not matter,
\* and what they answered stays true when the cache moves forward.
LEMMA OneMoves ==
    ASSUME OneWorkerInv, WorkspaceBase', NEW r \in Requests,
           \A t \in Requests \ {r} : ~Serving(t),
           \A t \in Requests \ {r} : req'[t] = req[t],
           UNCHANGED pnr,
           \/ UNCHANGED cache
           \/ /\ cache' # None /\ cache' \in Pnr
              /\ cache # None => cache.version <= cache'.version,
           ReadFits(r)', AnswerFits(r)'
    PROVE  OneWorkerInv'
<1>1. WorkspaceTypeOK' /\ VersionsFit' /\ WorkspaceTypeOK
  BY DEF WorkspaceBase, OneWorkerInv
<1>2. \A t, s \in Requests : Serving(t)' /\ Serving(s)' => t = s
  BY DEF Serving
<1>3. ASSUME NEW t \in Requests PROVE ReadFits(t)' /\ AnswerFits(t)'
  <2>1. CASE t # r
    <3>1. /\ ReadFits(t) /\ AnswerFits(t) /\ req'[t] = req[t]
          /\ req[t].step \in {"new", "done", "lost"}
      BY <2>1 DEF OneWorkerInv, WorkspaceInv, Serving
    <3>2. ReadFits(t)'
      BY <3>1 DEF ReadFits
    <3>3. /\ cache # None => cache.version \in 0..MaxChanges
          /\ cache' # None => cache'.version \in 0..MaxChanges
          /\ MaxChanges \in Nat
      BY <1>1, WorkspaceAssumption DEF WorkspaceTypeOK, Pnr
    <3>4. req[t].answer # None /\ Shows(t) =>
            req[t].answer.shown.version \in 0..MaxChanges
      BY <1>1, OneRequest DEF Shows, Answer, Pnr
    <3>5. AnswerFits(t)'
      BY <3>1, <3>3, <3>4 DEF AnswerFits, Shows
    <3> QED BY <3>2, <3>5
  <2> QED BY <2>1
<1> QED BY <1>1, <1>2, <1>3 DEF OneWorkerInv, WorkspaceInv

LEMMA InvServed ==
    ASSUME OneWorkerInv, WorkspaceBase', OneWorker, NEW r \in Requests,
           Get(r) \/ Serve(r)
    PROVE  OneWorkerInv'
<1>1. /\ WorkspaceTypeOK /\ WorkspaceTypeOK' /\ VersionsFit /\ ReadGoesOn(r)
      /\ ReadGoesOn(r)' /\ ReadFits(r) /\ AnswerFits(r)
      /\ req \in [Requests -> Request]
  BY DEF OneWorkerInv, WorkspaceInv, WorkspaceBase, WorkspaceTypeOK
<1>2. \A t \in Requests \ {r} : ~Serving(t)
  <2>1. CASE Get(r)
    BY <2>1 DEF Get, Occupied, OneWorker
  <2>2. CASE Serve(r)
    <3>1. Serving(r)
      BY <2>2 DEF Serve, Retrieve, ReadFails, OtherLocator, Save, Reread,
                  Assess, ReadError, Serving
    <3> QED BY <3>1 DEF OneWorkerInv, WorkspaceInv
  <2> QED BY <2>1, <2>2
<1>3. /\ req[r].asked \in 0..MaxChanges /\ req[r].tries \in 0..ReadAttempts
      /\ pnr.version \in 0..MaxChanges /\ pnr # None /\ pnr \in Pnr
      /\ req[r].read # None => req[r].read.version \in 0..MaxChanges
      /\ cache # None => cache.version \in 0..MaxChanges
      /\ MaxChanges \in Nat /\ ReadAttempts \in Nat
      /\ cache \in Pnr \cup {None}
  BY <1>1, OneRequest, NewTypes DEF Pnr, WorkspaceTypeOK
<1>4. CASE Get(r)
  <2>1. /\ \A t \in Requests \ {r} : req'[t] = req[t]
        /\ req'[r].step = "reading" /\ req'[r].asked = pnr.version
        /\ req'[r].tries = req[r].tries /\ UNCHANGED <<pnr, cache>>
        /\ req[r].tries < ReadAttempts
    BY <1>1, <1>4 DEF Get, Request, ReadGoesOn
  <2>2. ReadFits(r)' /\ AnswerFits(r)'
    BY <1>3, <2>1 DEF ReadFits, AnswerFits
  <2> QED BY <1>2, <2>1, <2>2, OneMoves
<1>5. CASE Retrieve(r)
  <2>1. /\ \A t \in Requests \ {r} : req'[t] = req[t]
        /\ req'[r].step \in {"save", "reading"}
        /\ req'[r].asked = req[r].asked
        /\ req'[r].read = pnr /\ UNCHANGED <<pnr, cache>>
        /\ req'[r].tries = req[r].tries + 1
        /\ req'[r].step = "save" =>
             AsManyAsSold(pnr) \/ req[r].tries + 1 = ReadAttempts
    BY <1>1, <1>5 DEF Retrieve, Request
  <2>2. req[r].asked <= pnr.version
    BY <1>1, <1>5 DEF ReadFits, Retrieve
  <2>3. ReadFits(r)' /\ AnswerFits(r)'
    BY <1>1, <1>3, <2>1, <2>2 DEF ReadFits, ReadGoesOn, AnswerFits, VersionsFit
  <2> QED BY <1>2, <2>1, <2>3, OneMoves
<1>6. CASE ReadFails(r) \/ OtherLocator(r)
  <2>1. /\ \A t \in Requests \ {r} : req'[t] = req[t]
        /\ req'[r].step \in {"cached", "reading"}
        /\ req'[r].asked = req[r].asked /\ UNCHANGED <<pnr, cache>>
        /\ req[r].step = "reading"
    BY <1>1, <1>6 DEF ReadFails, OtherLocator, Request
  <2>2. ReadFits(r)' /\ AnswerFits(r)'
    BY <1>1, <2>1 DEF ReadFits, ReadGoesOn, AnswerFits
  <2> QED BY <1>2, <2>1, <2>2, OneMoves
<1>7. CASE Save(r)
  <2>1. /\ \A t \in Requests \ {r} : req'[t] = req[t]
        /\ req'[r].step = "reread" /\ req'[r].asked = req[r].asked
        /\ req'[r].read = req[r].read /\ cache' = req[r].read
        /\ req'[r].tries = req[r].tries
        /\ UNCHANGED pnr /\ req[r].step = "save"
    BY <1>1, <1>7 DEF Save, Request
  <2>2. ReadFits(r)' /\ AnswerFits(r)'
    BY <1>1, <1>3, <2>1 DEF ReadFits, AnswerFits
  <2>3. /\ cache' # None /\ cache' \in Pnr
        /\ cache # None => cache.version <= cache'.version
    BY <1>1, <2>1, OneRequest DEF ReadFits
  <2> QED BY <1>2, <2>1, <2>2, <2>3, OneMoves
<1>8. CASE Reread(r)
  <2>1. /\ \A t \in Requests \ {r} : req'[t] = req[t]
        /\ req'[r].step = "assess" /\ req'[r].asked = req[r].asked
        /\ req'[r].read = req[r].read /\ UNCHANGED <<pnr, cache>>
        /\ req'[r].tries = req[r].tries /\ req[r].step = "reread"
    BY <1>1, <1>8 DEF Reread, Request, ReadFits
  <2>2. ReadFits(r)' /\ AnswerFits(r)'
    BY <1>1, <2>1 DEF ReadFits, AnswerFits
  <2> QED BY <1>2, <2>1, <2>2, OneMoves
<1>9. CASE Assess(r) \/ ReadError(r)
  <2>1. /\ \A t \in Requests \ {r} : req'[t] = req[t]
        /\ req'[r].step = "done" /\ UNCHANGED <<pnr, cache>>
        /\ req'[r].asked = req[r].asked /\ req'[r].tries = req[r].tries
        /\ req'[r].answer # None
    BY <1>1, <1>9, WhatIsAnswered
  <2>2. req[r].asked <= pnr.version
    BY <1>1, <1>9 DEF ReadFits, Assess, ReadError
  <2>3. ReadFits(r)'
    BY <2>1, <2>2 DEF ReadFits
  <2>4. AnswerFits(r)'
    <3>1. CASE Assess(r)
      <4>1. /\ req'[r].answer.shown = req[r].read
            /\ req'[r].answer.ready => req[r].read.segments = "sold"
        BY <1>1, <3>1, WhatIsAnswered
      <4>2. /\ req[r].read # None /\ cache = req[r].read
            /\ req[r].asked <= req[r].read.version
            /\ AsManyAsSold(req[r].read) \/ req[r].tries = ReadAttempts
        BY <1>1, <3>1 DEF ReadFits, Assess
      <4> QED BY <1>3, <2>1, <4>1, <4>2 DEF AnswerFits, Shows
    <3>2. CASE ReadError(r)
      <4>1. /\ req'[r].answer.shown = cache /\ ~req'[r].answer.ready
            /\ req'[r].answer.stale <=> cache # None
        BY <1>1, <3>2, WhatIsAnswered
      <4> QED BY <1>3, <2>1, <4>1 DEF AnswerFits, Shows
    <3> QED BY <1>9, <3>1, <3>2
  <2> QED BY <1>2, <2>1, <2>3, <2>4, OneMoves
<1> QED BY <1>4, <1>5, <1>6, <1>7, <1>8, <1>9 DEF Serve

LEMMA InvCrash ==
    ASSUME OneWorkerInv, WorkspaceBase', NEW w \in Workers, Crash(w)
    PROVE  OneWorkerInv'
<1>1. PICK r \in Requests : /\ Serving(r)
                            /\ req' = [req EXCEPT ![r].step = "lost"]
  BY DEF Crash
<1>2. req \in [Requests -> Request] /\ UNCHANGED <<pnr, cache>>
  BY DEF OneWorkerInv, WorkspaceInv, WorkspaceTypeOK, Crash
<1>3. /\ \A t \in Requests \ {r} : req'[t] = req[t]
      /\ req'[r].step = "lost"
  BY <1>1, <1>2 DEF Request
<1>4. \A t \in Requests \ {r} : ~Serving(t)
  BY <1>1 DEF OneWorkerInv, WorkspaceInv
<1>5. ReadFits(r)' /\ AnswerFits(r)'
  BY <1>3 DEF ReadFits, AnswerFits
<1> QED BY <1>2, <1>3, <1>4, <1>5, OneMoves

LEMMA InvOutside ==
    ASSUME OneWorkerInv, WorkspaceBase',
           ChangeItinerary \/ StorePq \/ SaveAuthority
    PROVE  OneWorkerInv'
<1>1. pnr'.version >= pnr.version /\ UNCHANGED <<cache, req, faults>>
  BY OutsideKeeps DEF OneWorkerInv
<1>2. /\ WorkspaceTypeOK /\ WorkspaceTypeOK' /\ VersionsFit'
      /\ \A r, s \in Requests : Serving(r)' /\ Serving(s)' => r = s
  BY <1>1 DEF OneWorkerInv, WorkspaceInv, WorkspaceBase, Serving
<1>3. ASSUME NEW r \in Requests PROVE ReadFits(r)' /\ AnswerFits(r)'
  <2>1. ReadFits(r) /\ AnswerFits(r)
    BY DEF OneWorkerInv, WorkspaceInv
  <2>2. /\ req[r].asked \in 0..MaxChanges
        /\ req[r].read # None => req[r].read.version \in 0..MaxChanges
        /\ pnr.version \in 0..MaxChanges /\ pnr'.version \in 0..MaxChanges
        /\ MaxChanges \in Nat
    BY <1>2, OneRequest DEF WorkspaceTypeOK, Pnr
  <2>3. ReadFits(r)'
    BY <1>1, <2>1, <2>2 DEF ReadFits
  <2>4. AnswerFits(r)'
    BY <1>1, <2>1 DEF AnswerFits, Shows
  <2> QED BY <2>3, <2>4
<1> QED BY <1>2, <1>3 DEF OneWorkerInv, WorkspaceInv

LEMMA InvKeeps ==
    ASSUME OneWorkerInv, OneWorker, [WorkspaceNext]_workspaceVars
    PROVE  OneWorkerInv'
<1>1. WorkspaceBase'
  BY BaseKeeps DEF OneWorkerInv
<1>2. CASE UNCHANGED workspaceVars
  BY <1>2
     DEF workspaceVars, OneWorkerInv, WorkspaceInv, WorkspaceBase,
         WorkspaceTypeOK, VersionsFit, ReadGoesOn, ReadFits, AnswerFits,
         Serving, Shows
<1> QED BY <1>1, <1>2, InvServed, InvCrash, InvOutside DEF WorkspaceNext

LEMMA InvHolds == OneWorker => (WorkspaceSpec => []OneWorkerInv)
<1> SUFFICES ASSUME OneWorker PROVE WorkspaceSpec => []OneWorkerInv
  OBVIOUS
<1>1. OneWorkerInv /\ [WorkspaceNext]_workspaceVars => OneWorkerInv'
  BY InvKeeps
<1> QED BY <1>1, InvInitially, PTL DEF WorkspaceSpec

\* On one worker a ready answer shows a PNR read for this request with the
\* segments that were sold, and one with another number of segments is shown as
\* read now only after the last attempt.
THEOREM AnswersHonest == OneWorker => (WorkspaceSpec => []AnswersAreHonest)
<1> SUFFICES ASSUME OneWorker PROVE WorkspaceSpec => []AnswersAreHonest
  OBVIOUS
<1>1. ASSUME OneWorkerInv PROVE AnswersAreHonest
  <2> SUFFICES ASSUME NEW r \in Requests, req[r].step = "done"
               PROVE  /\ req[r].answer.ready =>
                           req[r].answer.shown.version >= req[r].asked
                      /\ Shows(r) =>
                           /\ req[r].answer.shown.segments # "sold" =>
                                ~req[r].answer.ready
                           /\ \/ AsManyAsSold(req[r].answer.shown)
                              \/ req[r].answer.stale
                              \/ req[r].tries = ReadAttempts
    BY DEF AnswersAreHonest, ReadyWasReadNow, IncompleteIsLastResort, Answered
  <2>1. AnswerFits(r) /\ WorkspaceTypeOK
    BY <1>1 DEF OneWorkerInv, WorkspaceInv
  <2>2. /\ req[r].answer # None /\ req[r].asked \in 0..MaxChanges
        /\ Shows(r) => req[r].answer.shown.version \in 0..MaxChanges
        /\ MaxChanges \in Nat
    BY <2>1, OneRequest DEF AnswerFits, Answer, Pnr, Shows
  <2> QED BY <2>1, <2>2 DEF AnswerFits
<1> QED BY <1>1, InvHolds, PTL

\* On one worker an agent who asks again never sees an older PNR than before,
\* whether the answers are fresh or stale: the cache only moves forward, and
\* what is answered is what the cache has.
THEOREM ViewsMoveForward == OneWorker => (WorkspaceSpec => ViewMovesForward)
<1> SUFFICES ASSUME OneWorker PROVE WorkspaceSpec => ViewMovesForward
  OBVIOUS
<1> DEFINE Step ==
      \A r, s \in Requests :
          /\ req[r].step = "done" /\ Shows(r)
          /\ req[s].step # "done" /\ req'[s].step = "done"
          => /\ req'[s].answer.shown # None
             /\ req'[s].answer.shown.version >= req[r].answer.shown.version
<1>1. ASSUME OneWorkerInv, [WorkspaceNext]_workspaceVars PROVE Step
  <2> SUFFICES ASSUME NEW r \in Requests, NEW s \in Requests,
                      req[r].step = "done", Shows(r),
                      req[s].step # "done", req'[s].step = "done"
               PROVE  /\ req'[s].answer.shown # None
                      /\ req'[s].answer.shown.version >=
                           req[r].answer.shown.version
    OBVIOUS
  <2>1. WorkspaceTypeOK /\ ReadFits(s) /\ AnswerFits(r)
    BY <1>1 DEF OneWorkerInv, WorkspaceInv
  <2>2. Assess(s) \/ ReadError(s)
    BY <1>1, <2>1, WhoAnswers
  <2>3. /\ cache # None /\ req[r].answer # None
        /\ req[r].answer.shown.version <= cache.version
    BY <2>1 DEF AnswerFits
  <2>4. req'[s].answer.shown = cache
    BY <2>1, <2>2, WhatIsAnswered DEF ReadFits, Assess
  <2>5. /\ cache.version \in 0..MaxChanges /\ MaxChanges \in Nat
        /\ req[r].answer.shown.version \in 0..MaxChanges
    BY <2>1, <2>3, OneRequest DEF Answer, Pnr, Shows
  <2> QED BY <2>3, <2>4, <2>5
<1> QED BY <1>1, InvHolds, PTL DEF ViewMovesForward, WorkspaceSpec
=============================================================================
