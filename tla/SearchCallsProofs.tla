------------------------- MODULE SearchCallsProofs -------------------------
(***************************************************************************)
(* The Sabre client, for any number of calls, retries and tokens:          *)
(* ClientInv is inductive, post_once keeps the promise of WriteOnce, and   *)
(* the two action properties on tokens hold.                               *)
(*                                                                         *)
(* Then a search over it, for any number of currencies, cabins and         *)
(* permits: whatever the coroutine does is a step of the client or none,   *)
(* so it inherits what the client promises, and an answer has the answer   *)
(* of every call it needed.                                                *)
(***************************************************************************)
EXTENDS SearchCalls, TLAPS

-----------------------------------------------------------------------------
(* The client                                                              *)

\* One call moves to r and only its attempts move.
LEMMA CallMoves ==
    ASSUME ClientInv, NEW c \in Calls, NEW r \in CallType,
           call' = [call EXCEPT ![c] = r],
           queue' \in Seq(Calls), cached' \in 0..MaxTokens,
           fresh' \in BOOLEAN, issued' \in 0..MaxTokens, closed' \in BOOLEAN,
           wire' \in [Writes -> SUBSET Attempts],
           served' \in [Writes -> SUBSET Attempts],
           \A d \in Writes \ {c} : wire'[d] = wire[d] /\ served'[d] = served[d],
           \A d \in Calls \ {c} : call[d].pc = "oauth" => Holds(d)',
           CallFits(c)'
    PROVE  ClientInv'
<1>1. call \in [Calls -> CallType] /\ \A d \in Calls : CallFits(d)
  BY DEF ClientInv, ClientTypeOK
<1>2. ClientTypeOK'
  BY <1>1 DEF ClientTypeOK
<1>3. ASSUME NEW d \in Calls PROVE CallFits(d)'
  <2>1. CASE d = c
    BY <2>1
  <2>2. CASE d # c
    <3>1. /\ call'[d] = call[d] /\ CallFits(d)
          /\ d \in Writes => wire'[d] = wire[d] /\ served'[d] = served[d]
      BY <1>1, <2>2
    <3>2. Verdict(d)' = Verdict(d)
      BY <3>1 DEF Verdict
    <3> QED BY <3>1, <3>2, <2>2 DEF CallFits
  <2> QED BY <2>1, <2>2
<1> QED BY <1>2, <1>3 DEF ClientInv

\* A call moves and nothing else does, at most the token that is kept.
LEMMA QuietMove ==
    ASSUME ClientInv, NEW c \in Calls, NEW r \in CallType,
           call' = [call EXCEPT ![c] = r],
           queue' \in Seq(Calls), cached' \in 0..MaxTokens,
           fresh' \in BOOLEAN, issued' \in 0..MaxTokens,
           UNCHANGED <<wire, served, closed>>,
           \A d \in Calls \ {c} : call[d].pc = "oauth" => Holds(d)',
           (r.result = "none") = (r.pc # "done"),
           r.pc = "oauth" => Holds(c)',
           r.pc = "asleep" => r.tries <= MaxRetries,
           c \in Writes => r.tries = 1 /\ r.pc # "asleep",
           c \in Writes =>
             \/ /\ call[c].pc \notin {"waiting", "done"}
                /\ r.pc = "done" => r.result \in {"refused", "closed", "not_sent"}
                /\ r.pc # "waiting"
             \/ /\ call[c].pc = "waiting" /\ r.pc = "done"
                /\ \/ r.result = "ambiguous"
                   \/ r.result \in {"ok", "http_error"} /\ served[c] # {}
    PROVE  ClientInv'
<1>1. /\ call \in [Calls -> CallType] /\ CallFits(c)
      /\ wire \in [Writes -> SUBSET Attempts]
      /\ served \in [Writes -> SUBSET Attempts] /\ closed \in BOOLEAN
  BY DEF ClientInv, ClientTypeOK
<1>2. call'[c] = r
  BY <1>1
<1>3. ASSUME c \in Writes
      PROVE  /\ call[c].pc \notin {"waiting", "done"} => wire[c] \cup served[c] = {}
             /\ call[c].tries = 1 /\ wire[c] \cup served[c] \subseteq {1}
             /\ wire[c] \cap served[c] = {}
  BY <1>1, <1>3 DEF CallFits
<1>4. CallFits(c)'
  <2>1. Verdict(c)' = CASE r.result = "none" -> "nothing"
                        [] r.result \in {"ok", "http_error"} -> "answered"
                        [] r.result \in {"not_sent", "refused", "closed"} -> "not_sent"
                        [] OTHER -> "ambiguous"
    BY <1>2 DEF Verdict
  <2>2. CASE c \notin Writes
    BY <1>2, <2>2 DEF CallFits
  <2>3. CASE c \in Writes
    <3>1. CASE /\ call[c].pc \notin {"waiting", "done"}
               /\ r.pc = "done" => r.result \in {"refused", "closed", "not_sent"}
               /\ r.pc # "waiting"
      <4>1. Verdict(c)' # "answered"
        BY <2>1, <3>1
      <4> QED BY <1>2, <1>3, <2>3, <3>1, <4>1 DEF CallFits
    <3>2. CASE /\ call[c].pc = "waiting" /\ r.pc = "done"
               /\ \/ r.result = "ambiguous"
                  \/ r.result \in {"ok", "http_error"} /\ served[c] # {}
      <4>1. /\ Verdict(c)' # "not_sent"
            /\ Verdict(c)' = "answered" => served[c] # {}
        BY <2>1, <3>2
      <4> QED BY <1>2, <1>3, <2>3, <3>2, <4>1 DEF CallFits
    <3> QED BY <2>3, <3>1, <3>2
  <2> QED BY <2>2, <2>3
<1> QED BY <1>1, <1>4, CallMoves


\* What the invariant says of one call.
LEMMA OneCall ==
    ASSUME ClientInv, NEW c \in Calls
    PROVE  /\ call[c] \in CallType /\ CallFits(c) /\ call \in [Calls -> CallType]
           /\ wire \in [Writes -> SUBSET Attempts]
           /\ served \in [Writes -> SUBSET Attempts]
           /\ queue \in Seq(Calls) /\ cached \in 0..MaxTokens
           /\ fresh \in BOOLEAN /\ issued \in 0..MaxTokens /\ closed \in BOOLEAN
  BY DEF ClientInv, ClientTypeOK

\* A call ends or goes on to await something else.
LEMMA EndIsACall ==
    ASSUME ClientInv, NEW c \in Calls, NEW result \in Results \ {"none"}
    PROVE  /\ Ended(result) \in CallType
           /\ Ended(result).pc = "done" /\ Ended(result).result = result
           /\ Ended(result).tries = 1
<1>1. 1 \in Attempts /\ 0 \in 0..MaxTokens /\ "done" \in CallPcs
  BY ClientAssumption DEF Attempts, CallPcs
<1> QED BY <1>1 DEF Ended, CallType

LEMMA GotoIsACall ==
    ASSUME ClientInv, NEW c \in Calls, NEW pc \in CallPcs \ {"done"},
           call[c].pc # "done"
    PROVE  /\ [call[c] EXCEPT !.pc = pc] \in CallType
           /\ [call[c] EXCEPT !.pc = pc].pc = pc
           /\ [call[c] EXCEPT !.pc = pc].result = "none"
           /\ [call[c] EXCEPT !.pc = pc].tries = call[c].tries
           /\ c \in Writes => call[c].tries = 1
<1>1. call[c] \in CallType /\ CallFits(c)
  BY OneCall
<1>2. call[c].result = "none"
  BY <1>1 DEF CallFits
<1>3. c \in Writes => call[c].tries = 1
  BY <1>1 DEF CallFits
<1> QED BY <1>1, <1>2, <1>3 DEF CallType

\* A call ends without touching the lock, before or after it was sent.
LEMMA EndKeeps ==
    ASSUME ClientInv, NEW c \in Calls, NEW result \in Results \ {"none"},
           End(c, result), UNCHANGED <<queue, tokens, wire, served, closed>>,
           c \in Writes =>
             \/ /\ call[c].pc \notin {"waiting", "done"}
                /\ result \in {"refused", "closed", "not_sent"}
             \/ /\ call[c].pc = "waiting"
                /\ \/ result = "ambiguous"
                   \/ result \in {"ok", "http_error"} /\ served[c] # {}
    PROVE  ClientInv'
<1> DEFINE r == Ended(result)
<1>1. /\ r \in CallType /\ r.pc = "done" /\ r.result = result
      /\ r.tries = 1
  BY EndIsACall
<1>2. call' = [call EXCEPT ![c] = r]
  BY DEF End
<1>3. \A d \in Calls : call[d].pc = "oauth" => Holds(d)'
  BY OneCall DEF CallFits, Holds
<1>4. /\ queue' \in Seq(Calls) /\ cached' \in 0..MaxTokens
      /\ fresh' \in BOOLEAN /\ issued' \in 0..MaxTokens
  BY OneCall DEF tokens
<1> HIDE DEF r
<1> QED BY <1>1, <1>2, <1>3, <1>4, QuietMove

\* A call that is not sent goes on without touching the lock.
LEMMA GotoKeeps ==
    ASSUME ClientInv, NEW c \in Calls,
           NEW pc \in CallPcs \ {"done", "waiting", "oauth"},
           Goto(c, pc), UNCHANGED <<queue, tokens, wire, served, closed>>,
           call[c].pc # "done",
           c \in Writes => call[c].pc # "waiting" /\ pc # "asleep",
           pc = "asleep" => call[c].tries <= MaxRetries
    PROVE  ClientInv'
<1> DEFINE r == [call[c] EXCEPT !.pc = pc]
<1>1. /\ r \in CallType /\ r.pc = pc /\ r.result = "none"
      /\ c \in Writes => r.tries = 1
      /\ pc = "asleep" => r.tries <= MaxRetries
  BY GotoIsACall
<1>2. call' = [call EXCEPT ![c] = r]
  BY OneCall DEF Goto, CallType
<1>3. \A d \in Calls : call[d].pc = "oauth" => Holds(d)'
  BY OneCall DEF CallFits, Holds
<1>4. /\ queue' \in Seq(Calls) /\ cached' \in 0..MaxTokens
      /\ fresh' \in BOOLEAN /\ issued' \in 0..MaxTokens
  BY OneCall DEF tokens
<1> HIDE DEF r
<1> QED BY <1>1, <1>2, <1>3, <1>4, QuietMove

\* A call gets its token: it leaves the lock, if it had to queue, and connects,
\* or finds the client closed.
LEMMA ConnectKeeps ==
    ASSUME ClientInv, NEW c \in Calls, NEW token \in 0..MaxTokens,
           Connect(c, token), UNCHANGED <<wire, served, closed>>,
           call[c].pc \in {"token", "lock", "oauth"},
           queue' = queue \/ (Holds(c) /\ queue' = Tail(queue)),
           cached' \in 0..MaxTokens, fresh' \in BOOLEAN, issued' \in 0..MaxTokens
    PROVE  ClientInv'
<1>1. /\ call[c] \in CallType /\ CallFits(c) /\ queue \in Seq(Calls)
      /\ \A d \in Calls : CallFits(d)
  BY OneCall DEF ClientInv
<1>2. queue' \in Seq(Calls)
  BY <1>1 DEF Holds
<1>3. \A d \in Calls \ {c} : call[d].pc = "oauth" => Holds(d)'
  BY <1>1 DEF CallFits, Holds
<1>4. CASE closed
  <2> DEFINE r == Ended("closed")
  <2>1. /\ r \in CallType /\ r.pc = "done" /\ r.result = "closed"
        /\ r.tries = 1
    BY EndIsACall DEF Results
  <2>2. call' = [call EXCEPT ![c] = r]
    BY <1>4 DEF Connect, End
  <2> HIDE DEF r
  <2> QED BY <1>2, <1>3, <2>1, <2>2, QuietMove
<1>5. CASE ~closed
  <2> DEFINE r == [[call[c] EXCEPT !.pc = "connect"] EXCEPT !.token = token]
  <2>1. r \in CallType /\ r.pc = "connect" /\ (c \in Writes => r.tries = 1)
    BY <1>1 DEF CallType, CallPcs, CallFits
  <2>2. r.result = "none"
    BY <1>1 DEF CallFits, CallType
  <2>3. call' = [call EXCEPT ![c] = r]
    BY <1>1, <1>5, OneCall DEF Connect, CallType
  <2> HIDE DEF r
  <2> QED BY <1>2, <1>3, <2>1, <2>2, <2>3, QuietMove
<1> QED BY <1>4, <1>5

\* A step of a call keeps the invariant: the steps around the token ...
LEMMA TokenSteps ==
    ASSUME ClientInv, NEW c \in Calls,
           \/ UseCached(c) \/ QueueForToken(c) \/ UseRenewed(c) \/ AskToken(c)
           \/ Granted(c) \/ Denied(c)
    PROVE  ClientInv'
<1>1. /\ call[c] \in CallType /\ CallFits(c) /\ queue \in Seq(Calls)
      /\ call \in [Calls -> CallType] /\ cached \in 0..MaxTokens
      /\ fresh \in BOOLEAN /\ issued \in 0..MaxTokens
      /\ \A d \in Calls : CallFits(d)
  BY OneCall DEF ClientInv
<1>2. CASE UseCached(c)
  BY <1>1, <1>2, ConnectKeeps DEF UseCached, tokens
<1>3. CASE UseRenewed(c)
  BY <1>1, <1>3, ConnectKeeps DEF UseRenewed, tokens
<1>4. CASE Granted(c)
  <2>1. issued' \in 0..MaxTokens /\ cached' \in 0..MaxTokens /\ Holds(c)
    BY <1>1, <1>4, ClientAssumption DEF Granted, CallFits
  <2>2. call[c].pc = "oauth" /\ Connect(c, cached')
    BY <1>4 DEF Granted
  <2>3. /\ UNCHANGED <<wire, served, closed>> /\ queue' = Tail(queue)
        /\ fresh' \in BOOLEAN
    BY <1>4 DEF Granted
  <2>4. ASSUME NEW t, t = cached' PROVE t \in 0..MaxTokens /\ Connect(c, t)
    BY <2>1, <2>2, <2>4
  <2> QED BY <2>1, <2>2, <2>3, <2>4, ConnectKeeps
<1>5. CASE QueueForToken(c)
  <2> DEFINE r == [call[c] EXCEPT !.pc = "lock"]
  <2>1. /\ r \in CallType /\ r.pc = "lock" /\ r.result = "none"
        /\ c \in Writes => r.tries = 1
    BY <1>5, GotoIsACall DEF QueueForToken, CallPcs
  <2>2. call' = [call EXCEPT ![c] = r]
    BY <1>1, <1>5 DEF QueueForToken, Goto, CallType
  <2>3. queue' \in Seq(Calls)
    BY <1>1, <1>5 DEF QueueForToken
  <2>4. \A d \in Calls : call[d].pc = "oauth" => Holds(d)'
    BY <1>1, <1>5 DEF QueueForToken, CallFits, Holds
  <2>5. /\ UNCHANGED <<cached, fresh, issued, wire, served, closed>>
        /\ call[c].pc = "token"
    BY <1>5 DEF QueueForToken, tokens
  <2> HIDE DEF r
  <2> QED BY <1>1, <2>1, <2>2, <2>3, <2>4, <2>5, QuietMove
<1>6. CASE AskToken(c)
  <2> DEFINE r == [call[c] EXCEPT !.pc = "oauth"]
  <2>1. /\ r \in CallType /\ r.pc = "oauth" /\ r.result = "none"
        /\ c \in Writes => r.tries = 1
    BY <1>6, GotoIsACall DEF AskToken, CallPcs
  <2>2. call' = [call EXCEPT ![c] = r]
    BY <1>1, <1>6 DEF AskToken, Goto, CallType
  <2>3. /\ \A d \in Calls : call[d].pc = "oauth" => Holds(d)'
        /\ Holds(c)'
    BY <1>1, <1>6 DEF AskToken, CallFits, Holds
  <2>4. /\ UNCHANGED <<queue, cached, fresh, issued, wire, served, closed>>
        /\ call[c].pc = "lock"
    BY <1>6 DEF AskToken, tokens
  <2> HIDE DEF r
  <2> QED BY <1>1, <2>1, <2>2, <2>3, <2>4, QuietMove
<1>7. CASE Denied(c)
  <2> DEFINE r == Ended(NoToken(c))
  <2>1. NoToken(c) \in Results \ {"none"}
    BY DEF NoToken, Results
  <2>2. /\ r \in CallType /\ r.pc = "done" /\ r.result = NoToken(c)
        /\ r.tries = 1
    BY <2>1, EndIsACall
  <2>3. call' = [call EXCEPT ![c] = r]
    BY <1>7 DEF Denied, End
  <2>4. Holds(c) /\ call[c].pc \in {"oauth", "lock"}
    BY <1>1, <1>7 DEF Denied, CallFits
  <2>5. queue' = Tail(queue) /\ queue' \in Seq(Calls)
    BY <1>1, <1>7, <2>4 DEF Denied, Holds
  <2>6. \A d \in Calls \ {c} : call[d].pc = "oauth" => Holds(d)'
    BY <1>1, <2>4 DEF CallFits, Holds
  <2>7. UNCHANGED <<cached, fresh, issued, wire, served, closed>>
    BY <1>7 DEF Denied, tokens
  <2>8. c \in Writes => r.result = "not_sent"
    BY <2>2 DEF NoToken
  <2>9. r.result # "none"
    BY <2>1, <2>2
  <2> HIDE DEF r
  <2> QED BY <1>1, <2>2, <2>3, <2>4, <2>5, <2>6, <2>7, <2>8, <2>9, QuietMove
<1> QED BY <1>2, <1>3, <1>4, <1>5, <1>6, <1>7

\* ... and the steps around the request.
LEMMA TransientKeeps ==
    ASSUME ClientInv, NEW c \in Calls, NEW result \in Results \ {"none"},
           Transient(c, result), UNCHANGED <<queue, tokens, wire, served, closed>>,
           call[c].pc # "done",
           c \in Writes => \/ call[c].pc = "waiting" /\ result = "ambiguous"
                          \/ /\ call[c].pc = "waiting" /\ served[c] # {}
                             /\ result = "http_error"
    PROVE  ClientInv'
<1>1. CASE c \notin Writes /\ call[c].tries <= MaxRetries
  BY <1>1, GotoKeeps DEF Transient, CallPcs
<1>2. CASE ~(c \notin Writes /\ call[c].tries <= MaxRetries)
  BY <1>2, EndKeeps DEF Transient
<1> QED BY <1>1, <1>2

LEMMA RequestSteps ==
    ASSUME ClientInv, NEW c \in Calls,
           \/ CannotConnect(c) \/ PutOnWire(c)
           \/ Accepted(c) \/ Garbled(c) \/ HttpError(c) \/ Silence(c) \/ Wake(c)
    PROVE  ClientInv'
<1>1. /\ call[c] \in CallType /\ CallFits(c) /\ call \in [Calls -> CallType]
      /\ wire \in [Writes -> SUBSET Attempts]
      /\ served \in [Writes -> SUBSET Attempts]
      /\ \A d \in Calls : CallFits(d)
      /\ queue \in Seq(Calls) /\ cached \in 0..MaxTokens
      /\ fresh \in BOOLEAN /\ issued \in 0..MaxTokens /\ closed \in BOOLEAN
  BY OneCall DEF ClientInv
<1>2. CASE CannotConnect(c)
  <2>1. CASE c \in Writes
    BY <1>2, <2>1, EndKeeps DEF CannotConnect, Results
  <2>2. CASE c \notin Writes
    BY <1>2, <2>2, TransientKeeps DEF CannotConnect, Results
  <2> QED BY <2>1, <2>2
<1>3. CASE PutOnWire(c)
  <2> DEFINE r == [call[c] EXCEPT !.pc = "waiting"]
  <2>1. /\ r \in CallType /\ r.pc = "waiting" /\ r.result = "none"
        /\ r.tries = call[c].tries
    BY <1>3, GotoIsACall DEF PutOnWire, CallPcs
  <2>2. /\ call' = [call EXCEPT ![c] = r] /\ call'[c] = r
        /\ c \in Writes => wire'[c] = wire[c] \cup {call[c].tries}
        /\ wire' \in [Writes -> SUBSET Attempts]
        /\ \A d \in Writes \ {c} : wire'[d] = wire[d]
        /\ UNCHANGED <<queue, cached, fresh, issued, served, closed>>
        /\ call[c].pc = "connect"
    BY <1>1, <1>3 DEF PutOnWire, Goto, CallType, tokens
  <2>3. \A d \in Calls : call[d].pc = "oauth" => Holds(d)'
    BY <1>1, <2>2 DEF CallFits, Holds
  <2>4. Verdict(c)' = "nothing"
    BY <2>1, <2>2 DEF Verdict
  <2>5. CallFits(c)'
    <3>1. CASE c \notin Writes
      BY <2>1, <2>2, <3>1 DEF CallFits
    <3>2. CASE c \in Writes
      <4>1. call[c].tries = 1 /\ wire[c] \cup served[c] = {}
        BY <1>1, <2>2, <3>2 DEF CallFits
      <4> QED BY <2>1, <2>2, <2>4, <3>2, <4>1 DEF CallFits
    <3> QED BY <3>1, <3>2
  <2> HIDE DEF r
  <2> QED BY <1>1, <2>1, <2>2, <2>3, <2>5, CallMoves
<1>4. CASE Accepted(c)
  <2>1. /\ call[c].pc = "waiting" /\ End(c, "ok")
        /\ c \in Writes => served[c] # {}
    BY <1>4 DEF Accepted, Heard
  <2> QED BY <1>4, <2>1, EndKeeps DEF Accepted, Results
<1>5. CASE Garbled(c)
  <2>1. call[c].pc = "waiting"
    BY <1>5 DEF Garbled, Heard
  <2>2. CASE c \in Writes
    BY <1>5, <2>1, <2>2, EndKeeps DEF Garbled, Results
  <2>3. CASE c \notin Writes
    BY <1>5, <2>1, <2>3, EndKeeps DEF Garbled, Results
  <2> QED BY <2>2, <2>3
<1>6. CASE HttpError(c)
  <2>1. call[c].pc = "waiting" /\ (c \in Writes => served[c] # {})
    BY <1>6 DEF HttpError, Heard
  <2>2. CASE End(c, "http_error")
    BY <1>6, <2>1, <2>2, EndKeeps DEF HttpError, Results
  <2>3. CASE Transient(c, "http_error")
    BY <1>6, <2>1, <2>3, TransientKeeps DEF HttpError, Results
  <2> QED BY <1>6, <2>2, <2>3 DEF HttpError
<1>7. CASE Silence(c)
  <2>1. call[c].pc = "waiting" /\ UNCHANGED <<queue, tokens, wire, served, closed>>
    BY <1>7 DEF Silence
  <2>2. /\ Lost(c) \in Results \ {"none"}
        /\ c \in Writes => Lost(c) = "ambiguous"
    BY DEF Lost, Results
  <2>3. CASE End(c, Lost(c))
    BY <2>1, <2>2, <2>3, EndKeeps
  <2>4. CASE Transient(c, Lost(c))
    BY <2>1, <2>2, <2>4, TransientKeeps
  <2> QED BY <1>7, <2>3, <2>4 DEF Silence
<1>8. CASE Wake(c)
  <2> DEFINE r == [[call[c] EXCEPT !.pc = "token"] EXCEPT !.tries = @ + 1]
  <2>1. call[c].pc = "asleep" /\ call[c].tries <= MaxRetries /\ c \notin Writes
    BY <1>1, <1>8 DEF Wake, CallFits
  <2>2. r \in CallType /\ r.pc = "token" /\ r.result = call[c].result
    <3>1. call[c].tries + 1 \in Attempts /\ "token" \in CallPcs
      BY <1>1, <2>1, ClientAssumption DEF CallType, CallPcs, Attempts
    <3> QED BY <1>1, <3>1 DEF CallType
  <2>3. r.result = "none"
    BY <1>1, <2>1, <2>2 DEF CallFits
  <2>4. call' = [call EXCEPT ![c] = r]
    BY <1>1, <1>8 DEF Wake, CallType
  <2>5. UNCHANGED <<queue, cached, fresh, issued, wire, served, closed>>
    BY <1>8 DEF Wake, tokens
  <2>6. \A d \in Calls : call[d].pc = "oauth" => Holds(d)'
    BY <1>1, <2>5 DEF CallFits, Holds
  <2> HIDE DEF r
  <2> QED BY <1>1, <2>1, <2>2, <2>3, <2>4, <2>5, <2>6, QuietMove
<1> QED BY <1>2, <1>3, <1>4, <1>5, <1>6, <1>7, <1>8

\* Sabre receives an attempt.
LEMMA ArriveKeeps ==
    ASSUME ClientInv, NEW c \in Writes, NEW attempt \in Attempts, Arrive(c, attempt)
    PROVE  ClientInv'
<1>1. /\ call \in [Calls -> CallType] /\ wire \in [Writes -> SUBSET Attempts]
      /\ served \in [Writes -> SUBSET Attempts]
      /\ \A d \in Calls : CallFits(d)
  BY DEF ClientInv, ClientTypeOK
<1>2. /\ wire'[c] = wire[c] \ {attempt} /\ served'[c] = served[c] \cup {attempt}
      /\ \A d \in Writes \ {c} : wire'[d] = wire[d] /\ served'[d] = served[d]
      /\ attempt \in wire[c]
      /\ UNCHANGED <<call, queue, cached, fresh, issued, closed>>
  BY <1>1 DEF Arrive, tokens
<1>3. ClientTypeOK'
  BY <1>1, <1>2 DEF Arrive, ClientInv, ClientTypeOK
<1>4. ASSUME NEW d \in Calls PROVE CallFits(d)'
  <2>1. /\ call'[d] = call[d] /\ CallFits(d) /\ Holds(d)' = Holds(d)
        /\ Verdict(d)' = Verdict(d)
    BY <1>1, <1>2 DEF Holds, Verdict
  <2>2. CASE d # c \/ d \notin Writes
    BY <1>2, <2>1, <2>2 DEF CallFits
  <2>3. CASE d = c /\ d \in Writes
    BY <1>2, <2>1, <2>3 DEF CallFits
  <2> QED BY <2>2, <2>3
<1> QED BY <1>3, <1>4 DEF ClientInv

LEMMA Initially == ClientInit => ClientInv
<1> SUFFICES ASSUME ClientInit PROVE ClientInv
  OBVIOUS
<1>1. IdleCall \in CallType
  BY ClientAssumption DEF IdleCall, CallType, CallPcs, Results, Attempts
<1>2. ClientTypeOK
  <2>1. queue \in Seq(Calls) /\ 0 \in 0..MaxTokens
    BY ClientAssumption DEF ClientInit
  <2>2. /\ call \in [Calls -> CallType] /\ wire \in [Writes -> SUBSET Attempts]
        /\ served \in [Writes -> SUBSET Attempts]
    BY <1>1 DEF ClientInit
  <2> QED BY <2>1, <2>2 DEF ClientInit, ClientTypeOK
<1>3. ASSUME NEW c \in Calls PROVE CallFits(c)
  BY DEF ClientInit, CallFits, IdleCall, Verdict
<1> QED BY <1>2, <1>3 DEF ClientInv

LEMMA StepKeeps == ClientInv /\ [ClientNext]_clientVars => ClientInv'
<1> SUFFICES ASSUME ClientInv, [ClientNext]_clientVars PROVE ClientInv'
  OBVIOUS
<1>1. ASSUME NEW c \in Calls, Start(c) PROVE ClientInv'
  <2>1. call[c].pc = "idle" /\ UNCHANGED <<queue, tokens, wire, served, closed>>
    BY <1>1 DEF Start
  <2>2. CASE c \in Blocked
    BY <1>1, <2>1, <2>2, EndKeeps DEF Start, Results
  <2>3. CASE c \notin Blocked
    BY <1>1, <2>1, <2>3, GotoKeeps DEF Start, CallPcs
  <2> QED BY <2>2, <2>3
<1>2. ASSUME NEW c \in Calls, Progress(c) PROVE ClientInv'
  BY <1>2, TokenSteps, RequestSteps DEF Progress
<1>3. ASSUME NEW c \in Writes, NEW attempt \in Attempts, Arrive(c, attempt)
      PROVE  ClientInv'
  BY <1>3, ArriveKeeps
<1>4. CASE TokenAges \/ Close \/ UNCHANGED clientVars
  <2>1. /\ UNCHANGED <<call, queue, cached, issued, wire, served>>
        /\ fresh' \in BOOLEAN /\ closed' \in BOOLEAN
    BY <1>4 DEF ClientInv, ClientTypeOK, TokenAges, Close, clientVars, tokens
  <2>2. ClientTypeOK'
    BY <2>1 DEF ClientInv, ClientTypeOK
  <2>3. ASSUME NEW c \in Calls PROVE CallFits(c)'
    BY <2>1 DEF ClientInv, CallFits, Holds, Verdict
  <2> QED BY <2>2, <2>3 DEF ClientInv
<1> QED BY <1>1, <1>2, <1>3, <1>4 DEF ClientNext, ClientStep

-----------------------------------------------------------------------------
\* For any calls, retries and tokens: who renews the token holds the lock, and
\* what a write's caller was told fits what Sabre has or may still get.
THEOREM ClientIsSafe == ClientSpec => []ClientInv
BY Initially, StepKeeps, PTL DEF ClientSpec

\* Calls, attempts and tokens keep their types: attempts never exceed the
\* configured retries, whatever fails and however often.
THEOREM ClientTypeCorrect == ClientSpec => []ClientTypeOK
<1>1. ClientInv => ClientTypeOK
  BY DEF ClientInv
<1> QED BY <1>1, ClientIsSafe, PTL

\* The lock of get_token and the second look inside it: OAuth is asked by one
\* call at a time, and only while the kept token is not valid.
THEOREM OneRenewal == ClientSpec => OAuthOnlyWhenNeeded
<1>1. ASSUME ClientInv, [ClientNext]_clientVars,
             NEW c \in Calls, call'[c].pc = "oauth", call[c].pc # "oauth"
      PROVE  ~Valid /\ \A d \in Calls : call[d].pc # "oauth"
  <2>1. call \in [Calls -> CallType] /\ \A d \in Calls : CallFits(d)
    BY <1>1 DEF ClientInv, ClientTypeOK
  <2>2. ASSUME NEW e \in Calls, Start(e) \/ Progress(e), ~AskToken(e)
        PROVE  FALSE
    <3>1. CASE \/ Start(e) \/ UseCached(e) \/ QueueForToken(e) \/ UseRenewed(e)
               \/ Granted(e) \/ Denied(e)
      BY <1>1, <2>1, <3>1 DEF Start, UseCached, QueueForToken, UseRenewed,
         Granted, Denied, Goto, End, Ended, Connect, CallType
    <3>2. CASE \/ CannotConnect(e) \/ PutOnWire(e) \/ Accepted(e) \/ Garbled(e)
               \/ HttpError(e) \/ Silence(e) \/ Wake(e)
      BY <1>1, <2>1, <3>2 DEF CannotConnect, PutOnWire, Accepted, Garbled,
         HttpError, Silence, Wake, Goto, End, Ended, Transient, CallType
    <3> QED BY <2>2, <3>1, <3>2 DEF Progress
  <2>3. PICK e \in Calls : AskToken(e)
    BY <1>1, <2>1, <2>2 DEF ClientNext, ClientStep, Arrive, TokenAges, Close,
       clientVars
  <2>4. /\ ~Valid /\ Holds(e) /\ call[e].pc = "lock"
    BY <2>3 DEF AskToken
  <2>5. \A d \in Calls : call[d].pc = "oauth" => d = e
    BY <2>1, <2>4 DEF CallFits, Holds
  <2> QED BY <2>4, <2>5
<1>2. ClientInv /\ [ClientNext]_clientVars =>
        [\A c \in Calls : (call'[c].pc = "oauth" /\ call[c].pc # "oauth") =>
            /\ ~Valid
            /\ \A d \in Calls : call[d].pc # "oauth"]_clientVars
  BY <1>1
<1> QED BY <1>2, ClientIsSafe, PTL DEF ClientSpec, OAuthOnlyWhenNeeded

\* Every attempt, a retry after its sleep included, goes out with a token that
\* get_token found valid or OAuth granted in that very step.
THEOREM TokenChecked == ClientSpec => TokenIsCheckedPerAttempt
<1>1. ASSUME ClientInv, [ClientNext]_clientVars,
             NEW c \in Calls, call'[c].pc = "connect", call[c].pc # "connect"
      PROVE  call'[c].token = cached' /\ (Valid \/ issued' # issued)
  <2>1. call \in [Calls -> CallType] /\ issued \in Nat
    BY <1>1, ClientAssumption DEF ClientInv, ClientTypeOK
  <2>2. ASSUME NEW e \in Calls, Start(e) \/ Progress(e),
               ~(UseCached(e) \/ UseRenewed(e) \/ Granted(e))
        PROVE  FALSE
    BY <1>1, <2>1, <2>2 DEF Start, Progress, QueueForToken, AskToken,
       Denied, CannotConnect, PutOnWire, Accepted, Garbled, HttpError,
       Silence, Wake, Goto, End, Ended, Transient, CallType
  <2>3. PICK e \in Calls : UseCached(e) \/ UseRenewed(e) \/ Granted(e)
    BY <1>1, <2>1, <2>2 DEF ClientNext, ClientStep, Arrive, TokenAges, Close,
       clientVars
  <2>4. CASE UseCached(e) \/ UseRenewed(e)
    BY <1>1, <2>1, <2>4 DEF UseCached, UseRenewed, Connect, End, Ended, tokens,
       CallType
  <2>5. CASE Granted(e)
    <3>1. /\ issued' # issued /\ Connect(e, cached') /\ call[e].pc # "connect"
      BY <2>1, <2>5 DEF Granted
    <3>2. call'[c].token = cached'
      BY <1>1, <2>1, <3>1 DEF Connect, End, Ended, CallType
    <3> QED BY <3>1, <3>2
  <2> QED BY <2>3, <2>4, <2>5
<1>2. ClientInv /\ [ClientNext]_clientVars =>
        [\A c \in Calls : (call'[c].pc = "connect" /\ call[c].pc # "connect")
            => /\ call'[c].token = cached'
               /\ Valid \/ issued' # issued]_clientVars
  BY <1>1
<1> QED BY <1>2, ClientIsSafe, PTL DEF ClientSpec, TokenIsCheckedPerAttempt

-----------------------------------------------------------------------------
(* The refinement                                                          *)

\* Nothing a caller of a write could see moves.
LEMMA Stutter ==
    ASSUME UNCHANGED served, \A w \in Writes : call'[w].result = call[w].result
    PROVE  UNCHANGED <<Reached, Told>>
<1>1. \A w \in Writes : Verdict(w)' = Verdict(w)
  BY DEF Verdict
<1> QED BY <1>1 DEF Reached, Told

\* A write that has not ended is told something.
LEMMA TellStep ==
    ASSUME ClientInv, ClientInv', NEW c \in Calls, NEW r, UNCHANGED served,
           call[c].result = "none", call' = [call EXCEPT ![c] = r]
    PROVE  Once!Next \/ UNCHANGED <<Reached, Told>>
<1>1. call \in [Calls -> CallType] /\ call'[c] = r
  BY OneCall
<1>2. Reached' = Reached
  BY DEF Reached
<1>3. \A w \in Calls \ {c} : call'[w] = call[w]
  BY <1>1
<1>4. CASE c \notin Writes \/ r.result = call[c].result
  BY <1>1, <1>3, <1>4, Stutter
<1>5. CASE c \in Writes /\ r.result # call[c].result
  <2> DEFINE v == Verdict(c)'
  <2>1. Told' = [Told EXCEPT ![c] = v]
    <3>1. \A w \in Writes \ {c} : Verdict(w)' = Verdict(w)
      BY <1>3 DEF Verdict
    <3> QED BY <3>1, <1>5 DEF Told
  <2>2. v \in Once!Verdicts
    <3>1. call'[c].result # "none"
      BY <1>1, <1>5
    <3>2. v \in {"answered", "not_sent", "ambiguous"}
      BY <3>1 DEF Verdict
    <3> QED BY <3>2 DEF Once!Verdicts
  <2>3. Told[c] = "nothing"
    BY <1>5 DEF Told, Verdict
  <2>4. Once!Next
    <3>1. v = "answered" => Once!Got(c)
      <4>1. v = "answered" => served[c] # {} /\ served[c] \subseteq Attempts
        BY <1>5 DEF ClientInv, ClientTypeOK, CallFits
      <4>2. ASSUME NEW attempt \in served[c], served[c] \subseteq Attempts
            PROVE  Once!Got(c)
        <5>1. <<c, attempt>> \in Reached
          BY <1>5, <4>2 DEF Reached
        <5> QED BY <5>1 DEF Once!Got
      <4> HIDE DEF v
      <4> QED BY <4>1, <4>2
    <3>2. v = "not_sent" => ~Once!Got(c)
      <4>1. v = "not_sent" => served[c] = {}
        BY <1>5 DEF ClientInv, CallFits
      <4> HIDE DEF v
      <4> QED BY <4>1 DEF Once!Got, Reached
    <3> HIDE DEF v
    <3> QED BY <1>2, <1>5, <2>1, <2>2, <2>3, <3>1, <3>2
        DEF Once!Next, Once!Tell
  <2> QED BY <2>4
<1> QED BY <1>4, <1>5

\* Sabre receives an attempt: the write reaches it, for the first time.
LEMMA ReachStep ==
    ASSUME ClientInv, NEW c \in Writes, NEW attempt \in Attempts, Arrive(c, attempt)
    PROVE  Once!Next \/ UNCHANGED <<Reached, Told>>
<1>1. /\ served \in [Writes -> SUBSET Attempts] /\ CallFits(c)
      /\ served' = [served EXCEPT ![c] = @ \cup {attempt}]
      /\ attempt \in wire[c] /\ UNCHANGED call
  BY ClientAssumption DEF Arrive, ClientInv, ClientTypeOK
<1>2. Told' = Told
  BY <1>1 DEF Told, Verdict
<1>3. served[c] = {} /\ attempt = 1
  BY <1>1 DEF CallFits
<1>4. served' = [served EXCEPT ![c] = {attempt}]
  BY <1>1, <1>3
<1>5. Reached' = Reached \cup {<<c, attempt>>}
  <2>1. ASSUME NEW w \in Writes, NEW a \in Attempts
        PROVE  a \in served'[w] <=> a \in served[w] \/ <<w, a>> = <<c, attempt>>
    BY <1>1, <1>3, <1>4
  <2> QED BY <2>1 DEF Reached
<1>6. ~Once!Got(c)
  BY <1>3 DEF Once!Got, Reached
<1>7. Told[c] \in {"nothing", "ambiguous"}
  <2>1. Verdict(c) # "answered" /\ Verdict(c) # "not_sent"
    BY <1>1, <1>3 DEF CallFits
  <2>2. Verdict(c) \in {"nothing", "answered", "not_sent", "ambiguous"}
    BY DEF Verdict
  <2> QED BY <2>1, <2>2 DEF Told
<1>8. Once!Reach(c)
  <2>1. <<c, attempt>> \in Reached' /\ <<c, attempt>>[1] = c
    BY <1>5
  <2> QED BY <1>2, <1>5, <1>6, <1>7, <2>1 DEF Once!Reach
<1> QED BY <1>8 DEF Once!Next

\* post_once keeps the promise of WriteOnce: a write reaches Sabre at most
\* once, "not sent" is only told of one that never does, and an answer only of
\* one that did, also when requests arrive after their caller gave up.
THEOREM ImplementsWriteOnce == ClientSpec => WritesAtMostOnce
<1>1. ClientInit => Once!Init
  <2> SUFFICES ASSUME ClientInit PROVE Once!Init
    OBVIOUS
  <2>1. \A w \in Writes : Verdict(w) = "nothing" /\ served[w] = {}
    BY ClientAssumption DEF ClientInit, IdleCall, Verdict
  <2> QED BY <2>1 DEF Once!Init, Reached, Told
<1>2. ASSUME ClientInv, ClientInv', [ClientNext]_clientVars
      PROVE  Once!Next \/ UNCHANGED <<Reached, Told>>
  <2>1. call \in [Calls -> CallType] /\ \A c \in Calls : CallFits(c)
    BY <1>2 DEF ClientInv, ClientTypeOK
  <2>2. ASSUME NEW c \in Calls, Start(c) \/ Progress(c)
        PROVE  Once!Next \/ UNCHANGED <<Reached, Told>>
    <3>1. call[c].result = "none"
      <4>1. call[c].pc # "done"
        BY <2>2 DEF Start, Progress, UseCached, QueueForToken, UseRenewed, AskToken,
           Granted, Denied, CannotConnect, PutOnWire, Accepted, Garbled, HttpError,
           Heard, Silence, Wake
      <4> QED BY <2>1, <4>1 DEF CallFits
    <3>2. UNCHANGED served
      BY <2>2 DEF Start, Progress, UseCached, QueueForToken, UseRenewed, AskToken,
         Granted, Denied, CannotConnect, PutOnWire, Accepted, Garbled, HttpError,
         Silence, Wake
    <3>3. \E r : call' = [call EXCEPT ![c] = r]
      <4>1. ASSUME NEW pc, Goto(c, pc) PROVE \E r : call' = [call EXCEPT ![c] = r]
        BY <2>1, <4>1 DEF Goto
      <4>2. ASSUME NEW result, End(c, result)
            PROVE  \E r : call' = [call EXCEPT ![c] = r]
        BY <4>2 DEF End
      <4>3. ASSUME NEW t, Connect(c, t) PROVE \E r : call' = [call EXCEPT ![c] = r]
        BY <2>1, <4>2, <4>3 DEF Connect
      <4>4. ASSUME NEW result, Transient(c, result)
            PROVE  \E r : call' = [call EXCEPT ![c] = r]
        BY <4>1, <4>2, <4>4 DEF Transient
      <4>5. CASE Granted(c)
        BY <2>1, <4>2, <4>5 DEF Granted, Connect
      <4>6. CASE Wake(c)
        BY <2>1, <4>6 DEF Wake
      <4>7. CASE \/ Start(c) \/ UseCached(c) \/ QueueForToken(c) \/ UseRenewed(c)
                 \/ AskToken(c) \/ Denied(c)
        BY <4>1, <4>2, <4>3, <4>7 DEF Start, UseCached, QueueForToken, UseRenewed,
           AskToken, Denied
      <4>8. CASE \/ CannotConnect(c) \/ PutOnWire(c) \/ Accepted(c) \/ Garbled(c)
                 \/ HttpError(c) \/ Silence(c)
        BY <4>1, <4>2, <4>4, <4>8 DEF CannotConnect, PutOnWire, Accepted, Garbled,
           HttpError, Silence
      <4> QED BY <2>2, <4>5, <4>6, <4>7, <4>8 DEF Progress
    <3> QED BY <1>2, <3>1, <3>2, <3>3, TellStep
  <2>3. ASSUME NEW c \in Writes, NEW attempt \in Attempts, Arrive(c, attempt)
        PROVE  Once!Next \/ UNCHANGED <<Reached, Told>>
    BY <1>2, <2>3, ReachStep
  <2>4. CASE TokenAges \/ Close \/ UNCHANGED clientVars
    BY <2>4, Stutter DEF TokenAges, Close, clientVars
  <2> QED BY <1>2, <2>2, <2>3, <2>4 DEF ClientNext, ClientStep
<1>3. ClientInv /\ ClientInv' /\ [ClientNext]_clientVars => [Once!Next]_(Once!writeVars)
  BY <1>2 DEF Once!writeVars
<1> QED BY <1>1, <1>3, ClientIsSafe, PTL DEF ClientSpec, WritesAtMostOnce, Once!Spec

-----------------------------------------------------------------------------
(* A search over it                                                        *)

LEMMA SearchCallsAreCalls ==
    ASSUME NEW r \in 1..Currencies
    PROVE  Primary(r) \subseteq Calls /\ Broad(r) \subseteq Calls
BY SearchAssumption DEF Primary, Broad

\* The coroutine moves, and with it the client or not.
LEMMA CoroutineFits ==
    ASSUME SearchFits, [SearchNext]_searchVars PROVE SearchFits'
<1>1. /\ search.round \in 1..Currencies /\ search.todo \subseteq Cabins
      /\ Currencies \in Nat \ {0}
  BY SearchAssumption DEF SearchFits
<1>2. CASE UNCHANGED search
  BY <1>2 DEF SearchFits
<1>3. CASE \E pc \in {"failed", "answered", "written"} : Leave(pc)
  BY <1>3 DEF SearchFits, Leave
<1>4. CASE BatchDone \/ BroadDone
  BY <1>1, <1>4 DEF BatchDone, BroadDone, SearchFits
<1>7. CASE NextCurrency
  <2>1. /\ search' = [search EXCEPT !.pc = "batch", !.round = @ + 1]
        /\ search.round + 1 \in 1..Currencies
    BY <1>1, <1>7 DEF NextCurrency
  <2> QED BY <2>1 DEF SearchFits
<1>5. CASE \E cabin \in Cabins : MergeCabin(cabin) \/ AskBroadly(cabin)
  BY <1>1, <1>5 DEF MergeCabin, AskBroadly, SearchFits
<1>6. CASE \E w \in Writes : MakeWrite(w)
  BY <1>6 DEF MakeWrite, SearchFits
<1> QED BY <1>2, <1>3, <1>4, <1>5, <1>6, <1>7
        DEF SearchNext, Coroutine, searchVars, BatchFails, MergeFails,
            BroadFails, AnswerSearch, WriteDone, Admit

\* What the coroutine does to the client.
LEMMA ClientMoves ==
    ASSUME SearchFits, [SearchNext]_searchVars
    PROVE  [ClientNext]_clientVars
<1>1. ASSUME NEW c \in Calls, Start(c) PROVE ClientNext
  BY <1>1 DEF ClientNext, ClientStep
<1>2. CASE UNCHANGED clientVars
  BY <1>2
<1>3. CASE \E pc : Leave(pc)
  BY <1>3 DEF Leave, ClientNext
<1>4. CASE \E cabin \in Cabins : AskBroadly(cabin)
  <2>1. PICK cabin \in Cabins : AskBroadly(cabin)
    BY <1>4
  <2>2. <<search.round, cabin, "broad">> \in Calls
    BY SearchCallsAreCalls DEF SearchFits, Broad
  <2> QED BY <1>1, <2>1, <2>2 DEF AskBroadly
<1>5. CASE (\E w \in Writes : MakeWrite(w)) \/ \E c \in Calls : Admit(c)
  BY <1>1, <1>5, ClientAssumption DEF MakeWrite, Admit
<1>6. CASE \/ \E c \in Calls : Progress(c)
           \/ \E w \in Writes, attempt \in Attempts : Arrive(w, attempt)
           \/ TokenAges
  BY <1>6 DEF ClientNext, ClientStep
<1> QED BY <1>2, <1>3, <1>4, <1>5, <1>6
        DEF SearchNext, Coroutine, searchVars, BatchDone, BatchFails,
            MergeCabin, MergeFails, BroadDone, BroadFails, NextCurrency,
            AnswerSearch, WriteDone

LEMMA SearchBegins == SearchInit => SearchFits /\ ClientInit
BY SearchAssumption DEF SearchInit, SearchFits

LEMMA SearchGoesOn == SearchSpec => []SearchFits
BY SearchBegins, CoroutineFits, PTL DEF SearchSpec

\* A search, or a write, is a run of the client: opening and closing it and
\* making calls is all that the coroutine does to it.
THEOREM SearchIsAClient == SearchSpec => ClientSpec
BY SearchBegins, SearchGoesOn, ClientMoves, PTL DEF SearchSpec, ClientSpec

\* So post_once is as good as its promise under a search or a write, ...
THEOREM SearchWritesOnce == SearchSpec => WritesAtMostOnce
BY SearchIsAClient, ImplementsWriteOnce, PTL

\* ... and one call at a time renews the token, only when there is none, and
\* every attempt starts with one that was valid.
THEOREM SearchTokens ==
    SearchSpec => OAuthOnlyWhenNeeded /\ TokenIsCheckedPerAttempt
BY SearchIsAClient, OneRenewal, TokenChecked, PTL

\* Type correctness of the coroutine and of the calls it makes.
THEOREM SearchTypes == SearchSpec => []SearchTypeOK
<1>1. SearchFits /\ ClientTypeOK => SearchTypeOK
  BY DEF SearchFits, SearchTypeOK
<1> QED BY <1>1, SearchGoesOn, SearchIsAClient, ClientTypeCorrect, PTL

-----------------------------------------------------------------------------
(* The answer is complete                                                  *)

\* A call with a result, and one that was not made, are left alone by whatever
\* another call does.
LEMMA OthersStay ==
    ASSUME ClientInv, NEW d \in Calls, Start(d) \/ Progress(d),
           NEW c \in Calls
    PROVE  /\ Ok(c) => Ok(c)'
           /\ Idle(c) => Idle(c)' \/ (Start(d) /\ c = d)
<1>1. call \in [Calls -> CallType] /\ CallFits(c)
  BY DEF ClientInv, ClientTypeOK
<1>2. CASE Start(d)
  BY <1>1, <1>2 DEF Start, Goto, End, Ok, Idle, CallFits
<1>3. CASE Progress(d)
  <2>1. call[d].pc \notin {"idle", "done"}
    BY <1>3 DEF Progress, UseCached, QueueForToken, UseRenewed, AskToken,
       Granted, Denied, CannotConnect, PutOnWire, Accepted, Garbled, HttpError,
       Heard, Silence, Wake
  <2>2. c # d => call'[c] = call[c]
    BY <1>1, <1>3 DEF Progress, UseCached, QueueForToken, UseRenewed, AskToken,
       Granted, Denied, CannotConnect, PutOnWire, Accepted, Garbled, HttpError,
       Silence, Wake, Goto, End, Transient, Connect
  <2> QED BY <1>1, <2>1, <2>2 DEF Ok, Idle, CallFits
<1> QED BY <1>2, <1>3

\* Progress is only made by a call that was made.
LEMMA ProgressStartsNone ==
    ASSUME ClientInv, NEW d \in Calls, Progress(d), NEW c \in Calls, Idle(c)
    PROVE  Idle(c)'
<1>1. call \in [Calls -> CallType]
  BY DEF ClientInv, ClientTypeOK
<1>2. c # d
  BY DEF Idle, Progress, UseCached, QueueForToken, UseRenewed, AskToken,
     Granted, Denied, CannotConnect, PutOnWire, Accepted, Garbled, HttpError,
     Heard, Silence, Wake
<1>3. call'[c] = call[c]
  BY <1>1, <1>2 DEF Progress, UseCached, QueueForToken, UseRenewed, AskToken,
     Granted, Denied, CannotConnect, PutOnWire, Accepted, Garbled, HttpError,
     Silence, Wake, Goto, End, Transient, Connect
<1> QED BY <1>3 DEF Idle

\* What moves no result, and starts nothing but calls of the batch, keeps what
\* is known of the search where it stands.
LEMMA StandingKeeps ==
    ASSUME SearchInv, UNCHANGED search,
           \A c \in Calls : Ok(c) => Ok(c)',
           \A round \in 1..Currencies :
             \A c \in Broad(round) : Idle(c) => Idle(c)'
    PROVE  SearchInv'
<1>1. SearchFits /\ SearchFits'
  BY DEF SearchInv, SearchFits
<1>2. ASSUME NEW round \in 1..Currencies, Settled(round)
      PROVE  Settled(round)'
  <2>1. Primary(round)' = Primary(round) /\ Broad(round)' = Broad(round)
    BY DEF Primary, Broad
  <2> QED BY <1>2, <2>1, SearchCallsAreCalls DEF Settled
<1>3. \A round \in 1..Currencies :
        Primary(round)' = Primary(round) /\ Broad(round)' = Broad(round)
  BY DEF Primary, Broad
<1>4. search.round \in 1..Currencies
  BY <1>1 DEF SearchFits
<1>5. (search.pc = "fallback" => \A c \in Primary(search.round) : Ok(c))'
  BY <1>3, <1>4, SearchCallsAreCalls DEF SearchInv
<1>6. (search.pc = "batch" => \A c \in Broad(search.round) : Idle(c))'
  BY <1>3, <1>4 DEF SearchInv
<1> QED BY <1>1, <1>2, <1>3, <1>4, <1>5, <1>6 DEF SearchInv, Searching

\* The coroutine goes on in the same currency and no call moves.
LEMMA QuietTurn ==
    ASSUME SearchInv, SearchFits', UNCHANGED call,
           search'.round = search.round,
           Searching' => Searching,
           search'.pc = "batch" => search.pc = "batch",
           search'.pc = "fallback" =>
             \A c \in Primary(search.round) : Ok(c),
           search'.pc \in {"merge", "answered"} => Settled(search.round),
           search'.pc = "answered" => search.round = Currencies
    PROVE  SearchInv'
<1>1. \A round : /\ Settled(round)' = Settled(round)
                 /\ Primary(round)' = Primary(round)
                 /\ Broad(round)' = Broad(round)
  BY DEF Settled, Primary, Broad, Ok, Idle
<1>2. \A c : Ok(c)' = Ok(c) /\ Idle(c)' = Idle(c)
  BY DEF Ok, Idle
<1> QED BY <1>1, <1>2 DEF SearchInv, Searching

LEMMA SearchInvBegins == SearchInit => SearchInv
<1> SUFFICES ASSUME SearchInit PROVE SearchInv
  OBVIOUS
<1>1. SearchFits /\ search.round = 1 /\ search.pc \in {"batch", "write"}
  BY SearchBegins DEF SearchInit
<1>2. \A c \in Calls : Idle(c)
  BY DEF SearchInit, ClientInit, IdleCall, Idle
<1>3. \A round \in 1..Currencies : \A c \in Broad(round) : Idle(c)
  BY <1>2, SearchCallsAreCalls
<1> QED BY <1>1, <1>3, SearchAssumption DEF SearchInv, Searching, SearchFits

\* A call makes progress, the semaphore admits one, a request arrives or the
\* token ages: the coroutine stands where it is.
LEMMA CallsGoOn ==
    ASSUME SearchInv, ClientInv, UNCHANGED search,
           \/ \E c \in Calls : Admit(c) \/ Progress(c)
           \/ \E w \in Writes, attempt \in Attempts : Arrive(w, attempt)
           \/ TokenAges
    PROVE  SearchInv'
<1>1. CASE \E d \in Calls : Admit(d) \/ Progress(d)
  <2>1. PICK d \in Calls : Admit(d) \/ Progress(d)
    BY <1>1
  <2>2. Start(d) \/ Progress(d)
    BY <2>1 DEF Admit
  <2>3. \A c \in Calls : Ok(c) => Ok(c)'
    BY <2>2, OthersStay
  <2>4. ASSUME NEW round \in 1..Currencies, NEW c \in Broad(round), Idle(c)
        PROVE  Idle(c)'
    <3>1. c \in Calls /\ call[c].pc = "idle"
      BY <2>4, SearchCallsAreCalls DEF Idle
    <3>2. CASE Admit(d)
      <4>1. c # d
        BY <2>4, <3>2 DEF Admit, Primary, Broad
      <4> QED BY <2>2, <2>4, <3>1, <4>1, OthersStay
    <3>3. CASE Progress(d)
      BY <2>4, <3>1, <3>3, ProgressStartsNone
    <3> QED BY <2>1, <3>2, <3>3
  <2> QED BY <2>3, <2>4, StandingKeeps
<1>2. CASE \/ \E w \in Writes, attempt \in Attempts : Arrive(w, attempt)
           \/ TokenAges
  <2>1. UNCHANGED call
    BY <1>2 DEF Arrive, TokenAges
  <2> QED BY <2>1, StandingKeeps DEF Ok, Idle
<1> QED BY <1>1, <1>2

\* A broader call is made: of this currency, and no currency ahead.
LEMMA BroadCallKeeps ==
    ASSUME SearchInv, ClientInv, NEW cabin \in Cabins, AskBroadly(cabin)
    PROVE  SearchInv'
<1>1. /\ SearchFits /\ SearchFits' /\ search.pc = "merge"
      /\ search'.pc = "fallback" /\ search'.round = search.round
      /\ search.round \in 1..Currencies
  <2>1. SearchFits'
    BY CoroutineFits DEF SearchInv, SearchNext, Coroutine
  <2> QED BY <2>1 DEF AskBroadly, SearchInv, SearchFits
<1> DEFINE d == <<search.round, cabin, "broad">>
<1>2. d \in Calls /\ Start(d)
  BY <1>1, SearchCallsAreCalls DEF AskBroadly, Broad
<1>3. \A c \in Calls : Ok(c) => Ok(c)'
  BY <1>2, OthersStay
<1>4. ASSUME NEW round \in 1..Currencies, round # search.round,
             NEW c \in Broad(round), Idle(c)
      PROVE  Idle(c)'
  <2>1. c # d /\ c \in Calls
    BY <1>4, SearchCallsAreCalls DEF Broad
  <2> QED BY <1>2, <1>4, <2>1, OthersStay
<1>5. \A round \in 1..Currencies :
        Primary(round)' = Primary(round) /\ Broad(round)' = Broad(round)
  BY DEF Primary, Broad
<1>6. ASSUME NEW round \in 1..Currencies, round # search.round, Settled(round)
      PROVE  Settled(round)'
  BY <1>3, <1>4, <1>5, <1>6, SearchCallsAreCalls DEF Settled
<1>7. \A c \in Primary(search.round) : Ok(c)'
  BY <1>1, <1>3, SearchCallsAreCalls DEF SearchInv, Settled
<1>8. ASSUME NEW round \in 1..Currencies
      PROVE  /\ round < search.round => Settled(round)'
             /\ round > search.round => \A c \in Broad(round) : Idle(c)'
  <2>1. round \in Nat /\ search.round \in Nat
    BY <1>1
  <2> QED BY <1>1, <1>4, <1>6, <2>1 DEF SearchInv, Searching
<1> QED BY <1>1, <1>5, <1>7, <1>8 DEF SearchInv, Searching

\* The next currency: what is left behind is settled.
LEMMA NextCurrencyKeeps ==
    ASSUME SearchInv, NextCurrency PROVE SearchInv'
<1>1. /\ SearchFits' /\ search.pc = "merge" /\ search'.pc = "batch"
      /\ search.round \in 1..Currencies /\ search'.round = search.round + 1
      /\ search.round + 1 \in 1..Currencies /\ UNCHANGED call
  <2>1. SearchFits'
    BY CoroutineFits DEF SearchInv, SearchNext, Coroutine
  <2> QED BY <2>1, SearchAssumption
          DEF NextCurrency, SearchInv, SearchFits, clientVars
<1>2. \A round : /\ Settled(round)' = Settled(round)
                 /\ Primary(round)' = Primary(round)
                 /\ Broad(round)' = Broad(round)
  BY <1>1 DEF Settled, Primary, Broad, Ok, Idle
<1>3. \A c : Idle(c)' = Idle(c)
  BY <1>1 DEF Idle
<1>4. ASSUME NEW round \in 1..Currencies
      PROVE  /\ round < search.round + 1 => Settled(round)
             /\ round > search.round => \A c \in Broad(round) : Idle(c)
  <2>1. round < search.round + 1 => round < search.round \/ round = search.round
    BY <1>1
  <2> QED BY <1>1, <2>1 DEF SearchInv, Searching
<1>5. \A round \in 1..Currencies : round > search.round + 1 => round > search.round
  BY <1>1
<1> QED BY <1>1, <1>2, <1>3, <1>4, <1>5 DEF SearchInv, Searching

LEMMA SearchInvStep ==
    ASSUME SearchInv, ClientInv, [SearchNext]_searchVars PROVE SearchInv'
<1>1. SearchFits /\ SearchFits' /\ search.round \in 1..Currencies
  BY CoroutineFits DEF SearchInv, SearchFits
<1>2. CASE BatchDone
  <2>1. \A c \in Broad(search.round) : Idle(c)
    BY <1>2 DEF BatchDone, SearchInv
  <2>2. Settled(search.round)
    BY <1>2, <2>1 DEF BatchDone, Settled
  <2>3. /\ UNCHANGED call /\ search'.pc = "merge"
        /\ search'.round = search.round /\ search.pc = "batch"
    BY <1>1, <1>2 DEF BatchDone, clientVars, SearchFits
  <2> QED BY <1>1, <2>2, <2>3, QuietTurn DEF Searching
<1>3. CASE \E pc \in {"failed", "written"} :
             Leave(pc)
  <2>1. /\ UNCHANGED call /\ search'.pc \in {"failed", "written"}
        /\ search'.round = search.round
    BY <1>1, <1>3 DEF Leave, Close, SearchFits
  <2> QED BY <1>1, <2>1, QuietTurn DEF Searching
<1>4. CASE AnswerSearch
  <2>1. /\ UNCHANGED call /\ search'.pc = "answered" /\ search.pc = "merge"
        /\ search'.round = search.round /\ search.round = Currencies
    BY <1>1, <1>4 DEF AnswerSearch, Leave, Close, SearchFits
  <2> QED BY <1>1, <2>1, QuietTurn DEF Searching, SearchInv
<1>5. CASE BroadDone
  <2>1. /\ UNCHANGED call /\ search'.pc = "merge" /\ search.pc = "fallback"
        /\ search'.round = search.round
    BY <1>1, <1>5 DEF BroadDone, clientVars, SearchFits
  <2>2. Settled(search.round)
    BY <1>5, <2>1 DEF SearchInv, BroadDone, Settled, Idle
  <2> QED BY <1>1, <2>1, <2>2, QuietTurn DEF Searching
<1>6. CASE \E cabin \in Cabins : MergeCabin(cabin)
  <2>1. /\ UNCHANGED call /\ search'.pc = "merge" /\ search.pc = "merge"
        /\ search'.round = search.round
    BY <1>1, <1>6 DEF MergeCabin, clientVars, SearchFits
  <2> QED BY <1>1, <2>1, QuietTurn DEF Searching, SearchInv
<1>7. CASE \E w \in Writes : MakeWrite(w)
  <2>1. /\ search'.pc = "writing" /\ search'.round = search.round
    BY <1>1, <1>7 DEF MakeWrite, SearchFits
  <2> QED BY <1>1, <2>1 DEF SearchInv, Searching
<1>8. CASE UNCHANGED searchVars
  <2>1. UNCHANGED <<search, call>>
    BY <1>8 DEF searchVars, clientVars
  <2> QED BY <2>1, StandingKeeps DEF Ok, Idle
<1>9. CASE BatchFails \/ MergeFails \/ BroadFails \/ WriteDone
  BY <1>3, <1>9 DEF BatchFails, MergeFails, BroadFails, WriteDone
<1>10. CASE \/ \E c \in Calls : Admit(c)
            \/ /\ \/ \E c \in Calls : Progress(c)
                  \/ \E w \in Writes, attempt \in Attempts : Arrive(w, attempt)
                  \/ TokenAges
               /\ UNCHANGED search
  BY <1>10, CallsGoOn DEF Admit
<1> QED BY <1>2, <1>4, <1>5, <1>6, <1>7, <1>8, <1>9, <1>10, BroadCallKeeps,
           NextCurrencyKeeps DEF SearchNext, Coroutine

\* A search that answers has the answer of every cabin in every currency, and
\* of every broader call it made, however its calls interleave and whatever
\* orphans of a batch do.
THEOREM SearchIsComplete == SearchSpec => []AnswerIsComplete
<1>1. SearchInv => AnswerIsComplete
  <2> SUFFICES ASSUME SearchInv, search.pc = "answered",
                      NEW round \in 1..Currencies
               PROVE  Settled(round)
    BY DEF AnswerIsComplete, Settled, Idle
  <2>1. search.round = Currencies /\ Settled(search.round) /\ Searching
    BY DEF SearchInv, Searching
  <2>2. round < search.round \/ round = search.round
    BY <2>1, SearchAssumption
  <2> QED BY <2>1, <2>2 DEF SearchInv
<1>2. SearchSpec => []ClientInv
  BY SearchIsAClient, ClientIsSafe, PTL
<1> QED BY <1>1, <1>2, SearchInvBegins, SearchInvStep, PTL DEF SearchSpec
=============================================================================
