---------------------------- MODULE SabreClient ----------------------------
(***************************************************************************)
(* One SabreClient with its token provider: the calls that share it run on *)
(* one event loop and change places at every await.  get and post retry    *)
(* what may be transient; post_once never repeats a write and classifies   *)
(* its failure by what Sabre may have received.  A request whose caller    *)
(* gave up can still arrive.                                               *)
(***************************************************************************)
EXTENDS Naturals, Sequences

CONSTANTS
    Calls,        \* the calls made on this client
    Writes,       \* those made with post_once
    Blocked,      \* those whose path the PROD guard rails refuse
    MaxRetries,   \* sabre_max_retries
    MaxTokens     \* bound: tokens OAuth grants

ASSUME ClientAssumption ==
    /\ Writes \subseteq Calls /\ Blocked \subseteq Calls
    /\ MaxRetries \in Nat /\ MaxTokens \in Nat

VARIABLES
    call,     \* where each call stands
    queue,    \* the token lock: its holder and those who wait for it, in order
    cached,   \* the token provider: which token it keeps ...
    fresh,    \* ... whether is_valid says so ...
    issued,   \* ... and how many OAuth has granted
    wire,     \* the attempts of each write on their way to Sabre ...
    served,   \* ... and those Sabre received
    closed    \* close() was called

clientVars == <<call, queue, cached, fresh, issued, wire, served, closed>>
tokens == <<cached, fresh, issued>>

Attempts == 1..(MaxRetries + 1)
CallPcs == {"idle", "token", "lock", "oauth", "connect", "waiting", "asleep",
            "done"}
Results == {"none", "refused", "no_token", "ok", "http_error", "garbled",
            "lost", "not_sent", "ambiguous", "closed"}

IdleCall == [pc |-> "idle", tries |-> 1, token |-> 0, result |-> "none"]

Ended(result) == [pc |-> "done", tries |-> 1, token |-> 0, result |-> result]
End(c, result) == call' = [call EXCEPT ![c] = Ended(result)]
Goto(c, pc) == call' = [call EXCEPT ![c].pc = pc]

\* A Timeout, a network error or a 5xx of get and post.
Transient(c, result) ==
    IF c \notin Writes /\ call[c].tries <= MaxRetries
      THEN Goto(c, "asleep") ELSE End(c, result)

-----------------------------------------------------------------------------
\* _enforce_guardrails, before anything is sent.
Start(c) ==
    /\ call[c].pc = "idle"
    /\ IF c \in Blocked THEN End(c, "refused") ELSE Goto(c, "token")
    /\ UNCHANGED <<queue, tokens, wire, served, closed>>

(* get_token: the fast path, the lock, and the second look inside it.      *)

Valid == cached # 0 /\ fresh
Holds(c) == queue # <<>> /\ Head(queue) = c

\* The request starts in the same turn of the loop that returned the token.
Connect(c, token) ==
    IF closed THEN End(c, "closed")
    ELSE call' = [call EXCEPT ![c].pc = "connect", ![c].token = token]

UseCached(c) ==
    /\ call[c].pc = "token" /\ Valid
    /\ Connect(c, cached)
    /\ UNCHANGED <<queue, tokens, wire, served, closed>>

QueueForToken(c) ==
    /\ call[c].pc = "token" /\ ~Valid
    /\ Goto(c, "lock") /\ queue' = Append(queue, c)
    /\ UNCHANGED <<tokens, wire, served, closed>>

\* Somebody renewed the token while this call waited.
UseRenewed(c) ==
    /\ call[c].pc = "lock" /\ Holds(c) /\ Valid
    /\ Connect(c, cached) /\ queue' = Tail(queue)
    /\ UNCHANGED <<tokens, wire, served, closed>>

NoToken(c) == IF c \in Writes THEN "not_sent" ELSE "no_token"

AskTokenMutant(c) ==
    /\ call[c].pc = "lock" /\ Holds(c) /\ ~closed
    /\ Goto(c, "oauth")
    /\ UNCHANGED <<queue, tokens, wire, served, closed>>
AskToken(c) ==
    /\ call[c].pc = "lock" /\ Holds(c) /\ ~Valid /\ ~closed
    /\ Goto(c, "oauth")
    /\ UNCHANGED <<queue, tokens, wire, served, closed>>

\* A token that lives for a minute or less is never valid.
Granted(c) ==
    /\ call[c].pc = "oauth" /\ issued < MaxTokens
    /\ issued' = issued + 1 /\ cached' = issued'
    /\ fresh' \in BOOLEAN
    /\ Connect(c, cached') /\ queue' = Tail(queue)
    /\ UNCHANGED <<wire, served, closed>>

DeniedMutant(c) ==
    /\ \/ call[c].pc = "oauth"
       \/ call[c].pc = "lock" /\ Holds(c) /\ ~Valid /\ closed
    /\ End(c, NoToken(c))
    /\ UNCHANGED <<queue, tokens, wire, served, closed>>
\* OAuth fails, or its request cannot start: the lock is released.
Denied(c) ==
    /\ \/ call[c].pc = "oauth"
       \/ call[c].pc = "lock" /\ Holds(c) /\ ~Valid /\ closed
    /\ End(c, NoToken(c)) /\ queue' = Tail(queue)
    /\ UNCHANGED <<tokens, wire, served, closed>>

TokenAges == fresh /\ fresh' = FALSE
             /\ UNCHANGED <<call, queue, cached, issued, wire, served, closed>>

-----------------------------------------------------------------------------
(* The request and its outcomes.                                           *)

CannotConnect(c) ==
    /\ call[c].pc = "connect"
    /\ IF c \in Writes THEN End(c, "not_sent") ELSE Transient(c, "lost")
    /\ UNCHANGED <<queue, tokens, wire, served, closed>>

PutOnWire(c) ==
    /\ call[c].pc = "connect" /\ ~closed
    /\ Goto(c, "waiting")
    /\ wire' = IF c \in Writes
                 THEN [wire EXCEPT ![c] = @ \cup {call[c].tries}] ELSE wire
    /\ UNCHANGED <<queue, tokens, served, closed>>

\* Sabre receives a write, also one whose caller has given up; a read may
\* arrive at any time, and changes nothing.
Arrive(w, attempt) ==
    /\ attempt \in wire[w]
    /\ wire' = [wire EXCEPT ![w] = @ \ {attempt}]
    /\ served' = [served EXCEPT ![w] = @ \cup {attempt}]
    /\ UNCHANGED <<call, queue, tokens, closed>>

Heard(c) ==
    /\ call[c].pc = "waiting" /\ ~closed
    /\ c \in Writes => call[c].tries \in served[c]

Accepted(c) ==
    /\ Heard(c) /\ End(c, "ok")
    /\ UNCHANGED <<queue, tokens, wire, served, closed>>

\* A 2xx whose body is no JSON.
Garbled(c) ==
    /\ Heard(c) /\ End(c, IF c \in Writes THEN "ambiguous" ELSE "garbled")
    /\ UNCHANGED <<queue, tokens, wire, served, closed>>

\* A 4xx is final; a 5xx is retried by get and post.
HttpError(c) ==
    /\ Heard(c)
    /\ End(c, "http_error") \/ Transient(c, "http_error")
    /\ UNCHANGED <<queue, tokens, wire, served, closed>>

LostMutant(c) == IF c \in Writes THEN "not_sent" ELSE "lost"
Lost(c) == IF c \in Writes THEN "ambiguous" ELSE "lost"

\* Timeout, network error, or the connection breaks off, which get and post do
\* not catch; close() breaks what is in flight.
Silence(c) ==
    /\ call[c].pc = "waiting"
    /\ Transient(c, Lost(c)) \/ End(c, Lost(c))
    /\ UNCHANGED <<queue, tokens, wire, served, closed>>

\* The next attempt, from the token on.
Wake(c) ==
    /\ call[c].pc = "asleep"
    /\ call' = [call EXCEPT ![c].pc = "token", ![c].tries = @ + 1]
    /\ UNCHANGED <<queue, tokens, wire, served, closed>>

Close == ~closed /\ closed' = TRUE
         /\ UNCHANGED <<call, queue, tokens, wire, served>>

-----------------------------------------------------------------------------
ClientInit ==
    /\ call = [c \in Calls |-> IdleCall]
    /\ queue = <<>> /\ cached = 0 /\ fresh = FALSE /\ issued = 0
    /\ wire = [w \in Writes |-> {}] /\ served = wire
    /\ closed = FALSE

\* What the event loop does for a call once it was made.
Progress(c) ==
    \/ UseCached(c) \/ QueueForToken(c) \/ UseRenewed(c) \/ AskToken(c)
    \/ Granted(c) \/ Denied(c)
    \/ CannotConnect(c) \/ PutOnWire(c)
    \/ Accepted(c) \/ Garbled(c) \/ HttpError(c) \/ Silence(c) \/ Wake(c)

ClientStep ==
    \/ \E c \in Calls : Start(c) \/ Progress(c)
    \/ \E w \in Writes, attempt \in Attempts : Arrive(w, attempt)
    \/ TokenAges

ClientNext == ClientStep \/ Close

ClientSpec == ClientInit /\ [][ClientNext]_clientVars

-----------------------------------------------------------------------------
(* Properties                                                              *)

CallType == [pc : CallPcs, tries : Attempts, token : 0..MaxTokens,
             result : Results]

\* Type invariant; attempts never exceed the configured retries.
ClientTypeOK ==
    /\ call \in [Calls -> CallType]
    /\ queue \in Seq(Calls)
    /\ cached \in 0..MaxTokens /\ fresh \in BOOLEAN /\ issued \in 0..MaxTokens
    /\ wire \in [Writes -> SUBSET Attempts]
    /\ served \in [Writes -> SUBSET Attempts]
    /\ closed \in BOOLEAN

\* What a write's caller was told, in the words of WriteOnce.
Verdict(w) ==
    CASE call[w].result = "none" -> "nothing"
      [] call[w].result \in {"ok", "http_error"} -> "answered"
      [] call[w].result \in {"not_sent", "refused", "closed"} -> "not_sent"
      [] OTHER -> "ambiguous"

\* Who renews the token holds the lock; a call that sleeps has an attempt
\* left; and of a write, tried once, what Sabre has or may still get fits what
\* its caller was told.
CallFits(c) ==
    /\ (call[c].result = "none") = (call[c].pc # "done")
    /\ call[c].pc = "oauth" => Holds(c)
    /\ call[c].pc = "asleep" => call[c].tries <= MaxRetries
    /\ c \in Writes =>
         /\ call[c].tries = 1 /\ call[c].pc # "asleep"
         /\ wire[c] \cup served[c] \subseteq {1} /\ wire[c] \cap served[c] = {}
         /\ \/ call[c].pc \notin {"waiting", "done"}
            \/ Verdict(c) = "not_sent"
            => wire[c] \cup served[c] = {}
         /\ Verdict(c) = "answered" => served[c] # {}

\* The inductive invariant: the types, and CallFits of every call.
ClientInv == ClientTypeOK /\ \A c \in Calls : CallFits(c)

\* post_once keeps the promise of WriteOnce, which the classification of a
\* failed createBooking rests on, however late a request arrives.
Reached == {copy \in Writes \X Attempts : copy[2] \in served[copy[1]]}
Told == [w \in Writes |-> Verdict(w)]
Once == INSTANCE WriteOnce WITH reached <- Reached, told <- Told
WritesAtMostOnce == Once!Spec

\* However many calls find the token expired, one of them renews it: OAuth is
\* asked by one call at a time and only while there is no valid token.
OAuthOnlyWhenNeeded ==
    [][ \A c \in Calls : (call'[c].pc = "oauth" /\ call[c].pc # "oauth") =>
          /\ ~Valid
          /\ \A d \in Calls : call[d].pc # "oauth" ]_clientVars

\* Every attempt, also a retry after its sleep, starts with a token that was
\* valid in the same turn of the loop, or that OAuth has just granted.
TokenIsCheckedPerAttempt ==
    [][ \A c \in Calls : (call'[c].pc = "connect" /\ call[c].pc # "connect")
          => /\ call'[c].token = cached'
             /\ Valid \/ issued' # issued ]_clientVars
=============================================================================
