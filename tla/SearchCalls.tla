---------------------------- MODULE SearchCalls ----------------------------
(***************************************************************************)
(* The Sabre calls of one search_quote: per currency a batch with one call *)
(* per cabin, gathered under a semaphore, then for each cabin without an   *)
(* option of a preferred carrier one broader call.  The first failure ends *)
(* the search and closes the client while the other calls of the batch go  *)
(* on without an owner.  A client that is not opened for a search is       *)
(* opened for one createBooking.                                           *)
(***************************************************************************)
EXTENDS SabreClient, FiniteSets

CONSTANTS
    Currencies,   \* how many currencies are priced, one after another
    Cabins,       \* the cabins searched in each
    Permits       \* what the semaphore lets through at once

ASSUME SearchAssumption ==
    /\ Currencies \in Nat \ {0} /\ Permits \in Nat \ {0}
    /\ Calls = ((1..Currencies) \X Cabins \X {"primary", "broad"}) \cup Writes
    /\ \A w \in Writes : w \notin (1..Currencies) \X Cabins \X {"primary", "broad"}

VARIABLES search   \* the coroutine that opened the client

searchVars == <<clientVars, search>>

Primary(round) == {<<round, cabin, "primary">> : cabin \in Cabins}
Broad(round) == {<<round, cabin, "broad">> : cabin \in Cabins}

Ok(c) == call[c].result = "ok"
Busy(c) == call[c].pc \notin {"idle", "done"}

\* Leaving "async with SabreClient".
Leave(pc) == search' = [search EXCEPT !.pc = pc] /\ Close

-----------------------------------------------------------------------------
\* A task of the batch gets through the semaphore, an orphan too.
Admit(c) ==
    /\ search.pc \in {"batch", "failed"}
    /\ c \in Primary(search.round)
    /\ Cardinality({d \in Primary(search.round) : Busy(d)}) < Permits
    /\ Start(c)
    /\ UNCHANGED search

BatchDoneMutant ==
    /\ search.pc = "batch" /\ \A c \in Primary(search.round) : ~Busy(c)
    /\ \A c \in Primary(search.round) : call[c].pc = "done"
    /\ search' = [search EXCEPT !.pc = "merge", !.todo = Cabins]
    /\ UNCHANGED clientVars
BatchDone ==
    /\ search.pc = "batch" /\ \A c \in Primary(search.round) : Ok(c)
    /\ search' = [search EXCEPT !.pc = "merge", !.todo = Cabins]
    /\ UNCHANGED clientVars

FailedCall(c) == call[c].pc = "done" /\ ~Ok(c)

\* gather raises the first exception and cancels nobody.
BatchFails ==
    /\ search.pc = "batch" /\ \E c \in Primary(search.round) : FailedCall(c)
    /\ Leave("failed")

\* Normalizing and filtering the answer of a cabin: it has options, ...
MergeCabin(cabin) ==
    /\ search.pc = "merge" /\ cabin \in search.todo
    /\ search' = [search EXCEPT !.todo = @ \ {cabin}]
    /\ UNCHANGED clientVars

\* ... or none of a preferred carrier, and Sabre is asked again, ...
AskBroadly(cabin) ==
    /\ search.pc = "merge" /\ cabin \in search.todo
    /\ Start(<<search.round, cabin, "broad">>)
    /\ search' = [search EXCEPT !.pc = "fallback", !.todo = @ \ {cabin}]

\* ... or the answer cannot be normalized.
MergeFails == search.pc = "merge" /\ Leave("failed")

BroadDone ==
    /\ search.pc = "fallback"
    /\ \A c \in Broad(search.round) : call[c].pc = "idle" \/ Ok(c)
    /\ search' = [search EXCEPT !.pc = "merge"]
    /\ UNCHANGED clientVars

BroadFails ==
    /\ search.pc = "fallback"
    /\ \E c \in Broad(search.round) : FailedCall(c)
    /\ Leave("failed")

NextCurrency ==
    /\ search.pc = "merge" /\ search.todo = {}
    /\ search.round < Currencies
    /\ search' = [search EXCEPT !.pc = "batch", !.round = @ + 1]
    /\ UNCHANGED clientVars

AnswerSearch ==
    /\ search.pc = "merge" /\ search.todo = {}
    /\ search.round = Currencies
    /\ Leave("answered")

-----------------------------------------------------------------------------
(* SabreCreateBookingProvider.create_booking: one post_once, then close.   *)

MakeWrite(w) ==
    /\ search.pc = "write" /\ w \in Writes
    /\ Start(w)
    /\ search' = [search EXCEPT !.pc = "writing"]

WriteDone ==
    /\ search.pc = "writing" /\ \E w \in Writes : call[w].pc = "done"
    /\ Leave("written")

-----------------------------------------------------------------------------
\* A client is opened for a search or for a write.
SearchInit ==
    /\ ClientInit
    /\ search \in {[pc |-> pc, round |-> 1, todo |-> {}] :
                    pc \in {"batch", "write"}}

Coroutine ==
    \/ BatchDone \/ BatchFails
    \/ \E cabin \in Cabins : MergeCabin(cabin) \/ AskBroadly(cabin)
    \/ MergeFails \/ BroadDone \/ BroadFails \/ NextCurrency \/ AnswerSearch
    \/ \E w \in Writes : MakeWrite(w)
    \/ WriteDone

SearchNext ==
    \/ Coroutine
    \/ \E c \in Calls : Admit(c)
    \/ /\ \/ \E c \in Calls : Progress(c)
          \/ \E w \in Writes, attempt \in Attempts : Arrive(w, attempt)
          \/ TokenAges
       /\ UNCHANGED search

SearchSpec == SearchInit /\ [][SearchNext]_searchVars

\* The event loop runs what is ready; every await of a call ends.
SearchFairSpec ==
    /\ SearchSpec
    /\ WF_searchVars(Coroutine)
    /\ \A c \in Calls : /\ WF_searchVars(Admit(c))
                        /\ WF_searchVars(Progress(c) /\ UNCHANGED search)

-----------------------------------------------------------------------------
(* Properties                                                              *)

Over == search.pc \in {"answered", "failed", "written"}

\* The coroutine's own state.
SearchFits ==
    search \in [pc : {"batch", "merge", "fallback", "answered", "failed",
                      "write", "writing", "written"},
                round : 1..Currencies, todo : SUBSET Cabins]

\* Type invariant of the coroutine and of the calls it makes.
SearchTypeOK == ClientTypeOK /\ SearchFits

\* A search that answers has the answer of every cabin in every currency, and
\* of every broader call it needed: no failure is silently left out.
AnswerIsComplete ==
    search.pc = "answered" =>
        \A round \in 1..Currencies :
            /\ \A c \in Primary(round) : Ok(c)
            /\ \A c \in Broad(round) : Ok(c) \/ call[c].pc = "idle"

Idle(c) == call[c].pc = "idle"

\* A currency is settled when every cabin has its answer and so has every
\* broader call that was made.
Settled(round) ==
    /\ \A c \in Primary(round) : Ok(c)
    /\ \A c \in Broad(round) : Idle(c) \/ Ok(c)

Searching == search.pc \in {"batch", "merge", "fallback", "answered"}

\* The inductive invariant of a search that did not fail: the currencies it
\* left are settled and the broader calls of those ahead were not made; it
\* leaves the batch with every cabin answered and the fallback with every
\* broader call answered.
SearchInv ==
    /\ SearchFits
    /\ Searching =>
         \A round \in 1..Currencies :
            /\ round < search.round => Settled(round)
            /\ round > search.round => \A c \in Broad(round) : Idle(c)
    /\ search.pc = "batch" => \A c \in Broad(search.round) : Idle(c)
    /\ search.pc = "fallback" => \A c \in Primary(search.round) : Ok(c)
    /\ search.pc \in {"merge", "answered"} => Settled(search.round)
    /\ search.pc = "answered" => search.round = Currencies

\* A search or a write ends, and no orphan of it keeps waiting: a failed
\* renewal of the token does not keep the lock, and retries are bounded.
SearchEnds == <>(Over /\ \A c \in Calls : ~Busy(c))
=============================================================================
