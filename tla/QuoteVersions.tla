--------------------------- MODULE QuoteVersions ---------------------------
(***************************************************************************)
(* Stored quotes and their versions.  A search stores a quote; agents      *)
(* select options and fares, keep a booking draft and note the workflow;   *)
(* a refresh or a modification searches again, stores the answer as a new  *)
(* version and links the old one, which is read-only from then on.         *)
(*                                                                         *)
(* Every mutable operation reads the quote (assert_latest) and writes it   *)
(* in a later transaction that does not look again.  The worker processes  *)
(* share the rows; inside a worker a request keeps the event loop (turn)   *)
(* from one await to the next, and only a search awaits.                   *)
(***************************************************************************)
EXTENDS Naturals, Sequences, FiniteSets

CONSTANTS
    Procs, Slots, Home, Nobody,   \* workers, requests, and who serves whom
    Ranks, Fares,     \* positions of the options, indices of their fares
    Answers,          \* what a search can return: sets of <<rank, fare>>
    Names,            \* client data of the workflow
    Drafts,           \* what a booking draft can hold
    Updates,          \* what a workflow update can carry
    None,             \* nothing stored, or nothing given
    MaxQuotes         \* bound: no version is asked for beyond these

ASSUME QuoteAssumption ==
    /\ Home \in [Slots -> Procs]
    /\ Nobody \notin Slots
    /\ Answers \subseteq SUBSET (Ranks \X Fares)
    /\ None \notin Names /\ None \notin Drafts
    /\ Updates \subseteq [client : Names \cup {None},
                         status : {"active", "selected", "ready", "sent",
                                   "superseded", None}]
    /\ MaxQuotes \in Nat

VARIABLES
    quotes,           \* the rows of a quote by number, oldest first
    req,              \* the request each slot is serving
    turn              \* the slot that holds each process's event loop

quoteVars == <<quotes, req, turn>>

-----------------------------------------------------------------------------
(* Rows and requests                                                       *)

QuoteStatuses == {"active", "selected", "ready", "sent", "superseded"}

\* offered: the options and fares of the response, visible or candidates.
\* ranks, fares: the selection.  parent, next: the version links, 0 if none.
QuoteRow ==
    [status : QuoteStatuses, offered : SUBSET (Ranks \X Fares),
     ranks : SUBSET Ranks, fares : SUBSET (Ranks \X Fares),
     draft : Drafts \cup {None}, client : Names \cup {None}, sent : BOOLEAN,
     parent : Nat, next : Nat]

NewQuoteMutant(answer, parent) ==
    [status |-> "active", offered |-> answer, ranks |-> {}, fares |-> {},
     draft |-> None, client |-> None, sent |-> FALSE,
     parent |-> 0, next |-> 0]
NewQuote(answer, parent) ==
    [status |-> "active", offered |-> answer, ranks |-> {}, fares |-> {},
     draft |-> None, client |-> None, sent |-> FALSE,
     parent |-> parent, next |-> 0]

OfferedRanks(q) == {o[1] : o \in quotes[q].offered}

\* A choice the endpoint accepts: known options, at most one fare of each.
Selections == [ranks : SUBSET Ranks, fares : SUBSET (Ranks \X Fares)]

Selectable(q, choice) ==
    /\ choice.ranks # {}
    /\ choice.ranks \subseteq OfferedRanks(q)
    /\ choice.fares \subseteq quotes[q].offered
    /\ \A f, g \in choice.fares : f[1] = g[1] => f = g
    /\ \A f \in choice.fares : f[1] \in choice.ranks

Kinds == {"none", "select", "clear", "draft", "workflow", "version",
          "reserve"}
QuotePcs == {"idle", "write", "sabre", "inherit", "save", "link"}

\* The points of a Reserve request (BookingCreation).
ReservePcs == {"fares", "lookup", "insert", "reread"}

\* What the request read of the quote and writes back later.
Seen(q) == [client |-> quotes[q].client, status |-> quotes[q].status,
            sent |-> quotes[q].sent]
NothingSeen == [client |-> None, status |-> "active", sent |-> FALSE]

NoChoice == [ranks |-> {}, fares |-> {}]
NoUpdate == [client |-> None, status |-> None]

\* choice, draft, update: what the client sent.  child: the new version.
IdleRequest ==
    [kind |-> "none", pc |-> "idle", quote |-> 0, child |-> 0,
     seen |-> NothingSeen, choice |-> NoChoice, draft |-> None,
     update |-> NoUpdate]

\* QuoteRepository.assert_latest.
IsLatestMutant(q) == TRUE
IsLatest(q) == quotes[q].next = 0 /\ quotes[q].status # "superseded"

-----------------------------------------------------------------------------
(* The event loop                                                          *)

MayRun(s) == turn[Home[s]] \in {Nobody, s}
KeepRunning(s) == turn' = [turn EXCEPT ![Home[s]] = s]
GiveUpLoop(s) == turn' = [turn EXCEPT ![Home[s]] = Nobody]

At(s, kind, pc) == req[s].kind = kind /\ req[s].pc = pc /\ MayRun(s)
Finish(s) == req' = [req EXCEPT ![s] = IdleRequest] /\ GiveUpLoop(s)

-----------------------------------------------------------------------------
(* Creating, selecting, drafting, workflow                                 *)

\* search_quote with persist: nothing is read before the await of Sabre.
StoreSearch(answer) ==
    /\ Len(quotes) < MaxQuotes
    /\ quotes' = Append(quotes, NewQuote(answer, 0))
    /\ UNCHANGED <<req, turn>>

\* The read at the start of every mutable operation.  A historical version is
\* refused and nothing happens.
Begin(s, kind, pc, q, choice, draft, update) ==
    /\ req[s].pc = "idle" /\ MayRun(s)
    /\ q \in 1..Len(quotes) /\ IsLatest(q)
    /\ req' = [req EXCEPT ![s] =
                 [kind |-> kind, pc |-> pc, quote |-> q, child |-> 0,
                  seen |-> Seen(q), choice |-> choice, draft |-> draft,
                  update |-> update]]
    /\ UNCHANGED quotes

BeginSelect(s, q, choice) ==
    /\ Begin(s, "select", "write", q, choice, None, NoUpdate)
    /\ Selectable(q, choice)
    /\ KeepRunning(s)

BeginClear(s, q) ==
    Begin(s, "clear", "write", q, NoChoice, None, NoUpdate) /\ KeepRunning(s)

\* save_booking_draft, or clear_booking_draft with draft None.
BeginDraft(s, q, draft) ==
    Begin(s, "draft", "write", q, NoChoice, draft, NoUpdate) /\ KeepRunning(s)

BeginWorkflow(s, q, update) ==
    Begin(s, "workflow", "write", q, NoChoice, None, update) /\ KeepRunning(s)

\* The write: one transaction on the rows of the quote.
WriteQuote(s, row) ==
    /\ quotes' = [quotes EXCEPT ![req[s].quote] = row]
    /\ Finish(s)

Select(s) ==
    /\ At(s, "select", "write")
    /\ WriteQuote(s, [quotes[req[s].quote] EXCEPT
         !.ranks = req[s].choice.ranks, !.fares = req[s].choice.fares,
         !.status = "selected"])

ClearSelection(s) ==
    /\ At(s, "clear", "write")
    /\ WriteQuote(s, [quotes[req[s].quote] EXCEPT
         !.ranks = {}, !.fares = {}, !.status = "active"])

SaveDraft(s) ==
    /\ At(s, "draft", "write")
    /\ WriteQuote(s, [quotes[req[s].quote] EXCEPT !.draft = req[s].draft])

GivenMutant(value, old) == value
Given(value, old) == IF value = None THEN old ELSE value

\* What was not given is written back as it was read.
WorkflowRow(row, seen, update) ==
    [row EXCEPT !.client = Given(update.client, seen.client),
                !.status = Given(update.status, seen.status),
                !.sent = seen.sent \/ update.status = "sent"]

UpdateWorkflow(s) ==
    /\ At(s, "workflow", "write")
    /\ WriteQuote(s, WorkflowRow(quotes[req[s].quote], req[s].seen,
                                 req[s].update))

-----------------------------------------------------------------------------
(* Refresh and modification                                                *)

\* Up to the await of the search: only what was read is remembered.
BeginVersion(s, q) ==
    /\ Len(quotes) < MaxQuotes
    /\ Begin(s, "version", "sabre", q, NoChoice, None, NoUpdate)
    /\ GiveUpLoop(s)

\* Sabre answered: the answer is stored as a new quote, child of the old.
StoreVersion(s, answer) ==
    /\ At(s, "version", "sabre")
    /\ quotes' = Append(quotes, NewQuote(answer, req[s].quote))
    /\ req' = [req EXCEPT ![s].pc = "inherit",
                          ![s].child = Len(quotes) + 1]
    /\ KeepRunning(s)

SearchFails(s) ==
    /\ At(s, "version", "sabre")
    /\ Finish(s) /\ UNCHANGED quotes

\* update_workflow of the new quote with the client data of the old: it reads
\* the new quote first, which another worker may have superseded already.
ReadChild(s) ==
    /\ At(s, "version", "inherit") /\ IsLatest(req[s].child)
    /\ req' = [req EXCEPT ![s].pc = "save",
         ![s].seen = Seen(req[s].child),
         ![s].update = [client |-> req[s].seen.client, status |-> None]]
    /\ KeepRunning(s)
    /\ UNCHANGED quotes

ChildSuperseded(s) ==
    /\ At(s, "version", "inherit") /\ ~IsLatest(req[s].child)
    /\ Finish(s) /\ UNCHANGED quotes

InheritClient(s) ==
    /\ At(s, "version", "save")
    /\ quotes' = [quotes EXCEPT ![req[s].child] =
                    WorkflowRow(@, req[s].seen, req[s].update)]
    /\ req' = [req EXCEPT ![s].pc = "link"]
    /\ KeepRunning(s)

\* link_refresh: whatever the row says by now.
LinkRefresh(s) ==
    /\ At(s, "version", "link")
    /\ WriteQuote(s, [quotes[req[s].quote] EXCEPT
         !.next = req[s].child, !.status = "superseded"])

\* A worker dies; what its requests had read is gone.
Crash(p) ==
    /\ req' = [s \in Slots |-> IF Home[s] = p THEN IdleRequest ELSE req[s]]
    /\ turn' = [turn EXCEPT ![p] = Nobody]
    /\ UNCHANGED quotes

-----------------------------------------------------------------------------
QuoteInit ==
    /\ quotes = <<>>
    /\ req = [s \in Slots |-> IdleRequest]
    /\ turn = [p \in Procs |-> Nobody]

Arrive(s) ==
    \E q \in 1..Len(quotes) :
        \/ \E choice \in Selections : BeginSelect(s, q, choice)
        \/ BeginClear(s, q)
        \/ \E draft \in Drafts \cup {None} : BeginDraft(s, q, draft)
        \/ \E update \in Updates : BeginWorkflow(s, q, update)
        \/ BeginVersion(s, q)

Advance(s) ==
    \/ Select(s) \/ ClearSelection(s) \/ SaveDraft(s) \/ UpdateWorkflow(s)
    \/ \E answer \in Answers : StoreVersion(s, answer)
    \/ SearchFails(s)
    \/ ReadChild(s) \/ ChildSuperseded(s) \/ InheritClient(s)
    \/ LinkRefresh(s)

QuoteStep ==
    \/ \E answer \in Answers : StoreSearch(answer)
    \/ \E s \in Slots : Arrive(s) \/ Advance(s)

QuoteNext == QuoteStep \/ \E p \in Procs : Crash(p)

QuoteSpec == QuoteInit /\ [][QuoteNext]_quoteVars

-----------------------------------------------------------------------------
(* Version history                                                         *)

\* Walk from a quote back to its root ...
Root == [q \in 1..Len(quotes) |->
           LET back[n \in 0..Len(quotes)] ==
                 IF n = 0 \/ quotes[n].parent = 0 THEN n
                                                  ELSE back[quotes[n].parent]
           IN  back[q]]

\* ... and from the root along the links to the newest version.
Chain(root) ==
    LET along[n \in 0..Len(quotes)] ==
          IF n = 0 THEN {} ELSE {n} \cup along[quotes[n].next]
    IN  along[root]

\* version_history answers, instead of finding the quote outside its chain.
HasHistory(q) == q \in Chain(Root[q])

-----------------------------------------------------------------------------
(* Properties                                                              *)

RequestType ==
    [kind : Kinds, pc : QuotePcs \cup ReservePcs, quote : Nat, child : Nat,
     seen : [client : Names \cup {None}, status : QuoteStatuses,
             sent : BOOLEAN],
     choice : Selections, draft : Drafts \cup {None},
     update : [client : Names \cup {None},
               status : QuoteStatuses \cup {None}]]

\* Type invariant of the stored quotes and the requests about them.
QuoteTypeOK ==
    /\ quotes \in Seq(QuoteRow)
    /\ req \in [Slots -> RequestType]
    /\ turn \in [Procs -> Slots \cup {Nobody}]

\* Version links are what version_history walks: a successor exists, is
\* younger and names the quote as its parent, so that no walk meets a cycle
\* or a missing quote, whichever refreshes overlap and whichever worker dies.
LinksAgree ==
    \A q \in 1..Len(quotes) :
        /\ quotes[q].parent < q
        /\ quotes[q].next # 0 =>
             /\ quotes[q].next \in 1..Len(quotes)
             /\ quotes[quotes[q].next].parent = q

\* A persisted selection always denotes products Sabre offered in this very
\* version: one fare at most of each selected option.  Reserve freezes it.
SelectionIsOffered ==
    \A q \in 1..Len(quotes) :
        /\ quotes[q].ranks \subseteq OfferedRanks(q)
        /\ quotes[q].fares \subseteq quotes[q].offered
        /\ \A f, g \in quotes[q].fares : f[1] = g[1] => f = g
        /\ \A f \in quotes[q].fares : f[1] \in quotes[q].ranks

\* A request is about a stored quote; its choice stays selectable, for what is
\* offered does not change; and the version it has stored is a child of the
\* quote it will link.
RequestFits(s) ==
    /\ req[s].kind # "none" => req[s].quote \in 1..Len(quotes)
    /\ req[s].kind = "select" => Selectable(req[s].quote, req[s].choice)
    /\ req[s].kind = "version" /\ req[s].pc \in {"inherit", "save", "link"} =>
         /\ req[s].child \in 1..Len(quotes)
         /\ quotes[req[s].child].parent = req[s].quote

\* The inductive invariant of the stored quotes.
QuoteInv ==
    /\ QuoteTypeOK /\ LinksAgree /\ SelectionIsOffered
    /\ \A s \in Slots : RequestFits(s)

\* A historical version is read-only and stays historical: with one worker no
\* request that was already under way changes its selection, draft or
\* workflow; only its successor can be replaced.
HistoryIsFrozen ==
    [][ \A q \in 1..Len(quotes) :
          quotes[q].next # 0 \/ quotes[q].status = "superseded" =>
            quotes'[q] = [quotes[q] EXCEPT !.next = quotes'[q].next] ]_quoteVars

\* Every stored version is found in the history it belongs to: the docstring
\* of version_history promises the complete lineage (quote_repository.py:817).
LineageIsComplete == \A q \in 1..Len(quotes) :
    (\A s \in Slots : req[s].child # q) => HasHistory(q)
=============================================================================
