----------------------- MODULE BookingCreationProofs -----------------------
(***************************************************************************)
(* The stored quotes and the Bookings made of them, for any number of      *)
(* workers, requests, versions and keys.  QuoteInv is inductive, so the    *)
(* version links can be walked and a selection only denotes products that  *)
(* its version offers; CreationInv is inductive on top of it, so every     *)
(* Booking was offered, and each step of Reserve is a step of ReserveOnce  *)
(* or none.  On one worker LoopInv adds that history is frozen and that    *)
(* Reserve books what is selected.                                         *)
(***************************************************************************)
EXTENDS BookingCreation, TLAPS

\* What holds of one row.
RowFits(q) ==
    /\ quotes[q].parent < q
    /\ quotes[q].next # 0 => /\ quotes[q].next \in 1..Len(quotes)
                             /\ quotes[quotes[q].next].parent = q
    /\ quotes[q].ranks \subseteq OfferedRanks(q)
    /\ quotes[q].fares \subseteq quotes[q].offered
    /\ \A f, g \in quotes[q].fares : f[1] = g[1] => f = g
    /\ \A f \in quotes[q].fares : f[1] \in quotes[q].ranks

\* The turns of the event loops.
Turns == [Procs -> Slots \cup {Nobody}]

\* The invariant, by its parts.
LEMMA Parts ==
    QuoteInv <=> /\ quotes \in Seq(QuoteRow) /\ req \in [Slots -> RequestType]
                 /\ turn \in Turns
                 /\ \A q \in 1..Len(quotes) : RowFits(q)
                 /\ \A s \in Slots : RequestFits(s)
BY DEF QuoteInv, QuoteTypeOK, Turns, LinksAgree, SelectionIsOffered, RowFits

\* One stored row, and one request.
LEMMA OneRow ==
    ASSUME QuoteInv, NEW q \in 1..Len(quotes)
    PROVE  quotes[q] \in QuoteRow /\ RowFits(q) /\ Len(quotes) \in Nat
BY Parts

LEMMA OneRequest ==
    ASSUME QuoteInv, NEW s \in Slots
    PROVE  req[s] \in RequestType /\ RequestFits(s)
BY Parts

\* An idle request is a request, and every event loop may change hands.
LEMMA IdleIsARequest == IdleRequest \in RequestType
BY DEF IdleRequest, RequestType, Kinds, QuotePcs, ReservePcs, NothingSeen,
   NoChoice, NoUpdate, QuoteStatuses, Selections

LEMMA TurnsChange ==
    ASSUME QuoteInv, NEW s \in Slots, KeepRunning(s) \/ GiveUpLoop(s)
    PROVE  turn' \in Turns
<1>1. turn \in Turns
  BY Parts
<1> QED BY <1>1 DEF KeepRunning, GiveUpLoop, Turns

\* One request moves.
LEMMA RequestMoves ==
    ASSUME QuoteInv, NEW s \in Slots, NEW r \in RequestType,
           req' = [req EXCEPT ![s] = r], UNCHANGED quotes, turn' \in Turns,
           RequestFits(s)'
    PROVE  QuoteInv'
<1>1. /\ quotes \in Seq(QuoteRow) /\ req \in [Slots -> RequestType]
      /\ \A q \in 1..Len(quotes) : RowFits(q)
      /\ \A t \in Slots : RequestFits(t)
  BY Parts
<1>2. ASSUME NEW t \in Slots PROVE RequestFits(t)'
  <2>1. CASE t = s
    BY <2>1
  <2>2. CASE t # s
    BY <1>1, <2>2 DEF RequestFits, Selectable, OfferedRanks
  <2> QED BY <2>1, <2>2
<1>3. \A q \in 1..Len(quotes) : RowFits(q)'
  BY <1>1 DEF RowFits, OfferedRanks
<1>4. req' \in [Slots -> RequestType]
  BY <1>1
<1> QED BY <1>1, <1>2, <1>3, <1>4 DEF QuoteInv, QuoteTypeOK, Turns, LinksAgree,
   SelectionIsOffered, RowFits

\* One row is written and one request moves: what is offered and whose child
\* the version is do not change.
LEMMA RowMoves ==
    ASSUME QuoteInv, NEW q \in 1..Len(quotes), NEW row \in QuoteRow,
           quotes' = [quotes EXCEPT ![q] = row],
           NEW s \in Slots, NEW r \in RequestType, req' = [req EXCEPT ![s] = r],
           turn' \in Turns, RequestFits(s)',
           row.offered = quotes[q].offered, row.parent = quotes[q].parent,
           \/ row.next = quotes[q].next
           \/ row.next \in 1..Len(quotes) /\ quotes[row.next].parent = q,
           row.ranks \subseteq {o[1] : o \in row.offered},
           row.fares \subseteq row.offered,
           \A f, g \in row.fares : f[1] = g[1] => f = g,
           \A f \in row.fares : f[1] \in row.ranks
    PROVE  QuoteInv'
<1>1. /\ quotes \in Seq(QuoteRow) /\ req \in [Slots -> RequestType]
      /\ \A p \in 1..Len(quotes) : RowFits(p)
      /\ \A t \in Slots : RequestFits(t)
  BY Parts
<1>2. /\ quotes' \in Seq(QuoteRow) /\ Len(quotes') = Len(quotes)
      /\ quotes'[q] = row
      /\ \A p \in 1..Len(quotes) : p # q => quotes'[p] = quotes[p]
  BY <1>1
<1>3. \A p \in 1..Len(quotes) : /\ quotes'[p].offered = quotes[p].offered
                                /\ quotes'[p].parent = quotes[p].parent
                                /\ OfferedRanks(p)' = OfferedRanks(p)
  BY <1>2 DEF OfferedRanks
<1>4. ASSUME NEW t \in Slots PROVE RequestFits(t)'
  <2>1. CASE t = s
    BY <2>1
  <2>2. CASE t # s
    <3>1. req'[t] = req[t] /\ RequestFits(t)
      BY <1>1, <2>2
    <3>2. req[t].kind # "none" => req[t].quote \in 1..Len(quotes)
      BY <3>1 DEF RequestFits
    <3>3. req[t].kind = "select" => Selectable(req[t].quote, req[t].choice)'
      BY <1>3, <3>1, <3>2 DEF RequestFits, Selectable
    <3> QED BY <1>2, <1>3, <3>1, <3>2, <3>3 DEF RequestFits
  <2> QED BY <2>1, <2>2
<1>5. ASSUME NEW p \in 1..Len(quotes) PROVE RowFits(p)'
  <2>1. RowFits(p)
    BY <1>1
  <2>2. CASE p # q
    BY <1>2, <1>3, <2>1, <2>2 DEF RowFits
  <2>3. CASE p = q
    <3>1. OfferedRanks(q)' = {o[1] : o \in row.offered}
      BY <1>2 DEF OfferedRanks
    <3>2. row.next # 0 => /\ row.next \in 1..Len(quotes)
                          /\ quotes'[row.next].parent = q
      BY <1>3, <2>1, <2>3 DEF RowFits
    <3> QED BY <1>2, <2>1, <2>3, <3>1, <3>2 DEF RowFits
  <2> QED BY <2>2, <2>3
<1>6. req' \in [Slots -> RequestType]
  BY <1>1
<1> QED BY <1>2, <1>4, <1>5, <1>6 DEF QuoteInv, QuoteTypeOK, Turns, LinksAgree,
   SelectionIsOffered, RowFits

\* A quote is stored, as the child of a stored quote or of none.
LEMMA QuoteIsStored ==
    ASSUME QuoteInv, NEW answer \in Answers, NEW parent \in 0..Len(quotes),
           quotes' = Append(quotes, NewQuote(answer, parent)),
           req' \in [Slots -> RequestType], turn' \in Turns,
           \A s \in Slots : req'[s] = req[s] \/ RequestFits(s)'
    PROVE  QuoteInv'
<1> DEFINE row == NewQuote(answer, parent)
<1>1. /\ quotes \in Seq(QuoteRow) /\ Len(quotes) \in Nat
      /\ \A p \in 1..Len(quotes) : RowFits(p)
      /\ \A t \in Slots : RequestFits(t)
  BY Parts
<1>2. /\ row \in QuoteRow /\ row.parent = parent /\ row.next = 0
      /\ row.ranks = {} /\ row.fares = {}
  BY <1>1, QuoteAssumption DEF NewQuote, QuoteRow, QuoteStatuses
<1>3. quotes' = Append(quotes, row)
  OBVIOUS
<1> HIDE DEF row
<1>4. /\ quotes' \in Seq(QuoteRow) /\ Len(quotes') = Len(quotes) + 1
      /\ quotes'[Len(quotes) + 1] = row
      /\ \A p \in 1..Len(quotes) : quotes'[p] = quotes[p]
  BY <1>1, <1>2, <1>3
<1>5. \A p \in 1..Len(quotes) : OfferedRanks(p)' = OfferedRanks(p)
  BY <1>4 DEF OfferedRanks
<1>6. ASSUME NEW t \in Slots PROVE RequestFits(t)'
  <2>1. CASE RequestFits(t)'
    BY <2>1
  <2>2. CASE req'[t] = req[t]
    <3>1. RequestFits(t)
      BY <1>1
    <3>2. req[t].kind # "none" => req[t].quote \in 1..Len(quotes)
      BY <3>1 DEF RequestFits
    <3>3. req[t].kind = "select" => Selectable(req[t].quote, req[t].choice)'
      BY <1>4, <1>5, <2>2, <3>1, <3>2 DEF RequestFits, Selectable
    <3> QED BY <1>1, <1>4, <2>2, <3>1, <3>2, <3>3 DEF RequestFits
  <2> QED BY <2>1, <2>2
<1>7. ASSUME NEW p \in 1..(Len(quotes) + 1) PROVE RowFits(p)'
  <2>1. CASE p = Len(quotes) + 1
    BY <1>1, <1>2, <1>4, <2>1 DEF RowFits
  <2>2. CASE p # Len(quotes) + 1
    <3>1. p \in 1..Len(quotes) /\ RowFits(p)
      BY <1>1, <2>2
    <3> QED BY <1>1, <1>4, <1>5, <3>1 DEF RowFits
  <2> QED BY <2>1, <2>2
<1> QED BY <1>4, <1>6, <1>7 DEF QuoteInv, QuoteTypeOK, Turns, LinksAgree,
   SelectionIsOffered, RowFits

-----------------------------------------------------------------------------
(* The steps                                                               *)

LEMMA SearchIsStored ==
    ASSUME QuoteInv, NEW answer \in Answers, StoreSearch(answer)
    PROVE  QuoteInv'
<1>1. /\ req' \in [Slots -> RequestType] /\ turn' \in Turns /\ 0 \in 0..Len(quotes)
      /\ \A s \in Slots : req'[s] = req[s]
  BY Parts DEF StoreSearch
<1> QED BY <1>1, QuoteIsStored DEF StoreSearch

\* The read at the start of an operation.
LEMMA RequestBegins ==
    ASSUME QuoteInv, NEW s \in Slots, NEW kind \in Kinds, NEW pc \in QuotePcs,
           NEW q \in 1..Len(quotes), NEW choice \in Selections,
           NEW draft \in Drafts \cup {None}, NEW update \in Updates \cup {NoUpdate},
           Begin(s, kind, pc, q, choice, draft, update),
           KeepRunning(s) \/ GiveUpLoop(s),
           kind # "select" \/ Selectable(q, choice),
           pc \in {"write", "sabre"}
    PROVE  QuoteInv'
<1> DEFINE r == [kind |-> kind, pc |-> pc, quote |-> q, child |-> 0,
                 seen |-> Seen(q), choice |-> choice, draft |-> draft,
                 update |-> update]
<1>1. quotes[q] \in QuoteRow /\ req \in [Slots -> RequestType] /\ q \in Nat
  BY OneRow, Parts
<1>2. Seen(q) \in [client : Names \cup {None}, status : QuoteStatuses,
                   sent : BOOLEAN]
  BY <1>1 DEF Seen, QuoteRow
<1>3. update \in [client : Names \cup {None}, status : QuoteStatuses \cup {None}]
  BY QuoteAssumption DEF NoUpdate, QuoteStatuses
<1>4. r \in RequestType
  BY <1>1, <1>2, <1>3 DEF RequestType
<1>5. req' = [req EXCEPT ![s] = r] /\ UNCHANGED quotes /\ req'[s] = r
  BY <1>1 DEF Begin
<1>6. r.kind = kind /\ r.pc = pc /\ r.quote = q /\ r.choice = choice
  OBVIOUS
<1> HIDE DEF r
<1>7. RequestFits(s)'
  <2>1. kind = "select" => Selectable(q, choice)'
    BY <1>5 DEF Selectable, OfferedRanks
  <2> QED BY <1>5, <1>6, <2>1 DEF RequestFits
<1>8. turn' \in Turns
  BY TurnsChange
<1> QED BY <1>4, <1>5, <1>7, <1>8, RequestMoves

LEMMA ArriveKeeps ==
    ASSUME QuoteInv, NEW s \in Slots, Arrive(s)
    PROVE  QuoteInv'
<1>1. PICK q \in 1..Len(quotes) :
        \/ \E choice \in Selections : BeginSelect(s, q, choice)
        \/ BeginClear(s, q)
        \/ \E draft \in Drafts \cup {None} : BeginDraft(s, q, draft)
        \/ \E update \in Updates : BeginWorkflow(s, q, update)
        \/ BeginVersion(s, q)
  BY DEF Arrive
<1>2. NoChoice \in Selections /\ None \in Drafts \cup {None}
      /\ NoUpdate \in Updates \cup {NoUpdate}
      /\ {"select", "clear", "draft", "workflow", "version"} \subseteq Kinds
      /\ {"write", "sabre"} \subseteq QuotePcs
  BY DEF NoChoice, Selections, Kinds, QuotePcs
<1>3. ASSUME NEW choice \in Selections, BeginSelect(s, q, choice) PROVE QuoteInv'
  BY <1>2, <1>3, RequestBegins DEF BeginSelect
<1>4. CASE BeginClear(s, q)
  BY <1>2, <1>4, RequestBegins DEF BeginClear
<1>5. ASSUME NEW draft \in Drafts \cup {None}, BeginDraft(s, q, draft) PROVE QuoteInv'
  BY <1>2, <1>5, RequestBegins DEF BeginDraft
<1>6. ASSUME NEW update \in Updates, BeginWorkflow(s, q, update) PROVE QuoteInv'
  BY <1>2, <1>6, RequestBegins DEF BeginWorkflow
<1>7. CASE BeginVersion(s, q)
  BY <1>2, <1>7, RequestBegins DEF BeginVersion
<1> QED BY <1>1, <1>3, <1>4, <1>5, <1>6, <1>7

\* A write that keeps what is offered, the parent and the successor.
LEMMA WriteKeeps ==
    ASSUME QuoteInv, NEW s \in Slots, req[s].kind # "none",
           NEW row \in QuoteRow, WriteQuote(s, row),
           row.offered = quotes[req[s].quote].offered,
           row.parent = quotes[req[s].quote].parent,
           \/ row.next = quotes[req[s].quote].next
           \/ /\ row.next \in 1..Len(quotes)
              /\ quotes[row.next].parent = req[s].quote,
           row.ranks \subseteq {o[1] : o \in row.offered},
           row.fares \subseteq row.offered,
           \A f, g \in row.fares : f[1] = g[1] => f = g,
           \A f \in row.fares : f[1] \in row.ranks
    PROVE  QuoteInv'
<1>1. /\ req[s].quote \in 1..Len(quotes) /\ req \in [Slots -> RequestType]
  BY Parts DEF RequestFits
<1>2. /\ quotes' = [quotes EXCEPT ![req[s].quote] = row]
      /\ req' = [req EXCEPT ![s] = IdleRequest] /\ turn' \in Turns
  BY TurnsChange DEF WriteQuote, Finish
<1>3. RequestFits(s)'
  BY <1>1, <1>2 DEF RequestFits, IdleRequest
<1>4. ASSUME NEW q, q = req[s].quote PROVE QuoteInv'
  BY <1>1, <1>2, <1>3, <1>4, IdleIsARequest, RowMoves
<1> QED BY <1>4

\* The workflow writes a row of the same type and leaves the rest of it.
LEMMA WorkflowRowFits ==
    ASSUME NEW row \in QuoteRow, NEW seen, NEW update,
           seen \in [client : Names \cup {None}, status : QuoteStatuses,
                     sent : BOOLEAN],
           update \in [client : Names \cup {None},
                       status : QuoteStatuses \cup {None}]
    PROVE  LET new == WorkflowRow(row, seen, update)
           IN  /\ new \in QuoteRow
               /\ new.offered = row.offered /\ new.parent = row.parent
               /\ new.next = row.next /\ new.ranks = row.ranks
               /\ new.fares = row.fares
<1>1. /\ Given(update.client, seen.client) \in Names \cup {None}
      /\ Given(update.status, seen.status) \in QuoteStatuses
      /\ (seen.sent \/ update.status = "sent") \in BOOLEAN
  BY DEF Given
<1> QED BY <1>1 DEF WorkflowRow, QuoteRow

LEMMA AdvanceKeeps ==
    ASSUME QuoteInv, NEW s \in Slots, Advance(s)
    PROVE  QuoteInv'
<1>1. /\ req[s] \in RequestType /\ RequestFits(s) /\ req \in [Slots -> RequestType]
      /\ req[s].kind # "none" =>
           /\ req[s].quote \in 1..Len(quotes)
           /\ quotes[req[s].quote] \in QuoteRow /\ RowFits(req[s].quote)
      /\ Len(quotes) \in Nat
  <2>1. req[s] \in RequestType /\ RequestFits(s) /\ req \in [Slots -> RequestType]
        /\ Len(quotes) \in Nat
    BY Parts
  <2>2. req[s].kind # "none" => req[s].quote \in 1..Len(quotes)
    BY <2>1 DEF RequestFits
  <2> QED BY <2>1, <2>2, OneRow
<1> DEFINE row == quotes[req[s].quote]
<1>2. CASE Select(s)
  <2> DEFINE new == [row EXCEPT !.ranks = req[s].choice.ranks,
                       !.fares = req[s].choice.fares, !.status = "selected"]
  <2>1. req[s].kind = "select" /\ WriteQuote(s, new)
    BY <1>2 DEF Select, At
  <2>2. req[s].choice \in Selections /\ Selectable(req[s].quote, req[s].choice)
    BY <1>1, <2>1 DEF RequestType, RequestFits
  <2>3. /\ new \in QuoteRow /\ new.offered = row.offered /\ new.parent = row.parent
        /\ new.next = row.next /\ new.ranks = req[s].choice.ranks
        /\ new.fares = req[s].choice.fares
    BY <1>1, <2>1, <2>2 DEF QuoteRow, QuoteStatuses, Selections
  <2> HIDE DEF new
  <2> QED BY <2>1, <2>2, <2>3, WriteKeeps DEF Selectable, OfferedRanks
<1>3. CASE ClearSelection(s)
  <2> DEFINE new == [row EXCEPT !.ranks = {}, !.fares = {}, !.status = "active"]
  <2>1. req[s].kind = "clear" /\ WriteQuote(s, new)
    BY <1>3 DEF ClearSelection, At
  <2>2. /\ new \in QuoteRow /\ new.offered = row.offered /\ new.parent = row.parent
        /\ new.next = row.next /\ new.ranks = {} /\ new.fares = {}
    BY <1>1, <2>1 DEF QuoteRow, QuoteStatuses
  <2> HIDE DEF new
  <2> QED BY <2>1, <2>2, WriteKeeps
<1>4. CASE SaveDraft(s)
  <2> DEFINE new == [row EXCEPT !.draft = req[s].draft]
  <2>1. req[s].kind = "draft" /\ WriteQuote(s, new)
    BY <1>4 DEF SaveDraft, At
  <2>2. /\ new \in QuoteRow /\ new.offered = row.offered /\ new.parent = row.parent
        /\ new.next = row.next /\ new.ranks = row.ranks /\ new.fares = row.fares
    BY <1>1, <2>1 DEF QuoteRow, RequestType
  <2>3. RowFits(req[s].quote)
    BY <1>1, <2>1
  <2> HIDE DEF new
  <2> QED BY <2>1, <2>2, <2>3, WriteKeeps DEF RowFits, OfferedRanks
<1>5. CASE UpdateWorkflow(s)
  <2> DEFINE new == WorkflowRow(row, req[s].seen, req[s].update)
  <2>1. req[s].kind = "workflow" /\ WriteQuote(s, new)
    BY <1>5 DEF UpdateWorkflow, At
  <2>2. /\ new \in QuoteRow /\ new.offered = row.offered /\ new.parent = row.parent
        /\ new.next = row.next /\ new.ranks = row.ranks /\ new.fares = row.fares
    BY <1>1, <2>1, WorkflowRowFits DEF RequestType
  <2>3. RowFits(req[s].quote)
    BY <1>1, <2>1
  <2> HIDE DEF new
  <2> QED BY <2>1, <2>2, <2>3, WriteKeeps DEF RowFits, OfferedRanks
<1>6. ASSUME NEW answer \in Answers, StoreVersion(s, answer) PROVE QuoteInv'
  <2>1. /\ req[s].kind = "version" /\ req[s].quote \in 1..Len(quotes)
        /\ quotes' = Append(quotes, NewQuote(answer, req[s].quote))
        /\ turn' \in Turns
    BY <1>1, <1>6, TurnsChange DEF StoreVersion, At
  <2> DEFINE r == [[req[s] EXCEPT !.pc = "inherit"] EXCEPT !.child = Len(quotes) + 1]
  <2>2. req' = [req EXCEPT ![s] = r]
    BY <1>1, <1>6 DEF StoreVersion, RequestType
  <2>3. /\ r \in RequestType /\ r.kind = "version" /\ r.quote = req[s].quote
        /\ r.child = Len(quotes) + 1
    <3>1. Len(quotes) + 1 \in Nat /\ "inherit" \in QuotePcs
      BY <1>1 DEF QuotePcs
    <3> HIDE DEF row
    <3> QED BY <1>1, <2>1, <3>1 DEF RequestType
  <2> HIDE DEF r
  <2>4. /\ req'[s] = r /\ req' \in [Slots -> RequestType]
        /\ \A t \in Slots : t # s => req'[t] = req[t]
    BY <1>1, <2>2, <2>3
  <2>5. /\ Len(quotes') = Len(quotes) + 1
        /\ quotes'[Len(quotes) + 1].parent = req[s].quote
    <3>1. quotes \in Seq(QuoteRow) /\ NewQuote(answer, req[s].quote).parent = req[s].quote
      BY Parts DEF NewQuote
    <3> HIDE DEF row
    <3> QED BY <2>1, <3>1
  <2>6. RequestFits(s)'
    BY <1>1, <2>1, <2>3, <2>4, <2>5 DEF RequestFits
  <2>7. ASSUME NEW p, p = req[s].quote PROVE QuoteInv'
    BY <2>1, <2>4, <2>6, <2>7, QuoteIsStored
  <2> QED BY <2>7
<1>7. CASE SearchFails(s) \/ ChildSuperseded(s)
  <2>1. req' = [req EXCEPT ![s] = IdleRequest] /\ UNCHANGED quotes /\ turn' \in Turns
    BY <1>7, TurnsChange DEF SearchFails, ChildSuperseded, Finish
  <2>2. RequestFits(s)'
    BY <1>1, <2>1 DEF RequestFits, IdleRequest
  <2> QED BY <2>1, <2>2, IdleIsARequest, RequestMoves
<1>8. CASE ReadChild(s)
  <2> DEFINE update == [client |-> req[s].seen.client, status |-> None]
             r == [[[req[s] EXCEPT !.pc = "save"] EXCEPT !.seen = Seen(req[s].child)]
                     EXCEPT !.update = update]
  <2>1. /\ req[s].kind = "version" /\ req[s].pc = "inherit" /\ UNCHANGED quotes
        /\ turn' \in Turns
    BY <1>8, TurnsChange DEF ReadChild, At
  <2>2. req' = [req EXCEPT ![s] = r]
    BY <1>1, <1>8 DEF ReadChild, RequestType
  <2>3. req[s].child \in 1..Len(quotes) /\ quotes[req[s].child] \in QuoteRow
    BY <1>1, <2>1, OneRow DEF RequestFits
  <2>4. /\ Seen(req[s].child) \in [client : Names \cup {None},
                                    status : QuoteStatuses, sent : BOOLEAN]
        /\ update \in [client : Names \cup {None},
                        status : QuoteStatuses \cup {None}]
    BY <1>1, <2>3 DEF Seen, QuoteRow, RequestType
  <2>5. /\ r \in RequestType /\ r.kind = "version" /\ r.quote = req[s].quote
        /\ r.child = req[s].child
    BY <1>1, <2>1, <2>4 DEF RequestType, QuotePcs
  <2> HIDE DEF r
  <2>6. RequestFits(s)'
    <3>1. req'[s] = r
      BY <1>1, <2>2
    <3> QED BY <1>1, <2>1, <2>5, <3>1 DEF RequestFits
  <2> QED BY <2>1, <2>2, <2>5, <2>6, RequestMoves
<1>9. CASE InheritClient(s)
  <2> DEFINE old == quotes[req[s].child]
             new == WorkflowRow(old, req[s].seen, req[s].update)
             r == [req[s] EXCEPT !.pc = "link"]
  <2>1. /\ req[s].kind = "version" /\ req[s].pc = "save"
        /\ turn' \in Turns
    BY <1>9, TurnsChange DEF InheritClient, At
  <2>2. /\ req[s].child \in 1..Len(quotes) /\ old \in QuoteRow
        /\ RowFits(req[s].child) /\ old.parent = req[s].quote
        /\ quotes \in Seq(QuoteRow)
    BY <1>1, <2>1, OneRow, Parts DEF RequestFits
  <2>3. /\ new \in QuoteRow /\ new.offered = old.offered /\ new.parent = old.parent
        /\ new.next = old.next /\ new.ranks = old.ranks /\ new.fares = old.fares
    BY <1>1, <2>2, WorkflowRowFits DEF RequestType
  <2>4. quotes' = [quotes EXCEPT ![req[s].child] = new] /\ req' = [req EXCEPT ![s] = r]
    BY <1>1, <2>2, <1>9 DEF InheritClient, RequestType
  <2>5. /\ r \in RequestType /\ r.kind = "version" /\ r.quote = req[s].quote
        /\ r.child = req[s].child
    BY <1>1, <2>1 DEF RequestType, QuotePcs
  <2> HIDE DEF r, new
  <2>6. RequestFits(s)'
    <3>1. req'[s] = r /\ quotes'[req[s].child] = new /\ Len(quotes') = Len(quotes)
      BY <1>1, <2>2, <2>4
    <3> QED BY <1>1, <2>1, <2>2, <2>3, <2>5, <3>1 DEF RequestFits
  <2>7. ASSUME NEW q, q = req[s].child PROVE QuoteInv'
    <3>1. /\ new.ranks \subseteq {o[1] : o \in new.offered}
          /\ new.fares \subseteq new.offered
          /\ \A f, g \in new.fares : f[1] = g[1] => f = g
          /\ \A f \in new.fares : f[1] \in new.ranks
      BY <2>2, <2>3 DEF RowFits, OfferedRanks
    <3> QED BY <2>1, <2>2, <2>3, <2>4, <2>5, <2>6, <2>7, <3>1, RowMoves
  <2> QED BY <2>7
<1>10. CASE LinkRefresh(s)
  <2> DEFINE new == [row EXCEPT !.next = req[s].child, !.status = "superseded"]
  <2>1. /\ req[s].kind = "version" /\ req[s].pc = "link" /\ WriteQuote(s, new)
    BY <1>10 DEF LinkRefresh, At
  <2>2. /\ req[s].child \in 1..Len(quotes) /\ req[s].child \in Nat
        /\ quotes[req[s].child].parent = req[s].quote
    BY <1>1, <2>1 DEF RequestFits
  <2>3. /\ new \in QuoteRow /\ new.offered = row.offered /\ new.parent = row.parent
        /\ new.next = req[s].child /\ new.ranks = row.ranks /\ new.fares = row.fares
    BY <1>1, <2>1, <2>2 DEF QuoteRow, QuoteStatuses
  <2>4. RowFits(req[s].quote)
    BY <1>1, <2>1
  <2> HIDE DEF new
  <2> QED BY <2>1, <2>2, <2>3, <2>4, WriteKeeps DEF RowFits, OfferedRanks
<1> QED BY <1>2, <1>3, <1>4, <1>5, <1>6, <1>7, <1>8, <1>9, <1>10 DEF Advance

\* A worker dies with what its requests have read.
LEMMA CrashKeeps ==
    ASSUME QuoteInv, NEW p \in Procs, Crash(p)
    PROVE  QuoteInv'
<1>1. /\ quotes \in Seq(QuoteRow) /\ req \in [Slots -> RequestType] /\ turn \in Turns
      /\ \A q \in 1..Len(quotes) : RowFits(q)
      /\ \A t \in Slots : RequestFits(t)
  BY Parts
<1>2. /\ UNCHANGED quotes /\ req' \in [Slots -> RequestType] /\ turn' \in Turns
      /\ \A t \in Slots : req'[t] \in {req[t], IdleRequest}
  BY <1>1, IdleIsARequest DEF Crash, Turns
<1>3. \A q \in 1..Len(quotes) : RowFits(q)'
  BY <1>1, <1>2 DEF RowFits, OfferedRanks
<1>4. \A t \in Slots : RequestFits(t)'
  BY <1>1, <1>2 DEF RequestFits, IdleRequest, Selectable, OfferedRanks
<1> QED BY <1>1, <1>2, <1>3, <1>4 DEF QuoteInv, QuoteTypeOK, Turns, LinksAgree,
        SelectionIsOffered, RowFits

LEMMA Initially == QuoteInit => QuoteInv
BY IdleIsARequest DEF QuoteInit, QuoteInv, QuoteTypeOK, LinksAgree, SelectionIsOffered,
   RequestFits, IdleRequest

LEMMA QuoteStepKeeps == ASSUME QuoteInv, QuoteStep PROVE QuoteInv'
BY SearchIsStored, ArriveKeeps, AdvanceKeeps DEF QuoteStep

LEMMA StepKeeps == QuoteInv /\ [QuoteNext]_quoteVars => QuoteInv'
<1>1. CASE UNCHANGED quoteVars
  BY <1>1 DEF quoteVars, QuoteInv, QuoteTypeOK, LinksAgree, SelectionIsOffered,
     RequestFits, Selectable, OfferedRanks
<1> QED BY <1>1, QuoteStepKeeps, CrashKeeps DEF QuoteNext

-----------------------------------------------------------------------------
\* For any number of workers, requests and versions, and any crash: a request
\* that is under way fits the rows it will write.
THEOREM QuotesAreSafe == QuoteSpec => []QuoteInv
BY Initially, StepKeeps, PTL DEF QuoteSpec

\* Rows and requests keep their types.
THEOREM QuotesTypeCorrect == QuoteSpec => []QuoteTypeOK
<1>1. QuoteInv => QuoteTypeOK
  BY DEF QuoteInv
<1> QED BY <1>1, QuotesAreSafe, PTL

\* The version links never form a cycle and never lead nowhere, whichever
\* refreshes of one quote overlap and whichever worker dies between storing a
\* version and linking it.
THEOREM LinksCanBeWalked == QuoteSpec => []LinksAgree
<1>1. QuoteInv => LinksAgree
  BY DEF QuoteInv
<1> QED BY <1>1, QuotesAreSafe, PTL

\* A persisted selection only denotes products that Sabre offered in this very
\* version, one fare at most of each option.
THEOREM SelectionOffered == QuoteSpec => []SelectionIsOffered
<1>1. QuoteInv => SelectionIsOffered
  BY DEF QuoteInv
<1> QED BY <1>1, QuotesAreSafe, PTL

-----------------------------------------------------------------------------
(***************************************************************************)
(* Reserve                                                                 *)
(***************************************************************************)

JobType == [key : Keys \cup {None}, rank : Ranks \cup {None},
            fare : Fares \cup {None}]
ReplyType == [code : Codes, key : Keys \cup {None}, quote : Nat,
              rank : Ranks \cup {None}, got : Booking \cup {NoBooking}]

LEMMA CreationParts ==
    CreationInv <=> /\ QuoteInv
                    /\ bookings \in [Keys -> Booking \cup {NoBooking}]
                    /\ job \in [Slots -> JobType] /\ reply \in [Slots -> ReplyType]
                    /\ BookedWasOffered /\ RepliesFit
                    /\ \A s \in Slots : JobFits(s) /\ ReplyFits(s)
BY DEF CreationInv, CreationTypeOK, JobType, ReplyType

-----------------------------------------------------------------------------
(* The other requests about a quote                                        *)

\* Rows stay, and stay offered, when one is written ...
LEMMA WriteLeaves ==
    ASSUME QuoteInv, NEW s \in Slots, req[s].kind \notin {"none", "reserve"},
           NEW row, WriteQuote(s, row),
           row.offered = quotes[req[s].quote].offered
    PROVE  /\ Len(quotes') = Len(quotes)
           /\ \A q \in 1..Len(quotes) : quotes'[q].offered = quotes[q].offered
           /\ \A t \in Slots : req'[t].kind = "reserve" => req'[t] = req[t]
<1>1. /\ req[s].quote \in 1..Len(quotes) /\ req \in [Slots -> RequestType]
      /\ quotes \in Seq(QuoteRow)
  BY Parts DEF RequestFits
<1>2. /\ quotes' = [quotes EXCEPT ![req[s].quote] = row]
      /\ req' = [req EXCEPT ![s] = IdleRequest]
  BY DEF WriteQuote, Finish
<1>3. \A q \in 1..Len(quotes) : quotes'[q].offered = quotes[q].offered
  BY <1>1, <1>2
<1>4. \A t \in Slots : req'[t].kind = "reserve" => req'[t] = req[t]
  BY <1>1, <1>2 DEF IdleRequest
<1> QED BY <1>1, <1>2, <1>3, <1>4

\* ... or one is added.
LEMMA StoreLeaves ==
    ASSUME QuoteInv, NEW row, quotes' = Append(quotes, row)
    PROVE  /\ Len(quotes') = Len(quotes) + 1
           /\ \A q \in 1..Len(quotes) : quotes'[q].offered = quotes[q].offered
<1>1. quotes \in Seq(QuoteRow)
  BY Parts
<1> QED BY <1>1

\* A step about a quote leaves the Reserve requests alone and never takes an
\* offer back.
LEMMA QuoteStepLeaves ==
    ASSUME QuoteInv, QuoteStep
    PROVE  /\ Len(quotes) \in Nat /\ Len(quotes') \in Nat
           /\ Len(quotes) <= Len(quotes')
           /\ \A q \in 1..Len(quotes) : quotes'[q].offered = quotes[q].offered
           /\ \A t \in Slots : req'[t].kind = "reserve" => req'[t] = req[t]
<1> DEFINE Same == Len(quotes') = Len(quotes)
           Longer == Len(quotes') = Len(quotes) + 1
           Offered == \A q \in 1..Len(quotes) : quotes'[q].offered = quotes[q].offered
           Apart == \A t \in Slots : req'[t].kind = "reserve" => req'[t] = req[t]
<1>1. /\ quotes \in Seq(QuoteRow) /\ req \in [Slots -> RequestType]
      /\ Len(quotes) \in Nat
  BY Parts
<1>2. ASSUME NEW answer \in Answers, StoreSearch(answer) PROVE Longer /\ Offered /\ Apart
  <2>1. Apart
    BY <1>2 DEF StoreSearch
  <2> QED BY <1>2, <2>1, StoreLeaves DEF StoreSearch
<1>3. ASSUME NEW s \in Slots, Arrive(s) PROVE Same /\ Offered /\ Apart
  <2>1. PICK kind \in {"select", "clear", "draft", "workflow", "version"} :
          \E pc, q, choice, draft, update : Begin(s, kind, pc, q, choice, draft, update)
    BY <1>3 DEF Arrive, BeginSelect, BeginClear, BeginDraft, BeginWorkflow, BeginVersion
  <2>2. UNCHANGED quotes
    BY <2>1 DEF Begin
  <2>3. Apart
    BY <1>1, <2>1 DEF Begin
  <2> QED BY <2>2, <2>3
<1>4. ASSUME NEW s \in Slots, Advance(s) PROVE (Same \/ Longer) /\ Offered /\ Apart
  <2>1. CASE Select(s)
    <3> DEFINE row == [quotes[req[s].quote] EXCEPT !.ranks = req[s].choice.ranks,
                         !.fares = req[s].choice.fares, !.status = "selected"]
    <3>1. WriteQuote(s, row) /\ req[s].kind = "select"
      BY <2>1 DEF Select, At
    <3>2. row.offered = quotes[req[s].quote].offered
      BY <1>1, <3>1, OneRow, OneRequest DEF RequestFits, QuoteRow
    <3> HIDE DEF row
    <3> QED BY <3>1, <3>2, WriteLeaves
  <2>2. CASE ClearSelection(s)
    <3> DEFINE row == [quotes[req[s].quote] EXCEPT !.ranks = {}, !.fares = {},
                                                   !.status = "active"]
    <3>1. WriteQuote(s, row) /\ req[s].kind = "clear"
      BY <2>2 DEF ClearSelection, At
    <3>2. row.offered = quotes[req[s].quote].offered
      BY <1>1, <3>1, OneRow, OneRequest DEF RequestFits, QuoteRow
    <3> HIDE DEF row
    <3> QED BY <3>1, <3>2, WriteLeaves
  <2>3. CASE SaveDraft(s)
    <3> DEFINE row == [quotes[req[s].quote] EXCEPT !.draft = req[s].draft]
    <3>1. WriteQuote(s, row) /\ req[s].kind = "draft"
      BY <2>3 DEF SaveDraft, At
    <3>2. row.offered = quotes[req[s].quote].offered
      BY <1>1, <3>1, OneRow, OneRequest DEF RequestFits, QuoteRow
    <3> HIDE DEF row
    <3> QED BY <3>1, <3>2, WriteLeaves
  <2>4. CASE UpdateWorkflow(s)
    <3> DEFINE row == WorkflowRow(quotes[req[s].quote], req[s].seen, req[s].update)
    <3>1. WriteQuote(s, row) /\ req[s].kind = "workflow"
      BY <2>4 DEF UpdateWorkflow, At
    <3>2. row.offered = quotes[req[s].quote].offered
      <4>1. quotes[req[s].quote] \in QuoteRow /\ req[s] \in RequestType
        BY <3>1, OneRow, OneRequest DEF RequestFits
      <4> QED BY <4>1, WorkflowRowFits DEF RequestType
    <3> HIDE DEF row
    <3> QED BY <3>1, <3>2, WriteLeaves
  <2>5. ASSUME NEW answer \in Answers, StoreVersion(s, answer)
        PROVE  Longer /\ Offered /\ Apart
    <3>1. Apart
      BY <1>1, <2>5 DEF StoreVersion, At, RequestType
    <3> QED BY <2>5, <3>1, StoreLeaves DEF StoreVersion
  <2>6. CASE SearchFails(s) \/ ChildSuperseded(s)
    BY <1>1, <2>6 DEF SearchFails, ChildSuperseded, Finish, IdleRequest
  <2>7. CASE ReadChild(s)
    BY <1>1, <2>7 DEF ReadChild, At, RequestType
  <2>8. CASE InheritClient(s)
    <3> DEFINE row == WorkflowRow(quotes[req[s].child], req[s].seen, req[s].update)
    <3>1. /\ req[s].child \in 1..Len(quotes) /\ quotes[req[s].child] \in QuoteRow
          /\ req[s] \in RequestType
      BY <2>8, OneRow, OneRequest DEF InheritClient, At, RequestFits
    <3>2. row.offered = quotes[req[s].child].offered
      BY <3>1, WorkflowRowFits DEF RequestType
    <3>3. quotes' = [quotes EXCEPT ![req[s].child] = row]
      BY <1>1, <2>8, <3>1 DEF InheritClient
    <3> HIDE DEF row
    <3>4. Same /\ Offered
      BY <1>1, <3>1, <3>2, <3>3
    <3>5. Apart
      BY <1>1, <2>8 DEF InheritClient, At, RequestType
    <3> QED BY <3>4, <3>5
  <2>9. CASE LinkRefresh(s)
    <3> DEFINE row == [quotes[req[s].quote] EXCEPT !.next = req[s].child,
                                                   !.status = "superseded"]
    <3>1. WriteQuote(s, row) /\ req[s].kind = "version"
      BY <2>9 DEF LinkRefresh, At
    <3>2. row.offered = quotes[req[s].quote].offered
      BY <1>1, <3>1, OneRow, OneRequest DEF RequestFits, QuoteRow
    <3> HIDE DEF row
    <3> QED BY <3>1, <3>2, WriteLeaves
  <2> QED BY <1>4, <2>1, <2>2, <2>3, <2>4, <2>5, <2>6, <2>7, <2>8, <2>9 DEF Advance
<1>5. (Same \/ Longer) /\ Offered /\ Apart
  BY <1>2, <1>3, <1>4 DEF QuoteStep
<1> HIDE DEF Offered, Apart
<1>6. Len(quotes') \in Nat /\ Len(quotes) <= Len(quotes')
  BY <1>1, <1>5
<1> QED BY <1>1, <1>5, <1>6 DEF Offered, Apart

-----------------------------------------------------------------------------
(* The steps of Reserve                                                    *)

LEMMA NoJobIsAJob == NoJob \in JobType
BY DEF NoJob, JobType

\* What the invariant says of one Reserve request.
LEMMA OneJob ==
    ASSUME CreationInv, NEW s \in Slots
    PROVE  /\ job[s] \in JobType /\ JobFits(s) /\ QuoteInv
           /\ req[s] \in RequestType /\ RequestFits(s)
           /\ req \in [Slots -> RequestType] /\ job \in [Slots -> JobType]
           /\ reply \in [Slots -> ReplyType]
           /\ bookings \in [Keys -> Booking \cup {NoBooking}]
BY CreationParts, OneRequest, Parts

\* Without a new Booking or a change of the quotes, everything that is not
\* about the slot that moves still holds.
LEMMA SlotMoves ==
    ASSUME CreationInv, NEW s \in Slots, NEW r \in RequestType,
           req' = [req EXCEPT ![s] = r], turn' \in Turns,
           UNCHANGED <<quotes, bookings>>,
           job' \in [Slots -> JobType], reply' \in [Slots -> ReplyType],
           \A t \in Slots \ {s} : job'[t] = job[t] /\ reply'[t] = reply[t],
           RequestFits(s)', JobFits(s)', ReplyFits(s)',
           reply'[s].code = "booking" =>
             /\ reply'[s].got = bookings[reply'[s].key]
             /\ reply'[s].got.quote = reply'[s].quote
             /\ reply'[s].got.rank = reply'[s].rank
    PROVE  CreationInv'
<1>1. /\ QuoteInv /\ bookings \in [Keys -> Booking \cup {NoBooking}]
      /\ req \in [Slots -> RequestType] /\ BookedWasOffered /\ RepliesFit
      /\ \A t \in Slots : JobFits(t) /\ ReplyFits(t)
  BY CreationParts, OneJob
<1>2. QuoteInv'
  BY <1>1, RequestMoves
<1>3. BookedWasOffered'
  BY <1>1 DEF BookedWasOffered
<1>4. RepliesFit'
  <2>1. ASSUME NEW t \in Slots, reply'[t].code = "booking"
        PROVE  /\ reply'[t].got = bookings[reply'[t].key]
               /\ reply'[t].got.quote = reply'[t].quote
               /\ reply'[t].got.rank = reply'[t].rank
    <3>1. CASE t = s
      BY <2>1, <3>1
    <3>2. CASE t # s
      BY <1>1, <2>1, <3>2 DEF RepliesFit
    <3> QED BY <3>1, <3>2
  <2> QED BY <2>1 DEF RepliesFit
<1>5. ASSUME NEW t \in Slots PROVE JobFits(t)' /\ ReplyFits(t)'
  <2>1. CASE t = s
    BY <2>1
  <2>2. CASE t # s
    <3>1. /\ req'[t] = req[t] /\ job'[t] = job[t] /\ reply'[t] = reply[t]
          /\ JobFits(t) /\ ReplyFits(t)
      BY <1>1, <2>2
    <3> QED BY <3>1 DEF JobFits, ReplyFits, SameReservation
  <2> QED BY <2>1, <2>2
<1> QED BY <1>1, <1>2, <1>3, <1>4, <1>5 DEF CreationInv, CreationTypeOK, JobType,
        ReplyType

\* A request is answered and ends.
LEMMA AnswerKeeps ==
    ASSUME CreationInv, NEW s \in Slots, NEW code \in Codes, NEW key \in Keys,
           NEW q \in Nat, NEW rank \in Ranks, NEW got \in Booking \cup {NoBooking},
           Answer(s, code, key, q, rank, got), UNCHANGED bookings,
           code = "booking" => /\ got = bookings[key] /\ got # NoBooking
                               /\ got.quote = q /\ got.rank = rank
    PROVE  CreationInv'
<1> DEFINE a == [code |-> code, key |-> key, quote |-> q, rank |-> rank, got |-> got]
<1>1. /\ req' = [req EXCEPT ![s] = IdleRequest] /\ UNCHANGED quotes
      /\ reply' = [reply EXCEPT ![s] = a] /\ job' = [job EXCEPT ![s] = NoJob]
      /\ turn' \in Turns
  BY OneJob, TurnsChange DEF Answer, Finish
<1>2. /\ a \in ReplyType /\ a.code = code /\ a.key = key /\ a.quote = q
      /\ a.rank = rank /\ a.got = got
  BY DEF ReplyType
<1> HIDE DEF a
<1>3. /\ req'[s] = IdleRequest /\ reply'[s] = a
      /\ job' \in [Slots -> JobType] /\ reply' \in [Slots -> ReplyType]
      /\ \A t \in Slots \ {s} : job'[t] = job[t] /\ reply'[t] = reply[t]
  BY <1>1, <1>2, OneJob, NoJobIsAJob
<1>4. RequestFits(s)' /\ JobFits(s)' /\ ReplyFits(s)'
  BY <1>2, <1>3 DEF RequestFits, JobFits, ReplyFits, IdleRequest
<1> QED BY <1>1, <1>2, <1>3, <1>4, IdleIsARequest, SlotMoves

\* The answer of a Reserve request that was under way.
LEMMA EndKeeps ==
    ASSUME CreationInv, NEW s \in Slots, NEW code \in Codes,
           NEW got \in Booking \cup {NoBooking}, req[s].kind = "reserve",
           EndReserve(s, code, got), UNCHANGED bookings,
           code = "booking" => /\ got = bookings[job[s].key] /\ got # NoBooking
                               /\ SameReservation(s, got)
    PROVE  CreationInv'
<1>1. job[s].key \in Keys /\ job[s].rank \in Ranks /\ req[s].quote \in Nat
  BY OneJob DEF JobFits, RequestType
<1>2. ASSUME NEW k, k = job[s].key, NEW q, q = req[s].quote, NEW x, x = job[s].rank
      PROVE  CreationInv'
  BY <1>1, <1>2, AnswerKeeps DEF EndReserve, SameReservation
<1> QED BY <1>2

\* A Reserve request moves to another point of its own.
LEMMA ReserveMoves ==
    ASSUME CreationInv, NEW s \in Slots, NEW r \in RequestType,
           req' = [req EXCEPT ![s] = r], KeepRunning(s),
           UNCHANGED <<quotes, bookings, reply>>,
           NEW j \in JobType, job' = [job EXCEPT ![s] = j],
           r.kind = "reserve", r.quote \in 1..Len(quotes),
           j.key \in Keys, j.rank \in Ranks,
           r.pc \in {"lookup", "insert"} =>
             /\ <<j.rank, j.fare>> \in quotes[r.quote].offered
             /\ j.rank \notin Unbookable,
           r.pc \in {"fares", "lookup", "insert"}
    PROVE  CreationInv'
<1>1. /\ req'[s] = r /\ job'[s] = j /\ turn' \in Turns
      /\ job' \in [Slots -> JobType] /\ reply' \in [Slots -> ReplyType]
      /\ \A t \in Slots \ {s} : job'[t] = job[t] /\ reply'[t] = reply[t]
  BY OneJob, TurnsChange
<1>2. RequestFits(s)' /\ JobFits(s)'
  BY <1>1 DEF RequestFits, JobFits
<1>3. RepliesFit /\ ReplyFits(s)
  BY CreationParts
<1>4. ReplyFits(s)'
  BY <1>3 DEF ReplyFits
<1>5. reply'[s].code = "booking" =>
        /\ reply'[s].got = bookings[reply'[s].key]
        /\ reply'[s].got.quote = reply'[s].quote
        /\ reply'[s].got.rank = reply'[s].rank
  BY <1>3 DEF RepliesFit
<1> QED BY <1>1, <1>2, <1>4, <1>5, SlotMoves

\* The insert: the key had no Booking, so nobody was answered with one for it.
LEMMA InsertKeeps ==
    ASSUME CreationInv, NEW s \in Slots, InsertBooking(s)
    PROVE  CreationInv'
<1> DEFINE b == [quote |-> req[s].quote, rank |-> job[s].rank, fare |-> job[s].fare]
           r == [req[s] EXCEPT !.pc = "reread"]
           k == job[s].key
<1>1. /\ QuoteInv /\ bookings \in [Keys -> Booking \cup {NoBooking}]
      /\ req \in [Slots -> RequestType] /\ BookedWasOffered /\ RepliesFit
      /\ \A t \in Slots : JobFits(t) /\ ReplyFits(t)
      /\ req[s] \in RequestType /\ RequestFits(s) /\ JobFits(s)
      /\ job \in [Slots -> JobType] /\ reply \in [Slots -> ReplyType]
  BY CreationParts, OneJob
<1>2. /\ req[s].kind = "reserve" /\ req[s].pc = "insert" /\ bookings[k] = NoBooking
      /\ bookings' = [bookings EXCEPT ![k] = b] /\ UNCHANGED <<quotes, job, reply>>
      /\ turn' \in Turns
  BY <1>1, TurnsChange DEF InsertBooking, At, KeyIsFree
<1>3. /\ k \in Keys /\ job[s].rank \in Ranks /\ req[s].quote \in 1..Len(quotes)
      /\ <<job[s].rank, job[s].fare>> \in quotes[req[s].quote].offered
      /\ job[s].rank \notin Unbookable
  BY <1>1, <1>2 DEF JobFits, RequestFits
<1>4. job[s].fare \in Fares /\ req[s].quote \in Nat /\ req[s].quote # 0
  BY <1>1, <1>3, OneRow DEF QuoteRow
<1>5. /\ b \in Booking /\ b # NoBooking /\ b.quote = req[s].quote
      /\ b.rank = job[s].rank /\ b.fare = job[s].fare
  BY <1>3, <1>4 DEF Booking, NoBooking
<1>6. /\ r \in RequestType /\ r.kind = "reserve" /\ r.quote = req[s].quote
      /\ r.pc = "reread"
  BY <1>1, <1>2 DEF RequestType, ReservePcs
<1>7. req' = [req EXCEPT ![s] = r] /\ req'[s] = r
  BY <1>1 DEF InsertBooking
<1> HIDE DEF b, r
<1>8. /\ bookings' \in [Keys -> Booking \cup {NoBooking}] /\ bookings'[k] = b
      /\ \A l \in Keys : l # k => bookings'[l] = bookings[l]
  BY <1>1, <1>2, <1>3, <1>5
<1>9. QuoteInv'
  <2>1. RequestFits(s)'
    BY <1>2, <1>3, <1>6, <1>7 DEF RequestFits
  <2> QED BY <1>1, <1>2, <1>6, <1>7, <2>1, RequestMoves
<1>10. BookedWasOffered'
  <2>1. ASSUME NEW l \in Keys, bookings'[l] # NoBooking
        PROVE  /\ bookings'[l].quote \in 1..Len(quotes)
               /\ <<bookings'[l].rank, bookings'[l].fare>>
                    \in quotes[bookings'[l].quote].offered
               /\ bookings'[l].rank \notin Unbookable
    <3>1. CASE l = k
      BY <1>3, <1>5, <1>8, <3>1
    <3>2. CASE l # k
      <4>1. bookings'[l] = bookings[l]
        BY <1>8, <3>2
      <4> QED BY <1>1, <2>1, <4>1 DEF BookedWasOffered
    <3> QED BY <3>1, <3>2
  <2> QED BY <1>2, <2>1 DEF BookedWasOffered
<1>11. RepliesFit'
  <2>1. ASSUME NEW t \in Slots, reply[t].code = "booking"
        PROVE  bookings'[reply[t].key] = bookings[reply[t].key]
    <3>1. reply[t].key \in Keys /\ bookings[reply[t].key] # NoBooking
      BY <1>1, <2>1 DEF ReplyFits, RepliesFit
    <3> QED BY <1>2, <1>8, <3>1
  <2> QED BY <1>1, <1>2, <2>1 DEF RepliesFit
<1>12. ASSUME NEW t \in Slots PROVE JobFits(t)' /\ ReplyFits(t)'
  <2>1. JobFits(t) /\ ReplyFits(t)
    BY <1>1
  <2>2. ReplyFits(t)'
    BY <1>2, <2>1 DEF ReplyFits
  <2>3. CASE t = s
    <3>1. SameReservation(s, bookings[k])'
      BY <1>2, <1>5, <1>6, <1>7, <1>8 DEF SameReservation
    <3> QED BY <1>2, <1>3, <1>5, <1>6, <1>7, <1>8, <2>2, <2>3, <3>1 DEF JobFits
  <2>4. CASE t # s
    <3>1. req'[t] = req[t]
      BY <1>1, <1>7, <2>4
    <3>2. CASE req[t].kind = "reserve" /\ req[t].pc = "reread"
      <4>1. job[t].key \in Keys /\ bookings[job[t].key] # NoBooking
            /\ SameReservation(t, bookings[job[t].key])
        BY <2>1, <3>2 DEF JobFits
      <4>2. bookings'[job[t].key] = bookings[job[t].key]
        BY <1>2, <1>8, <4>1
      <4> QED BY <1>2, <2>1, <2>2, <3>1, <3>2, <4>1, <4>2 DEF JobFits, SameReservation
    <3>3. CASE ~(req[t].kind = "reserve" /\ req[t].pc = "reread")
      BY <1>2, <2>1, <2>2, <3>1, <3>3 DEF JobFits
    <3> QED BY <3>2, <3>3
  <2> QED BY <2>3, <2>4
<1> QED BY <1>1, <1>2, <1>8, <1>9, <1>10, <1>11, <1>12 DEF CreationInv, CreationTypeOK,
        JobType, ReplyType

LEMMA ReserveStepKeeps ==
    ASSUME CreationInv, NEW s \in Slots, ReserveStep(s)
    PROVE  CreationInv'
<1>1. /\ QuoteInv /\ req \in [Slots -> RequestType] /\ req[s] \in RequestType
      /\ bookings \in [Keys -> Booking \cup {NoBooking}]
      /\ job[s] \in JobType /\ RequestFits(s) /\ JobFits(s)
      /\ job \in [Slots -> JobType]
      /\ Len(quotes) \in Nat
  BY OneJob, Parts
<1>2. req[s].kind = "reserve" => /\ req[s].quote \in 1..Len(quotes)
                                 /\ job[s].key \in Keys /\ job[s].rank \in Ranks
                                 /\ bookings[job[s].key] \in Booking \cup {NoBooking}
  BY <1>1 DEF RequestFits, JobFits
<1>3. {"booking", "history", "selection", "reused_key"} \subseteq Codes
  BY DEF Codes
<1>4. ASSUME NEW key \in Keys, NEW q \in 1..Len(quotes), NEW rank \in Ranks,
             Reserve(s, key, q, rank)
      PROVE  CreationInv'
  <2> DEFINE r == [IdleRequest EXCEPT !.kind = "reserve", !.pc = "fares", !.quote = q]
             j == [key |-> key, rank |-> rank, fare |-> None]
  <2>1. /\ r \in RequestType /\ r.kind = "reserve" /\ r.pc = "fares" /\ r.quote = q
    <3>1. q \in Nat /\ "reserve" \in Kinds /\ "fares" \in QuotePcs \cup ReservePcs
      BY <1>1 DEF Kinds, ReservePcs
    <3> QED BY <3>1, IdleIsARequest DEF RequestType
  <2>2. j \in JobType /\ j.key = key /\ j.rank = rank
    BY DEF JobType
  <2>3. /\ req' = [req EXCEPT ![s] = r] /\ job' = [job EXCEPT ![s] = j]
        /\ KeepRunning(s) /\ UNCHANGED <<quotes, bookings, reply>>
    BY <1>4 DEF Reserve
  <2> HIDE DEF r, j
  <2> QED BY <2>1, <2>2, <2>3, ReserveMoves
<1>5. ASSUME NEW key \in Keys, NEW q \in 1..Len(quotes), NEW rank \in Ranks,
             RefuseReserve(s, key, q, rank)
      PROVE  CreationInv'
  BY <1>1, <1>3, <1>5, AnswerKeeps DEF RefuseReserve
<1>6. CASE ReadFares(s)
  <2>1. /\ req[s].kind = "reserve" /\ Freezable(req[s].quote, job[s].rank)
        /\ KeepRunning(s) /\ UNCHANGED <<quotes, bookings, reply>>
    BY <1>6 DEF ReadFares, At
  <2>2. PICK f \in FaresOf(req[s].quote, job[s].rank) :
          job' = [job EXCEPT ![s].fare = f[2]]
    BY <1>6 DEF ReadFares
  <2>3. /\ quotes[req[s].quote] \in QuoteRow /\ RowFits(req[s].quote)
    BY <1>1, <1>2, <2>1, OneRow
  <2>4. /\ f \in quotes[req[s].quote].offered /\ f \in Ranks \X Fares
        /\ f[1] = job[s].rank
    BY <2>2, <2>3 DEF RowFits, FaresOf, QuoteRow
  <2> DEFINE r == [req[s] EXCEPT !.pc = "lookup"]
             j == [job[s] EXCEPT !.fare = f[2]]
  <2>5. j \in JobType /\ j.key = job[s].key /\ j.rank = job[s].rank /\ j.fare = f[2]
    BY <1>1, <2>4 DEF JobType
  <2>6. /\ r \in RequestType /\ r.kind = "reserve" /\ r.pc = "lookup"
        /\ r.quote = req[s].quote
    BY <1>1, <2>1 DEF RequestType, ReservePcs
  <2>7. req' = [req EXCEPT ![s] = r] /\ job' = [job EXCEPT ![s] = j]
    BY <1>1, <1>6, <2>2 DEF ReadFares, RequestType, JobType
  <2>8. <<j.rank, j.fare>> \in quotes[r.quote].offered /\ j.rank \notin Unbookable
    BY <2>1, <2>4, <2>5, <2>6 DEF Freezable
  <2> HIDE DEF r, j
  <2> QED BY <1>2, <2>1, <2>5, <2>6, <2>7, <2>8, ReserveMoves
<1>7. CASE NothingToFreeze(s)
  BY <1>3, <1>7, EndKeeps DEF NothingToFreeze, At
<1>8. CASE FoundExisting(s)
  <2>1. req[s].kind = "reserve" /\ bookings[job[s].key] # NoBooking /\ UNCHANGED bookings
    BY <1>8 DEF FoundExisting, At
  <2>2. CASE SameReservation(s, bookings[job[s].key])
    BY <1>2, <1>3, <1>8, <2>1, <2>2, EndKeeps DEF FoundExisting
  <2>3. CASE ~SameReservation(s, bookings[job[s].key])
    BY <1>3, <1>8, <2>1, <2>3, EndKeeps DEF FoundExisting
  <2> QED BY <2>2, <2>3
<1>9. CASE FoundNone(s)
  <2> DEFINE r == [req[s] EXCEPT !.pc = "insert"]
  <2>1. /\ req[s].kind = "reserve" /\ req[s].pc = "lookup" /\ KeepRunning(s)
        /\ UNCHANGED <<quotes, bookings, reply>>
        /\ job' = [job EXCEPT ![s] = job[s]]
    BY <1>1, <1>9 DEF FoundNone, At
  <2>2. /\ r \in RequestType /\ r.kind = "reserve" /\ r.pc = "insert"
        /\ r.quote = req[s].quote
    BY <1>1, <2>1 DEF RequestType, ReservePcs
  <2>3. req' = [req EXCEPT ![s] = r]
    BY <1>1, <1>9 DEF FoundNone
  <2>4. /\ <<job[s].rank, job[s].fare>> \in quotes[r.quote].offered
        /\ job[s].rank \notin Unbookable
    BY <1>1, <2>1, <2>2 DEF JobFits
  <2> HIDE DEF r
  <2> QED BY <1>1, <1>2, <2>1, <2>2, <2>3, <2>4, ReserveMoves
<1>10. CASE LoseInsert(s)
  <2>1. req[s].kind = "reserve" /\ bookings[job[s].key] # NoBooking /\ UNCHANGED bookings
    BY <1>10 DEF LoseInsert, KeyIsFree, At
  <2>2. CASE SameReservation(s, bookings[job[s].key])
    BY <1>2, <1>3, <1>10, <2>1, <2>2, EndKeeps DEF LoseInsert
  <2>3. CASE ~SameReservation(s, bookings[job[s].key])
    BY <1>3, <1>10, <2>1, <2>3, EndKeeps DEF LoseInsert
  <2> QED BY <2>2, <2>3
<1>11. CASE Reread(s)
  <2>1. /\ req[s].kind = "reserve" /\ UNCHANGED bookings
        /\ bookings[job[s].key] # NoBooking
        /\ SameReservation(s, bookings[job[s].key])
        /\ EndReserve(s, "booking", bookings[job[s].key])
    BY <1>1, <1>11 DEF Reread, At, JobFits
  <2> QED BY <1>2, <1>3, <2>1, EndKeeps
<1> QED BY <1>4, <1>5, <1>6, <1>7, <1>8, <1>9, <1>10, <1>11, InsertKeeps DEF ReserveStep

LEMMA CreationInitially == CreationInit => CreationInv
<1> SUFFICES ASSUME CreationInit PROVE CreationInv
  OBVIOUS
<1>1. QuoteInv /\ NoJob \in JobType /\ NoReply \in ReplyType
  BY Initially, NoJobIsAJob DEF CreationInit, NoReply, ReplyType, Codes
<1>2. CreationTypeOK
  BY <1>1 DEF CreationInit, CreationTypeOK, JobType, ReplyType
<1>3. BookedWasOffered /\ RepliesFit
  BY DEF CreationInit, BookedWasOffered, RepliesFit, NoReply
<1>4. \A s \in Slots : JobFits(s) /\ ReplyFits(s)
  BY DEF CreationInit, QuoteInit, JobFits, ReplyFits, NoReply, IdleRequest
<1> QED BY <1>1, <1>2, <1>3, <1>4 DEF CreationInv

LEMMA CreationStepKeeps == CreationInv /\ [CreationNext]_allVars => CreationInv'
<1> SUFFICES ASSUME CreationInv, [CreationNext]_allVars PROVE CreationInv'
  OBVIOUS
<1>1. /\ QuoteInv /\ CreationTypeOK /\ BookedWasOffered /\ RepliesFit
      /\ req \in [Slots -> RequestType]
      /\ \A s \in Slots : JobFits(s) /\ ReplyFits(s) /\ RequestFits(s)
  BY Parts DEF CreationInv
<1>2. CASE QuoteStep /\ UNCHANGED creationVars
  <2>1. /\ QuoteInv' /\ UNCHANGED <<bookings, job, reply>>
        /\ Len(quotes) \in Nat /\ Len(quotes') \in Nat /\ Len(quotes) <= Len(quotes')
        /\ \A q \in 1..Len(quotes) : quotes'[q].offered = quotes[q].offered
        /\ \A t \in Slots : req'[t].kind = "reserve" => req'[t] = req[t]
    BY <1>1, <1>2, QuoteStepKeeps, QuoteStepLeaves DEF creationVars
  <2>2. CreationTypeOK' /\ RepliesFit'
    BY <1>1, <2>1 DEF CreationTypeOK, RepliesFit
  <2>3. BookedWasOffered'
    <3>1. ASSUME NEW k \in Keys, bookings[k] # NoBooking
          PROVE  /\ bookings[k].quote \in 1..Len(quotes')
                 /\ <<bookings[k].rank, bookings[k].fare>>
                      \in quotes'[bookings[k].quote].offered
                 /\ bookings[k].rank \notin Unbookable
      BY <1>1, <2>1, <3>1 DEF BookedWasOffered
    <3> QED BY <2>1, <3>1 DEF BookedWasOffered
  <2>4. ASSUME NEW s \in Slots PROVE JobFits(s)' /\ ReplyFits(s)'
    <3>1. JobFits(s) /\ ReplyFits(s) /\ RequestFits(s)
      BY <1>1
    <3>2. CASE req'[s].kind = "reserve"
      <4>1. req'[s] = req[s] /\ req[s].quote \in 1..Len(quotes)
        BY <2>1, <3>1, <3>2 DEF RequestFits
      <4> QED BY <2>1, <3>1, <4>1 DEF JobFits, ReplyFits, SameReservation
    <3>3. CASE req'[s].kind # "reserve"
      BY <2>1, <3>1, <3>3 DEF JobFits, ReplyFits
    <3> QED BY <3>2, <3>3
  <2> QED BY <2>1, <2>2, <2>3, <2>4 DEF CreationInv
<1>3. ASSUME NEW p \in Procs, CreationCrash(p) PROVE CreationInv'
  <2>1. /\ QuoteInv' /\ UNCHANGED <<quotes, bookings, reply>>
        /\ \A s \in Slots : \/ req'[s] = IdleRequest /\ job'[s] = NoJob
                            \/ req'[s] = req[s] /\ job'[s] = job[s]
        /\ job' \in [Slots -> JobType]
    <3>1. QuoteInv' /\ UNCHANGED <<quotes, bookings, reply>>
      BY <1>1, <1>3, CrashKeeps DEF CreationCrash, Crash
    <3>2. \A s \in Slots : \/ req'[s] = IdleRequest /\ job'[s] = NoJob
                           \/ req'[s] = req[s] /\ job'[s] = job[s]
      <4>1. /\ req' = [s \in Slots |->
                       IF Home[s] = p THEN IdleRequest ELSE req[s]]
            /\ job' = [s \in Slots |-> IF Home[s] = p THEN NoJob ELSE job[s]]
        BY <1>3 DEF CreationCrash, Crash
      <4> QED BY ONLY <4>1
    <3>3. job' \in [Slots -> JobType]
      <4>1. job \in [Slots -> JobType]
        BY CreationParts
      <4>2. job' = [s \in Slots |-> IF Home[s] = p THEN NoJob ELSE job[s]]
        BY <1>3 DEF CreationCrash
      <4>3. ASSUME NEW s \in Slots
            PROVE  (IF Home[s] = p THEN NoJob ELSE job[s]) \in JobType
        BY <4>1, NoJobIsAJob
      <4> QED BY ONLY <4>2, <4>3
    <3> QED BY <3>1, <3>2, <3>3
  <2>2. CreationTypeOK' /\ RepliesFit' /\ BookedWasOffered'
    BY <1>1, <2>1 DEF CreationTypeOK, RepliesFit, BookedWasOffered, JobType
  <2>3. ASSUME NEW s \in Slots PROVE JobFits(s)' /\ ReplyFits(s)'
    <3>1. JobFits(s) /\ ReplyFits(s)
      BY <1>1
    <3> QED BY <2>1, <3>1 DEF JobFits, ReplyFits, SameReservation, IdleRequest
  <2> QED BY <2>1, <2>2, <2>3 DEF CreationInv
<1>4. CASE UNCHANGED allVars
  <2>1. UNCHANGED <<quotes, req, turn, bookings, job, reply>>
    BY <1>4 DEF allVars
  <2>2. QuoteInv'
    BY <1>1, <2>1, StepKeeps DEF quoteVars
  <2>3. CreationTypeOK' /\ RepliesFit' /\ BookedWasOffered'
    BY <1>1, <2>1 DEF CreationTypeOK, RepliesFit, BookedWasOffered
  <2>4. \A s \in Slots : JobFits(s)' /\ ReplyFits(s)'
    BY <1>1, <2>1 DEF JobFits, ReplyFits, SameReservation
  <2> QED BY <2>2, <2>3, <2>4 DEF CreationInv
<1> QED BY <1>2, <1>3, <1>4, ReserveStepKeeps DEF CreationNext

-----------------------------------------------------------------------------
\* For any number of workers, requests, keys and quotes: what a Reserve request
\* carries fits the quote it read and the Booking of its key.
THEOREM CreationIsSafe == CreationSpec => []CreationInv
BY CreationInitially, CreationStepKeeps, PTL DEF CreationSpec

\* Every Booking sells a product that Sabre offered in its quote, with a booking
\* class, whatever selections and refreshes raced with Reserve.
THEOREM Offered == CreationSpec => []BookedWasOffered
<1>1. CreationInv => BookedWasOffered
  BY DEF CreationInv
<1> QED BY <1>1, CreationIsSafe, PTL

\* A client that got a Booking had asked for that quote and that option, and the
\* Booking is still the one of its key.
THEOREM Answered == CreationSpec => []RepliesFit
<1>1. CreationInv => RepliesFit
  BY DEF CreationInv
<1> QED BY <1>1, CreationIsSafe, PTL

\* Keys, Bookings and answers keep their types.
THEOREM CreationTypeCorrect == CreationSpec => []CreationTypeOK
<1>1. CreationInv => CreationTypeOK
  BY DEF CreationInv
<1> QED BY <1>1, CreationIsSafe, PTL

-----------------------------------------------------------------------------
(* The refinement                                                          *)

\* An answer tells the client of its key's Booking, or refuses.
LEMMA AnswerTells ==
    ASSUME CreationInv, NEW s \in Slots, NEW code \in Codes, NEW key \in Keys,
           NEW q, NEW rank, NEW got, Answer(s, code, key, q, rank, got),
           UNCHANGED bookings,
           code = "booking" => got = bookings[key] /\ got # NoBooking
    PROVE  Once!Next
<1> DEFINE a == [code |-> code, key |-> key, quote |-> q, rank |-> rank, got |-> got]
           t == IF code = "booking" THEN [key |-> key, product |-> got] ELSE None
<1>1. /\ reply \in [Slots -> ReplyType]
      /\ bookings \in [Keys -> Booking \cup {NoBooking}]
  BY OneJob
<1>2. reply' = [reply EXCEPT ![s] = a]
  BY DEF Answer
<1>3. ToldAll' = [ToldAll EXCEPT ![s] = t]
  BY <1>1, <1>2 DEF ToldAll, Told
<1>4. Booked' = Booked
  BY DEF Booked
<1>5. CASE code = "booking"
  <2>1. Booked[key] = got /\ got # None
    BY <1>1, <1>5, CreationAssumption DEF Booked
  <2>2. ToldAll' = [ToldAll EXCEPT ![s] = [key |-> key, product |-> Booked[key]]]
    BY <1>3, <1>5, <2>1
  <2>3. Once!Tell(s, key)
    BY <1>4, <2>1, <2>2 DEF Once!Tell
  <2> QED BY <2>3 DEF Once!Next
<1>6. CASE code # "booking"
  <2>1. ToldAll' = [ToldAll EXCEPT ![s] = None]
    BY <1>3, <1>6
  <2>2. Once!Refuse(s)
    BY <1>4, <2>1 DEF Once!Refuse
  <2> QED BY <2>2 DEF Once!Next
<1> QED BY <1>5, <1>6

LEMMA EndTells ==
    ASSUME CreationInv, NEW s \in Slots, NEW code \in Codes, NEW got,
           req[s].kind = "reserve", EndReserve(s, code, got), UNCHANGED bookings,
           code = "booking" => got = bookings[job[s].key] /\ got # NoBooking
    PROVE  Once!Next
<1>1. job[s].key \in Keys
  BY OneJob DEF JobFits
<1> QED BY <1>1, AnswerTells DEF EndReserve

\* The insert is the one step that books.
LEMMA InsertBooks ==
    ASSUME CreationInv, NEW s \in Slots, InsertBooking(s)
    PROVE  Once!Next
<1> DEFINE b == [quote |-> req[s].quote, rank |-> job[s].rank, fare |-> job[s].fare]
           k == job[s].key
<1>1. /\ JobFits(s) /\ RequestFits(s) /\ req[s] \in RequestType /\ QuoteInv
      /\ bookings \in [Keys -> Booking \cup {NoBooking}]
  BY OneJob
<1>2. /\ req[s].kind = "reserve" /\ req[s].pc = "insert" /\ bookings[k] = NoBooking
      /\ bookings' = [bookings EXCEPT ![k] = b] /\ UNCHANGED <<quotes, job, reply>>
  BY DEF InsertBooking, At, KeyIsFree
<1>3. /\ k \in Keys /\ job[s].rank \in Ranks /\ req[s].quote \in 1..Len(quotes)
      /\ <<job[s].rank, job[s].fare>> \in quotes[req[s].quote].offered
  BY <1>1, <1>2 DEF JobFits, RequestFits
<1>4. job[s].fare \in Fares /\ req[s].quote \in Nat /\ req[s].quote # 0
  BY <1>1, <1>3, OneRow DEF QuoteRow
<1>5. b \in Booking /\ b # NoBooking
  BY <1>3, <1>4 DEF Booking, NoBooking
<1> HIDE DEF b
<1>6. Booked[k] = None /\ Booked' = [Booked EXCEPT ![k] = b] /\ Booked'[k] = b
  BY <1>1, <1>2, <1>3, <1>5 DEF Booked
<1>7. ToldAll' = ToldAll
  BY <1>2 DEF ToldAll, Told
<1>8. Once!Book(k)
  BY <1>5, <1>6, <1>7 DEF Once!Book
<1> QED BY <1>3, <1>8 DEF Once!Next

\* Whatever races with it, Reserve keeps the promise of ReserveOnce: one Booking
\* per client_request_id, never changed, and no client is answered with another.
THEOREM ImplementsReserveOnce == CreationSpec => ReservesOnce
<1>1. CreationInit => Once!Init
  <2> SUFFICES ASSUME CreationInit PROVE Once!Init
    OBVIOUS
  <2>1. Booked = [k \in Keys |-> None] /\ ToldAll = [s \in Slots |-> None]
    BY DEF CreationInit, Booked, ToldAll, Told, NoReply
  <2> QED BY <2>1 DEF Once!Init
<1>2. ASSUME CreationInv, [CreationNext]_allVars
      PROVE  Once!Next \/ UNCHANGED <<Booked, ToldAll>>
  <2>1. ASSUME UNCHANGED <<bookings, reply>> PROVE UNCHANGED <<Booked, ToldAll>>
    BY <2>1 DEF Booked, ToldAll, Told
  <2>2. CASE \/ QuoteStep /\ UNCHANGED creationVars
             \/ \E p \in Procs : CreationCrash(p)
             \/ UNCHANGED allVars
    BY <2>1, <2>2 DEF creationVars, CreationCrash, allVars
  <2>3. ASSUME NEW s \in Slots, ReserveStep(s)
        PROVE  Once!Next \/ UNCHANGED <<Booked, ToldAll>>
    <3>1. {"booking", "history", "selection", "reused_key"} \subseteq Codes
      BY DEF Codes
    <3>2. ASSUME NEW key \in Keys, NEW q \in 1..Len(quotes), NEW rank \in Ranks,
                 Reserve(s, key, q, rank) \/ RefuseReserve(s, key, q, rank)
          PROVE  Once!Next \/ UNCHANGED <<Booked, ToldAll>>
      <4>1. CASE Reserve(s, key, q, rank)
        BY <2>1, <4>1 DEF Reserve
      <4>2. CASE RefuseReserve(s, key, q, rank)
        BY <1>2, <3>1, <4>2, AnswerTells DEF RefuseReserve
      <4> QED BY <3>2, <4>1, <4>2
    <3>3. CASE ReadFares(s) \/ FoundNone(s)
      BY <2>1, <3>3 DEF ReadFares, FoundNone
    <3>4. CASE NothingToFreeze(s)
      BY <1>2, <3>1, <3>4, EndTells DEF NothingToFreeze, At
    <3>5. CASE FoundExisting(s)
      BY <1>2, <3>1, <3>5, EndTells DEF FoundExisting, At
    <3>6. CASE LoseInsert(s)
      BY <1>2, <3>1, <3>6, EndTells DEF LoseInsert, KeyIsFree, At
    <3>7. CASE Reread(s)
      BY <1>2, <3>1, <3>7, EndTells, OneJob DEF Reread, At, JobFits
    <3>8. CASE InsertBooking(s)
      BY <1>2, <3>8, InsertBooks
    <3> QED BY <2>3, <3>2, <3>3, <3>4, <3>5, <3>6, <3>7, <3>8 DEF ReserveStep
  <2> QED BY <1>2, <2>2, <2>3 DEF CreationNext
<1>3. CreationInv /\ [CreationNext]_allVars => [Once!Next]_(Once!onceVars)
  BY <1>2 DEF Once!onceVars
<1> QED BY <1>1, <1>3, CreationIsSafe, PTL DEF CreationSpec, ReservesOnce, Once!Spec

-----------------------------------------------------------------------------
(***************************************************************************)
(* One worker: LoopInv.  A request keeps the event loop from its read to   *)
(* its write, so nobody else is between the two and what it read holds.    *)
(***************************************************************************)

OneWorker == \A p, q \in Procs : p = q

\* While one request runs, the others have nothing in hand.
LEMMA OthersWait ==
    ASSUME OneWorker, LoopInv, NEW s \in Slots, MayRun(s),
           NEW t \in Slots, t # s
    PROVE  req[t].pc \in {"idle", "sabre"}
<1>1. Home[s] = Home[t]
  BY QuoteAssumption DEF OneWorker
<1>2. turn[Home[t]] # t
  BY <1>1, QuoteAssumption DEF MayRun
<1> QED BY <1>2 DEF LoopInv, LoopFits

\* So only the request that runs has something to keep.
LEMMA LoopMoves ==
    ASSUME OneWorker, LoopInv, NEW s \in Slots, MayRun(s),
           \A t \in Slots : t # s => req'[t] = req[t],
           SuccessorTold', LoopFits(s)'
    PROVE  LoopInv'
<1>1. ASSUME NEW t \in Slots, t # s PROVE LoopFits(t)'
  <2>1. req'[t].pc \in {"idle", "sabre"}
    BY <1>1, OthersWait
  <2> QED BY <2>1 DEF LoopFits
<1> QED BY <1>1 DEF LoopInv

\* A request ends: it has nothing left to keep.
LEMMA LoopEnds ==
    ASSUME CreationInv, OneWorker, LoopInv, NEW s \in Slots, MayRun(s),
           req' = [req EXCEPT ![s] = IdleRequest], SuccessorTold'
    PROVE  LoopInv'
<1>1. req \in [Slots -> RequestType]
  BY OneJob
<1>2. req'[s] = IdleRequest /\ \A t \in Slots : t # s => req'[t] = req[t]
  BY <1>1
<1>3. LoopFits(s)'
  BY <1>2 DEF LoopFits, IdleRequest
<1> QED BY <1>2, <1>3, LoopMoves

\* Rows that were told are told when one more is stored.
LEMMA StoreTells ==
    ASSUME QuoteInv, SuccessorTold, NEW row, row.next = 0,
           quotes' = Append(quotes, row)
    PROVE  SuccessorTold'
<1>1. /\ Len(quotes') = Len(quotes) + 1 /\ quotes'[Len(quotes) + 1] = row
      /\ \A q \in 1..Len(quotes) : quotes'[q] = quotes[q]
      /\ Len(quotes) \in Nat
  BY Parts
<1>2. ASSUME NEW q \in 1..Len(quotes'), quotes'[q].next # 0
      PROVE  quotes'[q].status = "superseded"
  <2>1. q \in 1..Len(quotes)
    BY <1>1, <1>2
  <2> QED BY <1>1, <1>2, <2>1 DEF SuccessorTold
<1> QED BY <1>2 DEF SuccessorTold

\* The write of a request on the newest version, and the link.
LEMMA WriteTells ==
    ASSUME QuoteInv, SuccessorTold, NEW q \in 1..Len(quotes), NEW row,
           row.next # 0 => row.status = "superseded",
           quotes' = [quotes EXCEPT ![q] = row]
    PROVE  SuccessorTold'
<1>1. quotes \in Seq(QuoteRow)
  BY Parts
<1> QED BY <1>1 DEF SuccessorTold

LEMMA LoopBegins == CreationInit => LoopInv
BY DEF CreationInit, QuoteInit, LoopInv, SuccessorTold, LoopFits, IdleRequest

\* A request begins with the read of the newest version.
LEMMA LoopArrives ==
    ASSUME CreationInv, OneWorker, LoopInv, NEW s \in Slots, Arrive(s),
           UNCHANGED job
    PROVE  LoopInv'
<1>1. PICK q \in 1..Len(quotes) :
        \/ \E choice \in Selections : BeginSelect(s, q, choice)
        \/ BeginClear(s, q)
        \/ \E draft \in Drafts \cup {None} : BeginDraft(s, q, draft)
        \/ \E update \in Updates : BeginWorkflow(s, q, update)
        \/ BeginVersion(s, q)
  BY DEF Arrive
<1>2. \E kind, pc, choice, draft, update :
           /\ kind \in {"select", "clear", "draft", "workflow", "version"}
           /\ Begin(s, kind, pc, q, choice, draft, update)
           /\ \/ pc = "write" /\ KeepRunning(s)
              \/ pc = "sabre"
  BY <1>1 DEF BeginSelect, BeginClear, BeginDraft, BeginWorkflow, BeginVersion
<1>3. PICK kind, pc, choice, draft, update :
           /\ kind \in {"select", "clear", "draft", "workflow", "version"}
           /\ Begin(s, kind, pc, q, choice, draft, update)
           /\ \/ pc = "write" /\ KeepRunning(s)
              \/ pc = "sabre"
  BY <1>2
<1>4. /\ req \in [Slots -> RequestType] /\ turn \in Turns /\ Home[s] \in Procs
  BY OneJob, Parts, QuoteAssumption
<1>5. /\ MayRun(s) /\ IsLatest(q) /\ UNCHANGED quotes
      /\ req'[s].pc = pc /\ req'[s].quote = q /\ req'[s].kind = kind
      /\ \A t \in Slots : t # s => req'[t] = req[t]
  BY <1>3, <1>4 DEF Begin
<1>6. pc = "write" => turn'[Home[s]] = s
  BY <1>3, <1>4 DEF KeepRunning, Turns
<1>7. LoopFits(s)'
  BY <1>3, <1>5, <1>6 DEF LoopFits, IsLatest
<1>8. SuccessorTold'
  BY <1>5 DEF LoopInv, SuccessorTold
<1> QED BY <1>5, <1>7, <1>8, LoopMoves

\* It runs on, or writes what it read and ends.
LEMMA LoopAdvances ==
    ASSUME CreationInv, OneWorker, LoopInv, NEW s \in Slots, Advance(s),
           UNCHANGED job
    PROVE  LoopInv'
<1>1. /\ req \in [Slots -> RequestType] /\ turn \in Turns /\ Home[s] \in Procs
      /\ quotes \in Seq(QuoteRow) /\ Len(quotes) \in Nat /\ QuoteInv
      /\ req[s] \in RequestType /\ RequestFits(s) /\ LoopFits(s) /\ SuccessorTold
  BY OneJob, Parts, QuoteAssumption DEF LoopInv
<1>2. ASSUME req[s].kind # "none"
      PROVE  req[s].quote \in 1..Len(quotes) /\ quotes[req[s].quote] \in QuoteRow
  BY <1>1, <1>2 DEF RequestFits
<1>3. ASSUME NEW row, WriteQuote(s, row), req[s].kind # "none", MayRun(s),
             row.next # 0 => row.status = "superseded"
      PROVE  LoopInv'
  BY <1>1, <1>2, <1>3, WriteTells, LoopEnds DEF WriteQuote, Finish
<1>4. CASE Select(s)
  <2>1. /\ req[s].kind # "none" /\ MayRun(s)
        /\ quotes[req[s].quote].next = 0 /\ quotes[req[s].quote] \in QuoteRow
    BY <1>1, <1>2, <1>4 DEF Select, At, LoopFits, IsLatest
  <2> QED BY <1>3, <1>4, <2>1 DEF Select, QuoteRow
<1>5. CASE ClearSelection(s)
  <2>1. /\ req[s].kind # "none" /\ MayRun(s)
        /\ quotes[req[s].quote].next = 0 /\ quotes[req[s].quote] \in QuoteRow
    BY <1>1, <1>2, <1>5 DEF ClearSelection, At, LoopFits, IsLatest
  <2> QED BY <1>3, <1>5, <2>1 DEF ClearSelection, QuoteRow
<1>6. CASE SaveDraft(s)
  <2>1. /\ req[s].kind # "none" /\ MayRun(s)
        /\ quotes[req[s].quote].next = 0 /\ quotes[req[s].quote] \in QuoteRow
    BY <1>1, <1>2, <1>6 DEF SaveDraft, At, LoopFits, IsLatest
  <2> QED BY <1>3, <1>6, <2>1 DEF SaveDraft, QuoteRow
<1>7. CASE UpdateWorkflow(s)
  <2>1. /\ req[s].kind # "none" /\ MayRun(s)
        /\ quotes[req[s].quote].next = 0 /\ quotes[req[s].quote] \in QuoteRow
    BY <1>1, <1>2, <1>7 DEF UpdateWorkflow, At, LoopFits, IsLatest
  <2>2. WorkflowRow(quotes[req[s].quote], req[s].seen, req[s].update).next = 0
    BY <2>1 DEF WorkflowRow, QuoteRow
  <2> QED BY <1>3, <1>7, <2>1, <2>2 DEF UpdateWorkflow
<1>8. ASSUME NEW answer \in Answers, StoreVersion(s, answer) PROVE LoopInv'
  <2>1. /\ MayRun(s) /\ req'[s].kind = "version" /\ req'[s].pc = "inherit"
        /\ turn'[Home[s]] = s /\ \A t \in Slots : t # s => req'[t] = req[t]
    BY <1>1, <1>8 DEF StoreVersion, At, KeepRunning, Turns, RequestType
  <2>2. LoopFits(s)'
    BY <2>1 DEF LoopFits
  <2>3. SuccessorTold'
    BY <1>1, <1>8, StoreTells DEF StoreVersion, NewQuote
  <2> QED BY <2>1, <2>2, <2>3, LoopMoves
<1>9. CASE SearchFails(s) \/ ChildSuperseded(s)
  <2>1. /\ MayRun(s) /\ req' = [req EXCEPT ![s] = IdleRequest]
        /\ UNCHANGED quotes
    BY <1>9 DEF SearchFails, ChildSuperseded, At, Finish
  <2> QED BY <1>1, <2>1, LoopEnds DEF SuccessorTold
<1>10. CASE ReadChild(s)
  <2>1. /\ MayRun(s) /\ req'[s].kind = "version" /\ req'[s].pc = "save"
        /\ req'[s].child = req[s].child /\ IsLatest(req[s].child)
        /\ turn'[Home[s]] = s /\ \A t \in Slots : t # s => req'[t] = req[t]
        /\ UNCHANGED quotes
    BY <1>1, <1>10 DEF ReadChild, At, KeepRunning, Turns, RequestType
  <2>2. LoopFits(s)' /\ SuccessorTold'
    BY <1>1, <2>1 DEF LoopFits, IsLatest, SuccessorTold
  <2> QED BY <2>1, <2>2, LoopMoves
<1>11. CASE InheritClient(s)
  <2> DEFINE c == req[s].child
             row == WorkflowRow(quotes[c], req[s].seen, req[s].update)
  <2>1. /\ MayRun(s) /\ req'[s].kind = "version" /\ req'[s].pc = "link"
        /\ turn'[Home[s]] = s /\ \A t \in Slots : t # s => req'[t] = req[t]
        /\ c \in 1..Len(quotes) /\ IsLatest(c)
    BY <1>1, <1>11
       DEF InheritClient, At, KeepRunning, Turns, RequestType, RequestFits, LoopFits
  <2>2. row.next = 0
    BY <1>1, <2>1 DEF IsLatest, WorkflowRow, QuoteRow
  <2>3. quotes' = [quotes EXCEPT ![c] = row]
    BY <1>1, <1>11, <2>1 DEF InheritClient
  <2> HIDE DEF row, c
  <2>4. SuccessorTold'
    BY <1>1, <2>1, <2>2, <2>3, WriteTells
  <2>5. LoopFits(s)'
    BY <2>1 DEF LoopFits
  <2> QED BY <2>1, <2>4, <2>5, LoopMoves
<1>12. CASE LinkRefresh(s)
  <2>1. req[s].kind # "none" /\ MayRun(s) /\ quotes[req[s].quote] \in QuoteRow
    BY <1>2, <1>12 DEF LinkRefresh, At
  <2> QED BY <1>3, <1>12, <2>1 DEF LinkRefresh, QuoteRow
<1> QED BY <1>4, <1>5, <1>6, <1>7, <1>8, <1>9, <1>10, <1>11, <1>12 DEF Advance

\* A search stores its answer without holding the loop: it only adds a row.
LEMMA LoopStores ==
    ASSUME CreationInv, LoopInv, NEW answer \in Answers, StoreSearch(answer),
           UNCHANGED job
    PROVE  LoopInv'
<1>1. QuoteInv /\ UNCHANGED <<req, turn>> /\ SuccessorTold'
  <2>1. QuoteInv
    BY CreationParts
  <2> QED BY <2>1, StoreTells DEF StoreSearch, NewQuote, LoopInv
<1>2. \A q \in 1..Len(quotes) : quotes'[q] = quotes[q]
  BY <1>1, Parts DEF StoreSearch
<1>3. ASSUME NEW s \in Slots PROVE LoopFits(s)'
  <2>1. LoopFits(s) /\ RequestFits(s)
    BY OneJob DEF LoopInv
  <2>2. req[s].kind # "none" => quotes'[req[s].quote] = quotes[req[s].quote]
    BY <1>2, <2>1 DEF RequestFits
  <2>3. req[s].kind = "version" /\ req[s].pc = "save" =>
          quotes'[req[s].child] = quotes[req[s].child]
    BY <1>2, <2>1 DEF RequestFits
  <2> QED BY <1>1, <2>1, <2>2, <2>3 DEF LoopFits, IsLatest
<1> QED BY <1>1, <1>3 DEF LoopInv

\* Reserve: what it carries is what is persisted, and nobody writes meanwhile.
LEMMA LoopReserves ==
    ASSUME CreationInv, OneWorker, LoopInv, NEW s \in Slots, ReserveStep(s)
    PROVE  LoopInv'
<1>1. /\ req \in [Slots -> RequestType] /\ turn \in Turns /\ Home[s] \in Procs
      /\ job \in [Slots -> JobType] /\ req[s] \in RequestType /\ RequestFits(s)
      /\ LoopFits(s) /\ SuccessorTold /\ QuoteInv /\ job[s] \in JobType
  BY OneJob, Parts, QuoteAssumption DEF LoopInv
<1>2. ASSUME UNCHANGED quotes PROVE SuccessorTold'
  BY <1>1, <1>2 DEF SuccessorTold
<1>3. ASSUME NEW code, NEW key, NEW q, NEW rank, NEW got, MayRun(s),
             Answer(s, code, key, q, rank, got)
      PROVE  LoopInv'
  BY <1>2, <1>3, LoopEnds DEF Answer, Finish
<1>4. ASSUME NEW r, NEW j, req' = [req EXCEPT ![s] = r],
             job' = [job EXCEPT ![s] = j], KeepRunning(s), MayRun(s),
             UNCHANGED quotes, r.kind = "reserve",
             r.pc \in {"fares", "lookup", "insert", "reread"},
             r.pc # "reread" => /\ IsLatest(r.quote)
                                /\ j.rank \in quotes[r.quote].ranks,
             r.pc \in {"lookup", "insert"} =>
               <<j.rank, j.fare>> \in quotes[r.quote].fares
      PROVE  LoopInv'
  <2>1. /\ req'[s] = r /\ job'[s] = j /\ turn'[Home[s]] = s
        /\ \A t \in Slots : t # s => req'[t] = req[t]
    BY <1>1, <1>4 DEF KeepRunning, Turns
  <2>2. LoopFits(s)'
    BY <1>4, <2>1 DEF LoopFits, IsLatest
  <2> QED BY <1>2, <1>4, <2>1, <2>2, LoopMoves
<1>5. ASSUME NEW key \in Keys, NEW q \in 1..Len(quotes), NEW rank \in Ranks,
             Reserve(s, key, q, rank)
      PROVE  LoopInv'
  <2> DEFINE r == [IdleRequest EXCEPT !.kind = "reserve", !.pc = "fares",
                                      !.quote = q]
             j == [key |-> key, rank |-> rank, fare |-> None]
  <2>1. /\ r.kind = "reserve" /\ r.pc = "fares" /\ r.quote = q /\ j.rank = rank
    BY DEF IdleRequest
  <2>2. /\ req' = [req EXCEPT ![s] = r] /\ job' = [job EXCEPT ![s] = j]
        /\ KeepRunning(s) /\ MayRun(s) /\ UNCHANGED quotes
        /\ IsLatest(q) /\ rank \in quotes[q].ranks
    BY <1>5 DEF Reserve
  <2> HIDE DEF r, j
  <2> QED BY <1>4, <2>1, <2>2
<1>6. ASSUME NEW key \in Keys, NEW q \in 1..Len(quotes), NEW rank \in Ranks,
             RefuseReserve(s, key, q, rank)
      PROVE  LoopInv'
  BY <1>3, <1>6 DEF RefuseReserve
<1>7. CASE ReadFares(s)
  <2>1. PICK f \in FaresOf(req[s].quote, job[s].rank) :
          job' = [job EXCEPT ![s].fare = f[2]]
    BY <1>7 DEF ReadFares
  <2>2. /\ req[s].kind = "reserve" /\ req[s].pc = "fares" /\ MayRun(s)
        /\ KeepRunning(s) /\ UNCHANGED quotes
        /\ IsLatest(req[s].quote) /\ job[s].rank \in quotes[req[s].quote].ranks
    BY <1>1, <1>7 DEF ReadFares, At, LoopFits
  <2>3. quotes[req[s].quote] \in QuoteRow
    BY <1>1, <2>2, OneRow DEF RequestFits
  <2>4. /\ f \in quotes[req[s].quote].fares /\ f \in Ranks \X Fares
        /\ f[1] = job[s].rank
    BY <2>1, <2>3 DEF FaresOf, QuoteRow
  <2> DEFINE r == [req[s] EXCEPT !.pc = "lookup"]
             j == [job[s] EXCEPT !.fare = f[2]]
  <2>5. /\ r.kind = "reserve" /\ r.pc = "lookup" /\ r.quote = req[s].quote
        /\ j.rank = job[s].rank /\ j.fare = f[2]
        /\ req' = [req EXCEPT ![s] = r] /\ job' = [job EXCEPT ![s] = j]
    BY <1>1, <1>7, <2>1, <2>2 DEF ReadFares, RequestType, JobType
  <2>6. <<j.rank, j.fare>> \in quotes[r.quote].fares
    BY <2>4, <2>5
  <2> HIDE DEF r, j
  <2> QED BY <1>4, <2>2, <2>5, <2>6
<1>8. CASE FoundNone(s)
  <2> DEFINE r == [req[s] EXCEPT !.pc = "insert"]
  <2>1. /\ req[s].kind = "reserve" /\ req[s].pc = "lookup" /\ MayRun(s)
        /\ KeepRunning(s) /\ UNCHANGED quotes
        /\ IsLatest(req[s].quote) /\ job[s].rank \in quotes[req[s].quote].ranks
        /\ <<job[s].rank, job[s].fare>> \in quotes[req[s].quote].fares
    BY <1>1, <1>8 DEF FoundNone, At, LoopFits
  <2>2. /\ r.kind = "reserve" /\ r.pc = "insert" /\ r.quote = req[s].quote
        /\ req' = [req EXCEPT ![s] = r] /\ job' = [job EXCEPT ![s] = job[s]]
    BY <1>1, <1>8, <2>1 DEF FoundNone, RequestType
  <2> HIDE DEF r
  <2> QED BY <1>4, <2>1, <2>2
<1>9. CASE InsertBooking(s)
  <2> DEFINE r == [req[s] EXCEPT !.pc = "reread"]
  <2>1. /\ r.kind = "reserve" /\ r.pc = "reread"
        /\ req' = [req EXCEPT ![s] = r] /\ job' = [job EXCEPT ![s] = job[s]]
        /\ MayRun(s) /\ KeepRunning(s) /\ UNCHANGED quotes
    BY <1>1, <1>9 DEF InsertBooking, At, RequestType
  <2> HIDE DEF r
  <2> QED BY <1>4, <2>1
<1>10. CASE \/ NothingToFreeze(s) \/ FoundExisting(s) \/ LoseInsert(s)
            \/ Reread(s)
  BY <1>3, <1>10
     DEF NothingToFreeze, FoundExisting, LoseInsert, Reread, At, EndReserve
<1> QED BY <1>5, <1>6, <1>7, <1>8, <1>9, <1>10 DEF ReserveStep

LEMMA LoopStepKeeps ==
    ASSUME CreationInv, OneWorker, LoopInv, [CreationNext]_allVars
    PROVE  LoopInv'
<1>1. CASE QuoteStep /\ UNCHANGED creationVars
  BY <1>1, LoopStores, LoopArrives, LoopAdvances DEF QuoteStep, creationVars
<1>2. ASSUME NEW p \in Procs, CreationCrash(p) PROVE LoopInv'
  <2>1. /\ UNCHANGED quotes
        /\ req' = [s \in Slots |-> IF Home[s] = p THEN IdleRequest ELSE req[s]]
    BY <1>2 DEF CreationCrash, Crash
  <2>2. \A s \in Slots : req'[s] = IdleRequest
    BY <2>1, QuoteAssumption DEF OneWorker
  <2> QED BY <2>1, <2>2 DEF LoopInv, LoopFits, SuccessorTold, IdleRequest
<1>3. CASE UNCHANGED allVars
  BY <1>3 DEF allVars, LoopInv, LoopFits, SuccessorTold, IsLatest
<1> QED BY <1>1, <1>2, <1>3, LoopReserves DEF CreationNext

LEMMA LoopIsKept == OneWorker => (CreationSpec => [](CreationInv /\ LoopInv))
<1> SUFFICES ASSUME OneWorker PROVE CreationSpec => [](CreationInv /\ LoopInv)
  OBVIOUS
<1>1. CreationInv /\ LoopInv /\ [CreationNext]_allVars => LoopInv'
  BY LoopStepKeeps
<1> QED BY <1>1, LoopBegins, CreationIsSafe, PTL DEF CreationSpec

\* On one worker a Booking is made of the newest version of its quote and of
\* exactly what is persisted as selected when it is inserted, whatever
\* selections and refreshes arrive while the request reads.
THEOREM SelectionReserved == OneWorker => (CreationSpec => ReservesTheSelection)
<1> SUFFICES ASSUME OneWorker PROVE CreationSpec => ReservesTheSelection
  OBVIOUS
<1> DEFINE Step ==
      \A k \in Keys : bookings'[k] # bookings[k] =>
          /\ IsLatest(bookings'[k].quote)
          /\ bookings'[k].rank \in quotes[bookings'[k].quote].ranks
          /\ <<bookings'[k].rank, bookings'[k].fare>>
               \in quotes[bookings'[k].quote].fares
<1>1. ASSUME CreationInv, LoopInv, [CreationNext]_allVars PROVE Step
  <2> SUFFICES ASSUME NEW k \in Keys, bookings'[k] # bookings[k]
               PROVE  /\ IsLatest(bookings'[k].quote)
                      /\ bookings'[k].rank \in quotes[bookings'[k].quote].ranks
                      /\ <<bookings'[k].rank, bookings'[k].fare>>
                           \in quotes[bookings'[k].quote].fares
    OBVIOUS
  <2>1. PICK s \in Slots : InsertBooking(s)
    BY ZenonT(60), <1>1
       DEF CreationNext, allVars, creationVars, CreationCrash, ReserveStep,
       Reserve, RefuseReserve, ReadFares, NothingToFreeze, FoundExisting,
       FoundNone, LoseInsert, Reread
  <2>2. /\ bookings'[k] = [quote |-> req[s].quote, rank |-> job[s].rank,
                           fare |-> job[s].fare]
        /\ req[s].kind = "reserve" /\ req[s].pc = "insert"
    BY <1>1, <2>1, OneJob DEF InsertBooking, At
  <2>3. LoopFits(s)
    BY <1>1 DEF LoopInv
  <2> QED BY <2>2, <2>3 DEF LoopFits
<1>2. CreationInv /\ LoopInv /\ [CreationNext]_allVars => [Step]_allVars
  BY <1>1
<1> HIDE DEF Step
<1>3. CreationSpec => [][Step]_allVars
  BY <1>2, LoopIsKept, PTL DEF CreationSpec
<1> QED BY <1>3 DEF Step, ReservesTheSelection

\* Only its successor changes.
OnlyNext(q) == quotes'[q] = [quotes[q] EXCEPT !.next = quotes'[q].next]

LEMMA SameRow ==
    ASSUME QuoteInv, NEW q \in 1..Len(quotes), quotes'[q] = quotes[q]
    PROVE  OnlyNext(q)
BY OneRow DEF OnlyNext, QuoteRow

\* Linking a superseded version again only replaces its successor.
LEMMA LinkedAgain ==
    ASSUME NEW row \in QuoteRow, row.status = "superseded", NEW child
    PROVE  [row EXCEPT !.next = child, !.status = "superseded"]
             = [row EXCEPT !.next = child]
<1> DEFINE once == [row EXCEPT !.next = child]
<1>1. once.status = "superseded" /\ DOMAIN once = DOMAIN row
  BY DEF QuoteRow
<1>2. [row EXCEPT !.next = child, !.status = "superseded"]
        = [once EXCEPT !.status = "superseded"]
  BY DEF QuoteRow
<1>3. once = [f \in DOMAIN once |-> once[f]]
  BY DEF QuoteRow
<1> QED BY <1>1, <1>2, <1>3 DEF QuoteRow

\* A step about a quote leaves historical versions as they are, but for the
\* successor.
LEMMA HistoryKept ==
    ASSUME CreationInv, LoopInv, QuoteStep,
           NEW q \in 1..Len(quotes), ~IsLatest(q)
    PROVE  OnlyNext(q)
<1>1. /\ quotes \in Seq(QuoteRow) /\ Len(quotes) \in Nat /\ QuoteInv
      /\ quotes[q] \in QuoteRow /\ quotes[q].status = "superseded"
  <2>1. QuoteInv /\ SuccessorTold
    BY CreationParts DEF LoopInv
  <2> QED BY <2>1, OneRow, Parts DEF SuccessorTold, IsLatest
<1>2. CASE \E answer \in Answers : StoreSearch(answer)
  BY <1>1, <1>2, SameRow DEF StoreSearch
<1>3. ASSUME NEW s \in Slots, Arrive(s) PROVE OnlyNext(q)
  BY <1>1, <1>3, SameRow DEF Arrive, BeginSelect, BeginClear, BeginDraft,
     BeginWorkflow, BeginVersion, Begin
<1>4. ASSUME NEW s \in Slots, Advance(s) PROVE OnlyNext(q)
  <2>1. LoopFits(s) /\ RequestFits(s) /\ req[s] \in RequestType
    BY OneJob DEF LoopInv
  <2>2. CASE Select(s) \/ ClearSelection(s) \/ SaveDraft(s) \/ UpdateWorkflow(s)
    <3>1. q # req[s].quote
      BY <2>1, <2>2
         DEF Select, ClearSelection, SaveDraft, UpdateWorkflow, At, LoopFits
    <3>2. quotes'[q] = quotes[q]
      BY <1>1, <2>2, <3>1
         DEF Select, ClearSelection, SaveDraft, UpdateWorkflow, WriteQuote
    <3> QED BY <1>1, <3>2, SameRow
  <2>3. CASE \E answer \in Answers : StoreVersion(s, answer)
    BY <1>1, <2>3, SameRow DEF StoreVersion
  <2>4. CASE SearchFails(s) \/ ReadChild(s) \/ ChildSuperseded(s)
    BY <1>1, <2>4, SameRow DEF SearchFails, ReadChild, ChildSuperseded
  <2>5. CASE InheritClient(s)
    <3>1. q # req[s].child
      BY <2>1, <2>5 DEF InheritClient, At, LoopFits
    <3>2. quotes'[q] = quotes[q]
      BY <1>1, <2>5, <3>1 DEF InheritClient
    <3> QED BY <1>1, <3>2, SameRow
  <2>6. CASE LinkRefresh(s)
    <3>1. CASE q # req[s].quote
      BY <1>1, <2>6, <3>1, SameRow DEF LinkRefresh, WriteQuote
    <3>2. CASE q = req[s].quote
      <4> DEFINE row == [quotes[req[s].quote] EXCEPT !.next = req[s].child,
                                                     !.status = "superseded"]
      <4>1. quotes' = [quotes EXCEPT ![req[s].quote] = row]
        BY <2>6 DEF LinkRefresh, WriteQuote
      <4> HIDE DEF row
      <4>2. quotes'[q] = row
        BY <1>1, <3>2, <4>1
      <4>3. quotes'[q] = [quotes[q] EXCEPT !.next = req[s].child,
                                           !.status = "superseded"]
        BY <3>2, <4>2 DEF row
      <4>4. quotes'[q] = [quotes[q] EXCEPT !.next = req[s].child]
        <5>1. ASSUME NEW c, c = req[s].child, NEW old, old = quotes[q]
              PROVE  quotes'[q] = [old EXCEPT !.next = c]
          BY <1>1, <4>3, <5>1, LinkedAgain
        <5> QED BY <5>1
      <4>5. quotes'[q].next = req[s].child
        BY <1>1, <4>4 DEF QuoteRow
      <4> QED BY <4>4, <4>5 DEF OnlyNext
    <3> QED BY <3>1, <3>2
  <2> QED BY <1>4, <2>2, <2>3, <2>4, <2>5, <2>6 DEF Advance
<1> QED BY <1>2, <1>3, <1>4 DEF QuoteStep

\* On one worker a historical version is read-only and stays historical: no
\* request that was under way when it was superseded changes its selection,
\* draft or workflow afterwards; only its successor can be replaced.
THEOREM HistoryFrozen == OneWorker => (CreationSpec => HistoryIsFrozen)
<1> SUFFICES ASSUME OneWorker PROVE CreationSpec => HistoryIsFrozen
  OBVIOUS
<1> DEFINE Step ==
      \A q \in 1..Len(quotes) :
          quotes[q].next # 0 \/ quotes[q].status = "superseded" =>
            quotes'[q] = [quotes[q] EXCEPT !.next = quotes'[q].next]
<1>1. ASSUME CreationInv, LoopInv, [CreationNext]_allVars PROVE Step
  <2> SUFFICES ASSUME NEW q \in 1..Len(quotes), ~IsLatest(q)
               PROVE  OnlyNext(q)
    BY DEF IsLatest, OnlyNext
  <2>1. CASE UNCHANGED quotes
    <3>1. QuoteInv
      BY <1>1, CreationParts
    <3> QED BY <2>1, <3>1, SameRow
  <2>2. CASE QuoteStep
    BY <1>1, <2>2, HistoryKept
  <2>3. ASSUME NEW s \in Slots, ReserveStep(s) PROVE UNCHANGED quotes
    <3>1. CASE \/ NothingToFreeze(s) \/ FoundExisting(s) \/ LoseInsert(s)
               \/ Reread(s)
      BY <3>1 DEF NothingToFreeze, FoundExisting, LoseInsert, Reread,
         EndReserve, Answer
    <3>2. CASE ReadFares(s) \/ FoundNone(s) \/ InsertBooking(s)
      BY <3>2 DEF ReadFares, FoundNone, InsertBooking
    <3> QED BY <2>3, <3>1, <3>2 DEF ReserveStep, Reserve, RefuseReserve, Answer
  <2>4. (\E p \in Procs : CreationCrash(p)) \/ UNCHANGED allVars
          => UNCHANGED quotes
    BY DEF CreationCrash, Crash, allVars
  <2> QED BY <1>1, <2>1, <2>2, <2>3, <2>4 DEF CreationNext
<1>2. CreationInv /\ LoopInv /\ [CreationNext]_allVars => [Step]_quoteVars
  BY <1>1
<1> HIDE DEF Step
<1>3. CreationSpec => [][Step]_quoteVars
  BY <1>2, LoopIsKept, PTL DEF CreationSpec
<1> QED BY <1>3 DEF Step, HistoryIsFrozen
=============================================================================
