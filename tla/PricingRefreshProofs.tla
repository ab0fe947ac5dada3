------------------------ MODULE PricingRefreshProofs ------------------------
(***************************************************************************)
(* The pricing refresh, for every number of requests, keys, prices and     *)
(* crashes: RefreshInv is inductive, the safety properties follow from it, *)
(* and every step is a step of SingleFlight or none.                       *)
(***************************************************************************)
EXTENDS PricingRefresh, TLAPS

\* A request that holds an attempt holds the mutex with it.
LEMMA HolderIsActive ==
    ASSUME RefreshInv, NEW s \in Slots, Holds(s)
    PROVE  /\ req[s].key \in Keys /\ req[s].total \in Totals
           /\ attempts[req[s].key].active
           /\ attempts[req[s].key].total = req[s].total
           /\ attempts[req[s].key].status \in {"prepared", "submitting"}
<1>1. /\ req[s].key \in Keys /\ req[s].total \in Totals
      /\ attempts[req[s].key].total = req[s].total
      /\ attempts[req[s].key].status \in {"prepared", "submitting"}
  BY DEF RefreshInv, RequestFits, Holds
<1>2. attempts[req[s].key].active
  BY <1>1 DEF RefreshInv, MutexInv
<1> QED BY <1>1, <1>2

\* A transaction that may still commit is the only one.
LEMMA OneTransaction ==
    ASSUME RefreshInv, NEW e \in undecided, NEW f \in undecided
    PROVE  e = f
<1>1. e \in Transactions /\ f \in Transactions
  BY DEF RefreshInv, RefreshTypeOK
<1>2. /\ attempts[e.key].active /\ attempts[f.key].active
      /\ attempts[e.key].total = e.total /\ attempts[f.key].total = f.total
  BY DEF RefreshInv, TransactionFits
<1>3. e.key = f.key
  BY <1>1, <1>2 DEF RefreshInv, MutexInv, Transactions
<1> QED BY <1>1, <1>2, <1>3 DEF Transactions

\* A holder and a transaction in the air belong to the same attempt.
LEMMA HolderAndTransaction ==
    ASSUME RefreshInv, NEW s \in Slots, Holds(s), NEW e \in undecided
    PROVE  e.key = req[s].key
<1>1. e.key \in Keys /\ attempts[e.key].active
  BY DEF RefreshInv, RefreshTypeOK, Transactions, TransactionFits
<1> QED BY <1>1, HolderIsActive DEF RefreshInv, MutexInv

\* While the mutex is free no request holds an attempt and nothing is in the
\* air.
LEMMA FreeMeansQuiet ==
    ASSUME RefreshInv, MutexFree
    PROVE  undecided = {} /\ \A s \in Slots : ~Holds(s)
<1>1. ASSUME NEW e \in undecided PROVE FALSE
  BY <1>1 DEF RefreshInv, RefreshTypeOK, Transactions, TransactionFits,
     MutexFree
<1>2. ASSUME NEW s \in Slots, Holds(s) PROVE FALSE
  BY <1>2, HolderIsActive DEF MutexFree
<1> QED BY <1>1, <1>2

-----------------------------------------------------------------------------
(* Steps of one request that change no row and no PQ                       *)

\* One request moves; what its session retained may be dropped.
LEMMA QuietStep ==
    ASSUME RefreshInv, NEW s \in Slots, NEW r \in Requests,
           req' = [req EXCEPT ![s] = r],
           area' \in [Slots -> Totals \cup {None}],
           \A t \in Slots \ {s} : area'[t] = area[t],
           UNCHANGED <<attempts, authorities, pqs, undecided, price>>,
           crashes' \in Nat,
           Holds(s)' => Holds(s) /\ r.key = req[s].key,
           RequestFits(s)',
           Holds(s)' => (undecided = {} \/
                /\ r.pc = "mark" /\ r.goal = "reconciliation_required"),
           Holds(s)' =>
             \/ \A n \in DOMAIN pqs : pqs[n].by # r.key
             \/ r.pc \in {"readback", "authorize"}
             \/ r.pc = "mark" /\ r.goal \in {"succeeded",
                                             "reconciliation_required"}
    PROVE  RefreshInv'
<1>1. /\ RefreshTypeOK /\ MutexInv /\ \A t \in Slots : RequestFits(t)
      /\ \A e \in undecided : TransactionFits(e)
      /\ \A n \in DOMAIN pqs : PqFits(n)
      /\ OneCurrentPq /\ req \in [Slots -> Requests]
  BY DEF RefreshInv, RefreshTypeOK
<1>2. req'[s] = r /\ \A t \in Slots \ {s} : req'[t] = req[t]
  BY <1>1
<1>3. RefreshTypeOK'
  BY <1>1 DEF RefreshTypeOK
<1>4. \A t \in Slots : Holds(t)' => Holds(t)
  BY <1>2 DEF Holds
<1>5. MutexInv'
  BY <1>1, <1>4 DEF MutexInv
<1>6. CurrentPqs' = CurrentPqs
  BY DEF CurrentPqs
<1>7. \A n \in DOMAIN pqs : Authorized(n)' = Authorized(n)
  BY DEF Authorized
<1>8. ASSUME NEW t \in Slots PROVE RequestFits(t)'
  <2>1. CASE t = s
    BY <2>1
  <2>2. CASE t # s
    <3>1. req'[t] = req[t] /\ area'[t] = area[t] /\ RequestFits(t)
      BY <1>1, <1>2, <2>2
    <3> QED BY <3>1, <1>6, <1>7 DEF RequestFits, Holds
  <2> QED BY <2>1, <2>2
<1>9. ASSUME NEW e \in undecided PROVE TransactionFits(e)'
  <2>1. TransactionFits(e)
    BY <1>1, <1>9
  <2>2. ASSUME NEW t \in Slots, Holds(t)'
        PROVE  req'[t].pc = "mark" /\ req'[t].goal = "reconciliation_required"
    <3>1. CASE t = s
      BY <3>1, <1>2, <1>9, <2>2
    <3>2. CASE t # s
      BY <3>2, <1>2, <1>4, <2>1, <2>2 DEF TransactionFits
    <3> QED BY <3>1, <3>2
  <2> QED BY <2>1, <2>2, <1>6 DEF TransactionFits
<1>10. ASSUME NEW n \in DOMAIN pqs PROVE PqFits(n)'
  <2>1. PqFits(n)
    BY <1>1
  <2>2. ASSUME NEW t \in Slots, Holds(t)', req'[t].key = pqs[n].by
        PROVE  \/ req'[t].pc \in {"readback", "authorize"}
               \/ /\ req'[t].pc = "mark"
                  /\ req'[t].goal \in {"succeeded", "reconciliation_required"}
    <3>1. CASE t = s
      BY <3>1, <1>2, <2>2
    <3>2. CASE t # s
      <4>1. req'[t] = req[t] /\ Holds(t)
        BY <3>2, <1>2, <1>4, <2>2
      <4>2. req[t].key \in Keys
        BY <4>1, HolderIsActive
      <4> QED BY <4>1, <4>2, <2>1, <2>2 DEF PqFits
    <3> QED BY <3>1, <3>2
  <2> QED BY <2>1, <2>2, <1>7 DEF PqFits
<1>11. OneCurrentPq'
  BY <1>1, <1>6 DEF OneCurrentPq
<1> QED BY <1>3, <1>5, <1>8, <1>9, <1>10, <1>11 DEF RefreshInv

\* A request ends, or goes back to nothing, without a transaction of its own.
LEMMA EndStep ==
    ASSUME RefreshInv, NEW s \in Slots, End(s),
           area' \in {area, [area EXCEPT ![s] = None]},
           Holds(s) \/ req[s].pc = "insert",
           area'[s] = None,
           UNCHANGED <<attempts, authorities, pqs, undecided, price>>,
           crashes' \in Nat
    PROVE  RefreshInv'
<1>1. /\ req \in [Slots -> Requests] /\ area \in [Slots -> Totals \cup {None}]
  BY DEF RefreshInv, RefreshTypeOK
<1>2. Idle \in Requests
  BY DEF Idle, Requests, Pcs
<1>3. req' = [req EXCEPT ![s] = Idle] /\ req'[s].pc = "idle"
  BY <1>1 DEF End, Idle
<1>4. ~Holds(s)' /\ RequestFits(s)'
  BY <1>3 DEF Holds, RequestFits, StorePcs
<1>5. /\ area' \in [Slots -> Totals \cup {None}]
      /\ \A t \in Slots \ {s} : area'[t] = area[t]
  BY <1>1
<1> QED BY <1>2, <1>3, <1>4, <1>5, QuietStep

\* A holder moves on, its session untouched or dropped.
LEMMA HolderStep ==
    ASSUME RefreshInv, NEW s \in Slots, Holds(s), NEW r \in Requests,
           req' = [req EXCEPT ![s] = r],
           r.key = req[s].key,
           area' \in {area, [area EXCEPT ![s] = None]},
           UNCHANGED <<attempts, authorities, pqs, undecided, price, crashes>>,
           RequestFits(s)',
           \/ undecided = {}
           \/ r.pc = "mark" /\ r.goal = "reconciliation_required",
           \/ \A n \in DOMAIN pqs : pqs[n].by # r.key
           \/ r.pc \in {"readback", "authorize"}
           \/ r.pc = "mark" /\ r.goal \in {"succeeded",
                                             "reconciliation_required"}
    PROVE  RefreshInv'
<1>1. /\ area \in [Slots -> Totals \cup {None}] /\ crashes \in Nat
  BY DEF RefreshInv, RefreshTypeOK
<1>2. /\ area' \in [Slots -> Totals \cup {None}] /\ crashes' \in Nat
      /\ \A t \in Slots \ {s} : area'[t] = area[t]
  BY <1>1
<1> QED BY <1>2, QuietStep

\* A request between InsertRow and EndTransaction wrote nothing yet, and
\* nothing is in the air.
LEMMA NothingWrittenYet ==
    ASSUME RefreshInv, NEW s \in Slots, Holds(s),
           req[s].pc \notin {"readback", "authorize", "mark"}
    PROVE  undecided = {} /\ \A n \in DOMAIN pqs : pqs[n].by # req[s].key
<1>1. undecided = {}
  BY DEF RefreshInv, TransactionFits
<1>2. req[s].key \in Keys
  BY HolderIsActive
<1> QED BY <1>1, <1>2 DEF RefreshInv, PqFits

LEMMA PrepareKeeps ==
    ASSUME RefreshInv, NEW s \in Slots, NEW key \in Keys,
           NEW total \in Totals, Prepare(s, key, total)
    PROVE  RefreshInv'
<1> DEFINE r == [Idle EXCEPT !.pc = "insert", !.key = key, !.total = total]
<1>1. /\ req \in [Slots -> Requests] /\ area \in [Slots -> Totals \cup {None}]
      /\ crashes \in Nat /\ RequestFits(s)
  BY DEF RefreshInv, RefreshTypeOK
<1>2. /\ r \in Requests /\ r.pc = "insert" /\ r.key = key /\ r.total = total
  BY DEF Idle, Requests, Pcs
<1>3. /\ req' = [req EXCEPT ![s] = r] /\ req[s].pc = "idle"
      /\ UNCHANGED <<attempts, authorities, pqs, area, undecided, price,
                     crashes>>
  BY DEF Prepare, sabre
<1> HIDE DEF r
<1>4. req'[s] = r /\ ~Holds(s)'
  BY <1>1, <1>2, <1>3 DEF Holds
<1>5. area'[s] = None
  BY <1>1, <1>3 DEF RequestFits
<1>6. RequestFits(s)'
  BY <1>2, <1>4, <1>5 DEF RequestFits, StorePcs
<1> QED BY <1>1, <1>2, <1>3, <1>4, <1>6, QuietStep

LEMMA LoseRowKeeps ==
    ASSUME RefreshInv, NEW s \in Slots, LoseRow(s)
    PROVE  RefreshInv'
<1>1. /\ RequestFits(s) /\ crashes \in Nat
  BY DEF RefreshInv, RefreshTypeOK
<1>2. area[s] = None
  BY <1>1 DEF LoseRow, RequestFits
<1> QED BY <1>1, <1>2, EndStep DEF LoseRow, sabre

\* A holder that goes on to pc, before it wrote anything.
LEMMA GotoBeforeWriting ==
    ASSUME RefreshInv, NEW s \in Slots, Holds(s),
           req[s].pc \notin {"readback", "authorize", "mark"},
           NEW r \in Requests, req' = [req EXCEPT ![s] = r],
           r.key = req[s].key, r.total = req[s].total,
           r.pc \in {"read", "submit", "preview", "retain"},
           (r.pc = "read" <=> req[s].pc = "discover"),
           (r.pc = "submit" <=> req[s].pc = "read"),
           area[s] = None,
           r.pc # "read" => CurrentPqs = {},
           req[s].pc # "submit",
           UNCHANGED <<attempts, authorities, sabre, crashes>>
    PROVE  RefreshInv'
<1>1. req \in [Slots -> Requests] /\ RequestFits(s)
  BY DEF RefreshInv, RefreshTypeOK
<1>2. req'[s] = r /\ CurrentPqs' = CurrentPqs /\ area'[s] = None
  BY <1>1 DEF CurrentPqs, sabre
<1>3. RequestFits(s)'
  BY <1>1, <1>2, HolderIsActive DEF RequestFits, Holds, StorePcs
<1>4. undecided = {} /\ \A n \in DOMAIN pqs : pqs[n].by # r.key
  BY NothingWrittenYet
<1>5. /\ area' = area
      /\ UNCHANGED <<attempts, authorities, pqs, undecided, price, crashes>>
  BY DEF sabre
<1> QED BY <1>3, <1>4, <1>5, HolderStep

\* A holder that settles on an outcome that is true of what it wrote.
LEMMA SettleStep ==
    ASSUME RefreshInv, NEW s \in Slots, Holds(s), NEW goal \in Statuses,
           Settle(s, goal), req[s].pc # "mark",
           goal \in {"no_write", "failed_safe", "reconciliation_required"},
           (goal = "no_write" <=> req[s].pc \in {"discover", "read", "submit"}),
           goal = "failed_safe" => req[s].pc \notin {"readback", "authorize"},
           area' \in {area, [area EXCEPT ![s] = None]}, area'[s] = None,
           UNCHANGED <<attempts, authorities, pqs, undecided, price, crashes>>
    PROVE  RefreshInv'
<1> DEFINE r == [req[s] EXCEPT !.pc = "mark", !.goal = goal]
<1>1. req \in [Slots -> Requests] /\ RequestFits(s)
  BY DEF RefreshInv, RefreshTypeOK
<1>2. /\ r \in Requests /\ r.pc = "mark" /\ r.goal = goal
      /\ r.key = req[s].key /\ r.total = req[s].total
  BY ZenonT(60), <1>1 DEF Requests, Pcs
<1>3. req' = [req EXCEPT ![s] = r]
  BY <1>1 DEF Settle
<1> HIDE DEF r
<1>4. req'[s] = r
  BY <1>1, <1>3
<1>5. RequestFits(s)'
  BY <1>1, <1>2, <1>4, HolderIsActive DEF RequestFits, Holds, StorePcs
<1>6. CASE goal = "reconciliation_required"
  BY <1>2, <1>3, <1>5, <1>6, HolderStep
<1>7. CASE goal # "reconciliation_required"
  <2>1. req[s].pc \notin {"readback", "authorize", "mark"}
    BY <1>7
  <2>2. undecided = {} /\ \A n \in DOMAIN pqs : pqs[n].by # r.key
    BY <1>2, <2>1, NothingWrittenYet
  <2> QED BY <1>2, <1>3, <1>5, <2>2, HolderStep
<1> QED BY <1>6, <1>7

LEMMA DiscoverKeeps ==
    ASSUME RefreshInv, NEW s \in Slots,
           Discover(s) \/ ReadBefore(s) \/ OpenSession(s)
             \/ (Preview(s) /\ price = req[s].total)
    PROVE  RefreshInv'
<1>1. req \in [Slots -> Requests] /\ RequestFits(s)
  BY DEF RefreshInv, RefreshTypeOK
<1>2. PICK r \in Requests :
        /\ req' = [req EXCEPT ![s] = r]
        /\ r.key = req[s].key /\ r.total = req[s].total
        /\ \/ req[s].pc = "discover" /\ r.pc = "read"
           \/ req[s].pc = "read" /\ r.pc = "submit" /\ CurrentPqs = {}
           \/ req[s].pc = "open" /\ r.pc = "preview"
           \/ req[s].pc = "preview" /\ r.pc = "retain"
  <2>1. CASE Discover(s)
    <3> DEFINE q == [req[s] EXCEPT !.pc = "read"]
    <3>1. /\ q \in Requests /\ req' = [req EXCEPT ![s] = q]
          /\ q.key = req[s].key /\ q.total = req[s].total
          /\ q.pc = "read"
      BY <1>1, <2>1 DEF Discover, Goto, Requests, Pcs, StorePcs
    <3> HIDE DEF q
    <3> QED BY <2>1, <3>1 DEF Discover
  <2>2. CASE ReadBefore(s)
    <3> DEFINE q == [req[s] EXCEPT !.pc = "submit", !.before = SelectedPqs]
    <3>0. SelectedPqs \in SUBSET Nat
      BY DEF SelectedPqs, CurrentPqs, ActivePqs, RefreshInv, RefreshTypeOK
    <3>1. /\ q \in Requests /\ req' = [req EXCEPT ![s] = q]
          /\ q.key = req[s].key /\ q.total = req[s].total
          /\ q.pc = "submit"
      BY <1>1, <2>2, <3>0 DEF ReadBefore, Requests, Pcs, StorePcs
    <3> HIDE DEF q
    <3> QED BY <2>2, <3>1 DEF ReadBefore
  <2>3. CASE OpenSession(s)
    <3> DEFINE q == [req[s] EXCEPT !.pc = "preview"]
    <3>1. /\ q \in Requests /\ req' = [req EXCEPT ![s] = q]
          /\ q.key = req[s].key /\ q.total = req[s].total
          /\ q.pc = "preview"
      BY <1>1, <2>3 DEF OpenSession, Goto, Requests, Pcs, StorePcs
    <3> HIDE DEF q
    <3> QED BY <2>3, <3>1 DEF OpenSession
  <2>4. CASE Preview(s) /\ price = req[s].total
    <3> DEFINE q == [req[s] EXCEPT !.pc = "retain"]
    <3>1. /\ q \in Requests /\ req' = [req EXCEPT ![s] = q]
          /\ q.key = req[s].key /\ q.total = req[s].total
          /\ q.pc = "retain"
      BY <1>1, <2>4 DEF Preview, Goto, Requests, Pcs, StorePcs
    <3> HIDE DEF q
    <3> QED BY <2>4, <3>1 DEF Preview
  <2> QED BY <2>1, <2>2, <2>3, <2>4
<1>3. /\ Holds(s) /\ area[s] = None
      /\ r.pc # "read" => CurrentPqs = {}
  BY <1>1, <1>2 DEF Holds, RequestFits, StorePcs
<1>4. UNCHANGED <<attempts, authorities, sabre, crashes>>
  BY DEF Discover, ReadBefore, OpenSession, Preview
<1>5. req[s].pc \notin {"readback", "authorize", "mark", "submit"}
  BY <1>2
<1>6. /\ r.pc \in {"read", "submit", "preview", "retain"}
      /\ (r.pc = "read" <=> req[s].pc = "discover")
      /\ (r.pc = "submit" <=> req[s].pc = "read")
  BY <1>2
<1> QED BY <1>2, <1>3, <1>4, <1>5, <1>6, GotoBeforeWriting

LEMMA SettlingKeeps ==
    ASSUME RefreshInv, NEW s \in Slots,
           \/ Block(s) \/ StoreRefused(s) \/ StoreRaises(s) \/ Unverified(s)
           \/ Preview(s) /\ price # req[s].total
           \/ Ignore(s) \/ IgnoreFails(s)
    PROVE  RefreshInv'
<1>1. /\ area \in [Slots -> Totals \cup {None}] /\ RequestFits(s)
  BY DEF RefreshInv, RefreshTypeOK
<1>2. PICK goal \in Statuses :
        /\ Settle(s, goal)
        /\ goal \in {"no_write", "failed_safe", "reconciliation_required"}
        /\ goal = "no_write" <=> req[s].pc \in {"discover", "read", "submit"}
        /\ goal = "failed_safe" => req[s].pc \notin {"readback", "authorize"}
  BY DEF Block, StoreRefused, StoreRaises, Unverified, Preview, Ignore,
     IgnoreFails, Statuses
<1>3. Holds(s) /\ req[s].pc # "mark"
  BY DEF Block, StoreRefused, StoreRaises, Unverified, Preview, Ignore,
     IgnoreFails, Holds
<1>4. /\ area' \in {area, [area EXCEPT ![s] = None]} /\ area'[s] = None
      /\ UNCHANGED <<attempts, authorities, pqs, undecided, price, crashes>>
  BY <1>1 DEF Block, StoreRefused, StoreRaises, Unverified, Preview, Ignore,
     IgnoreFails, Discard, RequestFits, sabre
<1> QED BY <1>2, <1>3, <1>4, SettleStep

-----------------------------------------------------------------------------
(* Steps that retain, verify and record                                    *)

\* A holder moves inside its session: nothing is written outside it.
LEMMA SessionStep ==
    ASSUME RefreshInv, NEW s \in Slots, Holds(s), req[s].pc = "retain",
           NEW pc \in {"ignore", "end"}, Goto(s, pc),
           NEW kept \in Totals \cup {None}, area' = [area EXCEPT ![s] = kept],
           pc = "end" => kept = req[s].total,
           UNCHANGED <<attempts, authorities, pqs, undecided, price, crashes>>
    PROVE  RefreshInv'
<1> DEFINE r == [req[s] EXCEPT !.pc = pc]
<1>1. /\ req \in [Slots -> Requests] /\ RequestFits(s)
      /\ area \in [Slots -> Totals \cup {None}] /\ crashes \in Nat
  BY DEF RefreshInv, RefreshTypeOK
<1>2. /\ r \in Requests /\ r.pc = pc /\ r.key = req[s].key
      /\ r.total = req[s].total /\ req' = [req EXCEPT ![s] = r]
  BY <1>1 DEF Requests, Pcs, StorePcs, Goto
<1> HIDE DEF r
<1>3. /\ req'[s] = r /\ area'[s] = kept
      /\ area' \in [Slots -> Totals \cup {None}]
      /\ \A t \in Slots \ {s} : area'[t] = area[t]
  BY <1>1, <1>2
<1>4. CurrentPqs' = CurrentPqs /\ CurrentPqs = {}
  BY <1>1 DEF CurrentPqs, RequestFits, StorePcs
<1>5. RequestFits(s)'
  BY <1>1, <1>2, <1>3, <1>4, HolderIsActive DEF RequestFits, Holds, StorePcs
<1>6. undecided = {} /\ \A n \in DOMAIN pqs : pqs[n].by # r.key
  BY <1>2, NothingWrittenYet
<1>7. crashes' \in Nat
  BY <1>1
<1> QED BY <1>2, <1>3, <1>5, <1>6, <1>7, QuietStep

LEMMA RetainKeeps ==
    ASSUME RefreshInv, NEW s \in Slots, Retain(s) \/ RetainUnclear(s)
    PROVE  RefreshInv'
<1>1. /\ Holds(s) /\ req[s].pc = "retain" /\ price \in Totals
      /\ area \in [Slots -> Totals \cup {None}]
  BY DEF Retain, RetainUnclear, Holds, RefreshInv, RefreshTypeOK
<1>2. UNCHANGED <<attempts, authorities, pqs, undecided, price, crashes>>
  BY DEF Retain, RetainUnclear
<1>3. CASE Retain(s)
  <2>1. area' = [area EXCEPT ![s] = price] /\ area'[s] = price
    BY <1>1, <1>3 DEF Retain
  <2>2. PICK pc \in {"ignore", "end"} :
          Goto(s, pc) /\ (pc = "end" => price = req[s].total)
    BY <1>3, <2>1 DEF Retain, RetainedFits
  <2> QED BY <1>1, <1>2, <2>1, <2>2, SessionStep
<1>4. CASE RetainUnclear(s)
  <2>1. PICK kept \in {None, price} : area' = [area EXCEPT ![s] = kept]
    BY <1>4 DEF RetainUnclear
  <2>2. Goto(s, "ignore") /\ kept \in Totals \cup {None}
    BY <1>1, <1>4, <2>1 DEF RetainUnclear
  <2>3. "ignore" \in {"ignore", "end"} /\ "ignore" # "end"
    OBVIOUS
  <2> QED BY <1>1, <1>2, <2>1, <2>2, <2>3, SessionStep
<1> QED BY <1>3, <1>4

LEMMA ReadBackKeeps ==
    ASSUME RefreshInv, NEW s \in Slots, ReadBack(s)
    PROVE  RefreshInv'
<1>1. /\ req \in [Slots -> Requests] /\ RequestFits(s)
      /\ pqs \in Seq(PriceQuotes)
      /\ \A e \in undecided : TransactionFits(e)
  BY DEF RefreshInv, RefreshTypeOK
<1>2. PICK n \in DOMAIN pqs :
        /\ NewPq(s, n)
        /\ req' = [req EXCEPT ![s].pc = "authorize", ![s].record = n]
  BY DEF ReadBack
<1> DEFINE r == [req[s] EXCEPT !.pc = "authorize", !.record = n]
<1>3. n \in Nat /\ req[s].pc = "readback" /\ Holds(s)
  BY <1>1, <1>2 DEF ReadBack, Holds
<1>4. /\ r \in Requests /\ r.pc = "authorize" /\ r.key = req[s].key
      /\ r.total = req[s].total /\ r.record = n
      /\ req' = [req EXCEPT ![s] = r]
  BY <1>1, <1>2, <1>3 DEF Requests, Pcs
<1> HIDE DEF r
<1>5. /\ UNCHANGED <<attempts, authorities, pqs, undecided, price, crashes>>
      /\ area' = area /\ req'[s] = r
  BY <1>1, <1>4 DEF ReadBack, sabre
<1>6. pqs[n].by = req[s].key /\ pqs[n].total = req[s].total
  BY <1>1, <1>2, <1>3 DEF NewPq, RequestFits, CurrentPqs
<1>7. RequestFits(s)'
  BY <1>1, <1>3, <1>4, <1>5, <1>6, HolderIsActive
     DEF RequestFits, Holds, StorePcs
<1>8. undecided = {}
  BY <1>1, <1>3 DEF TransactionFits
<1> QED BY <1>3, <1>4, <1>5, <1>7, <1>8, HolderStep

LEMMA SaveAuthorityKeeps ==
    ASSUME RefreshInv, NEW s \in Slots, SaveAuthority(s)
    PROVE  RefreshInv'
<1> DEFINE a == [record |-> req[s].record, total |-> req[s].total,
                 by |-> req[s].key]
<1> DEFINE r == [req[s] EXCEPT !.pc = "mark", !.goal = "succeeded"]
<1>1. /\ RefreshTypeOK /\ MutexInv /\ \A t \in Slots : RequestFits(t)
      /\ \A e \in undecided : TransactionFits(e)
      /\ \A n \in DOMAIN pqs : PqFits(n)
      /\ OneCurrentPq /\ req \in [Slots -> Requests]
      /\ req[s].pc = "authorize" /\ Holds(s)
  BY DEF RefreshInv, RefreshTypeOK, SaveAuthority, Holds
<1>2. /\ authorities' = Append(authorities, a)
      /\ req' = [req EXCEPT ![s] = r]
      /\ UNCHANGED <<attempts, pqs, area, undecided, price, crashes>>
  BY <1>1 DEF SaveAuthority, Settle, sabre
<1>3. /\ r \in Requests /\ r.pc = "mark" /\ r.goal = "succeeded"
      /\ r.key = req[s].key /\ r.total = req[s].total
  BY <1>1 DEF Requests, Pcs, Statuses
<1>4. /\ req[s].key \in Keys /\ req[s].total \in Totals
      /\ req[s].record \in DOMAIN pqs
      /\ pqs[req[s].record].by = req[s].key
      /\ pqs[req[s].record].total = req[s].total
  BY <1>1, HolderIsActive DEF RequestFits
<1>5. a \in AuthorityRows
  BY <1>1, <1>4 DEF AuthorityRows, Requests
<1> HIDE DEF r
<1>6. /\ authorities \in Seq(AuthorityRows)
      /\ authorities' \in Seq(AuthorityRows)
      /\ Len(authorities) + 1 \in DOMAIN authorities'
      /\ authorities'[Len(authorities) + 1] = a
      /\ \A i \in DOMAIN authorities : /\ i \in DOMAIN authorities'
                                      /\ authorities'[i] = authorities[i]
  <2> HIDE DEF a
  <2> QED BY <1>1, <1>2, <1>5 DEF RefreshTypeOK
<1>7. req'[s] = r /\ \A t \in Slots \ {s} : req'[t] = req[t]
  BY <1>1, <1>2
<1>8. RefreshTypeOK'
  BY <1>1, <1>2, <1>3, <1>6 DEF RefreshTypeOK
<1>9. Holds(s)' /\ \A t \in Slots : Holds(t)' => t = s
  BY <1>1, <1>3, <1>7 DEF Holds, MutexInv
<1>10. MutexInv'
  BY <1>1, <1>2, <1>9 DEF MutexInv
<1>11. CurrentPqs' = CurrentPqs
  BY <1>2 DEF CurrentPqs
<1>12. ASSUME NEW n \in DOMAIN pqs, Authorized(n) PROVE Authorized(n)'
  <2>1. PICK i \in DOMAIN authorities :
          authorities[i] = [record |-> n, total |-> pqs[n].total,
                            by |-> pqs[n].by]
    BY <1>12 DEF Authorized
  <2>2. i \in DOMAIN authorities' /\ authorities'[i] = authorities[i]
    BY <1>6
  <2> QED BY <2>1, <2>2, <1>2 DEF Authorized
<1>13. ASSUME NEW n \in DOMAIN pqs, n = req[s].record PROVE Authorized(n)'
  <2>1. authorities'[Len(authorities) + 1] =
          [record |-> n, total |-> pqs[n].total, by |-> pqs[n].by]
    BY <1>4, <1>6, <1>13
  <2> QED BY <2>1, <1>2, <1>6 DEF Authorized
<1>14. \A n \in DOMAIN pqs : pqs[n].by = req[s].key => Authorized(n)'
  BY <1>1, <1>4, <1>13 DEF PqFits
<1>15. RequestFits(s)'
  BY <1>1, <1>2, <1>3, <1>7, <1>14, HolderIsActive
     DEF RequestFits, Holds, StorePcs
<1>16. ASSUME NEW t \in Slots PROVE RequestFits(t)'
  <2>1. CASE t = s
    BY <2>1, <1>15
  <2>2. CASE t # s
    <3>1. req'[t] = req[t] /\ RequestFits(t) /\ area'[t] = area[t]
      BY <1>1, <1>2, <1>7, <2>2
    <3> QED BY <3>1, <1>2, <1>11, <1>12 DEF RequestFits, Holds
  <2> QED BY <2>1, <2>2
<1>17. undecided' = {}
  BY <1>1, <1>2 DEF TransactionFits
<1>18. ASSUME NEW n \in DOMAIN pqs PROVE PqFits(n)'
  <2>1. PqFits(n)
    BY <1>1
  <2> QED BY <2>1, <1>2, <1>3, <1>7, <1>9, <1>12 DEF PqFits
<1>19. OneCurrentPq'
  BY <1>1, <1>11 DEF OneCurrentPq
<1>20. DOMAIN pqs' = DOMAIN pqs
  BY <1>2
<1> QED BY <1>8, <1>10, <1>16, <1>17, <1>18, <1>19, <1>20 DEF RefreshInv

-----------------------------------------------------------------------------
(* Steps that write the row of the request's attempt                       *)

LEMMA AttemptStep ==
    ASSUME RefreshInv, NEW s \in Slots, NEW k \in Keys, k = req[s].key,
           NEW row \in AttemptRows, attempts' = [attempts EXCEPT ![k] = row],
           NEW r \in Requests, req' = [req EXCEPT ![s] = r],
           Holds(s)' => r.key = k,
           UNCHANGED <<authorities, sabre, crashes>>,
           \A t \in Slots \ {s} : ~Holds(t),
           row.active =
             (row.status \in
                {"prepared", "submitting", "reconciliation_required"}),
           \A j \in Keys \ {k} : ~attempts[j].active,
           RequestFits(s)',
           \A e \in undecided :
             /\ row.total = e.total
             /\ row.status = "reconciliation_required" /\ ~Holds(s)',
           \A n \in DOMAIN pqs : pqs[n].by = k =>
             /\ row.total = pqs[n].total
             /\ row.status \in {"reconciliation_required", "succeeded"}
             /\ row.status = "succeeded" => Authorized(n)
             /\ ~Holds(s)'
    PROVE  RefreshInv'
<1>1. /\ RefreshTypeOK /\ MutexInv /\ \A t \in Slots : RequestFits(t)
      /\ \A e \in undecided : TransactionFits(e)
      /\ \A n \in DOMAIN pqs : PqFits(n)
      /\ OneCurrentPq /\ req \in [Slots -> Requests]
      /\ attempts \in [Keys -> AttemptRows \cup {NoRow}]
      /\ undecided \subseteq Transactions
  BY DEF RefreshInv, RefreshTypeOK
<1>2. /\ req'[s] = r /\ \A t \in Slots \ {s} : req'[t] = req[t]
      /\ attempts'[k] = row
      /\ \A j \in Keys \ {k} : attempts'[j] = attempts[j]
      /\ UNCHANGED <<authorities, pqs, area, undecided, price, crashes>>
  BY <1>1 DEF sabre
<1>3. RefreshTypeOK'
  BY <1>1, <1>2 DEF RefreshTypeOK
<1>4. \A t \in Slots \ {s} : ~Holds(t)'
  BY <1>2 DEF Holds
<1>5. MutexInv'
  BY <1>1, <1>2, <1>4 DEF MutexInv
<1>6. CurrentPqs' = CurrentPqs /\ \A n \in DOMAIN pqs : Authorized(n)' = Authorized(n)
  BY <1>2 DEF CurrentPqs, Authorized
<1>7. ASSUME NEW t \in Slots PROVE RequestFits(t)'
  <2>1. CASE t = s
    BY <2>1
  <2>2. CASE t # s
    <3>1. req'[t] = req[t] /\ RequestFits(t) /\ area'[t] = area[t] /\ ~Holds(t)
      BY <1>1, <1>2, <2>2
    <3> QED BY <3>1 DEF RequestFits, Holds, StorePcs
  <2> QED BY <2>1, <2>2
<1>8. ASSUME NEW e \in undecided PROVE TransactionFits(e)'
  <2>1. e.key = k
    BY <1>1 DEF TransactionFits, Transactions
  <2>2. ASSUME NEW t \in Slots PROVE ~Holds(t)'
    BY <1>4, <1>8
  <2> QED BY ZenonT(60), <1>1, <1>2, <1>6, <2>1, <2>2 DEF TransactionFits
<1>9. ASSUME NEW n \in DOMAIN pqs PROVE PqFits(n)'
  <2>1. PqFits(n)
    BY <1>1
  <2>2. CASE pqs[n].by = k
    <3>1. \A t \in Slots : ~Holds(t)'
      BY <1>4, <2>2
    <3> QED BY <2>1, <2>2, <3>1, <1>2, <1>6 DEF PqFits
  <2>3. CASE pqs[n].by \in Keys \ {k}
    <3>1. ASSUME NEW t \in Slots, Holds(t)' PROVE req'[t].key # pqs[n].by
      <4>1. t = s
        BY <1>4, <3>1
      <4> QED BY <3>1, <4>1, <1>2, <2>3 DEF Holds
    <3>2. /\ attempts'[pqs[n].by] = attempts[pqs[n].by]
          /\ Authorized(n)' = Authorized(n) /\ pqs' = pqs
      BY <1>2, <1>6, <2>3
    <3> QED BY <2>1, <2>3, <3>1, <3>2 DEF PqFits
  <2>4. CASE pqs[n].by \notin Keys
    BY <2>4, <1>2 DEF PqFits
  <2> QED BY <2>2, <2>3, <2>4
<1>10. OneCurrentPq' /\ DOMAIN pqs' = DOMAIN pqs /\ undecided' = undecided
  BY <1>1, <1>2, <1>6 DEF OneCurrentPq
<1> QED BY <1>3, <1>5, <1>7, <1>8, <1>9, <1>10 DEF RefreshInv

LEMMA InsertRowKeeps ==
    ASSUME RefreshInv, NEW s \in Slots, InsertRow(s)
    PROVE  RefreshInv'
<1> DEFINE k == req[s].key
<1> DEFINE row == [total |-> req[s].total, status |-> "prepared",
                   active |-> TRUE]
<1> DEFINE r == [req[s] EXCEPT !.pc = "discover"]
<1>1. /\ req \in [Slots -> Requests] /\ RequestFits(s)
      /\ attempts \in [Keys -> AttemptRows \cup {NoRow}]
      /\ \A n \in DOMAIN pqs : PqFits(n)
      /\ req[s].pc = "insert" /\ attempts[k] = NoRow /\ MutexFree
  BY DEF RefreshInv, RefreshTypeOK, InsertRow
<1>2. k \in Keys /\ req[s].total \in Totals /\ area[s] = None
  BY <1>1 DEF RequestFits
<1>3. /\ row \in AttemptRows /\ row.active = TRUE
      /\ row.status = "prepared" /\ row.total = req[s].total
  BY <1>2 DEF AttemptRows, Statuses
<1>4. /\ r \in Requests /\ r.pc = "discover" /\ r.key = k
      /\ r.total = req[s].total
  BY <1>1 DEF Requests, Pcs
<1>5. /\ attempts' = [attempts EXCEPT ![k] = row]
      /\ req' = [req EXCEPT ![s] = r]
      /\ UNCHANGED <<authorities, sabre, crashes>>
  BY <1>1 DEF InsertRow, Goto
<1>6. undecided = {} /\ \A t \in Slots : ~Holds(t)
  BY <1>1, FreeMeansQuiet
<1>7. \A n \in DOMAIN pqs : pqs[n].by # k
  BY <1>1, <1>2 DEF PqFits, NoRow
<1> HIDE DEF row, r
<1>8. req'[s] = r /\ attempts'[k] = row /\ area'[s] = None
  BY <1>1, <1>2, <1>5 DEF sabre
<1>9. RequestFits(s)'
  BY <1>2, <1>3, <1>4, <1>8 DEF RequestFits, Holds, StorePcs
<1>10. \A j \in Keys \ {k} : ~attempts[j].active
  BY <1>1 DEF MutexFree
<1>11. k = req[s].key
  OBVIOUS
<1> HIDE DEF k
<1> QED BY <1>2, <1>3, <1>4, <1>5, <1>6, <1>7, <1>9, <1>10, <1>11, AttemptStep

\* A holder is alone, and so is its row.
LEMMA HolderIsAlone ==
    ASSUME RefreshInv, NEW s \in Slots, Holds(s)
    PROVE  /\ \A t \in Slots \ {s} : ~Holds(t)
           /\ \A j \in Keys \ {req[s].key} : ~attempts[j].active
BY HolderIsActive DEF RefreshInv, MutexInv

LEMMA MarkSubmittingKeeps ==
    ASSUME RefreshInv, NEW s \in Slots, MarkSubmitting(s)
    PROVE  RefreshInv'
<1> DEFINE k == req[s].key
<1> DEFINE row == [attempts[k] EXCEPT !.status = "submitting"]
<1> DEFINE r == [req[s] EXCEPT !.pc = "open"]
<1>1. /\ req \in [Slots -> Requests] /\ RequestFits(s)
      /\ attempts \in [Keys -> AttemptRows \cup {NoRow}]
      /\ req[s].pc = "submit" /\ Holds(s)
  BY DEF RefreshInv, RefreshTypeOK, MarkSubmitting, Holds
<1>2. /\ k \in Keys /\ req[s].total \in Totals /\ area[s] = None
      /\ attempts[k].active /\ attempts[k].total = req[s].total
      /\ CurrentPqs = {}
  BY <1>1, HolderIsActive DEF RequestFits
<1>3. attempts[k] \in AttemptRows
  BY <1>1, <1>2 DEF NoRow
<1>4. /\ row \in AttemptRows /\ row.active = TRUE
      /\ row.status = "submitting" /\ row.total = req[s].total
  BY <1>2, <1>3 DEF AttemptRows, Statuses
<1>5. /\ r \in Requests /\ r.pc = "open" /\ r.key = k
      /\ r.total = req[s].total
  BY <1>1 DEF Requests, Pcs, StorePcs
<1>6. /\ attempts' = [attempts EXCEPT ![k] = row]
      /\ req' = [req EXCEPT ![s] = r]
      /\ UNCHANGED <<authorities, sabre, crashes>>
  BY <1>1, <1>2 DEF MarkSubmitting, Goto
<1>7. undecided = {} /\ \A n \in DOMAIN pqs : pqs[n].by # k
  BY <1>1, NothingWrittenYet
<1> HIDE DEF row, r
<1>8. /\ req'[s] = r /\ attempts'[k] = row /\ area'[s] = None
      /\ CurrentPqs' = {}
  BY <1>1, <1>2, <1>6 DEF sabre, CurrentPqs
<1>9. RequestFits(s)'
  BY <1>2, <1>4, <1>5, <1>8 DEF RequestFits, Holds, StorePcs
<1>10. /\ \A t \in Slots \ {s} : ~Holds(t)
       /\ \A j \in Keys \ {k} : ~attempts[j].active
  BY <1>1, HolderIsAlone
<1>11. k = req[s].key
  OBVIOUS
<1> HIDE DEF k
<1> QED BY <1>2, <1>4, <1>5, <1>6, <1>7, <1>9, <1>10, <1>11, AttemptStep

LEMMA MarkOutcomeKeeps ==
    ASSUME RefreshInv, NEW s \in Slots, MarkOutcome(s)
    PROVE  RefreshInv'
<1> DEFINE k == req[s].key
<1> DEFINE goal == req[s].goal
<1> DEFINE row == [attempts[k] EXCEPT !.status = goal,
                                      !.active = KeepsMutex(goal)]
<1> DEFINE r == Idle
<1>1. /\ req \in [Slots -> Requests] /\ RequestFits(s)
      /\ attempts \in [Keys -> AttemptRows \cup {NoRow}]
      /\ \A e \in undecided : TransactionFits(e)
      /\ \A n \in DOMAIN pqs : PqFits(n)
      /\ undecided \subseteq Transactions
      /\ req[s].pc = "mark" /\ Holds(s)
  BY DEF RefreshInv, RefreshTypeOK, MarkOutcome, Holds
<1>2. /\ k \in Keys /\ req[s].total \in Totals /\ area[s] = None
      /\ attempts[k].active /\ attempts[k].total = req[s].total
      /\ goal \in {"succeeded", "failed_safe", "no_write",
                   "reconciliation_required"}
  BY <1>1, HolderIsActive DEF RequestFits
<1>3. attempts[k] \in AttemptRows
  BY <1>1, <1>2 DEF NoRow
<1>4. /\ row \in AttemptRows /\ row.status = goal
      /\ row.total = req[s].total
      /\ row.active = (goal = "reconciliation_required")
  BY <1>2, <1>3 DEF AttemptRows, Statuses, KeepsMutex
<1>5. /\ r \in Requests /\ r.pc = "idle"
  BY DEF Idle, Requests, Pcs
<1>6. /\ attempts' = [attempts EXCEPT ![k] = row]
      /\ req' = [req EXCEPT ![s] = r]
      /\ UNCHANGED <<authorities, sabre, crashes>>
  BY <1>1, <1>2 DEF MarkOutcome, End
<1>7. row.active =
        (row.status \in {"prepared", "submitting", "reconciliation_required"})
  BY <1>2, <1>4
<1>8. /\ req'[s] = r /\ area'[s] = None
  BY <1>1, <1>2, <1>6 DEF sabre
<1>9. RequestFits(s)' /\ ~Holds(s)'
  BY <1>5, <1>8 DEF RequestFits, Holds, StorePcs
<1>10. ASSUME NEW e \in undecided
       PROVE  row.total = e.total /\ row.status = "reconciliation_required"
  <2>1. e.key = k /\ TransactionFits(e)
    BY <1>1, HolderAndTransaction
  <2> QED BY <1>1, <1>2, <1>4, <2>1 DEF TransactionFits
<1>11. ASSUME NEW n \in DOMAIN pqs, pqs[n].by = k
       PROVE  /\ row.total = pqs[n].total
              /\ row.status \in {"reconciliation_required", "succeeded"}
              /\ row.status = "succeeded" => Authorized(n)
  <2>1. /\ attempts[k].total = pqs[n].total
        /\ goal \in {"succeeded", "reconciliation_required"}
    BY <1>1, <1>2, <1>11 DEF PqFits
  <2>2. goal = "succeeded" => Authorized(n)
    BY <1>1, <1>11 DEF RequestFits
  <2> QED BY <1>2, <1>4, <2>1, <2>2
<1>12. /\ \A t \in Slots \ {s} : ~Holds(t)
       /\ \A j \in Keys \ {k} : ~attempts[j].active
  BY <1>1, HolderIsAlone
<1>13. k = req[s].key
  OBVIOUS
<1>14. /\ \A e \in undecided : /\ row.total = e.total
                               /\ row.status = "reconciliation_required"
                               /\ ~Holds(s)'
       /\ \A n \in DOMAIN pqs : pqs[n].by = k =>
             /\ row.total = pqs[n].total
             /\ row.status \in {"reconciliation_required", "succeeded"}
             /\ row.status = "succeeded" => Authorized(n)
             /\ ~Holds(s)'
  BY <1>9, <1>10, <1>11
<1>15. k \in Keys /\ row \in AttemptRows /\ (Holds(s)' => r.key = k)
  BY <1>2, <1>4, <1>9
<1> HIDE DEF k, row, goal, r
<1> QED BY <1>5, <1>6, <1>7, <1>9, <1>12, <1>13, <1>14, <1>15,
           AttemptStep

-----------------------------------------------------------------------------
(* Steps that end a transaction                                            *)

\* A committed transaction appends one PQ.
LEMMA CommittedAppends ==
    ASSUME RefreshTypeOK, NEW k \in Keys, NEW total \in Totals,
           Committed(k, total), NEW new, new = Len(pqs) + 1
    PROVE  /\ pqs' \in Seq(PriceQuotes)
           /\ DOMAIN pqs' = DOMAIN pqs \cup {new} /\ new \notin DOMAIN pqs
           /\ \A n \in DOMAIN pqs : pqs'[n] = pqs[n]
           /\ pqs'[new].by = k /\ pqs'[new].total = total
<1>1. PICK mark \in {"current", "changed"} :
        pqs' = Append(pqs, [total |-> total, by |-> k, mark |-> mark])
  BY DEF Committed
<1> DEFINE p == [total |-> total, by |-> k, mark |-> mark]
<1>2. p \in PriceQuotes /\ p.by = k /\ p.total = total
  BY DEF PriceQuotes, Marks
<1>3. pqs' = Append(pqs, p)
  BY <1>1
<1> HIDE DEF p
<1>4. pqs \in Seq(PriceQuotes)
  BY DEF RefreshTypeOK
<1> QED BY <1>2, <1>3, <1>4

\* A transaction of an attempt that wrote nothing so far is committed.
LEMMA CommitStep ==
    ASSUME RefreshInv, NEW k \in Keys, NEW total \in Totals,
           NEW new, new = Len(pqs) + 1,
           attempts[k].active, attempts[k].total = total,
           attempts[k].status \in {"submitting", "reconciliation_required"},
           CurrentPqs = {}, \A n \in DOMAIN pqs : pqs[n].by # k,
           Committed(k, total), undecided' = {},
           UNCHANGED <<attempts, authorities, price, crashes>>,
           area' \in [Slots -> Totals \cup {None}],
           req' \in [Slots -> Requests],
           \A t \in Slots : Holds(t)' =>
             /\ Holds(t) /\ req'[t].key = req[t].key
             /\ \/ req'[t].pc = "readback"
                \/ /\ req'[t].pc = "mark"
                   /\ req'[t].goal = "reconciliation_required",
           CurrentPqs' \subseteq {new} => \A t \in Slots : RequestFits(t)'
    PROVE  RefreshInv'
<1>1. /\ RefreshTypeOK /\ MutexInv
      /\ \A n \in DOMAIN pqs : PqFits(n)
  BY DEF RefreshInv
<1>2. /\ pqs' \in Seq(PriceQuotes)
      /\ DOMAIN pqs' = DOMAIN pqs \cup {new} /\ new \notin DOMAIN pqs
      /\ \A n \in DOMAIN pqs : pqs'[n] = pqs[n]
      /\ pqs'[new].by = k /\ pqs'[new].total = total
  BY ZenonT(60), <1>1, CommittedAppends
<1>3. RefreshTypeOK'
  BY <1>1, <1>2 DEF RefreshTypeOK
<1>4. MutexInv'
  BY <1>1 DEF MutexInv
<1>5. CurrentPqs' \subseteq {new}
  BY <1>2 DEF CurrentPqs
<1>6. \A t \in Slots : RequestFits(t)'
  BY <1>5
<1>7. OneCurrentPq'
  BY <1>5 DEF OneCurrentPq
<1>8. ASSUME NEW t \in Slots, Holds(t)' PROVE req'[t].key = k
  BY <1>1, <1>8, HolderIsActive DEF MutexInv
<1>9. ASSUME NEW n \in DOMAIN pqs PROVE PqFits(n)'
  <2>1. PqFits(n) /\ pqs'[n] = pqs[n] /\ pqs[n].by # k
    BY <1>1, <1>2
  <2>2. Authorized(n)' = Authorized(n)
    BY <2>1 DEF Authorized
  <2>3. \A m \in DOMAIN pqs' : pqs'[m].by = pqs'[n].by =>
            m \in DOMAIN pqs /\ pqs[m].by = pqs[n].by
    BY <1>2, <2>1
  <2> QED BY <1>8, <2>1, <2>2, <2>3 DEF PqFits
<1>10. PqFits(new)'
  <2>1. /\ attempts'[k].total = pqs'[new].total
        /\ attempts'[k].status \in {"submitting", "reconciliation_required"}
    BY <1>2
  <2>2. \A m \in DOMAIN pqs' : pqs'[m].by = k => m = new
    BY <1>2
  <2>3. new \in DOMAIN pqs' /\ pqs'[new].by = k /\ pqs' = pqs'
    BY <1>2
  <2>4. \A t \in Slots : Holds(t)' =>
          \/ req'[t].pc \in {"readback", "authorize"}
          \/ /\ req'[t].pc = "mark"
             /\ req'[t].goal \in {"succeeded", "reconciliation_required"}
    OBVIOUS
  <2> QED BY <2>1, <2>2, <2>3, <2>4 DEF PqFits
<1>11. /\ \A n \in DOMAIN pqs' : PqFits(n)'
       /\ \A e \in undecided' : TransactionFits(e)'
  BY <1>2, <1>9, <1>10
<1> QED BY <1>3, <1>4, <1>6, <1>7, <1>11 DEF RefreshInv

LEMMA EndTransactionKeeps ==
    ASSUME RefreshInv, NEW s \in Slots, EndTransaction(s)
    PROVE  RefreshInv'
<1> DEFINE k == req[s].key
<1> DEFINE total == req[s].total
<1> DEFINE r == [req[s] EXCEPT !.pc = "readback"]
<1> DEFINE new == Len(pqs) + 1
<1>0. new = Len(pqs) + 1
  OBVIOUS
<1>1. /\ req \in [Slots -> Requests] /\ \A t \in Slots : RequestFits(t)
      /\ area \in [Slots -> Totals \cup {None}] /\ RefreshTypeOK
      /\ req[s].pc = "end" /\ Holds(s)
  BY DEF RefreshInv, RefreshTypeOK, EndTransaction, Holds
<1>2. /\ k \in Keys /\ total \in Totals /\ attempts[k].active
      /\ attempts[k].total = total /\ attempts[k].status = "submitting"
      /\ CurrentPqs = {} /\ area[s] = total
  BY <1>1, HolderIsActive DEF RequestFits, StorePcs
<1>3. undecided = {} /\ \A n \in DOMAIN pqs : pqs[n].by # k
  BY <1>1, NothingWrittenYet
<1>4. /\ Committed(k, total)
      /\ area' = [area EXCEPT ![s] = None] /\ req' = [req EXCEPT ![s] = r]
      /\ UNCHANGED <<attempts, authorities, undecided, price, crashes>>
  BY <1>1, <1>2 DEF EndTransaction, Discard, Goto
<1>5. /\ r \in Requests /\ r.pc = "readback" /\ r.key = k /\ r.total = total
  BY <1>1 DEF Requests, Pcs
<1>6. k = req[s].key /\ total = req[s].total
  OBVIOUS
<1> HIDE DEF k, total, r, new
<1>7. /\ req' \in [Slots -> Requests]
      /\ area' \in [Slots -> Totals \cup {None}]
      /\ req'[s] = r /\ area'[s] = None
      /\ \A t \in Slots \ {s} : req'[t] = req[t] /\ area'[t] = area[t]
  BY <1>1, <1>4, <1>5
<1>8. \A t \in Slots \ {s} : ~Holds(t) /\ ~Holds(t)'
  BY <1>1, <1>7, HolderIsAlone DEF Holds
<1>9. \A t \in Slots : Holds(t)' =>
        Holds(t) /\ req'[t].key = req[t].key /\ req'[t].pc = "readback"
  BY <1>1, <1>5, <1>6, <1>7, <1>8
<1>10. ASSUME CurrentPqs' \subseteq {new}, NEW t \in Slots
       PROVE  RequestFits(t)'
  <2>1. CASE t # s
    <3>1. /\ req'[t] = req[t] /\ area'[t] = area[t] /\ RequestFits(t)
          /\ req[t].pc \in {"idle", "insert"}
      BY <1>1, <1>7, <1>8, <2>1 DEF Holds
    <3> QED BY <3>1 DEF RequestFits, Holds, StorePcs
  <2>2. CASE t = s
    <3>1. \A n \in CurrentPqs' : pqs'[n].by = k
      BY <1>0, <1>1, <1>2, <1>4, <1>10, CommittedAppends DEF CurrentPqs
    <3>2. /\ req'[t] = r /\ area'[t] = None
      BY <1>7, <2>2
    <3>3. attempts' = attempts
      BY <1>4
    <3> QED BY <1>2, <1>5, <3>1, <3>2, <3>3 DEF RequestFits, Holds, StorePcs
  <2> QED BY <2>1, <2>2
<1>11. CurrentPqs' \subseteq {new} => \A t \in Slots : RequestFits(t)'
  BY <1>10
<1> QED BY <1>0, <1>2, <1>3, <1>4, <1>7, <1>9, <1>11, CommitStep

\* A request stops waiting for its transaction: the transaction is in the air.
LEMMA FlightStep ==
    ASSUME RefreshInv, NEW s \in Slots, req[s].pc = "end",
           NEW r \in Requests, req' = [req EXCEPT ![s] = r],
           \/ r.pc = "idle"
           \/ /\ r = [req[s] EXCEPT !.pc = "mark",
                                    !.goal = "reconciliation_required"],
           NEW e, e = InFlight(s), undecided' = undecided \cup {e}, Discard(s),
           UNCHANGED <<attempts, authorities, pqs, price>>, crashes' \in Nat
    PROVE  RefreshInv'
<1> DEFINE k == req[s].key
<1>1. /\ RefreshTypeOK /\ MutexInv /\ \A t \in Slots : RequestFits(t)
      /\ (\A n \in DOMAIN pqs : PqFits(n)) /\ OneCurrentPq
      /\ req \in [Slots -> Requests] /\ area \in [Slots -> Totals \cup {None}]
      /\ Holds(s)
  BY DEF RefreshInv, RefreshTypeOK, Holds
<1>2. /\ k \in Keys /\ attempts[k].active /\ req[s].total \in Totals
      /\ attempts[k].total = req[s].total /\ attempts[k].status = "submitting"
      /\ CurrentPqs = {} /\ area[s] = req[s].total
  BY <1>1, HolderIsActive DEF RequestFits, StorePcs
<1>3. undecided = {} /\ \A n \in DOMAIN pqs : pqs[n].by # k
  BY <1>1, NothingWrittenYet
<1>4. e \in Transactions /\ e.key = k /\ e.total = req[s].total
  BY <1>2 DEF Transactions, InFlight
<1>5. \/ r.pc = "idle"
      \/ /\ r.pc = "mark" /\ r.goal = "reconciliation_required"
         /\ r.key = k /\ r.total = req[s].total
  BY <1>1 DEF Requests
<1>6. k = req[s].key /\ undecided' = {e}
  BY <1>3
<1>7. /\ area' \in [Slots -> Totals \cup {None}]
      /\ req' \in [Slots -> Requests]
      /\ req'[s] = r /\ area'[s] = None
      /\ \A t \in Slots \ {s} : req'[t] = req[t] /\ area'[t] = area[t]
  BY <1>1 DEF Discard
<1> HIDE DEF k
<1>8. RefreshTypeOK'
  BY <1>1, <1>4, <1>6, <1>7 DEF RefreshTypeOK
<1>9. \A t \in Slots \ {s} : ~Holds(t) /\ ~Holds(t)'
  BY <1>1, <1>7, HolderIsAlone DEF Holds
<1>10. MutexInv'
  BY <1>1, <1>9 DEF MutexInv
<1>11. CurrentPqs' = {} /\ \A n \in DOMAIN pqs : Authorized(n)' = Authorized(n)
  BY <1>2 DEF CurrentPqs, Authorized
<1>12. ASSUME NEW t \in Slots PROVE RequestFits(t)'
  <2>1. CASE t # s
    <3>1. /\ req'[t] = req[t] /\ area'[t] = area[t] /\ RequestFits(t)
          /\ req[t].pc \in {"idle", "insert"}
      BY <1>1, <1>7, <1>9, <2>1 DEF Holds
    <3> QED BY <3>1 DEF RequestFits, Holds, StorePcs
  <2>2. CASE t = s
    <3>1. /\ req'[t] = r /\ area'[t] = None
      BY <1>7, <2>2
    <3>2. attempts' = attempts
      OBVIOUS
    <3> QED BY <1>2, <1>5, <3>1, <3>2 DEF RequestFits, Holds, StorePcs
  <2> QED BY <2>1, <2>2
<1>13. TransactionFits(e)'
  <2>1. \A t \in Slots : Holds(t)' =>
          req'[t].pc = "mark" /\ req'[t].goal = "reconciliation_required"
    BY <1>5, <1>7, <1>9 DEF Holds
  <2>2. attempts' = attempts /\ pqs' = pqs
    OBVIOUS
  <2> QED BY <1>2, <1>3, <1>4, <1>11, <2>1, <2>2 DEF TransactionFits
<1>14. ASSUME NEW n \in DOMAIN pqs PROVE PqFits(n)'
  <2>1. PqFits(n) /\ pqs[n].by # k
    BY <1>1, <1>3
  <2>2. \A t \in Slots : Holds(t)' => req'[t].key = k
    BY <1>5, <1>7, <1>9 DEF Holds
  <2> QED BY <2>1, <2>2, <1>11 DEF PqFits
<1>15. OneCurrentPq'
  BY <1>11 DEF OneCurrentPq
<1>16. /\ \A n \in DOMAIN pqs' : PqFits(n)'
       /\ \A f \in undecided' : TransactionFits(f)'
  BY <1>6, <1>13, <1>14
<1> QED BY <1>8, <1>10, <1>12, <1>15, <1>16 DEF RefreshInv

LEMMA EndUnclearKeeps ==
    ASSUME RefreshInv, NEW s \in Slots, EndUnclear(s)
    PROVE  RefreshInv'
<1> DEFINE r == [req[s] EXCEPT !.pc = "mark",
                               !.goal = "reconciliation_required"]
<1> DEFINE e == InFlight(s)
<1>1. req \in [Slots -> Requests] /\ crashes \in Nat
  BY DEF RefreshInv, RefreshTypeOK
<1>2. r \in Requests /\ req' = [req EXCEPT ![s] = r]
  BY <1>1 DEF EndUnclear, Settle, Requests, Pcs, Statuses
<1>3. /\ req[s].pc = "end" /\ Discard(s)
      /\ undecided' = undecided \cup {e} /\ e = InFlight(s)
      /\ UNCHANGED <<attempts, authorities, pqs, price>> /\ crashes' \in Nat
  BY <1>1 DEF EndUnclear
<1>4. r = [req[s] EXCEPT !.pc = "mark", !.goal = "reconciliation_required"]
  OBVIOUS
<1> HIDE DEF r, e
<1> QED BY <1>2, <1>3, <1>4, FlightStep

-----------------------------------------------------------------------------
(* What happens around the requests                                        *)

LEMMA CrashKeeps ==
    ASSUME RefreshInv, NEW s \in Slots, Crash(s)
    PROVE  RefreshInv'
<1>1. /\ req \in [Slots -> Requests] /\ crashes \in Nat
      /\ area \in [Slots -> Totals \cup {None}]
  BY DEF RefreshInv, RefreshTypeOK
<1>2. /\ req[s].pc # "idle" /\ crashes' \in Nat /\ End(s) /\ Discard(s)
      /\ UNCHANGED <<attempts, authorities, pqs, price>>
  BY <1>1 DEF Crash
<1>3. CASE UNCHANGED undecided
  <2>1. /\ area' \in {area, [area EXCEPT ![s] = None]} /\ area'[s] = None
        /\ Holds(s) \/ req[s].pc = "insert"
    BY <1>1, <1>2 DEF Discard, Holds
  <2> QED BY <1>2, <1>3, <2>1, EndStep
<1>4. CASE req[s].pc = "end" /\ undecided' = undecided \cup {InFlight(s)}
  <2> DEFINE r == Idle
  <2> DEFINE e == InFlight(s)
  <2>1. /\ r \in Requests /\ r.pc = "idle"
        /\ req' = [req EXCEPT ![s] = r]
    BY <1>2 DEF Idle, Requests, Pcs, End
  <2>2. e = InFlight(s) /\ undecided' = undecided \cup {e}
    BY <1>4
  <2> HIDE DEF r, e
  <2> QED BY <1>2, <1>4, <2>1, <2>2, FlightStep
<1> QED BY <1>3, <1>4 DEF Crash

\* The marks of the PQs change, or a transaction vanishes: nothing a request
\* relies on.
LEMMA SabreStep ==
    ASSUME RefreshInv, pqs' \in Seq(PriceQuotes), Len(pqs') = Len(pqs),
           \A n \in DOMAIN pqs : /\ pqs'[n].by = pqs[n].by
                                 /\ pqs'[n].total = pqs[n].total,
           CurrentPqs' \subseteq CurrentPqs,
           undecided' \subseteq undecided, price' \in Totals,
           UNCHANGED <<attempts, authorities, req, area, crashes>>
    PROVE  RefreshInv'
<1>1. /\ RefreshTypeOK /\ MutexInv /\ \A t \in Slots : RequestFits(t)
      /\ \A e \in undecided : TransactionFits(e)
      /\ \A n \in DOMAIN pqs : PqFits(n)
      /\ OneCurrentPq /\ pqs \in Seq(PriceQuotes)
  BY DEF RefreshInv, RefreshTypeOK
<1>2. DOMAIN pqs' = DOMAIN pqs
  BY <1>1
<1>3. RefreshTypeOK' /\ MutexInv' /\ OneCurrentPq'
  <2>1. RefreshTypeOK'
    BY <1>1 DEF RefreshTypeOK
  <2>2. MutexInv'
    BY <1>1 DEF MutexInv, Holds
  <2>3. OneCurrentPq'
    BY <1>1 DEF OneCurrentPq
  <2> QED BY <2>1, <2>2, <2>3
<1>4. ASSUME NEW n \in DOMAIN pqs PROVE Authorized(n)' = Authorized(n)
  BY <1>4 DEF Authorized
<1>5. CurrentPqs \subseteq DOMAIN pqs
  BY DEF CurrentPqs
<1>6. ASSUME NEW t \in Slots PROVE RequestFits(t)'
  <2>1. RequestFits(t)
    BY <1>1
  <2>2. req[t].pc = "readback" =>
          \A n \in CurrentPqs' : pqs'[n].by = req[t].key
    BY <1>5, <2>1 DEF RequestFits
  <2>3. req[t].pc = "authorize" =>
          /\ req[t].record \in DOMAIN pqs'
          /\ pqs'[req[t].record].by = req[t].key
          /\ pqs'[req[t].record].total = req[t].total
    BY <1>2, <2>1 DEF RequestFits
  <2>4. req[t].pc \in {"submit"} \cup StorePcs => CurrentPqs' = {}
    BY <2>1 DEF RequestFits
  <2>5. req[t].pc = "mark" /\ req[t].goal = "succeeded" =>
          \A n \in DOMAIN pqs' : pqs'[n].by = req[t].key => Authorized(n)'
    BY <1>2, <1>4, <2>1 DEF RequestFits
  <2>6. /\ req' = req /\ attempts' = attempts /\ area' = area
        /\ (Holds(t)' <=> Holds(t))
    BY DEF Holds
  <2> QED BY <2>1, <2>2, <2>3, <2>4, <2>5, <2>6 DEF RequestFits
<1>7. ASSUME NEW e \in undecided PROVE TransactionFits(e)'
  <2>1. TransactionFits(e) /\ CurrentPqs' = {}
    BY <1>1, <1>7 DEF TransactionFits
  <2>2. \A n \in DOMAIN pqs' : pqs'[n].by # e.key
    BY <1>2, <2>1 DEF TransactionFits
  <2> QED BY <2>1, <2>2 DEF TransactionFits, Holds
<1>8. ASSUME NEW n \in DOMAIN pqs PROVE PqFits(n)'
  <2>1. PqFits(n) /\ pqs'[n].by = pqs[n].by /\ pqs'[n].total = pqs[n].total
    BY <1>1
  <2>2. \A m \in DOMAIN pqs' : pqs'[m].by = pqs[m].by /\ m \in DOMAIN pqs
    BY <1>2
  <2> QED BY <1>4, <2>1, <2>2 DEF PqFits, Holds
<1>9. /\ \A n \in DOMAIN pqs' : PqFits(n)'
      /\ \A e \in undecided' : TransactionFits(e)'
  BY <1>2, <1>7, <1>8
<1> QED BY <1>3, <1>6, <1>9 DEF RefreshInv

LEMMA PriceMovesKeeps ==
    ASSUME RefreshInv, PriceMoves
    PROVE  RefreshInv'
<1>1. pqs \in Seq(PriceQuotes)
  BY DEF RefreshInv, RefreshTypeOK
<1>2. /\ pqs' = pqs /\ undecided' = undecided /\ price' \in Totals
      /\ UNCHANGED <<attempts, authorities, req, area, crashes>>
  BY DEF PriceMoves
<1>3. CurrentPqs' = CurrentPqs
  BY <1>2 DEF CurrentPqs
<1> QED BY <1>1, <1>2, <1>3, SabreStep

LEMMA ItineraryChangesKeeps ==
    ASSUME RefreshInv, ItineraryChanges
    PROVE  RefreshInv'
<1>1. pqs \in Seq(PriceQuotes) /\ price \in Totals
  BY DEF RefreshInv, RefreshTypeOK
<1>2. /\ undecided' = undecided /\ price' = price
      /\ UNCHANGED <<attempts, authorities, req, area, crashes>>
  BY DEF ItineraryChanges
<1>3. pqs' = [n \in 1..Len(pqs) |->
                 IF n \in CurrentPqs THEN [pqs[n] EXCEPT !.mark = "changed"]
                                     ELSE pqs[n]]
  BY <1>1 DEF ItineraryChanges
<1>4. ASSUME NEW n \in 1..Len(pqs)
      PROVE  /\ pqs'[n] \in PriceQuotes
             /\ pqs'[n].by = pqs[n].by /\ pqs'[n].total = pqs[n].total
             /\ pqs'[n].mark # "current"
  <2>1. pqs[n] \in PriceQuotes
    BY <1>1
  <2> QED BY <1>1, <1>3, <2>1 DEF PriceQuotes, Marks, CurrentPqs
<1>5. Len(pqs) \in Nat /\ DOMAIN pqs = 1..Len(pqs)
  BY <1>1
<1>6. pqs' \in [1..Len(pqs) -> PriceQuotes]
  BY <1>3, <1>4
<1>7. pqs' \in Seq(PriceQuotes) /\ Len(pqs') = Len(pqs)
  BY <1>5, <1>6
<1>8. CurrentPqs' = {}
  BY <1>4, <1>6 DEF CurrentPqs
<1> QED BY <1>1, <1>2, <1>4, <1>5, <1>7, <1>8, SabreStep

LEMMA SabreDecidesKeeps ==
    ASSUME RefreshInv, SabreDecides
    PROVE  RefreshInv'
<1>1. PICK e \in undecided :
        /\ undecided' = undecided \ {e}
        /\ Committed(e.key, e.total) \/ UNCHANGED pqs
  BY DEF SabreDecides
<1>2. /\ UNCHANGED <<attempts, authorities, req, area, price, crashes>>
      /\ price' \in Totals /\ undecided' = {}
      /\ pqs \in Seq(PriceQuotes)
      /\ req' \in [Slots -> Requests]
      /\ area' \in [Slots -> Totals \cup {None}]
      /\ \A t \in Slots : RequestFits(t)
  BY <1>1, OneTransaction DEF SabreDecides, RefreshInv, RefreshTypeOK
<1>3. CASE UNCHANGED pqs
  <2>1. CurrentPqs' = CurrentPqs
    BY <1>3 DEF CurrentPqs
  <2> QED BY <1>2, <1>3, <2>1, SabreStep
<1>4. CASE Committed(e.key, e.total)
  <2>1. e.key \in Keys /\ e.total \in Totals /\ TransactionFits(e)
    BY DEF RefreshInv, RefreshTypeOK, Transactions
  <2>2. /\ attempts[e.key].active /\ attempts[e.key].total = e.total
        /\ attempts[e.key].status
             \in {"submitting", "reconciliation_required"}
        /\ CurrentPqs = {} /\ \A n \in DOMAIN pqs : pqs[n].by # e.key
    BY <2>1 DEF TransactionFits
  <2>3. ASSUME NEW t \in Slots, Holds(t)
        PROVE  req[t].pc = "mark" /\ req[t].goal = "reconciliation_required"
    BY <2>1, <2>3 DEF TransactionFits
  <2>4. \A t \in Slots : Holds(t)' =>
          /\ Holds(t) /\ req'[t].key = req[t].key
          /\ \/ req'[t].pc = "readback"
             \/ req'[t].pc = "mark" /\ req'[t].goal = "reconciliation_required"
    BY <1>2, <2>3 DEF Holds
  <2>5. ASSUME NEW t \in Slots PROVE RequestFits(t)'
    <3>1. /\ RequestFits(t) /\ (Holds(t)' <=> Holds(t))
          /\ \/ req[t].pc \in {"idle", "insert"}
             \/ req[t].pc = "mark" /\ req[t].goal = "reconciliation_required"
      BY <1>2, <2>3 DEF Holds
    <3> QED BY <3>1, <1>2 DEF RequestFits, StorePcs
  <2> DEFINE new == Len(pqs) + 1
  <2>6. new = Len(pqs) + 1
    OBVIOUS
  <2> HIDE DEF new
  <2>7. CurrentPqs' \subseteq {new} => \A t \in Slots : RequestFits(t)'
    BY <2>5
  <2>8. UNCHANGED <<attempts, authorities, price, crashes>>
    BY <1>2
  <2> QED BY <1>2, <1>4, <2>1, <2>2, <2>4, <2>6, <2>7, <2>8, CommitStep
<1> QED BY <1>1, <1>3, <1>4

-----------------------------------------------------------------------------
(* The theorems                                                            *)

LEMMA InitInv == Init => RefreshInv
<1> SUFFICES ASSUME Init PROVE RefreshInv
  OBVIOUS
<1>1. /\ pqs \in Seq(PriceQuotes) /\ Len(pqs) \in {0, 1}
      /\ \A n \in DOMAIN pqs : n = 1 /\ pqs[n].by = None
  <2>1. CASE pqs = <<>>
    BY <2>1
  <2>2. ASSUME NEW t \in Totals, NEW m \in Marks,
               pqs = <<[total |-> t, by |-> None, mark |-> m]>>
        PROVE  /\ pqs \in Seq(PriceQuotes) /\ Len(pqs) \in {0, 1}
               /\ \A n \in DOMAIN pqs : n = 1 /\ pqs[n].by = None
    <3>1. [total |-> t, by |-> None, mark |-> m] \in PriceQuotes
      BY DEF PriceQuotes
    <3> QED BY <2>2, <3>1
  <2> QED BY <2>1, <2>2 DEF Init
<1>2. \A k \in Keys : /\ attempts[k].active = FALSE
                       /\ attempts[k].status = "none"
  BY DEF Init, NoRow
<1>3. \A s \in Slots : /\ req[s] = Idle /\ req[s].pc = "idle"
                       /\ area[s] = None
  BY DEF Init, Idle
<1>4. Idle \in Requests
  BY DEF Idle, Requests, Pcs
<1>5. RefreshTypeOK
  <2>1. attempts \in [Keys -> AttemptRows \cup {NoRow}]
    BY DEF Init
  <2>2. req \in [Slots -> Requests]
    BY <1>4 DEF Init
  <2>3. authorities \in Seq(AuthorityRows)
    BY DEF Init
  <2>4. /\ area \in [Slots -> Totals \cup {None}] /\ crashes \in Nat
        /\ undecided \subseteq Transactions /\ price \in Totals
    BY DEF Init
  <2> QED BY <1>1, <2>1, <2>2, <2>3, <2>4 DEF RefreshTypeOK
<1>6. MutexInv
  <2>1. \A s \in Slots : ~Holds(s)
    BY <1>3 DEF Holds
  <2>2. ASSUME NEW k \in Keys
        PROVE  attempts[k].active =
                 (attempts[k].status \in
                    {"prepared", "submitting", "reconciliation_required"})
    <3>1. (attempts[k].status \in
             {"prepared", "submitting", "reconciliation_required"}) = FALSE
      BY <1>2
    <3> QED BY <1>2, <3>1
  <2> QED BY <1>2, <2>1, <2>2 DEF MutexInv
<1>7. \A s \in Slots : RequestFits(s)
  BY <1>3 DEF RequestFits, Holds, StorePcs
<1>8. \A n \in DOMAIN pqs : PqFits(n)
  BY <1>1, RefreshAssumption DEF PqFits
<1>9. OneCurrentPq /\ undecided = {}
  BY <1>1 DEF OneCurrentPq, CurrentPqs, Init
<1> QED BY <1>5, <1>6, <1>7, <1>8, <1>9 DEF RefreshInv

LEMMA StepKeeps == RefreshInv /\ [Next]_vars => RefreshInv'
<1> SUFFICES ASSUME RefreshInv, [Next]_vars PROVE RefreshInv'
  OBVIOUS
<1>1. ASSUME NEW s \in Slots, NEW key \in Keys, NEW total \in Totals,
             Prepare(s, key, total)
      PROVE  RefreshInv'
  BY <1>1, PrepareKeeps
<1>2. ASSUME NEW s \in Slots, Advance(s) PROVE RefreshInv'
  <2>1. CASE InsertRow(s) \/ LoseRow(s)
    BY <2>1, InsertRowKeeps, LoseRowKeeps
  <2>2. CASE Discover(s) \/ ReadBefore(s) \/ OpenSession(s)
               \/ (Preview(s) /\ price = req[s].total)
    BY <2>2, DiscoverKeeps
  <2>3. CASE \/ Block(s) \/ StoreRefused(s) \/ StoreRaises(s)
             \/ Unverified(s)
             \/ Preview(s) /\ price # req[s].total
             \/ Ignore(s) \/ IgnoreFails(s)
    BY <2>3, SettlingKeeps
  <2>4. CASE MarkSubmitting(s) \/ MarkOutcome(s)
    BY <2>4, MarkSubmittingKeeps, MarkOutcomeKeeps
  <2>5. CASE Retain(s) \/ RetainUnclear(s)
    BY <2>5, RetainKeeps
  <2>6. CASE EndTransaction(s) \/ EndUnclear(s)
    BY <2>6, EndTransactionKeeps, EndUnclearKeeps
  <2>7. CASE ReadBack(s) \/ SaveAuthority(s)
    BY <2>7, ReadBackKeeps, SaveAuthorityKeeps
  <2> QED BY <1>2, <2>1, <2>2, <2>3, <2>4, <2>5, <2>6, <2>7 DEF Advance
<1>3. ASSUME NEW s \in Slots, Crash(s) PROVE RefreshInv'
  BY <1>3, CrashKeeps
<1>4. CASE SabreDecides \/ PriceMoves \/ ItineraryChanges
  BY <1>4, SabreDecidesKeeps, PriceMovesKeeps, ItineraryChangesKeeps
<1>5. CASE UNCHANGED vars
  <2>1. /\ pqs' = pqs /\ undecided' = undecided /\ price' \in Totals
        /\ pqs \in Seq(PriceQuotes)
        /\ UNCHANGED <<attempts, authorities, req, area, crashes>>
    BY <1>5 DEF vars, RefreshInv, RefreshTypeOK
  <2>2. CurrentPqs' = CurrentPqs
    BY <2>1 DEF CurrentPqs
  <2> QED BY <2>1, <2>2, SabreStep
<1> QED BY <1>1, <1>2, <1>3, <1>4, <1>5 DEF Next

\* RefreshInv is an invariant: the mutex of the attempt rows, the PQs in Sabre
\* and what the requests know agree, for any number of them.
THEOREM RefreshIsSafe == Spec => []RefreshInv
BY InitInv, StepKeeps, PTL DEF Spec

\* The pricing refresh is type correct.
THEOREM RefreshTypes == Spec => []RefreshTypeOK
<1>1. RefreshInv => RefreshTypeOK
  BY DEF RefreshInv
<1> QED BY <1>1, RefreshIsSafe, PTL

\* A PQ retained in a session, or in the air, is covered by the mutex of its
\* attempt: no second write can start.
THEOREM WritesAreCovered == Spec => []MutexCoversWrites
<1>1. ASSUME RefreshInv PROVE MutexCoversWrites
  <2>1. ASSUME NEW s \in Slots, area[s] # None
        PROVE  req[s].key # None /\ attempts[req[s].key].active
    <3>1. Holds(s)
      BY <1>1, <2>1 DEF RefreshInv, RequestFits, Holds
    <3> QED BY <1>1, <3>1, HolderIsActive, RefreshAssumption
  <2>2. \A e \in undecided : attempts[e.key].active
    BY <1>1 DEF RefreshInv, TransactionFits
  <2> QED BY <2>1, <2>2 DEF MutexCoversWrites
<1> QED BY <1>1, RefreshIsSafe, PTL

\* Every PQ this application stored costs what the agent confirmed.
THEOREM PriceIsTheConfirmedOne == Spec => []SoldAsConfirmed
<1>1. RefreshInv => SoldAsConfirmed
  BY DEF RefreshInv, PqFits, SoldAsConfirmed
<1> QED BY <1>1, RefreshIsSafe, PTL

\* FAILED_SAFE and NO_WRITE are never recorded for an attempt that wrote or
\* may still write.
THEOREM SafeIsTrue == Spec => []SafeMeansNothingWritten
<1>1. ASSUME RefreshInv PROVE SafeMeansNothingWritten
  <2>1. ASSUME NEW k \in Keys,
               attempts[k].status \in {"failed_safe", "no_write"}
        PROVE  /\ \A n \in DOMAIN pqs : pqs[n].by # k
               /\ \A e \in undecided : e.key # k
    BY <1>1, <2>1 DEF RefreshInv, PqFits, TransactionFits
  <2> QED BY <2>1 DEF SafeMeansNothingWritten
<1> QED BY <1>1, RefreshIsSafe, PTL

\* When the mutex is free every PQ this application stored is authorized.
THEOREM FreeMeansAuthorized == Spec => []EveryPqIsAuthorized
<1>1. ASSUME RefreshInv PROVE EveryPqIsAuthorized
  <2>1. ASSUME MutexFree, NEW n \in DOMAIN pqs, pqs[n].by \in Keys
        PROVE  Authorized(n)
    <3>1. /\ PqFits(n) /\ ~attempts[pqs[n].by].active
          /\ attempts[pqs[n].by].active =
               (attempts[pqs[n].by].status \in
                  {"prepared", "submitting", "reconciliation_required"})
      BY <1>1, <2>1 DEF RefreshInv, MutexInv, MutexFree
    <3> QED BY <2>1, <3>1 DEF PqFits
  <2> QED BY <2>1 DEF EveryPqIsAuthorized
<1> QED BY <1>1, RefreshIsSafe, PTL

\* Never two current PQs: none is stacked over another.
THEOREM PqsAreNotStacked == Spec => []OneCurrentPq
<1>1. RefreshInv => OneCurrentPq
  BY DEF RefreshInv
<1> QED BY <1>1, RefreshIsSafe, PTL

-----------------------------------------------------------------------------
(* An unknown outcome is final                                             *)

\* Only InsertRow, MarkSubmitting and MarkOutcome write a row, and none of
\* them runs beside a row that needs reconciliation.
LEMMA RowsAreWrittenByOwners ==
    ASSUME RefreshInv, Next, attempts' # attempts
    PROVE  \E s \in Slots :
             \/ InsertRow(s)
             \/ MarkSubmitting(s) /\ Holds(s)
             \/ MarkOutcome(s) /\ Holds(s)
<1>1. ASSUME NEW s \in Slots, NEW key \in Keys, NEW total \in Totals,
             Prepare(s, key, total)
      PROVE  FALSE
  BY <1>1 DEF Prepare
<1>2. ASSUME NEW s \in Slots, Advance(s)
      PROVE  \/ InsertRow(s)
             \/ MarkSubmitting(s) /\ Holds(s)
             \/ MarkOutcome(s) /\ Holds(s)
  <2>1. \/ InsertRow(s) \/ MarkSubmitting(s) \/ MarkOutcome(s)
    BY <1>2 DEF Advance, LoseRow, Discover, ReadBefore, Block, OpenSession,
       Preview, StoreRefused, StoreRaises, Retain, RetainUnclear, Ignore,
       IgnoreFails, EndTransaction, EndUnclear, ReadBack, SaveAuthority,
       Unverified
  <2>2. MarkSubmitting(s) => Holds(s)
    BY DEF MarkSubmitting, Holds
  <2>3. MarkOutcome(s) => Holds(s)
    BY DEF MarkOutcome, Holds
  <2> QED BY <2>1, <2>2, <2>3
<1>3. ASSUME NEW s \in Slots, Crash(s) PROVE FALSE
  BY <1>3 DEF Crash
<1>4. ~SabreDecides /\ ~PriceMoves /\ ~ItineraryChanges
  BY DEF SabreDecides, PriceMoves, ItineraryChanges
<1> QED BY <1>1, <1>2, <1>3, <1>4 DEF Next

\* Once an outcome is unknown, no row of the Booking changes or appears.
THEOREM UnknownStaysUnknown == Spec => UnknownIsFinal
<1>1. ASSUME RefreshInv, [Next]_vars,
             NEW k \in Keys, attempts[k].status = "reconciliation_required"
      PROVE  UNCHANGED attempts
  <2>1. SUFFICES ASSUME attempts' # attempts PROVE FALSE
    OBVIOUS
  <2>2. attempts[k].active
    BY <1>1 DEF RefreshInv, MutexInv
  <2>3. PICK s \in Slots : \/ InsertRow(s)
                           \/ MarkSubmitting(s) /\ Holds(s)
                           \/ MarkOutcome(s) /\ Holds(s)
    BY <1>1, <2>1, RowsAreWrittenByOwners DEF vars
  <2>4. ~InsertRow(s)
    BY <2>2 DEF InsertRow, MutexFree
  <2>5. ~Holds(s)
    <3>1. ASSUME Holds(s) PROVE FALSE
      <4>1. /\ req[s].key \in Keys /\ attempts[req[s].key].active
            /\ attempts[req[s].key].status \in {"prepared", "submitting"}
        BY <1>1, <3>1, HolderIsActive
      <4> QED BY <1>1, <2>2, <4>1 DEF RefreshInv, MutexInv
    <3> QED BY <3>1
  <2> QED BY <2>3, <2>4, <2>5
<1>2. RefreshInv /\ [Next]_vars =>
        ((\E k \in Keys : attempts[k].status = "reconciliation_required")
           => UNCHANGED attempts)
  BY <1>1
<1>3. RefreshInv /\ [Next]_vars =>
        [(\E k \in Keys : attempts[k].status = "reconciliation_required")
           => UNCHANGED attempts]_vars
  BY <1>2
<1> QED BY <1>3, RefreshIsSafe, PTL DEF Spec, UnknownIsFinal

-----------------------------------------------------------------------------
(* The refinement                                                          *)

\* With one active row, that row's key is the owner.
LEMMA OwnerIsTheActive ==
    ASSUME RefreshInv, NEW k \in Keys, attempts[k].active
    PROVE  Owner = k
<1>1. ~MutexFree
  BY DEF MutexFree
<1>2. \A j \in Keys : attempts[j].active => j = k
  BY DEF RefreshInv, MutexInv
<1> QED BY <1>1, <1>2 DEF Owner

\* The same of the next state, where the invariant is not assumed.
LEMMA NextOwnerIsTheActive ==
    ASSUME NEW k \in Keys, attempts'[k].active,
           \A j \in Keys \ {k} : ~attempts'[j].active
    PROVE  Owner' = k
<1>1. ~MutexFree'
  BY DEF MutexFree
<1> QED BY <1>1 DEF Owner

\* Rows that stay, and PQs that stay whose they are: nothing happened to the
\* flight.
LEMMA StutterStep ==
    ASSUME UNCHANGED attempts, DOMAIN pqs' = DOMAIN pqs,
           \A n \in DOMAIN pqs : pqs'[n].by = pqs[n].by
    PROVE  UNCHANGED Flight!flightVars
<1>1. Owner' = Owner /\ Spent' = Spent
  BY DEF Owner, MutexFree, Spent
<1>2. ASSUME NEW n \in DOMAIN pqs
      PROVE  pqs'[n].by \in Keys <=> pqs[n].by \in Keys
  BY <1>2
<1>3. Made' = Made
  BY <1>2 DEF Made
<1> QED BY <1>1, <1>3 DEF Flight!flightVars

\* A committed transaction of an attempt that wrote nothing so far.
LEMMA CommitMaps ==
    ASSUME RefreshInv, NEW k \in Keys, NEW total \in Totals,
           attempts[k].active, \A n \in DOMAIN pqs : pqs[n].by # k,
           Committed(k, total), UNCHANGED attempts
    PROVE  Flight!Commit
<1> DEFINE new == Len(pqs) + 1
<1>1. new = Len(pqs) + 1 /\ RefreshTypeOK
  BY DEF RefreshInv
<1> HIDE DEF new
<1>2. /\ DOMAIN pqs' = DOMAIN pqs \cup {new} /\ new \notin DOMAIN pqs
      /\ \A n \in DOMAIN pqs : pqs'[n] = pqs[n]
      /\ pqs'[new].by = k
  BY <1>1, CommittedAppends
<1>3. Owner = k /\ Owner' = k /\ k # None
  BY OwnerIsTheActive, NextOwnerIsTheActive, RefreshAssumption
     DEF RefreshInv, MutexInv
<1>4. Spent' = Spent
  BY DEF Spent
<1>5. Made' = Made \cup {<<new, k>>} /\ <<new, k>> \in Made'
  <2>1. ASSUME NEW m PROVE m \in Made' <=> m \in Made \cup {<<new, k>>}
    BY <1>2 DEF Made
  <2> QED BY <2>1
<1>6. \A m \in Made : m[1] # new /\ m[2] # k
  BY <1>2 DEF Made
<1>7. /\ Owner # None /\ UNCHANGED <<Owner, Spent>>
      /\ <<new, k>>[2] = Owner
      /\ \A m \in Made : m[1] # <<new, k>>[1] /\ m[2] # Owner
  BY <1>3, <1>4, <1>6
<1> QED BY <1>5, <1>7 DEF Flight!Commit

LEMMA InsertRowMaps ==
    ASSUME RefreshInv, NEW s \in Slots, InsertRow(s)
    PROVE  Flight!Acquire(req[s].key)
<1> DEFINE k == req[s].key
<1>1. /\ k \in Keys /\ attempts \in [Keys -> AttemptRows \cup {NoRow}]
      /\ MutexFree /\ attempts[k] = NoRow
  BY DEF RefreshInv, RefreshTypeOK, RequestFits, InsertRow
<1> DEFINE row == [total |-> req[s].total, status |-> "prepared",
                   active |-> TRUE]
<1>2. row.active = TRUE /\ row # NoRow
  BY DEF NoRow
<1>3. attempts' = [attempts EXCEPT ![k] = row] /\ pqs' = pqs
  BY DEF InsertRow, sabre
<1> HIDE DEF row
<1>4. /\ attempts'[k] = row
      /\ \A j \in Keys \ {k} : attempts'[j] = attempts[j]
  BY <1>1, <1>3
<1>5. Owner = None /\ Owner' = k
  <2>1. attempts'[k].active /\ \A j \in Keys \ {k} : ~attempts'[j].active
    BY <1>1, <1>2, <1>4 DEF MutexFree
  <2>2. Owner' = k
    BY <1>1, <2>1, NextOwnerIsTheActive
  <2> QED BY <1>1, <2>2 DEF Owner
<1>6. k \notin Spent /\ Spent' = Spent \cup {k}
  BY <1>1, <1>2, <1>4 DEF Spent
<1>7. Made' = Made
  BY <1>3 DEF Made
<1> QED BY <1>5, <1>6, <1>7 DEF Flight!Acquire

\* The rows a holder writes keep their keys spent; a final outcome that gives
\* the mutex back releases, the others stutter.
LEMMA HolderRowMaps ==
    ASSUME RefreshInv, NEW s \in Slots, Holds(s),
           NEW row, row # NoRow, row.active \in BOOLEAN,
           attempts' = [attempts EXCEPT ![req[s].key] = row],
           UNCHANGED pqs
    PROVE  Flight!Release \/ UNCHANGED Flight!flightVars
<1> DEFINE k == req[s].key
<1>1. /\ k \in Keys /\ attempts[k].active
      /\ attempts \in [Keys -> AttemptRows \cup {NoRow}]
      /\ \A j \in Keys \ {k} : ~attempts[j].active
  BY HolderIsActive, HolderIsAlone DEF RefreshInv, RefreshTypeOK
<1>2. /\ attempts'[k] = row
      /\ \A j \in Keys \ {k} : attempts'[j] = attempts[j]
  BY <1>1
<1>3. Owner = k /\ k # None
  BY <1>1, OwnerIsTheActive, RefreshAssumption
<1>4. attempts[k] # NoRow
  BY <1>1 DEF NoRow
<1>5. Spent' = Spent
  BY <1>1, <1>2, <1>4 DEF Spent
<1>6. Made' = Made
  BY DEF Made
<1>7. CASE row.active
  <2>1. attempts'[k].active /\ \A j \in Keys \ {k} : ~attempts'[j].active
    BY <1>1, <1>2, <1>7
  <2>2. Owner' = k
    BY <1>1, <2>1, NextOwnerIsTheActive
  <2> QED BY <1>3, <1>5, <1>6, <2>2 DEF Flight!flightVars
<1>8. CASE ~row.active
  <2>1. MutexFree'
    BY <1>1, <1>2, <1>8 DEF MutexFree
  <2>2. Owner' = None
    BY <2>1 DEF Owner
  <2> QED BY <1>3, <1>5, <1>6, <2>2 DEF Flight!Release
<1> QED BY <1>7, <1>8

\* Every step of the pricing refresh is a step of SingleFlight or none.
LEMMA FlightMaps ==
    ASSUME RefreshInv, [Next]_vars
    PROVE  [Flight!Next]_(Flight!flightVars)
<1>1. pqs \in Seq(PriceQuotes)
  BY DEF RefreshInv, RefreshTypeOK
<1>2. CASE UNCHANGED <<attempts, pqs>>
  BY <1>2, StutterStep
<1>3. ASSUME NEW s \in Slots, Advance(s), ~UNCHANGED <<attempts, pqs>>
      PROVE  [Flight!Next]_(Flight!flightVars)
  <2>1. \/ InsertRow(s) \/ MarkSubmitting(s) \/ MarkOutcome(s)
        \/ EndTransaction(s)
    BY <1>3 DEF Advance, LoseRow, Discover, ReadBefore, Block, OpenSession,
       Preview, StoreRefused, StoreRaises, Retain, RetainUnclear, Ignore,
       IgnoreFails, EndUnclear, ReadBack, SaveAuthority, Unverified, sabre
  <2>2. CASE InsertRow(s)
    <3>1. req[s].key \in Keys
      BY <2>2 DEF RefreshInv, RequestFits, InsertRow
    <3> QED BY <2>2, <3>1, InsertRowMaps DEF Flight!Next
  <2>3. CASE MarkSubmitting(s) \/ MarkOutcome(s)
    <3> DEFINE k == req[s].key
    <3>1. Holds(s) /\ pqs' = pqs
      BY <2>3 DEF MarkSubmitting, MarkOutcome, Holds, sabre
    <3>2. k \in Keys /\ attempts[k] \in AttemptRows
      BY <3>1, HolderIsActive DEF RefreshInv, RefreshTypeOK, NoRow
    <3>3. PICK status \in Statuses, active \in BOOLEAN :
            attempts' = [attempts EXCEPT ![k].status = status,
                                         ![k].active = active]
      <4>1. CASE MarkSubmitting(s)
        <5>1. attempts[k].active = TRUE /\ "submitting" \in Statuses
          BY <3>1, <3>2, HolderIsActive DEF AttemptRows, Statuses
        <5> DEFINE old == attempts[k]
        <5>2. [old EXCEPT !.status = "submitting"] =
              [[old EXCEPT !.status = "submitting"] EXCEPT !.active = TRUE]
          BY <3>2, <5>1 DEF AttemptRows
        <5>3. attempts' = [attempts EXCEPT
                 ![k] = [[old EXCEPT !.status = "submitting"]
                            EXCEPT !.active = TRUE]]
          BY <4>1, <5>2 DEF MarkSubmitting
        <5> QED BY <5>1, <5>3
      <4>2. CASE MarkOutcome(s)
        <5>1. req[s].goal \in Statuses
          BY <4>2 DEF MarkOutcome, RefreshInv, RequestFits, Statuses
        <5> QED BY <4>2, <5>1 DEF MarkOutcome, KeepsMutex
      <4> QED BY <2>3, <4>1, <4>2
    <3> DEFINE row == [attempts[k] EXCEPT !.status = status,
                                          !.active = active]
    <3>4. /\ row.status = status /\ row.active \in BOOLEAN
          /\ attempts' = [attempts EXCEPT ![k] = row]
      BY <3>2, <3>3 DEF AttemptRows
    <3>5. row # NoRow
      <4>1. row.status # "none"
        BY <3>4 DEF Statuses
      <4> QED BY <4>1 DEF NoRow
    <3> HIDE DEF row
    <3> QED BY <3>1, <3>4, <3>5, HolderRowMaps DEF Flight!Next
  <2>4. CASE EndTransaction(s)
    <3>1. Holds(s) /\ req[s].pc = "end"
      BY <2>4 DEF EndTransaction, Holds
    <3>2. /\ req[s].key \in Keys /\ req[s].total \in Totals
          /\ attempts[req[s].key].active /\ area[s] = req[s].total
      BY <3>1, HolderIsActive DEF RefreshInv, RequestFits
    <3>3. Committed(req[s].key, req[s].total) /\ UNCHANGED attempts
      BY <2>4, <3>2 DEF EndTransaction
    <3>4. \A n \in DOMAIN pqs : pqs[n].by # req[s].key
      BY <3>1, NothingWrittenYet
    <3> QED BY <3>2, <3>3, <3>4, CommitMaps DEF Flight!Next
  <2> QED BY <2>1, <2>2, <2>3, <2>4
<1>4. ASSUME SabreDecides, ~UNCHANGED pqs
      PROVE  [Flight!Next]_(Flight!flightVars)
  <2>1. PICK e \in undecided : Committed(e.key, e.total)
    BY <1>4 DEF SabreDecides
  <2>2. e.key \in Keys /\ e.total \in Totals /\ TransactionFits(e)
    BY DEF RefreshInv, RefreshTypeOK, Transactions
  <2>3. /\ attempts[e.key].active /\ UNCHANGED attempts
        /\ \A n \in DOMAIN pqs : pqs[n].by # e.key
    BY <1>4, <2>2 DEF TransactionFits, SabreDecides
  <2> QED BY <2>1, <2>2, <2>3, CommitMaps DEF Flight!Next
<1>5. CASE ItineraryChanges
  <2>1. /\ UNCHANGED attempts
        /\ pqs' = [n \in DOMAIN pqs |->
                     IF n \in CurrentPqs
                       THEN [pqs[n] EXCEPT !.mark = "changed"]
                       ELSE pqs[n]]
    BY <1>5 DEF ItineraryChanges
  <2>2. ASSUME NEW n \in DOMAIN pqs PROVE pqs'[n].by = pqs[n].by
    <3>1. pqs[n] \in PriceQuotes
      BY <1>1
    <3> QED BY <2>1, <3>1 DEF PriceQuotes
  <2>3. DOMAIN pqs' = DOMAIN pqs
    BY <2>1
  <2> QED BY <2>1, <2>2, <2>3, StutterStep
<1>6. CASE \/ PriceMoves \/ UNCHANGED vars
           \/ SabreDecides /\ UNCHANGED pqs
           \/ \E s \in Slots : Crash(s)
           \/ \E s \in Slots, key \in Keys, total \in Totals :
                 Prepare(s, key, total)
  BY <1>2, <1>6 DEF PriceMoves, vars, SabreDecides, Crash, Prepare, sabre
<1> QED BY <1>2, <1>3, <1>4, <1>5, <1>6 DEF Next

\* The pricing refresh implements SingleFlight: one owner at a time, one PQ
\* per owner, and the mutex is never given back with a write in the air.
THEOREM RefreshImplements == Spec => ImplementsSingleFlight
<1>1. Init => Flight!Init
  <2> SUFFICES ASSUME Init PROVE Flight!Init
    OBVIOUS
  <2>1. \A k \in Keys : attempts[k] = NoRow /\ ~attempts[k].active
    BY DEF Init, NoRow
  <2>2. Owner = None /\ Spent = {}
    BY <2>1 DEF Owner, MutexFree, Spent
  <2>3. ASSUME NEW n \in DOMAIN pqs PROVE pqs[n].by = None
    BY <2>3 DEF Init
  <2>4. Made = {}
    BY <2>3, RefreshAssumption DEF Made
  <2> QED BY <2>2, <2>4 DEF Flight!Init
<1>2. RefreshInv /\ [Next]_vars => [Flight!Next]_(Flight!flightVars)
  BY FlightMaps
<1>3. Spec => Flight!Spec
  BY <1>1, <1>2, RefreshIsSafe, PTL DEF Spec, Flight!Spec
<1> QED BY <1>3 DEF ImplementsSingleFlight
=============================================================================
