---------------------------- MODULE BalanceProofs ----------------------------
(***************************************************************************)
(* The safety of BalanceService, for every value of the constants.  First  *)
(* TypeOK and Shape are inductive.  Then its many actions have few effects *)
(* on rows, holds and money: Effects says which, and each property is      *)
(* proved once per effect.  On these rest the holds, which stand where     *)
(* their transfers stand; the refinement of Payments; and the sums over    *)
(* the rows, which are what the accounts carry and the reports recompute.  *)
(***************************************************************************)
EXTENDS BalanceInvariant, Reports, SumTheorems

-----------------------------------------------------------------------------
(* What a request remembers, by the place it has reached.                   *)

\* The fields of a request and their types follow from its pc.
LEMMA RequestFields ==
  ASSUME NEW r \in Requests
  PROVE  /\ r.pc = "prior" =>
              /\ r.src \in Accounts /\ r.amt \in Amounts /\ r.now \in Nat
              /\ r.prior \in TxIds \cup {None}
         /\ r.pc = "swept" =>
              /\ r.type \in {"internal", "external_outbound"}
              /\ r.src \in Accounts /\ r.dst \in AllAccounts /\ r.amt \in Amounts
              /\ r.now \in Nat /\ r.prior \in TxIds \cup {None} /\ r.swept \in SUBSET TxIds
         /\ r.pc = "failing" => r.src \in Accounts /\ r.amt \in Amounts
         /\ r.pc \in {"loaded", "authorized", "refused"} => r.tx \in TxIds
         /\ r.pc = "proposing" => r.tx \in TxIds /\ r.maker \in Admins
  BY DEF Requests, Idle

\* Requests are built with the fields their pc calls for.
LEMMA RequestRecords ==
  /\ Idle \in Requests
  /\ \A s \in Accounts, m \in Amounts, n \in Nat, x \in TxIds \cup {None} :
       [pc |-> "prior", src |-> s, amt |-> m, now |-> n, prior |-> x] \in Requests
  /\ \A y \in {"internal", "external_outbound"}, s \in Accounts, d \in AllAccounts,
        m \in Amounts, n \in Nat, x \in TxIds \cup {None}, w \in SUBSET TxIds :
       [pc |-> "swept", type |-> y, src |-> s, dst |-> d, amt |-> m, now |-> n,
        prior |-> x, swept |-> w] \in Requests
  /\ \A s \in Accounts, m \in Amounts : [pc |-> "failing", src |-> s, amt |-> m] \in Requests
  /\ \A y \in {"loaded", "authorized", "refused"}, t \in TxIds :
       [pc |-> y, tx |-> t] \in Requests
  /\ \A t \in TxIds, a \in Admins : [pc |-> "proposing", tx |-> t, maker |-> a] \in Requests
  BY DEF Requests, Idle

-----------------------------------------------------------------------------
(* Steps that only move a request along.                                    *)

rowVars == <<clock, accountVars, txVars, holdVars, bookVars, codes, inboundKey, adminVars>>

Base == TypeOK /\ Shape

\* A request may go on to any place whose beliefs the rows bear out.
LEMMA RequestStep ==
  ASSUME Base, UNCHANGED <<accountVars, txVars, holdVars, bookVars, inboundKey, adminVars>>,
         clock' \in Nat, codes' \in SUBSET Users,
         NEW p \in Procs, NEW r \in Requests,
         req' = [req EXCEPT ![p] = r],
         RequestOK(r),
         r.pc = "swept" => \A q \in Procs \ {p} :
           req[q].pc = "swept" => req[q].swept \cap r.swept = {}
  PROVE  Base'
<1>1. TypeOK'
  BY DEF Base, TypeOK, accountVars, txVars, holdVars, bookVars, adminVars
<1>2. \A q \in Procs : req'[q] = IF q = p THEN r ELSE req[q]
  BY DEF Base, TypeOK
<1>3. \A x : RequestOK(x) => RequestOK(x)'
  BY DEF RequestOK, Moved, txVars
<1>4. ASSUME NEW q \in Procs PROVE RequestOK(req[q])'
  BY <1>2, <1>3 DEF Base, Shape, RequestOK, Moved, txVars
<1>5. LocksDisjoint'
  BY <1>2 DEF Base, Shape, LocksDisjoint
<1>6. Shape'
  BY <1>4, <1>5 DEF Base, Shape, RowOK, ApprovalOK, Moved, txVars, adminVars
<1> QED BY <1>1, <1>6 DEF Base

-----------------------------------------------------------------------------
(* Steps that change rows.                                                  *)

\* Rows may change as long as headers stay, what moved stays moved, and no row that
\* an unfinished initiate has locked changes its status.
LEMMA RowStep ==
  ASSUME Base, TypeOK',
         \A t \in TxIds : status[t] # "NONE" => status'[t] # "NONE" /\ header'[t] = header[t],
         \A t \in TxIds : Moved(t) => Moved(t)',
         \A t \in TxIds : RowOK(t)',
         \A p \in Procs : req'[p] = req[p] \/ req'[p] = Idle,
         \A p \in Procs : req'[p].pc = "swept" =>
           \A t \in req[p].swept : status'[t] = status[t],
         \A i \in ApprovalIds : approval'[i] = approval[i] \/ ApprovalOK(approval[i])'
  PROVE  Base'
<1>1. ASSUME NEW p \in Procs PROVE RequestOK(req[p])'
  <2>1. CASE req'[p] = Idle
    BY <2>1 DEF RequestOK, Idle
  <2>2. CASE req'[p] = req[p] /\ req[p] # Idle
    <3>1. req[p] \in Requests /\ RequestOK(req[p])
      BY DEF Base, TypeOK, Shape
    <3>2. req[p].pc = "swept" => \A t \in req[p].swept : t \in TxIds /\ status[t] = "PENDING"
      BY <3>1, RequestFields DEF RequestOK
    <3> QED BY <2>2, <3>1, <3>2, RequestFields DEF RequestOK, Moved
  <2> QED BY <2>1, <2>2
<1>2. LocksDisjoint'
  BY DEF Base, Shape, LocksDisjoint, Idle
<1>3. ASSUME NEW i \in ApprovalIds PROVE ApprovalOK(approval[i])'
  <2>1. approval[i] # None => approval[i].target \in TxIds /\ ApprovalOK(approval[i])
    BY DEF Base, TypeOK, Shape, ApprovalRequests
  <2>2. CASE approval'[i] = approval[i]
    BY <2>1, <2>2 DEF ApprovalOK, Moved
  <2> QED BY <2>2
<1> QED BY <1>1, <1>2, <1>3 DEF Base, Shape

\* The types of what the reducer writes.
LEMMA MoveMoneyType ==
  ASSUME TypeOK, NEW t \in TxIds, NEW d \in AllAccounts, NEW c \in AllAccounts,
         NEW m \in Nat, MoveMoney(t, d, c, m)
  PROVE  balance' \in [AllAccounts -> Int] /\ ledger' \subseteq LedgerEntries
<1>1. balance[d] \in Int /\ balance[c] \in Int
  BY DEF TypeOK
<1>2. balance' \in [AllAccounts -> Int]
  BY <1>1 DEF MoveMoney, TypeOK
<1>3. /\ [tx |-> t, account |-> d, delta |-> -m, after |-> balance[d] - m] \in LedgerEntries
      /\ [tx |-> t, account |-> c, delta |-> m, after |-> balance[c] + m] \in LedgerEntries
  BY <1>1 DEF LedgerEntries
<1> QED BY <1>2, <1>3 DEF MoveMoney, TypeOK

LEMMA EmitType ==
  ASSUME TypeOK, NEW t \in TxIds, NEW e \in TransactionEvents, Emit(t, e)
  PROVE  outbox' \in [TxIds -> Seq(TransactionEvents)]
<1>1. Append(outbox[t], e) \in Seq(TransactionEvents)
  BY DEF TypeOK
<1> QED BY <1>1 DEF Emit, TypeOK

LEMMA ReleaseHoldType ==
  ASSUME TypeOK, NEW t \in TxIds, header[t] \in Headers, NEW to \in HoldStatuses,
         ReleaseHold(t, to)
  PROVE  hold' \in [TxIds -> HoldStatuses] /\ held' \in [Accounts -> Int]
<1>1. hold \in [TxIds -> HoldStatuses] /\ held \in [Accounts -> Int]
  BY DEF TypeOK
<1>2. \A a \in Accounts : held[a] - header[t].amount \in Int
  BY <1>1 DEF Headers
<1>3. [hold EXCEPT ![t] = to] \in [TxIds -> HoldStatuses]
  BY <1>1
<1>4. [held EXCEPT ![header[t].debit] = @ - header[t].amount] \in [Accounts -> Int]
  BY <1>1, <1>2
<1> QED BY <1>1, <1>3, <1>4 DEF ReleaseHold

-----------------------------------------------------------------------------
(* Init.                                                                    *)

LEMMA InitBase == Init => Base
<1> SUFFICES ASSUME Init PROVE Base
  OBVIOUS
<1>1. TypeOK
  BY CoreAssumptions, RequestRecords
     DEF Init, TypeOK, AllAccounts, TxStatuses, HoldStatuses
<1>2. Shape
  BY DEF Init, Shape, RowOK, RequestOK, LocksDisjoint, ApprovalOK, Moved, Idle
<1> QED BY <1>1, <1>2 DEF Base

-----------------------------------------------------------------------------
(* The steps of an initiate before it commits.                              *)

LEMMA BeginInternalBase ==
  ASSUME Base, NEW p \in Procs, NEW src \in Accounts, NEW dst \in Destinations,
         NEW amt \in Amounts, BeginInternal(p, src, dst, amt)
  PROVE  Base'
<1> DEFINE r == [pc |-> "swept", type |-> "internal", src |-> src, dst |-> dst, amt |-> amt,
                 now |-> clock, prior |-> None, swept |-> Pending(Owner[src])]
<1>1. clock \in Nat /\ codes \in SUBSET Users
  BY DEF Base, TypeOK
<1>2. r \in Requests
  BY <1>1, RequestRecords, CoreAssumptions DEF Pending, AllAccounts
<1>3. RequestOK(r)
  BY DEF RequestOK, BeginInternal, Pending
<1>4. \A q \in Procs \ {p} : req[q].pc = "swept" => req[q].swept \cap r.swept = {}
  BY DEF BeginInternal, RowLocked
<1> HIDE DEF r
<1> QED BY <1>1, <1>2, <1>3, <1>4, RequestStep DEF BeginInternal, r

LEMMA BeginExternalBase ==
  ASSUME Base, NEW p \in Procs, NEW src \in Accounts, NEW amt \in Amounts,
         BeginExternal(p, src, amt)
  PROVE  Base'
<1> DEFINE prior == [pc |-> "prior", src |-> src, amt |-> amt, now |-> clock,
                     prior |-> PriorPending(Owner[src])]
           failing == [pc |-> "failing", src |-> src, amt |-> amt]
<1>1. clock \in Nat /\ codes \in SUBSET Users
  BY DEF Base, TypeOK
<1>2. PriorPending(Owner[src]) \in Pending(Owner[src]) \cup {None}
  BY DEF PriorPending
<1>3. prior \in Requests /\ failing \in Requests
  BY <1>1, <1>2, RequestRecords DEF Pending
<1>4. RequestOK(prior) /\ RequestOK(failing)
  BY <1>2, CoreAssumptions DEF RequestOK, Pending
<1>5. \E r \in {prior, failing} : req' = [req EXCEPT ![p] = r]
  BY DEF BeginExternal, Begin
<1>6. prior.pc # "swept" /\ failing.pc # "swept"
  OBVIOUS
<1> HIDE DEF prior, failing
<1> QED BY <1>1, <1>3, <1>4, <1>5, <1>6, RequestStep DEF BeginExternal

LEMMA SweepExternalBase ==
  ASSUME Base, NEW p \in Procs, SweepExternal(p)
  PROVE  Base'
<1> DEFINE r == req[p]
           s == [pc |-> "swept", type |-> "external_outbound", src |-> r.src,
                 dst |-> OutClearing, amt |-> r.amt, now |-> r.now, prior |-> r.prior,
                 swept |-> Pending(Owner[r.src])]
<1>1. clock \in Nat /\ codes \in SUBSET Users /\ r \in Requests /\ RequestOK(r)
  BY DEF Base, TypeOK, Shape
<1>2. /\ r.src \in Accounts /\ r.amt \in Amounts /\ r.now \in Nat
      /\ r.prior \in TxIds \cup {None}
  BY <1>1, RequestFields DEF SweepExternal
<1>3. s \in Requests
  BY <1>2, RequestRecords DEF Pending, AllAccounts, SystemAccounts
<1>4. RequestOK(s)
  BY <1>1, <1>2, CoreAssumptions DEF RequestOK, SweepExternal, Pending
<1>5. \A q \in Procs \ {p} : req[q].pc = "swept" => req[q].swept \cap s.swept = {}
  BY DEF SweepExternal, RowLocked
<1>6. req' = [req EXCEPT ![p] = s]
  BY DEF SweepExternal, Continue
<1> HIDE DEF s
<1> QED BY <1>1, <1>3, <1>4, <1>5, <1>6, RequestStep DEF SweepExternal

LEMMA RefuseExternalBase ==
  ASSUME Base, NEW p \in Procs, RefuseExternal(p)
  PROVE  Base'
<1> DEFINE r == req[p]
           s == [pc |-> "failing", src |-> r.src, amt |-> r.amt]
<1>1. clock \in Nat /\ codes \in SUBSET Users /\ r \in Requests
  BY DEF Base, TypeOK
<1>2. s \in Requests /\ RequestOK(s) /\ s.pc # "swept"
  BY <1>1, RequestFields, RequestRecords DEF RefuseExternal, RequestOK
<1>3. req' = [req EXCEPT ![p] = s]
  BY DEF RefuseExternal, Continue
<1> HIDE DEF s
<1> QED BY <1>1, <1>2, <1>3, RequestStep DEF RefuseExternal

\* A request that ends without having changed a row.
LEMMA FinishBase ==
  ASSUME Base, NEW p \in Procs, Finish(p),
         UNCHANGED <<clock, accountVars, txVars, holdVars, bookVars, codes, inboundKey, adminVars>>
  PROVE  Base'
<1>1. clock \in Nat /\ codes \in SUBSET Users
  BY DEF Base, TypeOK
<1>2. Idle \in Requests /\ RequestOK(Idle) /\ Idle.pc # "swept"
  BY RequestRecords DEF RequestOK, Idle
<1> HIDE DEF Idle
<1> QED BY <1>1, <1>2, RequestStep DEF Finish

LEMMA ConfirmRequestBase ==
  ASSUME Base, NEW p \in Procs, NEW t \in TxIds,
         ConfirmLoad(p, t) \/ ConfirmAuthorize(p) \/ ConfirmRefused(p)
  PROVE  Base'
<1>1. clock \in Nat /\ codes \in SUBSET Users /\ req[p] \in Requests /\ RequestOK(req[p])
  BY DEF Base, TypeOK, Shape
<1>2. CASE ConfirmLoad(p, t)
  <2> DEFINE s == [pc |-> "loaded", tx |-> t]
  <2>1. RowOK(t)
    BY DEF Base, Shape
  <2>2. s \in Requests /\ RequestOK(s) /\ s.pc # "swept"
    BY <1>2, <2>1, RequestRecords DEF ConfirmLoad, RequestOK, RowOK, Moved
  <2>3. req' = [req EXCEPT ![p] = s]
    BY <1>2 DEF ConfirmLoad, Begin
  <2> HIDE DEF s
  <2> QED BY <1>1, <1>2, <2>2, <2>3, RequestStep DEF ConfirmLoad
<1>3. CASE ConfirmAuthorize(p)
  <2> DEFINE s == [pc |-> "authorized", tx |-> req[p].tx]
  <2>1. s \in Requests /\ RequestOK(s) /\ s.pc # "swept"
    BY <1>1, <1>3, RequestFields, RequestRecords DEF ConfirmAuthorize, RequestOK
  <2>2. req' = [req EXCEPT ![p] = s]
    BY <1>3 DEF ConfirmAuthorize, Continue
  <2>3. clock' \in Nat /\ codes' \in SUBSET Users
    BY <1>1, <1>3 DEF ConfirmAuthorize
  <2> HIDE DEF s
  <2> QED BY <1>1, <1>3, <2>1, <2>2, <2>3, RequestStep DEF ConfirmAuthorize
<1>4. CASE ConfirmRefused(p)
  <2> DEFINE s == [pc |-> "refused", tx |-> req[p].tx]
  <2>1. s \in Requests /\ RequestOK(s) /\ s.pc # "swept"
    BY <1>1, <1>4, RequestFields, RequestRecords DEF ConfirmRefused, RequestOK
  <2>2. req' = [req EXCEPT ![p] = s]
    BY <1>4 DEF ConfirmRefused, Continue
  <2> HIDE DEF s
  <2> QED BY <1>1, <1>4, <2>1, <2>2, RequestStep DEF ConfirmRefused
<1> QED BY <1>2, <1>3, <1>4

LEMMA ProposeReversalBase ==
  ASSUME Base, NEW p \in Procs, NEW admin \in Admins, NEW t \in TxIds,
         ProposeReversal(p, admin, t)
  PROVE  Base'
<1> DEFINE s == [pc |-> "proposing", tx |-> t, maker |-> admin]
<1>1. clock \in Nat /\ codes \in SUBSET Users
  BY DEF Base, TypeOK
<1>2. s \in Requests /\ RequestOK(s) /\ s.pc # "swept"
  BY RequestRecords DEF ProposeReversal, Reversible, RequestOK, Moved
<1>3. req' = [req EXCEPT ![p] = s]
  BY DEF ProposeReversal
<1> HIDE DEF s
<1> QED BY <1>1, <1>2, <1>3, RequestStep DEF ProposeReversal

-----------------------------------------------------------------------------
(* The steps that insert a row.                                             *)

\* The PENDING row of an initiate, and the rows its sweeps close.
LEMMA InsertPendingRows ==
  ASSUME Base, NEW p \in Procs, NEW t \in TxIds, req[p].pc = "swept",
         InsertPending(t, req[p]), Finish(p)
  PROVE  /\ status' \in [TxIds -> TxStatuses]
         /\ header' \in [TxIds -> Headers \cup {None}]
         /\ req' \in [Procs -> Requests]
         /\ \A s \in TxIds : status[s] # "NONE" => status'[s] # "NONE" /\ header'[s] = header[s]
         /\ \A s \in TxIds : Moved(s) => Moved(s)'
         /\ \A s \in TxIds : RowOK(s)'
         /\ \A q \in Procs : req'[q] = req[q] \/ req'[q] = Idle
         /\ \A q \in Procs : req'[q].pc = "swept" =>
              \A s \in req[q].swept : status'[s] = status[s]
<1> DEFINE r == req[p]
           row == Row(r.type, r.amt, r.src, r.dst, Owner[r.src], None, r.now + PendingTtl)
<1>1. r \in Requests /\ RequestOK(r) /\ TypeOK /\ \A s \in TxIds : RowOK(s)
  BY DEF Base, TypeOK, Shape
<1>2. /\ r.type \in {"internal", "external_outbound"}
      /\ r.src \in Accounts /\ r.dst \in AllAccounts /\ r.amt \in Amounts
      /\ r.now \in Nat /\ r.swept \in SUBSET TxIds /\ r.dst # r.src
  BY <1>1, RequestFields DEF RequestOK
<1>3. /\ row \in Headers /\ row # None /\ row.amount > 0 /\ row.debit # row.credit
      /\ row.type # "external_inbound" /\ row.debit \in Accounts /\ row.reverses = None
      /\ row.by \in Users
  BY <1>2, CoreAssumptions DEF Row, Headers, TxTypes, AllAccounts, Initiators
<1>4. \A s \in TxIds : header'[s] = IF s = t THEN row ELSE header[s]
  BY <1>1 DEF InsertPending, InsertRow, TypeOK
<1>5. \A s \in r.swept : status[s] = "PENDING"
  BY <1>1 DEF RequestOK
<1>6. /\ status[t] = "NONE"
      /\ \A s \in TxIds :
           IF s = t THEN status'[s] = "PENDING"
           ELSE IF s \in r.swept THEN status'[s] \in {"EXPIRED", "CANCELLED"}
           ELSE status'[s] = status[s]
  BY DEF InsertPending, InsertRow
<1>7. status' \in [TxIds -> TxStatuses]
  BY <1>1, <1>6 DEF InsertPending, TypeOK, TxStatuses
<1>8. header' \in [TxIds -> Headers \cup {None}]
  BY <1>1, <1>3 DEF InsertPending, InsertRow, TypeOK
<1>9. \A q \in Procs : req'[q] = IF q = p THEN Idle ELSE req[q]
  BY <1>1 DEF Finish, TypeOK
<1>10. req' \in [Procs -> Requests]
  BY <1>1, RequestRecords DEF Finish, TypeOK
<1> HIDE DEF row
<1>11. ASSUME NEW s \in TxIds PROVE RowOK(s)'
  BY <1>1, <1>3, <1>4, <1>5, <1>6 DEF RowOK, Moved
<1>12. ASSUME NEW q \in Procs, req'[q].pc = "swept", NEW s \in req[q].swept
       PROVE  status'[s] = status[s]
  <2>1. q # p /\ req[q].pc = "swept"
    BY <1>9, <1>12 DEF Idle
  <2>2. s \in TxIds /\ status[s] = "PENDING"
    BY <1>1, <2>1, RequestFields DEF Base, Shape, RequestOK, TypeOK
  <2>3. s \notin r.swept
    BY <2>1 DEF Base, Shape, LocksDisjoint
  <2> QED BY <1>6, <2>2, <2>3
<1> QED BY <1>4, <1>5, <1>6, <1>7, <1>8, <1>9, <1>10, <1>11, <1>12 DEF Moved

LEMMA CommitInternalBase ==
  ASSUME Base, NEW p \in Procs, NEW t \in TxIds, CommitInternal(p, t)
  PROVE  Base'
<1>1. req[p].pc = "swept" /\ InsertPending(t, req[p]) /\ Finish(p)
  BY DEF CommitInternal
<1>2. TypeOK'
  BY <1>1, InsertPendingRows
     DEF CommitInternal, Base, TypeOK, accountVars, holdVars, bookVars, adminVars
<1> QED BY <1>1, <1>2, InsertPendingRows, RowStep DEF CommitInternal, adminVars

LEMMA CommitExternalBase ==
  ASSUME Base, NEW p \in Procs, NEW t \in TxIds, CommitExternal(p, t)
  PROVE  Base'
<1>1. req[p].pc = "swept" /\ InsertPending(t, req[p]) /\ Finish(p)
  BY DEF CommitExternal
<1>2. hold' \in [TxIds -> HoldStatuses]
  BY DEF CommitExternal, Base, TypeOK, HoldStatuses
<1>3. \A a \in Accounts : HeldAfterRelease(req[p], a) \in Int
  <2>1. req[p] \in Requests /\ RequestOK(req[p])
    BY DEF Base, TypeOK, Shape
  <2>2. Releases(req[p]) => header[req[p].prior] \in Headers
    BY <1>1, <2>1, RequestFields DEF Releases, RequestOK, Base, TypeOK, Shape, RowOK
  <2> QED BY <2>2 DEF HeldAfterRelease, Base, TypeOK, Headers
<1>4. held' \in [Accounts -> Int]
  <2>1. req[p].amt \in Int
    BY <1>1, RequestFields, CoreAssumptions DEF Base, TypeOK
  <2> QED BY <1>3, <2>1 DEF CommitExternal
<1>5. TypeOK'
  BY <1>1, <1>2, <1>4, InsertPendingRows DEF CommitExternal, Base, TypeOK, bookVars, adminVars
<1> QED BY <1>1, <1>5, InsertPendingRows, RowStep DEF CommitExternal, adminVars

LEMMA RecordFreshFailedBase ==
  ASSUME Base, NEW p \in Procs, NEW t \in TxIds, RecordFreshFailed(p, t)
  PROVE  Base'
<1> DEFINE r == req[p]
           row == Row("external_outbound", r.amt, r.src, OutClearing, Owner[r.src], None, 0)
<1>1. r \in Requests /\ TypeOK /\ \A s \in TxIds : RowOK(s)
  BY DEF Base, TypeOK, Shape
<1>2. r.src \in Accounts /\ r.amt \in Amounts
  BY <1>1, RequestFields DEF RecordFreshFailed
<1>3. /\ row \in Headers /\ row # None /\ row.amount > 0 /\ row.debit # row.credit
      /\ row.type # "external_inbound" /\ row.debit \in Accounts /\ row.reverses = None
      /\ row.by \in Users
  BY <1>2, CoreAssumptions DEF Row, Headers, TxTypes, AllAccounts, SystemAccounts, Initiators
<1>4. outbox' \in [TxIds -> Seq(TransactionEvents)]
  BY <1>1, EmitType DEF RecordFreshFailed, TransactionEvents
<1>5. /\ status[t] = "NONE"
      /\ \A s \in TxIds : status'[s] = IF s = t THEN "FAILED" ELSE status[s]
      /\ \A s \in TxIds : header'[s] = IF s = t THEN row ELSE header[s]
  BY <1>1 DEF RecordFreshFailed, InsertRow, TypeOK
<1>6. \A q \in Procs : req'[q] = IF q = p THEN Idle ELSE req[q]
  BY <1>1 DEF RecordFreshFailed, Finish, TypeOK
<1> HIDE DEF row
<1>7. TypeOK'
  <2>1. status' \in [TxIds -> TxStatuses] /\ header' \in [TxIds -> Headers \cup {None}]
    BY <1>1, <1>3 DEF RecordFreshFailed, InsertRow, TypeOK, TxStatuses, row
  <2>2. req' \in [Procs -> Requests]
    BY <1>1, RequestRecords DEF RecordFreshFailed, Finish, TypeOK
  <2> QED BY <1>1, <1>4, <2>1, <2>2 DEF RecordFreshFailed, TypeOK, accountVars, holdVars, adminVars
<1>8. ASSUME NEW s \in TxIds PROVE RowOK(s)'
  BY <1>1, <1>3, <1>5 DEF RowOK, Moved
<1>9. ASSUME NEW q \in Procs, req'[q].pc = "swept", NEW s \in req[q].swept
      PROVE  status'[s] = status[s]
  <2>1. req[q].pc = "swept"
    BY <1>6, <1>9 DEF Idle
  <2>2. s \in TxIds /\ status[s] = "PENDING"
    BY <1>1, <2>1, RequestFields DEF Base, Shape, RequestOK, TypeOK
  <2> QED BY <1>5, <2>2
<1> QED BY <1>5, <1>6, <1>7, <1>8, <1>9, RowStep DEF RecordFreshFailed, Moved, adminVars

-----------------------------------------------------------------------------
(* The steps that end a pending transfer.                                   *)

\* A transfer that leaves PENDING while no unfinished initiate has it locked.
LEMMA FlipRows ==
  ASSUME Base, NEW t \in TxIds, status[t] = "PENDING", ~RowLocked(t),
         NEW to \in {"POSTED", "FAILED", "CANCELLED", "EXPIRED"},
         status' = [status EXCEPT ![t] = to], UNCHANGED header,
         \A p \in Procs : req'[p] = req[p] \/ req'[p] = Idle
  PROVE  /\ status' \in [TxIds -> TxStatuses]
         /\ \A s \in TxIds : status[s] # "NONE" => status'[s] # "NONE" /\ header'[s] = header[s]
         /\ \A s \in TxIds : Moved(s) => Moved(s)'
         /\ \A s \in TxIds : RowOK(s)'
         /\ \A q \in Procs : req'[q].pc = "swept" =>
              \A s \in req[q].swept : status'[s] = status[s]
<1>1. TypeOK /\ \A s \in TxIds : RowOK(s)
  BY DEF Base, Shape
<1>2. \A s \in TxIds : status'[s] = IF s = t THEN to ELSE status[s]
  BY <1>1 DEF TypeOK
<1>3. status' \in [TxIds -> TxStatuses]
  BY <1>1 DEF TypeOK, TxStatuses
<1>4. ASSUME NEW s \in TxIds PROVE RowOK(s)'
  BY <1>1, <1>2 DEF RowOK, Moved
<1>5. ASSUME NEW q \in Procs, req'[q].pc = "swept", NEW s \in req[q].swept
      PROVE  status'[s] = status[s]
  <2>0. req[q].pc = "swept"
    BY <1>5 DEF Idle
  <2>1. s \in TxIds
    BY <1>1, <1>5, <2>0, RequestFields DEF TypeOK
  <2>2. s # t
    BY <2>0, <1>5 DEF RowLocked
  <2> QED BY <1>2, <2>1, <2>2
<1> QED BY <1>1, <1>2, <1>3, <1>4, <1>5 DEF Moved

\* What a confirm that has consumed its code may rely on.
LEMMA ConfirmFacts ==
  ASSUME Base, NEW p \in Procs, req[p].pc \in {"authorized", "refused"}
  PROVE  /\ req[p].tx \in TxIds /\ header[req[p].tx] \in Headers
         /\ header[req[p].tx].debit \in Accounts
<1>1. req[p] \in Requests /\ RequestOK(req[p])
  BY DEF Base, TypeOK, Shape
<1>2. req[p].tx \in TxIds /\ status[req[p].tx] # "NONE" /\ header[req[p].tx].by \in Users
  BY <1>1, RequestFields DEF RequestOK
<1>3. RowOK(req[p].tx) /\ header[req[p].tx] \in Headers \cup {None}
  BY <1>2 DEF Base, TypeOK, Shape
<1> QED BY <1>2, <1>3 DEF RowOK

\* Both ways a confirm posts.
LEMMA ConfirmMovesBase ==
  ASSUME Base, NEW p \in Procs, ConfirmPost(p) \/ ConfirmSettle(p)
  PROVE  Base'
<1> DEFINE t == req[p].tx
<1>1. TypeOK /\ req[p].pc = "authorized" /\ PostPending(t) /\ Finish(p)
  BY DEF Base, ConfirmPost, ConfirmSettle
<1>2. t \in TxIds /\ header[t] \in Headers /\ header[t].debit \in Accounts
  BY <1>1, ConfirmFacts
<1>3. /\ status[t] = "PENDING" /\ ~RowLocked(t) /\ UNCHANGED header
      /\ status' = [status EXCEPT ![t] = "POSTED"]
  BY DEF ConfirmPost, ConfirmSettle, CanFlip, PostPending
<1>4. \A q \in Procs : req'[q] = req[q] \/ req'[q] = Idle
  BY <1>1 DEF Finish, TypeOK
<1>5. balance' \in [AllAccounts -> Int] /\ ledger' \subseteq LedgerEntries
  BY <1>1, <1>2, MoveMoneyType DEF PostPending, Headers
<1>6. outbox' \in [TxIds -> Seq(TransactionEvents)]
  BY <1>1, <1>2, EmitType DEF PostPending, TransactionEvents
<1>7. held' \in [Accounts -> Int] /\ hold' \in [TxIds -> HoldStatuses]
  <2>1. CASE ConfirmPost(p)
    BY <1>1, <2>1 DEF ConfirmPost, TypeOK, holdVars
  <2>2. CASE ConfirmSettle(p)
    <3>1. hold' \in [TxIds -> HoldStatuses]
      BY <1>1, <2>2 DEF ConfirmSettle, TypeOK, HoldStatuses
    <3>2. held[header[t].debit] - header[t].amount \in Int
      BY <1>1, <1>2 DEF TypeOK, Headers
    <3> QED BY <1>1, <2>2, <3>1, <3>2 DEF ConfirmSettle, TypeOK
  <2> QED BY <2>1, <2>2
<1>8. req' \in [Procs -> Requests]
  BY <1>1, RequestRecords DEF Finish, TypeOK
<1>9. status' \in [TxIds -> TxStatuses]
  BY <1>1, <1>3 DEF TypeOK, TxStatuses
<1>10. TypeOK'
  BY <1>1, <1>3, <1>5, <1>6, <1>7, <1>8, <1>9
     DEF ConfirmPost, ConfirmSettle, TypeOK, holdVars, adminVars
<1> HIDE DEF t
<1> QED BY <1>2, <1>3, <1>4, <1>10, FlipRows, RowStep DEF ConfirmPost, ConfirmSettle, adminVars

LEMMA PersistConfirmFailureBase ==
  ASSUME Base, NEW p \in Procs, PersistConfirmFailure(p)
  PROVE  Base'
<1> DEFINE t == req[p].tx
<1>1. TypeOK /\ req[p].pc = "refused" /\ Finish(p) /\ UNCHANGED header
  BY DEF Base, PersistConfirmFailure, RecordFailed
<1>2. t \in TxIds /\ header[t] \in Headers
  BY <1>1, ConfirmFacts
<1>3. CASE status[t] # "PENDING"
  BY <1>1, <1>3, FinishBase
     DEF PersistConfirmFailure, RecordFailed, accountVars, txVars, holdVars, bookVars, adminVars
<1>4. CASE status[t] = "PENDING"
  <2>1. /\ ~RowLocked(t) /\ status' = [status EXCEPT ![t] = "FAILED"]
        /\ Emit(t, "transaction.failed") /\ ReleaseHold(t, "RELEASED")
    BY <1>4 DEF PersistConfirmFailure, RecordFailed, CanFlip
  <2>2. \A q \in Procs : req'[q] = req[q] \/ req'[q] = Idle
    BY <1>1 DEF Finish, TypeOK
  <2>3. outbox' \in [TxIds -> Seq(TransactionEvents)]
    BY <1>1, <1>2, <2>1, EmitType DEF TransactionEvents
  <2>4. hold' \in [TxIds -> HoldStatuses] /\ held' \in [Accounts -> Int]
    BY <1>1, <1>2, <2>1, ReleaseHoldType DEF HoldStatuses
  <2>5. req' \in [Procs -> Requests] /\ status' \in [TxIds -> TxStatuses]
    BY <1>1, <2>1, RequestRecords DEF Finish, TypeOK, TxStatuses
  <2>6. TypeOK'
    BY <1>1, <2>3, <2>4, <2>5 DEF PersistConfirmFailure, RecordFailed, TypeOK, adminVars
  <2> HIDE DEF t
  <2> QED BY <1>1, <1>2, <1>4, <2>1, <2>2, <2>6, FlipRows, RowStep
          DEF PersistConfirmFailure, RecordFailed, adminVars
<1> QED BY <1>3, <1>4

LEMMA CloseReleasingBase ==
  ASSUME Base, NEW t \in TxIds, NEW to \in {"CANCELLED", "EXPIRED"},
         NEW holdTo \in HoldStatuses, CloseReleasing(t, to, holdTo)
  PROVE  Base'
<1>1. /\ TypeOK /\ RowOK(t) /\ status[t] = "PENDING" /\ ~RowLocked(t) /\ UNCHANGED <<header, req>>
      /\ status' = [status EXCEPT ![t] = to] /\ ReleaseHold(t, holdTo)
  BY DEF Base, Shape, CloseReleasing, Transition, CanFlip
<1>2. header[t] \in Headers
  BY <1>1 DEF TypeOK, RowOK
<1>3. hold' \in [TxIds -> HoldStatuses] /\ held' \in [Accounts -> Int]
  BY <1>1, <1>2, ReleaseHoldType
<1>4. status' \in [TxIds -> TxStatuses]
  BY <1>1 DEF TypeOK, TxStatuses
<1>5. TypeOK'
  BY <1>1, <1>3, <1>4 DEF CloseReleasing, Transition, TypeOK, bookVars, adminVars
<1>6. \A q \in Procs : req'[q] = req[q] \/ req'[q] = Idle
  BY <1>1
<1> QED BY <1>1, <1>5, <1>6, FlipRows, RowStep DEF CloseReleasing, Transition, adminVars

-----------------------------------------------------------------------------
(* The steps that insert a POSTED row.                                      *)

\* A well-formed movement nobody confirms: from the rail, or the mirror of a posted
\* transaction.
Movement(row) ==
  /\ row \in Headers
  /\ row.amount > 0
  /\ row.debit # row.credit
  /\ row.by \notin Users
  /\ row.reverses # None => status[row.reverses] = "POSTED"

LEMMA PostFreshRows ==
  ASSUME Base, NEW t \in TxIds, NEW row, Movement(row), PostFresh(t, row)
  PROVE  /\ balance' \in [AllAccounts -> Int] /\ ledger' \subseteq LedgerEntries
         /\ outbox' \in [TxIds -> Seq(TransactionEvents)]
         /\ status' \in [TxIds -> TxStatuses]
         /\ header' \in [TxIds -> Headers \cup {None}]
         /\ \A s \in TxIds : status[s] # "NONE" => status'[s] # "NONE" /\ header'[s] = header[s]
         /\ \A s \in TxIds : Moved(s) => Moved(s)'
         /\ \A s \in TxIds : RowOK(s)'
         /\ UNCHANGED req =>
              \A q \in Procs : req'[q].pc = "swept" =>
                \A s \in req[q].swept : status'[s] = status[s]
<1>1. TypeOK /\ \A s \in TxIds : RowOK(s)
  BY DEF Base, Shape
<1>2. row \in Headers /\ row.debit \in AllAccounts /\ row.credit \in AllAccounts
      /\ row.amount \in Nat /\ row.reverses \in TxIds \cup {None}
  BY DEF Movement, Headers
<1>3. balance' \in [AllAccounts -> Int] /\ ledger' \subseteq LedgerEntries
  BY <1>1, <1>2, MoveMoneyType DEF PostFresh
<1>4. outbox' \in [TxIds -> Seq(TransactionEvents)]
  BY <1>1, EmitType DEF PostFresh, TransactionEvents
<1>5. /\ status[t] = "NONE"
      /\ header' \in [TxIds -> Headers \cup {None}]
      /\ \A s \in TxIds : header'[s] = IF s = t THEN row ELSE header[s]
  BY <1>1, <1>2 DEF PostFresh, InsertRow, TypeOK
<1>6. /\ status' \in [TxIds -> TxStatuses]
      /\ \A s \in TxIds : status'[s] = IF s = row.reverses THEN "REVERSED"
                                       ELSE IF s = t THEN "POSTED" ELSE status[s]
  BY <1>1, <1>2, CoreAssumptions DEF PostFresh, TypeOK, TxStatuses
<1>7. row # None /\ row.reverses # t
  BY <1>2, <1>5, CoreAssumptions DEF Movement
<1>8. \A s \in TxIds : s = row.reverses => status[s] = "POSTED"
  BY CoreAssumptions DEF Movement
<1>9. ASSUME NEW s \in TxIds PROVE RowOK(s)'
  BY <1>1, <1>5, <1>6, <1>7, <1>8 DEF RowOK, Moved, Movement
<1>10. ASSUME UNCHANGED req, NEW q \in Procs, req'[q].pc = "swept", NEW s \in req[q].swept
       PROVE  status'[s] = status[s]
  <2>1. s \in TxIds /\ status[s] = "PENDING"
    BY <1>1, <1>10, RequestFields DEF Base, Shape, RequestOK, TypeOK
  <2> QED BY <1>5, <1>6, <1>8, <2>1
<1> QED BY <1>3, <1>4, <1>5, <1>6, <1>8, <1>9, <1>10 DEF Moved

LEMMA RailFailureBase ==
  ASSUME Base, NEW t \in TxIds, NEW r \in TxIds, RailFailure(t, r)
  PROVE  Base'
<1> DEFINE row == Row("external_outbound", header[t].amount, header[t].credit,
                      header[t].debit, RailActor, t, 0)
<1>1. status[t] = "POSTED" /\ header[t] \in Headers /\ RowOK(t) /\ PostFresh(r, row)
  BY DEF Base, TypeOK, Shape, RailFailure, Reconcilable, RowOK
<1>2. Movement(row)
  BY <1>1, CoreAssumptions DEF Movement, Row, RowOK, Headers, TxTypes, Initiators
<1> HIDE DEF row
<1>3. TypeOK'
  BY <1>1, <1>2, PostFreshRows DEF RailFailure, Base, TypeOK, holdVars, adminVars
<1> QED BY <1>1, <1>2, <1>3, PostFreshRows, RowStep DEF RailFailure, adminVars

LEMMA InboundCreditBase ==
  ASSUME Base, NEW ref \in Refs, NEW a \in Accounts, NEW amt \in Amounts, NEW t \in TxIds,
         InboundCredit(ref, a, amt, t)
  PROVE  Base'
<1> DEFINE row == Row("external_inbound", amt, InClearing, a, RailActor, None, 0)
<1>1. PostFresh(t, row)
  BY DEF InboundCredit
<1>2. Movement(row)
  BY CoreAssumptions
     DEF Movement, Row, Headers, TxTypes, Initiators, AllAccounts, SystemAccounts
<1>3. inboundKey' \in [Users \X Refs -> TxIds \cup {None}]
  BY DEF InboundCredit, Base, TypeOK
<1> HIDE DEF row
<1>4. TypeOK'
  BY <1>1, <1>2, <1>3, PostFreshRows DEF InboundCredit, Base, TypeOK, holdVars, adminVars
<1> QED BY <1>1, <1>2, <1>4, PostFreshRows, RowStep DEF InboundCredit, adminVars

-----------------------------------------------------------------------------
(* The rail's success, and the back office.                                 *)

\* Steps that leave transactions and requests alone.
LEMMA QuietBase ==
  ASSUME Base, TypeOK', UNCHANGED <<status, header, req>>,
         \A i \in ApprovalIds : approval'[i] = approval[i] \/ ApprovalOK(approval[i])'
  PROVE  Base'
<1>1. \A t \in TxIds : RowOK(t)'
  BY DEF Base, Shape, RowOK, Moved
<1> QED BY <1>1, RowStep DEF Moved

LEMMA RailSuccessBase ==
  ASSUME Base, NEW t \in TxIds, RailSuccess(t)
  PROVE  Base'
<1>1. TypeOK'
  BY DEF RailSuccess, Base, TypeOK, accountVars, txVars, bookVars, adminVars
<1> QED BY <1>1, QuietBase DEF RailSuccess, txVars, adminVars

LEMMA SetFrozenBase ==
  ASSUME Base, NEW a \in Accounts, NEW freeze \in BOOLEAN, SetFrozen(a, freeze)
  PROVE  Base'
<1>1. audit' \subseteq AuditActions \X (Accounts \cup TxIds \cup ApprovalIds)
  BY DEF SetFrozen, Audit, AuditActions, Base, TypeOK
<1>2. TypeOK'
  BY <1>1 DEF SetFrozen, Base, TypeOK, txVars, holdVars, bookVars
<1> QED BY <1>2, QuietBase DEF SetFrozen, txVars

LEMMA InsertApprovalBase ==
  ASSUME Base, NEW p \in Procs, NEW i \in ApprovalIds, InsertApproval(p, i)
  PROVE  Base'
<1> DEFINE new == [status |-> "PENDING", target |-> req[p].tx, maker |-> req[p].maker,
                   checker |-> None]
<1>1. TypeOK /\ req[p] \in Requests /\ RequestOK(req[p]) /\ req[p].pc = "proposing"
  BY DEF Base, TypeOK, Shape, InsertApproval
<1>2. /\ req[p].tx \in TxIds /\ req[p].maker \in Admins
      /\ Moved(req[p].tx) /\ header[req[p].tx].type # "external_outbound"
  BY <1>1, RequestFields DEF RequestOK
<1>3. new \in ApprovalRequests
  BY <1>2 DEF ApprovalRequests, ApprovalStatuses
<1>4. approval' = [approval EXCEPT ![i] = new]
  BY DEF InsertApproval
<1>5. audit' \subseteq AuditActions \X (Accounts \cup TxIds \cup ApprovalIds)
  BY <1>1, <1>2 DEF InsertApproval, Audit, AuditActions, TypeOK
<1>6. req' \in [Procs -> Requests] /\ \A q \in Procs : req'[q] = req[q] \/ req'[q] = Idle
  BY <1>1, RequestRecords DEF InsertApproval, TypeOK
<1>7. new.target = req[p].tx
  OBVIOUS
<1> HIDE DEF new
<1>8. \A j \in ApprovalIds : approval'[j] = approval[j] \/ ApprovalOK(approval[j])'
  BY <1>1, <1>2, <1>4, <1>7 DEF ApprovalOK, Moved, InsertApproval, txVars, TypeOK
<1>9. TypeOK'
  BY <1>1, <1>3, <1>4, <1>5, <1>6
     DEF InsertApproval, TypeOK, accountVars, txVars, holdVars, bookVars
<1>10. \A s \in TxIds : RowOK(s)' /\ (Moved(s) => Moved(s)')
  BY DEF Base, Shape, RowOK, Moved, InsertApproval, txVars
<1> QED BY <1>6, <1>8, <1>9, <1>10, RowStep DEF InsertApproval, txVars

\* A decision changes the verdict of an approval, not what it is about.
LEMMA DecideApproval ==
  ASSUME Base, NEW i \in ApprovalIds, NEW admin \in Admins,
         NEW verdict \in {"EXECUTED", "REJECTED"},
         Decidable(i, admin), Decide(i, admin, verdict)
  PROVE  /\ approval[i].target \in TxIds
         /\ ApprovalOK(approval[i])
         /\ approval' \in [ApprovalIds -> ApprovalRequests \cup {None}]
         /\ \A j \in ApprovalIds :
              \/ approval'[j] = approval[j]
              \/ j = i /\ approval'[j] # None /\ approval'[j].target = approval[j].target
<1>1. approval[i] \in ApprovalRequests /\ ApprovalOK(approval[i])
  BY DEF Base, TypeOK, Shape, Decidable
<1>2. /\ [approval[i] EXCEPT !.status = verdict, !.checker = admin] \in ApprovalRequests
      /\ [approval[i] EXCEPT !.status = verdict, !.checker = admin].target = approval[i].target
  BY <1>1 DEF ApprovalRequests, ApprovalStatuses
<1>3. approval' = [approval EXCEPT ![i] = [approval[i] EXCEPT !.status = verdict,
                                                              !.checker = admin]]
  BY DEF Decide, Base, TypeOK
<1> QED BY <1>1, <1>2, <1>3, CoreAssumptions DEF Base, TypeOK, ApprovalRequests

LEMMA RejectReversalBase ==
  ASSUME Base, NEW i \in ApprovalIds, NEW admin \in Admins, RejectReversal(i, admin)
  PROVE  Base'
<1>1. Decidable(i, admin) /\ Decide(i, admin, "REJECTED")
  BY DEF RejectReversal
<1>2. audit' \subseteq AuditActions \X (Accounts \cup TxIds \cup ApprovalIds)
  BY <1>1, DecideApproval DEF RejectReversal, Audit, AuditActions, Base, TypeOK
<1>3. TypeOK'
  BY <1>1, <1>2, DecideApproval
     DEF RejectReversal, Base, TypeOK, accountVars, txVars, holdVars, bookVars
<1>4. \A j \in ApprovalIds : approval'[j] = approval[j] \/ ApprovalOK(approval[j])'
  <2>1. approval[i] # None /\ UNCHANGED <<status, header>>
    BY <1>1 DEF Decidable, RejectReversal, txVars
  <2>2. ApprovalOK(approval[i]) /\ \A j \in ApprovalIds :
          \/ approval'[j] = approval[j]
          \/ j = i /\ approval'[j] # None /\ approval'[j].target = approval[j].target
    BY <1>1, DecideApproval
  <2> QED BY <2>1, <2>2 DEF ApprovalOK, Moved
<1> QED BY <1>3, <1>4, QuietBase DEF RejectReversal, txVars

LEMMA ApproveReversalBase ==
  ASSUME Base, NEW i \in ApprovalIds, NEW admin \in Admins, NEW r \in TxIds,
         ApproveReversal(i, admin, r)
  PROVE  Base'
<1> DEFINE t == approval[i].target
           row == Row(header[t].type, header[t].amount, header[t].credit, header[t].debit,
                      admin, t, 0)
<1>1. Decidable(i, admin) /\ Decide(i, admin, "EXECUTED") /\ PostFresh(r, row)
      /\ status[t] = "POSTED" /\ UNCHANGED req
  BY DEF ApproveReversal
<1>2. t \in TxIds /\ ApprovalOK(approval[i]) /\ approval[i] # None
  BY <1>1, DecideApproval DEF Decidable
<1>3. header[t] \in Headers /\ RowOK(t)
  BY <1>1, <1>2 DEF Base, TypeOK, Shape, RowOK
<1>4. Movement(row)
  BY <1>1, <1>2, <1>3, CoreAssumptions DEF Movement, Row, RowOK, Headers, TxTypes, Initiators
<1>5. audit' \subseteq AuditActions \X (Accounts \cup TxIds \cup ApprovalIds)
  BY <1>2 DEF ApproveReversal, Audit, AuditActions, Base, TypeOK
<1> HIDE DEF row
<1>6. TypeOK'
  BY <1>1, <1>4, <1>5, PostFreshRows, DecideApproval
     DEF ApproveReversal, Base, TypeOK, holdVars
<1>7. \A j \in ApprovalIds : approval'[j] = approval[j] \/ ApprovalOK(approval[j])'
  BY <1>1, <1>2, <1>4, PostFreshRows, DecideApproval DEF ApprovalOK, Moved
<1> QED BY <1>1, <1>4, <1>6, <1>7, PostFreshRows, RowStep

-----------------------------------------------------------------------------
(* The theorem.                                                             *)

LEMMA NextBase == Base /\ [Next]_vars => Base'
<1> SUFFICES ASSUME Base, [Next]_vars PROVE Base'
  OBVIOUS
<1>1. CASE TransfersNext
  <2>1. ASSUME NEW p \in Procs, NEW src \in Accounts, NEW amt \in Amounts,
               NEW dst \in Destinations, BeginInternal(p, src, dst, amt)
        PROVE  Base'
    BY <2>1, BeginInternalBase
  <2>2. ASSUME NEW p \in Procs, NEW src \in Accounts, NEW amt \in Amounts,
               BeginExternal(p, src, amt)
        PROVE  Base'
    BY <2>2, BeginExternalBase
  <2>3. ASSUME NEW p \in Procs, NEW t \in TxIds,
               CommitInternal(p, t) \/ CommitExternal(p, t) \/ RecordFreshFailed(p, t)
        PROVE  Base'
    BY <2>3, CommitInternalBase, CommitExternalBase, RecordFreshFailedBase
  <2>4. ASSUME NEW p \in Procs, NEW t \in TxIds, ConfirmLoad(p, t)
        PROVE  Base'
    BY <2>4, ConfirmRequestBase
  <2>5. ASSUME NEW p \in Procs, SweepExternal(p) \/ RefuseExternal(p)
        PROVE  Base'
    BY <2>5, SweepExternalBase, RefuseExternalBase
  <2>6. ASSUME NEW p \in Procs, PendingConflict(p) \/ Abort(p)
        PROVE  Base'
    BY <2>6, FinishBase DEF PendingConflict, Abort
  <2>7. ASSUME NEW p \in Procs, ConfirmAuthorize(p) \/ ConfirmRefused(p)
        PROVE  Base'
    <3>1. req[p].tx \in TxIds
      BY <2>7, RequestFields DEF ConfirmAuthorize, ConfirmRefused, Base, TypeOK
    <3> QED BY <2>7, <3>1, ConfirmRequestBase
  <2>8. ASSUME NEW p \in Procs, ConfirmPost(p) \/ ConfirmSettle(p)
        PROVE  Base'
    BY <2>8, ConfirmMovesBase
  <2>9. ASSUME NEW p \in Procs, PersistConfirmFailure(p)
        PROVE  Base'
    BY <2>9, PersistConfirmFailureBase
  <2>10. ASSUME NEW t \in TxIds, CancelTransfer(t) \/ ExpireOverdue(t)
         PROVE  Base'
    BY <2>10, CloseReleasingBase DEF CancelTransfer, ExpireOverdue, HoldStatuses
  <2>11. ASSUME NEW u \in Users, GenerateOtp(u) \/ LoseOtp(u)
         PROVE  Base'
    <3>1. TypeOK'
      BY <2>11 DEF GenerateOtp, LoseOtp, Base, TypeOK, accountVars, txVars, holdVars,
                   bookVars, adminVars
    <3> QED BY <2>11, <3>1, QuietBase DEF GenerateOtp, LoseOtp, txVars, adminVars
  <2>12. ASSUME Tick
         PROVE  Base'
    <3>1. TypeOK'
      BY <2>12 DEF Tick, Base, TypeOK, accountVars, txVars, holdVars, bookVars, adminVars
    <3> QED BY <2>12, <3>1, QuietBase DEF Tick, txVars, adminVars
  <2> QED BY <1>1, <2>1, <2>2, <2>3, <2>4, <2>5, <2>6, <2>7, <2>8, <2>9, <2>10, <2>11, <2>12
          DEF TransfersNext
<1>2. CASE RailsNext
  BY <1>2, RailSuccessBase, RailFailureBase, InboundCreditBase DEF RailsNext
<1>3. CASE BackOfficeNext
  BY <1>3, ProposeReversalBase, InsertApprovalBase, RejectReversalBase, ApproveReversalBase,
     SetFrozenBase DEF BackOfficeNext
<1>4. CASE UNCHANGED vars
  <2>1. TypeOK'
    BY <1>4 DEF vars, Base, TypeOK
  <2> QED BY <1>4, <2>1, QuietBase DEF vars
<1> QED BY <1>1, <1>2, <1>3, <1>4 DEF Next

\* Every state of the service has well-typed and well-shaped rows, and no request
\* in progress believes anything of them that is no longer so.
THEOREM AlwaysBase == Spec => []Base
<1> QED BY InitBase, NextBase, PTL DEF Spec

\* The type invariant, for every number of customers, accounts and requests.
THEOREM TypeCorrect == Spec => []TypeOK
<1>1. Base => TypeOK
  BY DEF Base
<1> QED BY <1>1, AlwaysBase, PTL

-----------------------------------------------------------------------------
(* The effects.                                                             *)

Quiet == UNCHANGED <<balance, held, txVars, holdVars, bookVars>>

\* The rail has settled t.
Settles(t) ==
  /\ Reconcilable(t)
  /\ railRef' = [railRef EXCEPT ![t] = TRUE]
  /\ UNCHANGED <<balance, held, txVars, hold, bookVars>>

\* An initiate inserts t and closes every other pending transfer of the customer.
Opens(t, row, swept) ==
  /\ row \in Headers /\ row.by \in Users /\ row.reverses = None /\ row.debit \in Accounts
  /\ status[t] = "NONE"
  /\ Pending(row.by) \subseteq swept
  /\ \A s \in swept : s \in TxIds /\ status[s] = "PENDING" /\ header[s].by = row.by
  /\ \A s \in TxIds :
       /\ s = t => status'[s] = "PENDING"
       /\ s # t /\ s \in swept => status'[s] \in {"EXPIRED", "CANCELLED"}
       /\ s # t /\ s \notin swept => status'[s] = status[s]
  /\ \A s \in TxIds : header'[s] = IF s = t THEN row ELSE header[s]
  /\ UNCHANGED <<balance, railRef, bookVars>>

OpensInternal(t, row, swept) ==
  /\ Opens(t, row, swept)
  /\ row.type = "internal"
  /\ UNCHANGED <<hold, held>>

\* ... of which at most one, prior, gives its hold back; the new one places its own.
OpensExternal(t, row, swept, r) ==
  /\ Opens(t, row, swept)
  /\ row.type = "external_outbound"
  /\ row.credit = OutClearing
  /\ Releases(r) => r.prior \in TxIds /\ header[r.prior] \in Headers
                    /\ header[r.prior].by = row.by
  /\ DebitAllowed(row.debit, row.amount, HeldAfterRelease(r, row.debit))
  /\ \A s \in TxIds :
       /\ s = t => hold'[s] = "PLACED"
       /\ s # t /\ Releases(r) /\ s = r.prior => hold'[s] \in {"EXPIRED", "RELEASED"}
       /\ s # t /\ ~(Releases(r) /\ s = r.prior) => hold'[s] = hold[s]
  /\ \A a \in Accounts :
       held'[a] = HeldAfterRelease(r, a) + (IF a = row.debit THEN row.amount ELSE 0)

\* A refused outbound transfer is recorded.
Records(t, row) ==
  /\ row \in Headers /\ row.by \in Users /\ row.reverses = None /\ row.debit \in Accounts
  /\ row.type = "external_outbound" /\ row.credit = OutClearing
  /\ status[t] = "NONE"
  /\ \A s \in TxIds : status'[s] = IF s = t THEN "FAILED" ELSE status[s]
  /\ \A s \in TxIds : header'[s] = IF s = t THEN row ELSE header[s]
  /\ Emit(t, "transaction.failed")
  /\ UNCHANGED <<balance, held, holdVars, ledger>>

\* A pending transfer ends without money: failed, cancelled or expired.
Lapses(t, to, holdTo) ==
  /\ status[t] = "PENDING"
  /\ \A s \in TxIds : status'[s] = IF s = t THEN to ELSE status[s]
  /\ to = "FAILED" => holdTo = "RELEASED" /\ Emit(t, "transaction.failed")
  /\ to # "FAILED" => UNCHANGED outbox
  /\ ReleaseHold(t, holdTo)
  /\ UNCHANGED <<balance, header, railRef, ledger>>

\* A pending transfer posts.
Confirms(t) ==
  /\ header[t].debit \in Accounts
  /\ PostPending(t)
  /\ UNCHANGED <<header, railRef>>

ConfirmsInternal(t) ==
  /\ Confirms(t)
  /\ ~IsExternal(t)
  /\ DebitAllowed(header[t].debit, header[t].amount, held[header[t].debit])
  /\ UNCHANGED <<held, hold>>

ConfirmsExternal(t) ==
  /\ Confirms(t)
  /\ IsExternal(t)
  /\ hold[t] # "NONE"
  /\ DebitAllowed(header[t].debit, header[t].amount, held[header[t].debit] - header[t].amount)
  /\ held' = [held EXCEPT ![header[t].debit] = @ - header[t].amount]
  /\ hold' = IF hold[t] = "PLACED" THEN [hold EXCEPT ![t] = "SETTLED"] ELSE hold

\* The mirror image of a posted transaction.
Mirrors(row, t) ==
  /\ t \in TxIds /\ status[t] = "POSTED"
  /\ row.debit = header[t].credit /\ row.credit = header[t].debit
  /\ row.amount = header[t].amount /\ row.type = header[t].type

\* A movement nobody confirms is booked: an inbound credit, the compensation of an
\* outbound transfer the rail gave up and has not settled, or an approved reversal.
Books(t, row) ==
  /\ Movement(row)
  /\ PostFresh(t, row)
  /\ UNCHANGED <<held, holdVars>>
  /\ \/ row.reverses = None /\ row.by = RailActor /\ row.debit = InClearing
     \/ Mirrors(row, row.reverses) /\ row.by = RailActor /\ Reconcilable(row.reverses)
     \/ /\ Mirrors(row, row.reverses) /\ row.by \in Admins /\ ~IsExternal(row.reverses)
        /\ approval' # approval

LapseStatuses == {"FAILED", "CANCELLED", "EXPIRED"}
LapsedHolds == {"RELEASED", "EXPIRED"}

Effect ==
  \/ Quiet
  \/ \E t \in TxIds : Settles(t)
  \/ \E t \in TxIds, row \in Headers, swept \in SUBSET TxIds :
       \/ OpensInternal(t, row, swept)
       \/ \E r \in Requests : OpensExternal(t, row, swept, r)
  \/ \E t \in TxIds, row \in Headers : Records(t, row) \/ Books(t, row)
  \/ \E t \in TxIds, to \in LapseStatuses, holdTo \in LapsedHolds : Lapses(t, to, holdTo)
  \/ \E t \in TxIds : ConfirmsInternal(t) \/ ConfirmsExternal(t)

\* The external initiate that has swept credits the clearing account.
SweptOK ==
  \A p \in Procs :
    req[p].pc = "swept" /\ req[p].type = "external_outbound" => req[p].dst = OutClearing

-----------------------------------------------------------------------------
(* Every step has one of the effects.                                       *)

LEMMA SweptStep == Base /\ SweptOK /\ [Next]_vars => SweptOK'
<1> SUFFICES ASSUME Base, SweptOK, [Next]_vars PROVE SweptOK'
  OBVIOUS
<1>1. ASSUME NEW p \in Procs, NEW r, req' = [req EXCEPT ![p] = r],
             r.pc = "swept" /\ r.type = "external_outbound" => r.dst = OutClearing
      PROVE  SweptOK'
  BY <1>1 DEF Base, TypeOK, SweptOK
<1>2. ASSUME NEW p \in Procs, Finish(p) PROVE SweptOK'
  BY <1>1, <1>2 DEF Finish, Idle
<1>3. ASSUME UNCHANGED req PROVE SweptOK'
  BY <1>3 DEF SweptOK
<1>4. CASE TransfersNext
  <2>1. ASSUME NEW p \in Procs, NEW src \in Accounts, NEW amt \in Amounts,
               NEW dst \in Destinations, BeginInternal(p, src, dst, amt)
        PROVE  SweptOK'
    BY <1>1, <2>1 DEF BeginInternal
  <2>2. ASSUME NEW p \in Procs, NEW src \in Accounts, NEW amt \in Amounts,
               BeginExternal(p, src, amt)
        PROVE  SweptOK'
    <3>1. \/ req' = [req EXCEPT ![p] = [pc |-> "failing", src |-> src, amt |-> amt]]
          \/ req' = [req EXCEPT ![p] = [pc |-> "prior", src |-> src, amt |-> amt, now |-> clock,
                                        prior |-> PriorPending(Owner[src])]]
      BY <2>2 DEF BeginExternal, Begin
    <3> QED BY <1>1, <3>1
  <2>3. ASSUME NEW p \in Procs, SweepExternal(p) \/ RefuseExternal(p) \/ ConfirmAuthorize(p)
               \/ ConfirmRefused(p)
        PROVE  SweptOK'
    BY <1>1, <2>3
    DEF SweepExternal, RefuseExternal, ConfirmAuthorize, ConfirmRefused, Continue
  <2>4. ASSUME NEW p \in Procs, NEW t \in TxIds, ConfirmLoad(p, t)
        PROVE  SweptOK'
    BY <1>1, <2>4 DEF ConfirmLoad, Begin
  <2>5. ASSUME NEW p \in Procs, NEW t \in TxIds,
               CommitInternal(p, t) \/ CommitExternal(p, t) \/ RecordFreshFailed(p, t)
        PROVE  SweptOK'
    BY <1>2, <2>5 DEF CommitInternal, CommitExternal, RecordFreshFailed
  <2>6. ASSUME NEW p \in Procs,
               PendingConflict(p) \/ Abort(p) \/ ConfirmPost(p) \/ ConfirmSettle(p)
               \/ PersistConfirmFailure(p)
        PROVE  SweptOK'
    BY <1>2, <2>6 DEF PendingConflict, Abort, ConfirmPost, ConfirmSettle, PersistConfirmFailure, RecordFailed
  <2>7. ASSUME NEW t \in TxIds, CancelTransfer(t) \/ ExpireOverdue(t) PROVE SweptOK'
    BY <1>3, <2>7 DEF CancelTransfer, ExpireOverdue, CloseReleasing, Transition
  <2>8. ASSUME NEW u \in Users, GenerateOtp(u) \/ LoseOtp(u) PROVE SweptOK'
    BY <1>3, <2>8 DEF GenerateOtp, LoseOtp
  <2>9. CASE Tick BY <1>3, <2>9 DEF Tick
  <2> QED BY <1>4, <2>1, <2>2, <2>3, <2>4, <2>5, <2>6, <2>7, <2>8, <2>9 DEF TransfersNext
<1>5. CASE RailsNext
  BY <1>3, <1>5 DEF RailsNext, RailSuccess, RailFailure, InboundCredit
<1>6. CASE BackOfficeNext
  <2>1. ASSUME NEW p \in Procs, NEW admin \in Admins, NEW t \in TxIds,
               ProposeReversal(p, admin, t)
        PROVE  SweptOK'
    BY <1>1, <2>1 DEF ProposeReversal
  <2>2. ASSUME NEW p \in Procs, NEW i \in ApprovalIds, InsertApproval(p, i) PROVE SweptOK'
    BY <1>2, <2>2 DEF InsertApproval, Finish
  <2> QED BY <1>3, <1>6, <2>1, <2>2
          DEF BackOfficeNext, RejectReversal, ApproveReversal, SetFrozen
<1>7. CASE UNCHANGED vars BY <1>3, <1>7 DEF vars
<1> QED BY <1>4, <1>5, <1>6, <1>7 DEF Next

\* The commit of an initiate opens a transfer.
LEMMA InsertOpens ==
  ASSUME Base, NEW p \in Procs, NEW t \in TxIds, req[p].pc = "swept",
         InsertPending(t, req[p]), UNCHANGED <<balance, railRef, bookVars>>
  PROVE  \E row \in Headers :
           /\ Opens(t, row, req[p].swept)
           /\ row.type = req[p].type /\ row.debit = req[p].src /\ row.credit = req[p].dst
           /\ row.amount = req[p].amt /\ row.by = Owner[req[p].src]
<1> DEFINE r == req[p]
           row == Row(r.type, r.amt, r.src, r.dst, Owner[r.src], None, r.now + PendingTtl)
<1>1. r \in Requests /\ RequestOK(r) /\ TypeOK
  BY DEF Base, TypeOK, Shape
<1>2. /\ r.type \in {"internal", "external_outbound"}
      /\ r.src \in Accounts /\ r.dst \in AllAccounts /\ r.amt \in Amounts
      /\ r.now \in Nat /\ r.swept \in SUBSET TxIds
  BY <1>1, RequestFields
<1>3. row \in Headers /\ row.by \in Users
  BY <1>2, CoreAssumptions DEF Row, Headers, TxTypes, AllAccounts, Initiators
<1>4. /\ row.reverses = None /\ row.type = r.type /\ row.debit = r.src
      /\ row.credit = r.dst /\ row.amount = r.amt /\ row.by = Owner[r.src]
  BY DEF Row
<1>5. \A s \in TxIds : header'[s] = IF s = t THEN row ELSE header[s]
  BY <1>1 DEF InsertPending, InsertRow, TypeOK
<1>6. \A s \in r.swept : s \in TxIds /\ status[s] = "PENDING" /\ header[s].by = row.by
  BY <1>1, <1>2, <1>4 DEF RequestOK
<1>7. /\ status[t] = "NONE"
      /\ \A s \in TxIds :
           /\ s = t => status'[s] = "PENDING"
           /\ s # t /\ s \in r.swept => status'[s] \in {"EXPIRED", "CANCELLED"}
           /\ s # t /\ s \notin r.swept => status'[s] = status[s]
  BY DEF InsertPending, InsertRow
<1>8. Pending(row.by) \subseteq r.swept
  BY <1>4 DEF InsertPending, NoOtherPending
<1> HIDE DEF row
<1>9. Opens(t, row, r.swept)
  BY <1>2, <1>3, <1>4, <1>5, <1>6, <1>7, <1>8 DEF Opens
<1> QED BY <1>3, <1>4, <1>9

LEMMA CommitExternalEffect ==
  ASSUME Base, SweptOK, NEW p \in Procs, NEW t \in TxIds, CommitExternal(p, t)
  PROVE  Effect
<1> DEFINE r == req[p]
<1>1. r \in Requests /\ RequestOK(r) /\ r.pc = "swept" /\ r.type = "external_outbound"
  BY DEF Base, TypeOK, Shape, CommitExternal
<1>2. PICK row \in Headers :
        /\ Opens(t, row, r.swept)
        /\ row.type = r.type /\ row.debit = r.src /\ row.credit = r.dst
        /\ row.amount = r.amt /\ row.by = Owner[r.src]
  BY <1>1, InsertOpens DEF CommitExternal
<1>3. row.credit = OutClearing
  BY <1>1, <1>2 DEF SweptOK
<1>4. Releases(r) => /\ r.prior \in TxIds /\ header[r.prior] \in Headers
                     /\ header[r.prior].by = row.by
  BY <1>1, <1>2, RequestFields DEF Releases, RequestOK, Base, TypeOK, Shape, RowOK
<1>5. \A s \in TxIds :
        /\ s = t => hold'[s] = "PLACED"
        /\ s # t /\ Releases(r) /\ s = r.prior => hold'[s] \in {"EXPIRED", "RELEASED"}
        /\ s # t /\ ~(Releases(r) /\ s = r.prior) => hold'[s] = hold[s]
  BY DEF CommitExternal
<1>6. /\ DebitAllowed(row.debit, row.amount, HeldAfterRelease(r, row.debit))
      /\ \A a \in Accounts :
           held'[a] = HeldAfterRelease(r, a) + (IF a = row.debit THEN row.amount ELSE 0)
  BY <1>2 DEF CommitExternal
<1>7. OpensExternal(t, row, r.swept, r)
  BY <1>1, <1>2, <1>3, <1>4, <1>5, <1>6 DEF OpensExternal
<1>8. r.swept \in SUBSET TxIds
  BY <1>1, RequestFields
<1> HIDE DEF r
<1> QED BY <1>1, <1>7, <1>8 DEF Effect

LEMMA RecordFreshFailedEffect ==
  ASSUME Base, NEW p \in Procs, NEW t \in TxIds, RecordFreshFailed(p, t)
  PROVE  Effect
<1> DEFINE r == req[p]
           row == Row("external_outbound", r.amt, r.src, OutClearing, Owner[r.src], None, 0)
<1>1. r \in Requests /\ TypeOK
  BY DEF Base, TypeOK
<1>2. r.src \in Accounts /\ r.amt \in Amounts
  BY <1>1, RequestFields DEF RecordFreshFailed
<1>3. /\ row \in Headers /\ row.by \in Users /\ row.reverses = None /\ row.debit \in Accounts
      /\ row.type = "external_outbound" /\ row.credit = OutClearing
  BY <1>2, CoreAssumptions DEF Row, Headers, TxTypes, AllAccounts, SystemAccounts, Initiators
<1>4. /\ status[t] = "NONE"
      /\ \A s \in TxIds : status'[s] = IF s = t THEN "FAILED" ELSE status[s]
      /\ \A s \in TxIds : header'[s] = IF s = t THEN row ELSE header[s]
  BY <1>1 DEF RecordFreshFailed, InsertRow, TypeOK
<1> HIDE DEF row
<1>5. Records(t, row)
  BY <1>3, <1>4 DEF Records, RecordFreshFailed, accountVars, holdVars
<1> QED BY <1>3, <1>5 DEF Effect

LEMMA ConfirmEffect ==
  ASSUME Base, NEW p \in Procs, ConfirmPost(p) \/ ConfirmSettle(p) \/ PersistConfirmFailure(p)
  PROVE  Effect
<1> DEFINE t == req[p].tx
<1>1. t \in TxIds /\ header[t] \in Headers /\ header[t].debit \in Accounts /\ TypeOK
  BY ConfirmFacts DEF ConfirmPost, ConfirmSettle, PersistConfirmFailure, RecordFailed, Base
<1>2. CASE ConfirmPost(p)
  <2>1. ConfirmsInternal(t)
    BY <1>1, <1>2 DEF ConfirmPost, ConfirmsInternal, Confirms, holdVars
  <2> QED BY <1>1, <2>1 DEF Effect
<1>3. CASE ConfirmSettle(p)
  <2>1. ConfirmsExternal(t)
    BY <1>1, <1>3 DEF ConfirmSettle, ConfirmsExternal, Confirms
  <2> QED BY <1>1, <2>1 DEF Effect
<1>4. CASE PersistConfirmFailure(p) /\ status[t] = "PENDING"
  <2>1. Lapses(t, "FAILED", "RELEASED")
    BY <1>1, <1>4 DEF PersistConfirmFailure, RecordFailed, Lapses, TypeOK
  <2> QED BY <1>1, <2>1 DEF Effect, LapseStatuses, LapsedHolds
<1>5. CASE PersistConfirmFailure(p) /\ status[t] # "PENDING"
  BY <1>5 DEF PersistConfirmFailure, RecordFailed, Effect, Quiet, txVars, holdVars, bookVars
<1> QED BY <1>2, <1>3, <1>4, <1>5

LEMMA CloseEffect ==
  ASSUME Base, NEW t \in TxIds, CancelTransfer(t) \/ ExpireOverdue(t)
  PROVE  Effect
<1>1. \/ Lapses(t, "CANCELLED", "RELEASED")
      \/ Lapses(t, "EXPIRED", "EXPIRED")
  BY DEF CancelTransfer, ExpireOverdue, CloseReleasing, Transition, Lapses, bookVars, Base, TypeOK
<1> QED BY <1>1 DEF Effect, LapseStatuses, LapsedHolds

LEMMA RailFailureEffect ==
  ASSUME Base, NEW t \in TxIds, NEW r \in TxIds, RailFailure(t, r)
  PROVE  Effect
<1> DEFINE row == Row("external_outbound", header[t].amount, header[t].credit,
                      header[t].debit, RailActor, t, 0)
<1>1. status[t] = "POSTED" /\ header[t] \in Headers /\ RowOK(t) /\ PostFresh(r, row)
  BY DEF Base, TypeOK, Shape, RailFailure, Reconcilable, RowOK
<1>2. Movement(row)
  BY <1>1, CoreAssumptions DEF Movement, Row, RowOK, Headers, TxTypes, Initiators
<1>3. Mirrors(row, t) /\ row.reverses = t /\ row.by = RailActor /\ Reconcilable(t)
  BY <1>1 DEF Mirrors, Row, RailFailure, Reconcilable, IsExternal
<1>4. row \in Headers BY <1>2 DEF Movement
<1> HIDE DEF row
<1>5. Books(r, row)
  BY <1>1, <1>2, <1>3 DEF Books, RailFailure
<1> QED BY <1>4, <1>5 DEF Effect

LEMMA InboundCreditEffect ==
  ASSUME Base, NEW ref \in Refs, NEW a \in Accounts, NEW amt \in Amounts, NEW t \in TxIds,
         InboundCredit(ref, a, amt, t)
  PROVE  Effect
<1> DEFINE row == Row("external_inbound", amt, InClearing, a, RailActor, None, 0)
<1>1. Movement(row)
  BY CoreAssumptions
     DEF Movement, Row, Headers, TxTypes, Initiators, AllAccounts, SystemAccounts
<1>2. row.reverses = None /\ row.by = RailActor /\ row.debit = InClearing BY DEF Row
<1>3. row \in Headers BY <1>1 DEF Movement
<1>4. PostFresh(t, row) BY DEF InboundCredit
<1> HIDE DEF row
<1>5. Books(t, row)
  BY <1>1, <1>2, <1>4 DEF Books, InboundCredit
<1> QED BY <1>3, <1>5 DEF Effect

\* The movement an approval books.
MirrorRow(t, admin) ==
  Row(header[t].type, header[t].amount, header[t].credit, header[t].debit, admin, t, 0)

LEMMA ApprovedBooks ==
  ASSUME Base, NEW i \in ApprovalIds, NEW admin \in Admins, NEW r \in TxIds,
         ApproveReversal(i, admin, r)
  PROVE  /\ approval[i].target \in TxIds /\ approval[i] # None
         /\ MirrorRow(approval[i].target, admin) \in Headers
         /\ Books(r, MirrorRow(approval[i].target, admin))
<1> DEFINE t == approval[i].target
           row == MirrorRow(t, admin)
<1>1. Decidable(i, admin) /\ Decide(i, admin, "EXECUTED") /\ PostFresh(r, row)
      /\ status[t] = "POSTED"
  BY DEF ApproveReversal, MirrorRow
<1>2. t \in TxIds /\ ApprovalOK(approval[i]) /\ approval[i] # None
  BY <1>1, DecideApproval DEF Decidable
<1>3. header[t] \in Headers /\ RowOK(t)
  BY <1>1, <1>2 DEF Base, TypeOK, Shape, RowOK
<1>4. Movement(row)
  BY <1>1, <1>2, <1>3, CoreAssumptions
     DEF Movement, MirrorRow, Row, RowOK, Headers, TxTypes, Initiators
<1>5. Mirrors(row, t) /\ row.reverses = t /\ row.by \in Admins /\ ~IsExternal(t)
  BY <1>1, <1>2 DEF Mirrors, MirrorRow, Row, ApprovalOK, IsExternal
<1>6. row \in Headers BY <1>4 DEF Movement
<1>7. approval' # approval
  <2>1. approval[i] \in ApprovalRequests /\ approval[i].status = "PENDING"
    BY <1>1, <1>2 DEF Base, TypeOK, Decidable
  <2>2. approval'[i].status = "EXECUTED"
    BY <1>1, <2>1 DEF Decide, Base, TypeOK, ApprovalRequests
  <2> QED BY <2>1, <2>2
<1> HIDE DEF row
<1>8. Books(r, row)
  BY <1>1, <1>4, <1>5, <1>7 DEF Books, ApproveReversal
<1> QED BY <1>2, <1>6, <1>8 DEF row

LEMMA ApproveReversalEffect ==
  ASSUME Base, NEW i \in ApprovalIds, NEW admin \in Admins, NEW r \in TxIds,
         ApproveReversal(i, admin, r)
  PROVE  Effect
BY ApprovedBooks DEF Effect

LEMMA Effects == Base /\ SweptOK /\ [Next]_vars => Effect
<1> SUFFICES ASSUME Base, SweptOK, [Next]_vars PROVE Effect
  OBVIOUS
<1>1. Quiet => Effect BY DEF Effect
<1>2. CASE TransfersNext
  <2>1. ASSUME NEW p \in Procs, NEW t \in TxIds, CommitInternal(p, t) PROVE Effect
    <3>1. PICK row \in Headers : Opens(t, row, req[p].swept) /\ row.type = req[p].type
      BY <2>1, InsertOpens DEF CommitInternal, accountVars, holdVars
    <3>2. OpensInternal(t, row, req[p].swept)
      BY <2>1, <3>1 DEF CommitInternal, OpensInternal, accountVars, holdVars
    <3>3. req[p].swept \in SUBSET TxIds
      BY <2>1, RequestFields DEF CommitInternal, Base, TypeOK
    <3> QED BY <3>2, <3>3 DEF Effect
  <2>2. ASSUME NEW p \in Procs, NEW t \in TxIds,
               CommitExternal(p, t) \/ RecordFreshFailed(p, t) \/ ConfirmPost(p)
               \/ ConfirmSettle(p) \/ PersistConfirmFailure(p)
               \/ CancelTransfer(t) \/ ExpireOverdue(t)
        PROVE  Effect
    BY <2>2, CommitExternalEffect, RecordFreshFailedEffect, ConfirmEffect, CloseEffect
  <2>3. ASSUME NEW p \in Procs, ConfirmPost(p) \/ ConfirmSettle(p) \/ PersistConfirmFailure(p)
        PROVE  Effect
    BY <2>3, ConfirmEffect
  <2>4. ASSUME NEW p \in Procs, NEW src \in Accounts, NEW amt \in Amounts,
               BeginExternal(p, src, amt) \/ \E dst \in Destinations : BeginInternal(p, src, dst, amt)
        PROVE  Quiet
    BY <2>4 DEF BeginInternal, BeginExternal, Quiet, accountVars
  <2>5. ASSUME NEW p \in Procs,
               SweepExternal(p) \/ RefuseExternal(p) \/ PendingConflict(p) \/ Abort(p)
               \/ ConfirmAuthorize(p) \/ ConfirmRefused(p)
               \/ \E t \in TxIds : ConfirmLoad(p, t)
        PROVE  Quiet
    BY <2>5 DEF SweepExternal, RefuseExternal, PendingConflict, Abort, ConfirmLoad,
                ConfirmAuthorize, ConfirmRefused, Quiet, accountVars
  <2>6. ASSUME Tick \/ \E u \in Users : GenerateOtp(u) \/ LoseOtp(u) PROVE Quiet
    BY <2>6 DEF Tick, GenerateOtp, LoseOtp, Quiet, accountVars
  <2>7. ASSUME NEW t \in TxIds, CancelTransfer(t) \/ ExpireOverdue(t) PROVE Effect
    BY <2>7, CloseEffect
  <2> QED BY <1>1, <1>2, <2>1, <2>2, <2>3, <2>4, <2>5, <2>6, <2>7 DEF TransfersNext
<1>3. CASE RailsNext
  <2>1. ASSUME NEW t \in TxIds, RailSuccess(t) PROVE Effect
    BY <2>1 DEF RailSuccess, Settles, Effect, accountVars
  <2> QED BY <1>3, <2>1, RailFailureEffect, InboundCreditEffect DEF RailsNext
<1>4. CASE BackOfficeNext
  <2>1. ASSUME NEW p \in Procs, NEW admin \in Admins, NEW t \in TxIds,
               ProposeReversal(p, admin, t)
        PROVE  Quiet
    BY <2>1 DEF ProposeReversal, Quiet, accountVars
  <2>2. ASSUME NEW p \in Procs, NEW i \in ApprovalIds, InsertApproval(p, i) PROVE Quiet
    BY <2>2 DEF InsertApproval, Quiet, accountVars
  <2>3. ASSUME NEW i \in ApprovalIds, NEW admin \in Admins, RejectReversal(i, admin)
        PROVE  Quiet
    BY <2>3 DEF RejectReversal, Quiet, accountVars
  <2>4. ASSUME NEW a \in Accounts, NEW freeze \in BOOLEAN, SetFrozen(a, freeze) PROVE Quiet
    BY <2>4 DEF SetFrozen, Quiet
  <2> QED BY <1>1, <1>4, <2>1, <2>2, <2>3, <2>4, ApproveReversalEffect DEF BackOfficeNext
<1>5. CASE UNCHANGED vars
  BY <1>1, <1>5 DEF vars, Quiet, txVars, holdVars, bookVars
<1> QED BY <1>2, <1>3, <1>4, <1>5 DEF Next

-----------------------------------------------------------------------------
(* What the reducer's effects mean row by row.                              *)

LEMMA EmitRows ==
  ASSUME TypeOK, NEW t \in TxIds, NEW e, Emit(t, e)
  PROVE  \A s \in TxIds : outbox'[s] = IF s = t THEN Append(outbox[t], e) ELSE outbox[s]
BY DEF Emit, TypeOK

LEMMA MoneyRows ==
  ASSUME TypeOK, NEW t \in TxIds, NEW d \in AllAccounts, NEW c \in AllAccounts, d # c,
         NEW m \in Nat, MoveMoney(t, d, c, m)
  PROVE  \A a \in AllAccounts :
           balance'[a] = IF a = d THEN balance[a] - m
                         ELSE IF a = c THEN balance[a] + m ELSE balance[a]
BY DEF MoveMoney, TypeOK

LEMMA BooksRows ==
  ASSUME Base, NEW t \in TxIds, NEW row, Books(t, row)
  PROVE  /\ status[t] = "NONE" /\ row.reverses # t
         /\ row.reverses \in TxIds \cup {None}
         /\ row.reverses # None => status[row.reverses] = "POSTED"
         /\ \A s \in TxIds :
              /\ status'[s] = IF s = row.reverses THEN "REVERSED"
                              ELSE IF s = t THEN "POSTED" ELSE status[s]
              /\ header'[s] = IF s = t THEN row ELSE header[s]
              /\ outbox'[s] = IF s = t THEN Append(outbox[t], "transaction.posted")
                              ELSE outbox[s]
         /\ \A a \in AllAccounts :
              balance'[a] = IF a = row.debit THEN balance[a] - row.amount
                            ELSE IF a = row.credit THEN balance[a] + row.amount ELSE balance[a]
<1>1. TypeOK /\ Movement(row) /\ PostFresh(t, row) BY DEF Base, Books
<1>2. /\ row \in Headers /\ row.debit \in AllAccounts /\ row.credit \in AllAccounts
      /\ row.amount \in Nat /\ row.reverses \in TxIds \cup {None} /\ row.debit # row.credit
  BY <1>1 DEF Movement, Headers
<1>3. \A a \in AllAccounts :
        balance'[a] = IF a = row.debit THEN balance[a] - row.amount
                      ELSE IF a = row.credit THEN balance[a] + row.amount ELSE balance[a]
  BY <1>1, <1>2, MoneyRows DEF PostFresh
<1>4. \A s \in TxIds : outbox'[s] = IF s = t THEN Append(outbox[t], "transaction.posted")
                                    ELSE outbox[s]
  BY <1>1, EmitRows DEF PostFresh
<1>5. /\ status[t] = "NONE"
      /\ \A s \in TxIds : header'[s] = IF s = t THEN row ELSE header[s]
  BY <1>1 DEF PostFresh, InsertRow, TypeOK
<1>6. \A s \in TxIds : status'[s] = IF s = row.reverses THEN "REVERSED"
                                    ELSE IF s = t THEN "POSTED" ELSE status[s]
  BY <1>1, <1>2, CoreAssumptions DEF PostFresh, TypeOK
<1>7. row.reverses # None => status[row.reverses] = "POSTED"
  BY <1>1 DEF Movement
<1>8. row.reverses # t
  BY <1>5, <1>7, CoreAssumptions
<1> QED BY <1>2, <1>3, <1>4, <1>5, <1>6, <1>7, <1>8

LEMMA ConfirmsRows ==
  ASSUME Base, NEW t \in TxIds, Confirms(t)
  PROVE  /\ status[t] = "PENDING" /\ RowOK(t) /\ header[t] \in Headers
         /\ header[t].by \in Users /\ header[t].amount \in Nat
         /\ \A s \in TxIds :
              /\ status'[s] = IF s = t THEN "POSTED" ELSE status[s]
              /\ header'[s] = header[s]
              /\ outbox'[s] = IF s = t THEN Append(outbox[t], "transaction.posted")
                              ELSE outbox[s]
         /\ \A a \in AllAccounts :
              balance'[a] = IF a = header[t].debit THEN balance[a] - header[t].amount
                            ELSE IF a = header[t].credit THEN balance[a] + header[t].amount
                            ELSE balance[a]
<1>1. TypeOK /\ PostPending(t) /\ RowOK(t) /\ status[t] = "PENDING" /\ header' = header
  BY DEF Base, Shape, Confirms, PostPending
<1>2. /\ header[t] \in Headers /\ header[t].by \in Users /\ header[t].debit # header[t].credit
      /\ header[t].amount \in Nat /\ header[t].debit \in AllAccounts
      /\ header[t].credit \in AllAccounts
  BY <1>1 DEF RowOK, TypeOK, Moved, Headers
<1>3. \A a \in AllAccounts :
        balance'[a] = IF a = header[t].debit THEN balance[a] - header[t].amount
                      ELSE IF a = header[t].credit THEN balance[a] + header[t].amount
                      ELSE balance[a]
  BY <1>1, <1>2, MoneyRows DEF PostPending
<1>4. \A s \in TxIds : outbox'[s] = IF s = t THEN Append(outbox[t], "transaction.posted")
                                    ELSE outbox[s]
  BY <1>1, EmitRows DEF PostPending
<1>5. \A s \in TxIds : status'[s] = IF s = t THEN "POSTED" ELSE status[s]
  BY <1>1 DEF PostPending, TypeOK
<1> QED BY <1>1, <1>2, <1>3, <1>4, <1>5

\* A transfer somebody may still close is a customer's.
LEMMA PendingRow ==
  ASSUME Base, NEW t \in TxIds, status[t] = "PENDING"
  PROVE  /\ header[t] \in Headers /\ header[t].by \in Users /\ header[t].reverses = None
         /\ header[t].debit \in Accounts /\ header[t].amount \in Nat
BY DEF Base, Shape, TypeOK, RowOK, Moved, Headers

LEMMA ReleaseRows ==
  ASSUME TypeOK, NEW t \in TxIds, NEW to, header[t] \in Headers, ReleaseHold(t, to)
  PROVE  /\ \A s \in TxIds : hold'[s] = IF s = t /\ hold[t] = "PLACED" THEN to ELSE hold[s]
         /\ \A a \in Accounts :
              held'[a] = IF hold[t] = "PLACED" /\ a = header[t].debit
                         THEN held[a] - header[t].amount ELSE held[a]
BY DEF ReleaseHold, TypeOK

-----------------------------------------------------------------------------
(* One pending transfer, one event per outcome.                             *)

LEMMA SinglePendingStep ==
  ASSUME Base, SinglePending, Effect
  PROVE  SinglePending'
<1> SUFFICES ASSUME NEW s \in TxIds, NEW t \in TxIds, status'[s] = "PENDING",
                    status'[t] = "PENDING", header'[s].by = header'[t].by
             PROVE  s = t
  BY DEF SinglePending
<1>1. ASSUME \A u \in {s, t} : status[u] = "PENDING" /\ header'[u] = header[u] PROVE s = t
  BY <1>1 DEF SinglePending
<1>2. ASSUME NEW u \in TxIds, NEW row \in Headers, NEW swept \in SUBSET TxIds,
             Opens(u, row, swept)
      PROVE  s = t
  <2>1. \A x \in TxIds \ {u} :
          status'[x] = "PENDING" =>
            /\ status[x] = "PENDING" /\ header'[x] = header[x]
            /\ x \notin Pending(row.by)
    BY <1>2 DEF Opens
  <2>2. header'[u] = row BY <1>2 DEF Opens
  <2> QED BY <1>1, <2>1, <2>2 DEF Pending
<1>3. CASE Quiet \/ \E u \in TxIds : Settles(u)
  BY <1>1, <1>3 DEF Quiet, Settles, txVars
<1>4. ASSUME NEW u \in TxIds, NEW row \in Headers, Records(u, row) PROVE s = t
  BY <1>1, <1>4 DEF Records
<1>5. ASSUME NEW u \in TxIds, NEW row \in Headers, Books(u, row) PROVE s = t
  BY <1>1, <1>5, BooksRows
<1>6. ASSUME NEW u \in TxIds, NEW to \in LapseStatuses, NEW holdTo, Lapses(u, to, holdTo)
      PROVE  s = t
  BY <1>1, <1>6 DEF Lapses, LapseStatuses
<1>7. ASSUME NEW u \in TxIds, Confirms(u) PROVE s = t
  BY <1>1, <1>7, ConfirmsRows
<1> QED BY <1>2, <1>3, <1>4, <1>5, <1>6, <1>7
        DEF Effect, OpensInternal, OpensExternal, ConfirmsInternal, ConfirmsExternal

\* What the outbox has of a transaction.
ToldOnce(t) ==
  /\ Moved(t) => outbox[t] = <<"transaction.posted">>
  /\ status[t] = "FAILED" => outbox[t] = <<"transaction.failed">>
  /\ ~Moved(t) /\ status[t] # "FAILED" => outbox[t] = <<>>

LEMMA AnnouncedIsOneEvent == OneEventPerOutcome <=> \A t \in TxIds : ToldOnce(t)
BY DEF OneEventPerOutcome, ToldOnce, Moved

LEMMA FirstEvent == \A e, s : s = <<>> => Append(s, e) = <<e>>
OBVIOUS

LEMMA OneEventStep ==
  ASSUME Base, OneEventPerOutcome, Effect
  PROVE  OneEventPerOutcome'
<1>0. \A t \in TxIds : ToldOnce(t) BY AnnouncedIsOneEvent
<1> SUFFICES ASSUME NEW t \in TxIds PROVE ToldOnce(t)'
  BY DEF OneEventPerOutcome, ToldOnce, Moved
<1>1. TypeOK BY DEF Base
<1>2. ASSUME NEW u \in TxIds, NEW row \in Headers, NEW swept \in SUBSET TxIds,
             Opens(u, row, swept)
      PROVE  ToldOnce(t)'
  BY <1>0, <1>2 DEF Opens, Moved, bookVars, ToldOnce
<1>3. CASE Quiet \/ \E u \in TxIds : Settles(u)
  BY <1>0, <1>3 DEF Quiet, Settles, txVars, bookVars, Moved, ToldOnce
<1>4. ASSUME NEW u \in TxIds, NEW row \in Headers, Records(u, row) PROVE ToldOnce(t)'
  <2>1. outbox[u] = <<>> BY <1>0, <1>4 DEF Records, ToldOnce, Moved
  <2>3. Append(outbox[u], "transaction.failed") = <<"transaction.failed">>
    BY <2>1, FirstEvent
  <2>2. outbox'[t] = IF t = u THEN <<"transaction.failed">> ELSE outbox[t]
    BY <1>1, <1>4, <2>3, EmitRows DEF Records
  <2> QED BY <1>0, <1>4, <2>2 DEF Records, Moved, ToldOnce
<1>5. ASSUME NEW u \in TxIds, NEW row \in Headers, Books(u, row) PROVE ToldOnce(t)'
  <2>1. status[u] = "NONE" BY <1>5, BooksRows
  <2>2. outbox[u] = <<>> BY <1>0, <2>1 DEF ToldOnce, Moved
  <2>3. Append(outbox[u], "transaction.posted") = <<"transaction.posted">>
    BY <2>2, FirstEvent
  <2>6. outbox'[t] = IF t = u THEN Append(outbox[u], "transaction.posted") ELSE outbox[t]
    BY <1>5, BooksRows
  <2>4. outbox'[t] = IF t = u THEN <<"transaction.posted">> ELSE outbox[t]
    BY <2>3, <2>6
  <2>5. /\ row.reverses # u
        /\ t = row.reverses => status[t] = "POSTED"
        /\ status'[t] = IF t = row.reverses THEN "REVERSED"
                        ELSE IF t = u THEN "POSTED" ELSE status[t]
    BY <1>5, BooksRows, CoreAssumptions
  <2> QED BY <1>0, <2>4, <2>5 DEF ToldOnce, Moved
<1>6. ASSUME NEW u \in TxIds, NEW to \in LapseStatuses, NEW holdTo, Lapses(u, to, holdTo)
      PROVE  ToldOnce(t)'
  <2>1. outbox[u] = <<>> BY <1>0, <1>6 DEF Lapses, ToldOnce, Moved
  <2>2. CASE to = "FAILED"
    <3>2. Append(outbox[u], "transaction.failed") = <<"transaction.failed">>
      BY <2>1, FirstEvent
    <3>1. outbox'[t] = IF t = u THEN <<"transaction.failed">> ELSE outbox[t]
      BY <1>1, <1>6, <2>2, <3>2, EmitRows DEF Lapses
    <3> QED BY <1>0, <1>6, <2>2, <3>1 DEF Lapses, Moved, ToldOnce
  <2>3. CASE to # "FAILED"
    BY <1>0, <1>6, <2>3 DEF Lapses, LapseStatuses, Moved, ToldOnce
  <2> QED BY <2>2, <2>3
<1>7. ASSUME NEW u \in TxIds, Confirms(u) PROVE ToldOnce(t)'
  <2>1. status[u] = "PENDING" BY <1>7, ConfirmsRows
  <2>2. outbox[u] = <<>> BY <1>0, <2>1 DEF ToldOnce, Moved
  <2>3. Append(outbox[u], "transaction.posted") = <<"transaction.posted">>
    BY <2>2, FirstEvent
  <2>4. /\ outbox'[t] = IF t = u THEN <<"transaction.posted">> ELSE outbox[t]
        /\ status'[t] = IF t = u THEN "POSTED" ELSE status[t]
    BY <1>7, <2>3, ConfirmsRows
  <2> QED BY <1>0, <2>4 DEF ToldOnce, Moved
<1> QED BY <1>2, <1>3, <1>4, <1>5, <1>6, <1>7
        DEF Effect, OpensInternal, OpensExternal, ConfirmsInternal, ConfirmsExternal

-----------------------------------------------------------------------------
(* Reversals.                                                               *)

\* Nothing is reversed, nothing that moved is touched, and what newly moved
\* reverses nothing.
LEMMA NoReversal ==
  ASSUME ReversalOnce,
         \A s \in TxIds : status'[s] = "REVERSED" <=> status[s] = "REVERSED",
         \A s \in TxIds : Moved(s) => Moved(s)' /\ header'[s] = header[s],
         \A s \in TxIds : Moved(s)' => Moved(s) \/ header'[s].reverses \notin TxIds
  PROVE  ReversalOnce'
<1>1. \A r, t \in TxIds : Reverses(r, t)' <=> Reverses(r, t)
  BY DEF Reverses
<1>2. \A r, t \in TxIds : Reverses(r, t) => header'[r] = header[r] /\ header'[t] = header[t]
  BY DEF Reverses, Moved, ReversalOnce
<1>3. ASSUME NEW t \in TxIds, status'[t] = "REVERSED" PROVE \E r \in TxIds : Reverses(r, t)'
  BY <1>1, <1>3 DEF ReversalOnce
<1>4. ASSUME NEW r \in TxIds, NEW t \in TxIds, Reverses(r, t)'
      PROVE  /\ status'[t] = "REVERSED"
             /\ header'[r].debit = header'[t].credit
             /\ header'[r].credit = header'[t].debit
             /\ header'[r].amount = header'[t].amount
             /\ header'[r].type = header'[t].type
             /\ \A s \in TxIds : Reverses(s, t)' => s = r
  BY <1>1, <1>2, <1>4 DEF ReversalOnce
<1> QED BY <1>3, <1>4 DEF ReversalOnce, Reverses

LEMMA BooksReversal ==
  ASSUME Base, ReversalOnce, NEW u \in TxIds, NEW row \in Headers, Books(u, row)
  PROVE  ReversalOnce'
<1> DEFINE x == row.reverses
<1>1. /\ status[u] = "NONE" /\ x # u /\ x \in TxIds \cup {None}
      /\ x # None => status[x] = "POSTED"
      /\ \A s \in TxIds :
           /\ status'[s] = IF s = x THEN "REVERSED" ELSE IF s = u THEN "POSTED" ELSE status[s]
           /\ header'[s] = IF s = u THEN row ELSE header[s]
  BY BooksRows
<1>2. CASE x = None
  <2>1. \A s \in TxIds : s # x BY <1>2, CoreAssumptions
  <2> QED BY <1>1, <1>2, <2>1, NoReversal DEF Moved
<1>3. CASE x # None
  <2>1. x \in TxIds /\ status[x] = "POSTED" /\ Mirrors(row, x)
    BY <1>1, <1>3 DEF Books
  <2>2. \A r, t \in TxIds : Reverses(r, t)' <=> Reverses(r, t) \/ (r = u /\ t = x)
    BY <1>1, <2>1 DEF Reverses, Moved
  <2>3. \A r, t \in TxIds : Reverses(r, t) => r # u /\ t # u /\ t # x
    BY <1>1, <2>1 DEF ReversalOnce, Reverses, Moved
  <2>4. ASSUME NEW t \in TxIds, status'[t] = "REVERSED" PROVE \E r \in TxIds : Reverses(r, t)'
    <3>1. CASE t = x BY <2>2, <3>1
    <3>2. CASE t # x
      <4>1. status[t] = "REVERSED" BY <1>1, <2>4, <3>2
      <4> QED BY <2>2, <4>1 DEF ReversalOnce
    <3> QED BY <3>1, <3>2
  <2>5. ASSUME NEW r \in TxIds, NEW t \in TxIds, Reverses(r, t)'
        PROVE  /\ status'[t] = "REVERSED"
               /\ header'[r].debit = header'[t].credit
               /\ header'[r].credit = header'[t].debit
               /\ header'[r].amount = header'[t].amount
               /\ header'[r].type = header'[t].type
               /\ \A s \in TxIds : Reverses(s, t)' => s = r
    <3>1. CASE Reverses(r, t)
      <4>1. /\ status[t] = "REVERSED"
            /\ header[r].debit = header[t].credit /\ header[r].credit = header[t].debit
            /\ header[r].amount = header[t].amount /\ header[r].type = header[t].type
            /\ \A s \in TxIds : Reverses(s, t) => s = r
        BY <3>1 DEF ReversalOnce
      <4> QED BY <1>1, <2>2, <2>3, <3>1, <4>1
    <3>2. CASE r = u /\ t = x
      <4>1. header'[r] = row /\ header'[t] = header[x] /\ status'[t] = "REVERSED"
        BY <1>1, <3>2
      <4>2. \A s \in TxIds : Reverses(s, t)' => s = r BY <2>2, <2>3, <3>2
      <4> QED BY <2>1, <3>2, <4>1, <4>2 DEF Mirrors
    <3> QED BY <2>2, <2>5, <3>1, <3>2
  <2> QED BY <2>4, <2>5 DEF ReversalOnce, Reverses
<1> QED BY <1>2, <1>3

LEMMA ReversalOnceStep ==
  ASSUME Base, ReversalOnce, Effect
  PROVE  ReversalOnce'
<1>1. ASSUME NEW u \in TxIds, NEW row \in Headers, NEW swept \in SUBSET TxIds,
             Opens(u, row, swept)
      PROVE  ReversalOnce'
  BY <1>1, NoReversal DEF Opens, Moved
<1>2. CASE Quiet \/ \E u \in TxIds : Settles(u)
  BY <1>2, NoReversal DEF Quiet, Settles, txVars, Moved
<1>3. ASSUME NEW u \in TxIds, NEW row \in Headers, Records(u, row) PROVE ReversalOnce'
  BY <1>3, NoReversal DEF Records, Moved
<1>4. ASSUME NEW u \in TxIds, NEW to \in LapseStatuses, NEW holdTo, Lapses(u, to, holdTo)
      PROVE  ReversalOnce'
  BY <1>4, NoReversal DEF Lapses, LapseStatuses, Moved
<1>5. ASSUME NEW u \in TxIds, Confirms(u) PROVE ReversalOnce'
  <2>1. header[u].reverses = None /\ status[u] = "PENDING" /\ None \notin TxIds
    BY <1>5, ConfirmsRows, CoreAssumptions DEF RowOK
  <2> QED BY <1>5, <2>1, ConfirmsRows, NoReversal DEF Moved
<1> QED BY <1>1, <1>2, <1>3, <1>4, <1>5, BooksReversal
        DEF Effect, OpensInternal, OpensExternal, ConfirmsInternal, ConfirmsExternal

-----------------------------------------------------------------------------
(* What no step does.                                                       *)

EdgesOnly ==
  \A t \in TxIds : status'[t] # status[t] => <<status[t], status'[t]>> \in StatusEdges

LEMMA EdgesStep ==
  ASSUME Base, Effect
  PROVE  EdgesOnly
<1> SUFFICES ASSUME NEW t \in TxIds, status'[t] # status[t]
             PROVE  <<status[t], status'[t]>> \in StatusEdges
  BY DEF EdgesOnly
<1> USE DEF StatusEdges
<1>1. ASSUME NEW u \in TxIds, NEW row \in Headers, NEW swept \in SUBSET TxIds,
             Opens(u, row, swept)
      PROVE  <<status[t], status'[t]>> \in StatusEdges
  BY <1>1 DEF Opens
<1>2. ~(Quiet \/ \E u \in TxIds : Settles(u))
  BY DEF Quiet, Settles, txVars
<1>3. ASSUME NEW u \in TxIds, NEW row \in Headers, Records(u, row)
      PROVE  <<status[t], status'[t]>> \in StatusEdges
  BY <1>3 DEF Records
<1>4. ASSUME NEW u \in TxIds, NEW to \in LapseStatuses, NEW holdTo, Lapses(u, to, holdTo)
      PROVE  <<status[t], status'[t]>> \in StatusEdges
  BY <1>4 DEF Lapses, LapseStatuses
<1>5. ASSUME NEW u \in TxIds, Confirms(u) PROVE <<status[t], status'[t]>> \in StatusEdges
  BY <1>5, ConfirmsRows
<1>6. ASSUME NEW u \in TxIds, NEW row \in Headers, Books(u, row)
      PROVE  <<status[t], status'[t]>> \in StatusEdges
  <2>1. /\ status[u] = "NONE" /\ row.reverses \in TxIds \cup {None}
        /\ row.reverses # None => status[row.reverses] = "POSTED"
        /\ status'[t] = IF t = row.reverses THEN "REVERSED"
                        ELSE IF t = u THEN "POSTED" ELSE status[t]
    BY <1>6, BooksRows
  <2> QED BY <2>1, CoreAssumptions
<1> QED BY <1>1, <1>2, <1>3, <1>4, <1>5, <1>6
        DEF Effect, OpensInternal, OpensExternal, ConfirmsInternal, ConfirmsExternal

LEMMA AuditStep == [Next]_vars => audit \subseteq audit'
<1> SUFFICES ASSUME [Next]_vars PROVE audit \subseteq audit'
  OBVIOUS
<1>1. CASE TransfersNext
  <2>1. ASSUME NEW p \in Procs, NEW src \in Accounts, NEW amt \in Amounts,
               BeginExternal(p, src, amt) \/ \E dst \in Destinations : BeginInternal(p, src, dst, amt)
        PROVE  audit' = audit
    BY <2>1 DEF BeginInternal, BeginExternal, adminVars
  <2>2. ASSUME NEW p \in Procs,
               SweepExternal(p) \/ RefuseExternal(p) \/ PendingConflict(p) \/ Abort(p)
               \/ ConfirmAuthorize(p) \/ ConfirmRefused(p) \/ ConfirmPost(p) \/ ConfirmSettle(p)
               \/ PersistConfirmFailure(p)
        PROVE  audit' = audit
    BY <2>2 DEF SweepExternal, RefuseExternal, PendingConflict, Abort, ConfirmAuthorize,
                ConfirmRefused, ConfirmPost, ConfirmSettle, PersistConfirmFailure, RecordFailed, adminVars
  <2>3. ASSUME NEW p \in Procs, NEW t \in TxIds,
               CommitInternal(p, t) \/ CommitExternal(p, t) \/ RecordFreshFailed(p, t)
               \/ ConfirmLoad(p, t)
        PROVE  audit' = audit
    BY <2>3 DEF CommitInternal, CommitExternal, RecordFreshFailed, ConfirmLoad, adminVars
  <2>4. ASSUME NEW t \in TxIds, CancelTransfer(t) \/ ExpireOverdue(t) PROVE audit' = audit
    BY <2>4 DEF CancelTransfer, ExpireOverdue, CloseReleasing, Transition, adminVars
  <2>5. ASSUME Tick \/ \E u \in Users : GenerateOtp(u) \/ LoseOtp(u) PROVE audit' = audit
    BY <2>5 DEF Tick, GenerateOtp, LoseOtp, adminVars
  <2> QED BY <1>1, <2>1, <2>2, <2>3, <2>4, <2>5 DEF TransfersNext
<1>2. CASE RailsNext
  BY <1>2 DEF RailsNext, RailSuccess, RailFailure, InboundCredit, adminVars
<1>3. CASE BackOfficeNext
  BY <1>3 DEF BackOfficeNext, ProposeReversal, InsertApproval, RejectReversal,
              ApproveReversal, SetFrozen, Audit, adminVars
<1>4. CASE UNCHANGED vars
  BY <1>4 DEF vars
<1> QED BY <1>1, <1>2, <1>3, <1>4 DEF Next

BooksGrow ==
  /\ ledger \subseteq ledger'
  /\ \A t \in TxIds :
       /\ status[t] # "NONE" => header'[t] = header[t]
       /\ outbox[t] # <<>> => outbox'[t] = outbox[t]

LEMMA BooksGrowStep ==
  ASSUME Base, OneEventPerOutcome, Effect
  PROVE  BooksGrow
<1>0. \A t \in TxIds : status[t] \in {"NONE", "PENDING"} => outbox[t] = <<>>
  BY DEF OneEventPerOutcome, Moved
<1>1. ASSUME NEW u \in TxIds, NEW row \in Headers, NEW swept \in SUBSET TxIds,
             Opens(u, row, swept)
      PROVE  BooksGrow
  BY <1>1 DEF Opens, BooksGrow, bookVars
<1>2. CASE Quiet \/ \E u \in TxIds : Settles(u)
  BY <1>2 DEF Quiet, Settles, txVars, bookVars, BooksGrow
<1>3. ASSUME NEW u \in TxIds, NEW row \in Headers, Records(u, row) PROVE BooksGrow
  <2>1. outbox[u] = <<>> /\ \A t \in TxIds \ {u} : outbox'[t] = outbox[t]
    BY <1>0, <1>3, EmitRows DEF Records, Base
  <2> QED BY <1>3, <2>1 DEF Records, BooksGrow
<1>4. ASSUME NEW u \in TxIds, NEW to \in LapseStatuses, NEW holdTo, Lapses(u, to, holdTo)
      PROVE  BooksGrow
  <2>1. outbox[u] = <<>> /\ \A t \in TxIds \ {u} : outbox'[t] = outbox[t]
    BY <1>0, <1>4, EmitRows DEF Lapses, Base
  <2> QED BY <1>4, <2>1 DEF Lapses, BooksGrow
<1>5. ASSUME NEW u \in TxIds, Confirms(u) PROVE BooksGrow
  <2>1. outbox[u] = <<>> BY <1>0, <1>5, ConfirmsRows
  <2>2. ledger \subseteq ledger' BY <1>5 DEF Confirms, PostPending, MoveMoney
  <2> QED BY <1>5, <2>1, <2>2, ConfirmsRows DEF BooksGrow
<1>6. ASSUME NEW u \in TxIds, NEW row \in Headers, Books(u, row) PROVE BooksGrow
  <2>1. status[u] = "NONE" /\ outbox[u] = <<>> BY <1>0, <1>6, BooksRows
  <2>2. ledger \subseteq ledger' BY <1>6 DEF Books, PostFresh, MoveMoney
  <2>3. \A t \in TxIds \ {u} : header'[t] = header[t] /\ outbox'[t] = outbox[t]
    BY <1>6, BooksRows
  <2> QED BY <2>1, <2>2, <2>3 DEF BooksGrow
<1> QED BY <1>1, <1>2, <1>3, <1>4, <1>5, <1>6
        DEF Effect, OpensInternal, OpensExternal, ConfirmsInternal, ConfirmsExternal

-----------------------------------------------------------------------------
(* Money moves once.                                                        *)

\* What the ledger says was booked, and what is due.
Booked(L) == {<<e.tx, e.account, e.delta>> : e \in L}
Due == UNION {Legs(t) : t \in {s \in TxIds : Moved(s)}}
OnePerLeg == \A d, e \in ledger : d.tx = e.tx /\ d.account = e.account => d = e

LEMMA MoneyParts == MoneyOnce <=> Booked(ledger) = Due /\ OnePerLeg
BY DEF MoneyOnce, Booked, Due, OnePerLeg

LEMMA NoMoney ==
  ASSUME MoneyOnce, UNCHANGED ledger,
         \A s \in TxIds : (Moved(s)' <=> Moved(s)) /\ (Moved(s) => header'[s] = header[s])
  PROVE  MoneyOnce'
<1>1. \A s \in TxIds : Moved(s) => Legs(s)' = Legs(s)
  BY DEF Legs
<1>2. Due' = Due
  BY <1>1 DEF Due
<1> QED BY <1>2, MoneyParts DEF Booked, OnePerLeg, MoneyOnce, Due

\* The two rows of a movement.
LegRows(t, debit, credit, amt) ==
  {[tx |-> t, account |-> debit, delta |-> -amt, after |-> balance[debit] - amt],
   [tx |-> t, account |-> credit, delta |-> amt, after |-> balance[credit] + amt]}

LEMMA MoneyMoves ==
  ASSUME TypeOK, MoneyOnce, NEW t \in TxIds, NEW d \in AllAccounts, NEW c \in AllAccounts,
         NEW m \in Nat, d # c, ~Moved(t), MoveMoney(t, d, c, m),
         header'[t].debit = d, header'[t].credit = c, header'[t].amount = m,
         \A s \in TxIds : (Moved(s)' <=> Moved(s) \/ s = t) /\ (Moved(s) => header'[s] = header[s])
  PROVE  MoneyOnce'
<1>1. \A s \in TxIds : Moved(s) => Legs(s)' = Legs(s)
  BY DEF Legs
<1>2. Due' = Due \cup {<<t, d, -m>>, <<t, c, m>>}
  <2>1. Legs(t)' = {<<t, d, -m>>, <<t, c, m>>}
    BY DEF Legs
  <2> QED BY <1>1, <2>1 DEF Due
<1>3. ledger' = ledger \cup LegRows(t, d, c, m)
  BY DEF MoveMoney, LegRows
<1>4. Booked(ledger)' = Booked(ledger) \cup {<<t, d, -m>>, <<t, c, m>>}
  <2>1. Booked(ledger \cup LegRows(t, d, c, m)) = Booked(ledger) \cup Booked(LegRows(t, d, c, m))
    BY DEF Booked
  <2>2. Booked(LegRows(t, d, c, m)) = {<<t, d, -m>>, <<t, c, m>>}
    <3>1. \A x, y : Booked({x, y}) = {<<x.tx, x.account, x.delta>>, <<y.tx, y.account, y.delta>>}
      BY DEF Booked
    <3> DEFINE x == [tx |-> t, account |-> d, delta |-> -m, after |-> balance[d] - m]
               y == [tx |-> t, account |-> c, delta |-> m, after |-> balance[c] + m]
    <3>2. x.tx = t /\ x.account = d /\ x.delta = -m /\ y.tx = t /\ y.account = c /\ y.delta = m
      OBVIOUS
    <3>3. LegRows(t, d, c, m) = {x, y}
      BY DEF LegRows
    <3> HIDE DEF x, y
    <3>4. Booked({x, y}) = {<<x.tx, x.account, x.delta>>, <<y.tx, y.account, y.delta>>}
      BY <3>1
    <3> QED BY <3>2, <3>3, <3>4
  <2> QED BY <1>3, <2>1, <2>2 DEF Booked
<1>5. \A e \in ledger : e.tx \in TxIds /\ e.tx # t
  <2> SUFFICES ASSUME NEW e \in ledger PROVE e.tx \in TxIds /\ e.tx # t
    OBVIOUS
  <2>1. <<e.tx, e.account, e.delta>> \in Due
    BY MoneyParts DEF Booked
  <2>2. PICK s \in TxIds : Moved(s) /\ <<e.tx, e.account, e.delta>> \in Legs(s)
    BY <2>1 DEF Due
  <2> QED BY <2>2 DEF Legs
<1>6. OnePerLeg'
  <2> SUFFICES ASSUME NEW e \in ledger', NEW f \in ledger', e.tx = f.tx, e.account = f.account
               PROVE  e = f
    BY DEF OnePerLeg
  <2>1. CASE e \in ledger /\ f \in ledger
    BY <2>1, MoneyParts DEF OnePerLeg
  <2>2. \A g \in LegRows(t, d, c, m) : g.tx = t
    BY DEF LegRows
  <2>3. CASE e \in LegRows(t, d, c, m) /\ f \in LegRows(t, d, c, m)
    BY <2>3 DEF LegRows
  <2> QED BY <1>3, <1>5, <2>1, <2>2, <2>3
<1> QED BY <1>2, <1>4, <1>6, MoneyParts DEF MoneyOnce, Booked, Due, OnePerLeg

LEMMA MoneyOnceStep ==
  ASSUME Base, MoneyOnce, Effect
  PROVE  MoneyOnce'
<1>1. ASSUME NEW u \in TxIds, NEW row \in Headers, NEW swept \in SUBSET TxIds,
             Opens(u, row, swept)
      PROVE  MoneyOnce'
  BY <1>1, NoMoney DEF Opens, Moved, bookVars
<1>2. CASE Quiet \/ \E u \in TxIds : Settles(u)
  BY <1>2, NoMoney DEF Quiet, Settles, txVars, bookVars, Moved
<1>3. ASSUME NEW u \in TxIds, NEW row \in Headers, Records(u, row) PROVE MoneyOnce'
  BY <1>3, NoMoney DEF Records, Moved
<1>4. ASSUME NEW u \in TxIds, NEW to \in LapseStatuses, NEW holdTo, Lapses(u, to, holdTo)
      PROVE  MoneyOnce'
  BY <1>4, NoMoney DEF Lapses, LapseStatuses, Moved
<1>5. ASSUME NEW u \in TxIds, Confirms(u) PROVE MoneyOnce'
  <2>1. /\ TypeOK /\ ~Moved(u) /\ header'[u] = header[u]
        /\ header[u].debit \in AllAccounts /\ header[u].credit \in AllAccounts
        /\ header[u].amount \in Nat /\ header[u].debit # header[u].credit
        /\ MoveMoney(u, header[u].debit, header[u].credit, header[u].amount)
    BY <1>5, ConfirmsRows DEF Confirms, PostPending, Base, RowOK, Moved, Headers
  <2>2. \A s \in TxIds : (Moved(s)' <=> Moved(s) \/ s = u) /\ header'[s] = header[s]
    BY <1>5, ConfirmsRows DEF Moved
  <2> QED BY <2>1, <2>2, MoneyMoves
<1>6. ASSUME NEW u \in TxIds, NEW row \in Headers, Books(u, row) PROVE MoneyOnce'
  <2>1. /\ TypeOK /\ row.debit \in AllAccounts /\ row.credit \in AllAccounts
        /\ row.amount \in Nat /\ row.debit # row.credit
        /\ MoveMoney(u, row.debit, row.credit, row.amount)
    BY <1>6 DEF Books, PostFresh, Movement, Base, Headers
  <2>2. ~Moved(u) /\ header'[u] = row
    BY <1>6, BooksRows DEF Moved
  <2>3. \A s \in TxIds : (Moved(s)' <=> Moved(s) \/ s = u) /\ (Moved(s) => header'[s] = header[s])
    BY <1>6, BooksRows, CoreAssumptions DEF Moved
  <2> QED BY <2>1, <2>2, <2>3, MoneyMoves
<1> QED BY <1>1, <1>2, <1>3, <1>4, <1>5, <1>6
        DEF Effect, OpensInternal, OpensExternal, ConfirmsInternal, ConfirmsExternal

-----------------------------------------------------------------------------
(* The balance after.                                                       *)

LEMMA AfterMoves ==
  ASSUME TypeOK, AfterIsCurrent, NEW t \in TxIds, NEW d \in AllAccounts, NEW c \in AllAccounts,
         NEW m \in Nat, d # c, MoveMoney(t, d, c, m)
  PROVE  AfterIsCurrent'
<1>1. balance \in [AllAccounts -> Int] BY DEF TypeOK
<1>2. /\ balance' = [balance EXCEPT ![d] = @ - m, ![c] = @ + m]
      /\ ledger' = ledger \cup LegRows(t, d, c, m)
  BY DEF MoveMoney, LegRows
<1>3. /\ balance'[d] = balance[d] - m /\ balance'[c] = balance[c] + m
      /\ \A a \in AllAccounts : a # d /\ a # c => balance'[a] = balance[a]
  BY <1>1, <1>2
<1>4. SUFFICES ASSUME NEW a \in AllAccounts, \E e \in ledger' : e.account = a
               PROVE  \E e \in ledger' : e.account = a /\ e.after = balance'[a]
  BY DEF AfterIsCurrent
<1>5. CASE a = d
  <2> DEFINE e == [tx |-> t, account |-> d, delta |-> -m, after |-> balance[d] - m]
  <2>1. e \in ledger' /\ e.account = d /\ e.after = balance'[d]
    BY <1>2, <1>3 DEF LegRows
  <2> QED BY <1>5, <2>1
<1>6. CASE a = c
  <2> DEFINE e == [tx |-> t, account |-> c, delta |-> m, after |-> balance[c] + m]
  <2>1. e \in ledger' /\ e.account = c /\ e.after = balance'[c]
    BY <1>2, <1>3 DEF LegRows
  <2> QED BY <1>6, <2>1
<1>7. CASE a # d /\ a # c
  <2>1. \A e \in LegRows(t, d, c, m) : e.account # a
    BY <1>7 DEF LegRows
  <2>2. PICK e \in ledger : e.account = a
    BY <1>2, <1>4, <2>1
  <2>3. PICK f \in ledger : f.account = a /\ f.after = balance[a]
    BY <2>2 DEF AfterIsCurrent
  <2> QED BY <1>2, <1>3, <1>7, <2>3
<1> QED BY <1>5, <1>6, <1>7

LEMMA AfterStep ==
  ASSUME Base, AfterIsCurrent, Effect
  PROVE  AfterIsCurrent'
<1>1. ASSUME UNCHANGED <<balance, ledger>> PROVE AfterIsCurrent'
  BY <1>1 DEF AfterIsCurrent
<1>2. ASSUME NEW u \in TxIds, Confirms(u) PROVE AfterIsCurrent'
  <2>1. /\ TypeOK /\ header[u].debit \in AllAccounts /\ header[u].credit \in AllAccounts
        /\ header[u].amount \in Nat /\ header[u].debit # header[u].credit
        /\ MoveMoney(u, header[u].debit, header[u].credit, header[u].amount)
    BY <1>2, ConfirmsRows DEF Confirms, PostPending, Base, RowOK, Moved, Headers
  <2> QED BY <2>1, AfterMoves
<1>3. ASSUME NEW u \in TxIds, NEW row \in Headers, Books(u, row) PROVE AfterIsCurrent'
  <2>1. /\ TypeOK /\ row.debit \in AllAccounts /\ row.credit \in AllAccounts
        /\ row.amount \in Nat /\ row.debit # row.credit
        /\ MoveMoney(u, row.debit, row.credit, row.amount)
    BY <1>3 DEF Books, PostFresh, Movement, Base, Headers
  <2> QED BY <2>1, AfterMoves
<1>4. ASSUME NEW u \in TxIds, NEW row \in Headers, NEW swept \in SUBSET TxIds,
             Opens(u, row, swept)
      PROVE  UNCHANGED <<balance, ledger>>
  BY <1>4 DEF Opens, bookVars
<1>5. CASE Quiet \/ \E u \in TxIds : Settles(u)
  BY <1>1, <1>5 DEF Quiet, Settles, bookVars
<1>6. ASSUME NEW u \in TxIds, NEW row \in Headers, Records(u, row) PROVE AfterIsCurrent'
  BY <1>1, <1>6 DEF Records
<1>7. ASSUME NEW u \in TxIds, NEW to \in LapseStatuses, NEW holdTo, Lapses(u, to, holdTo)
      PROVE  AfterIsCurrent'
  BY <1>1, <1>7 DEF Lapses
<1> QED BY <1>1, <1>2, <1>3, <1>4, <1>5, <1>6, <1>7
        DEF Effect, OpensInternal, OpensExternal, ConfirmsInternal, ConfirmsExternal

-----------------------------------------------------------------------------
(* The invariant, and what follows.                                         *)

SafetyInv == Base /\ SweptOK /\ SinglePending /\ OneEventPerOutcome /\ ReversalOnce

LEMMA InitSafety == Init => SafetyInv
<1> SUFFICES ASSUME Init PROVE SafetyInv
  OBVIOUS
<1>1. Base BY InitBase
<1>2. SweptOK BY DEF Init, SweptOK, Idle
<1>3. SinglePending /\ ReversalOnce
  BY DEF Init, SinglePending, ReversalOnce, Reverses, Moved
<1>4. OneEventPerOutcome
  BY DEF Init, OneEventPerOutcome, Moved
<1> QED BY <1>1, <1>2, <1>3, <1>4 DEF SafetyInv

LEMMA NextSafety == SafetyInv /\ [Next]_vars => SafetyInv'
BY NextBase, SweptStep, Effects, SinglePendingStep, OneEventStep, ReversalOnceStep
   DEF SafetyInv

\* Rows, requests and outcomes agree in every state of the service.
THEOREM AlwaysSafety == Spec => []SafetyInv
<1> QED BY InitSafety, NextSafety, PTL DEF Spec

\* A customer never has two transfers awaiting confirmation, for any number of
\* concurrent initiates.
THEOREM AlwaysSinglePending == Spec => []SinglePending
<1>1. SafetyInv => SinglePending BY DEF SafetyInv
<1> QED BY <1>1, AlwaysSafety, PTL

\* Every movement and every failure is announced exactly once.
THEOREM AlwaysOneEvent == Spec => []OneEventPerOutcome
<1>1. SafetyInv => OneEventPerOutcome BY DEF SafetyInv
<1> QED BY <1>1, AlwaysSafety, PTL

\* Rail failures and approvals together never give the same money back twice, and
\* what they give back is what was taken.
THEOREM AlwaysReversedOnce == Spec => []ReversalOnce
<1>1. SafetyInv => ReversalOnce BY DEF SafetyInv
<1> QED BY <1>1, AlwaysSafety, PTL

\* A transaction leaves PENDING once, and a terminal one stays as it is.
THEOREM AlwaysLifecycle == Spec => LifecycleOnly
<1>1. SafetyInv /\ [Next]_vars =>
        [\A t \in TxIds : status'[t] # status[t] => <<status[t], status'[t]>> \in StatusEdges]_vars
  BY Effects, EdgesStep DEF SafetyInv, EdgesOnly
<1> QED BY <1>1, AlwaysSafety, PTL DEF Spec, LifecycleOnly

\* Ledger, audit log, headers and announced events are never rewritten.
THEOREM AlwaysAppendOnly == Spec => AppendOnly
<1>1. SafetyInv /\ [Next]_vars =>
        [/\ ledger \subseteq ledger'
         /\ audit \subseteq audit'
         /\ \A t \in TxIds :
              /\ status[t] # "NONE" => header'[t] = header[t]
              /\ outbox[t] # <<>> => outbox'[t] = outbox[t]]_vars
  BY Effects, BooksGrowStep, AuditStep DEF SafetyInv, BooksGrow
<1> QED BY <1>1, AlwaysSafety, PTL DEF Spec, AppendOnly


-----------------------------------------------------------------------------
(* Four eyes.                                                               *)

\* A reversal an admin caused.
Imposed(r, t) == Reverses(r, t) /\ header[r].by \in Admins

Executed(i) == approval[i] # None /\ approval[i].status = "EXECUTED"

\* The approval behind one.
Behind(i, r, t) ==
  /\ Executed(i) /\ approval[i].target = t
  /\ approval[i].checker = header[r].by
  /\ approval[i].maker # approval[i].checker
  /\ <<"reversal.proposed", t>> \in audit /\ <<"reversal.executed", t>> \in audit

\* Every approval was proposed on record, and an executed one has reversed its target.
ApprovalsKept ==
  \A i \in ApprovalIds :
    /\ approval[i] # None => <<"reversal.proposed", approval[i].target>> \in audit
    /\ Executed(i) => status[approval[i].target] = "REVERSED"

FourEyesInv == FourEyes /\ ApprovalsKept

LEMMA FourEyesParts ==
  FourEyes <=> /\ \A r, t \in TxIds : Imposed(r, t) => \E i \in ApprovalIds : Behind(i, r, t)
               /\ \A i, j \in ApprovalIds :
                    Executed(i) /\ Executed(j) /\ approval[i].target = approval[j].target => i = j
BY DEF FourEyes, Imposed, Behind, Executed

\* Only the approvals' own steps write approvals.
LEMMA ApprovalSteps ==
  [Next]_vars =>
    \/ UNCHANGED approval
    \/ \E p \in Procs, i \in ApprovalIds : InsertApproval(p, i)
    \/ \E i \in ApprovalIds, admin \in Admins :
         RejectReversal(i, admin) \/ \E r \in TxIds : ApproveReversal(i, admin, r)
<1> SUFFICES ASSUME [Next]_vars, approval' # approval
             PROVE  \/ \E p \in Procs, i \in ApprovalIds : InsertApproval(p, i)
                    \/ \E i \in ApprovalIds, admin \in Admins :
                         RejectReversal(i, admin) \/ \E r \in TxIds : ApproveReversal(i, admin, r)
  OBVIOUS
<1>1. ~TransfersNext
  <2> USE DEF adminVars
  <2>1. ASSUME NEW p \in Procs, NEW src \in Accounts, NEW amt \in Amounts,
               BeginExternal(p, src, amt) \/ \E dst \in Destinations : BeginInternal(p, src, dst, amt)
        PROVE  FALSE
    BY <2>1 DEF BeginInternal, BeginExternal
  <2>2. ASSUME NEW p \in Procs,
               SweepExternal(p) \/ RefuseExternal(p) \/ PendingConflict(p) \/ Abort(p)
               \/ ConfirmAuthorize(p) \/ ConfirmRefused(p) \/ ConfirmPost(p) \/ ConfirmSettle(p)
               \/ PersistConfirmFailure(p)
        PROVE  FALSE
    BY <2>2 DEF SweepExternal, RefuseExternal, PendingConflict, Abort, ConfirmAuthorize,
                ConfirmRefused, ConfirmPost, ConfirmSettle, PersistConfirmFailure, RecordFailed
  <2>3. ASSUME NEW p \in Procs, NEW t \in TxIds,
               CommitInternal(p, t) \/ CommitExternal(p, t) \/ RecordFreshFailed(p, t)
               \/ ConfirmLoad(p, t)
        PROVE  FALSE
    BY <2>3 DEF CommitInternal, CommitExternal, RecordFreshFailed, ConfirmLoad
  <2>4. ASSUME NEW t \in TxIds, CancelTransfer(t) \/ ExpireOverdue(t) PROVE FALSE
    BY <2>4 DEF CancelTransfer, ExpireOverdue, CloseReleasing, Transition
  <2>5. ASSUME Tick \/ \E u \in Users : GenerateOtp(u) \/ LoseOtp(u) PROVE FALSE
    BY <2>5 DEF Tick, GenerateOtp, LoseOtp
  <2> QED BY <2>1, <2>2, <2>3, <2>4, <2>5 DEF TransfersNext
<1>2. ~RailsNext
  BY DEF RailsNext, RailSuccess, RailFailure, InboundCredit, adminVars
<1>3. BackOfficeNext
  BY <1>1, <1>2 DEF Next, vars
<1>4. ASSUME NEW p \in Procs, NEW admin \in Admins, NEW t \in TxIds, ProposeReversal(p, admin, t)
      PROVE  FALSE
  BY <1>4 DEF ProposeReversal, adminVars
<1>5. ASSUME NEW a \in Accounts, NEW freeze \in BOOLEAN, SetFrozen(a, freeze) PROVE FALSE
  BY <1>5 DEF SetFrozen
<1> QED BY <1>3, <1>4, <1>5 DEF BackOfficeNext

\* What moved stays moved, what was reversed stays so, and a reversal that is new is
\* no admin's unless approvals change.
Kept ==
  /\ \A s \in TxIds : status[s] = "REVERSED" => status'[s] = "REVERSED"
  /\ \A r, t \in TxIds : Imposed(r, t)' => Imposed(r, t) /\ header'[r] = header[r]

LEMMA EffectKeeps ==
  ASSUME Base, Effect, UNCHANGED approval
  PROVE  Kept
<1>0. None \notin TxIds
  BY CoreAssumptions
<1> USE DEF Kept, Imposed, Reverses
<1>1. ASSUME NEW u \in TxIds, NEW row \in Headers, NEW swept \in SUBSET TxIds,
             Opens(u, row, swept)
      PROVE  Kept
  BY <1>1 DEF Opens, Moved
<1>2. CASE Quiet \/ \E u \in TxIds : Settles(u)
  BY <1>2 DEF Quiet, Settles, txVars, Moved
<1>3. ASSUME NEW u \in TxIds, NEW row \in Headers, Records(u, row) PROVE Kept
  BY <1>3 DEF Records, Moved
<1>4. ASSUME NEW u \in TxIds, NEW to \in LapseStatuses, NEW holdTo, Lapses(u, to, holdTo)
      PROVE  Kept
  BY <1>4 DEF Lapses, LapseStatuses, Moved
<1>5. ASSUME NEW u \in TxIds, Confirms(u) PROVE Kept
  <2>1. header[u].by \in Users /\ status[u] = "PENDING"
        /\ \A s \in TxIds : header'[s] = header[s]
                            /\ status'[s] = IF s = u THEN "POSTED" ELSE status[s]
    BY <1>5, ConfirmsRows
  <2> QED BY <2>1, CoreAssumptions DEF Moved
<1>6. ASSUME NEW u \in TxIds, NEW row \in Headers, Books(u, row) PROVE Kept
  <2>1. row.by = RailActor
    BY <1>6 DEF Books
  <2>2. /\ status[u] = "NONE"
        /\ row.reverses # None => status[row.reverses] = "POSTED"
        /\ \A s \in TxIds :
             /\ status'[s] = IF s = row.reverses THEN "REVERSED"
                             ELSE IF s = u THEN "POSTED" ELSE status[s]
             /\ header'[s] = IF s = u THEN row ELSE header[s]
    BY <1>6, BooksRows
  <2>3. \A s \in TxIds : s # u => (Moved(s)' <=> Moved(s))
    BY <1>0, <2>2 DEF Moved
  <2>4. \A s \in TxIds : status[s] = "REVERSED" => status'[s] = "REVERSED"
    BY <1>0, <2>2
  <2> QED BY <2>1, <2>2, <2>3, <2>4, CoreAssumptions
<1> QED BY <1>1, <1>2, <1>3, <1>4, <1>5, <1>6
        DEF Effect, OpensInternal, OpensExternal, ConfirmsInternal, ConfirmsExternal

\* Executed approvals stay as they are, no other becomes executed.
ExecutedSame ==
  \A i \in ApprovalIds :
    /\ Executed(i)' <=> Executed(i)
    /\ Executed(i) => approval'[i] = approval[i]

LEMMA NothingExecuted ==
  ASSUME FourEyesInv, Kept, ExecutedSame, audit \subseteq audit',
         \A i \in ApprovalIds : Executed(i) => approval[i].target \in TxIds,
         \A i \in ApprovalIds :
           approval'[i] # None => <<"reversal.proposed", approval'[i].target>> \in audit'
  PROVE  FourEyesInv'
<1>1. \A r, t \in TxIds : Imposed(r, t)' => \E i \in ApprovalIds : Behind(i, r, t)'
  <2> SUFFICES ASSUME NEW r \in TxIds, NEW t \in TxIds, Imposed(r, t)'
               PROVE  \E i \in ApprovalIds : Behind(i, r, t)'
    OBVIOUS
  <2>1. Imposed(r, t) /\ header'[r] = header[r]
    BY DEF Kept
  <2>2. PICK i \in ApprovalIds : Behind(i, r, t)
    BY <2>1, FourEyesParts DEF FourEyesInv
  <2>3. Executed(i)' /\ approval'[i] = approval[i]
    BY <2>2 DEF ExecutedSame, Behind
  <2> QED BY <2>1, <2>2, <2>3 DEF Behind
<1>2. \A i, j \in ApprovalIds :
        Executed(i)' /\ Executed(j)' /\ approval'[i].target = approval'[j].target => i = j
  BY FourEyesParts DEF FourEyesInv, ExecutedSame
<1>3. FourEyes'
  BY <1>1, <1>2 DEF FourEyes, Imposed, Behind, Executed
<1>4. ApprovalsKept'
  BY DEF FourEyesInv, ApprovalsKept, ExecutedSame, Kept, Executed
<1> QED BY <1>3, <1>4 DEF FourEyesInv

LEMMA ApprovedEyes ==
  ASSUME Base, ReversalOnce, FourEyesInv, NEW i \in ApprovalIds, NEW admin \in Admins,
         NEW u \in TxIds, ApproveReversal(i, admin, u)
  PROVE  FourEyesInv'
<1> DEFINE row == MirrorRow(approval[i].target, admin)
<1>1. /\ approval[i] # None /\ row \in Headers /\ Books(u, row)
      /\ row.by = admin /\ row.reverses = approval[i].target
  BY ApprovedBooks DEF MirrorRow, Row
<1>2. PICK x \in TxIds : x = approval[i].target /\ status[x] = "POSTED"
  BY ApprovedBooks DEF ApproveReversal
<1> HIDE DEF row
<1>3. /\ status[u] = "NONE"
      /\ \A s \in TxIds :
           /\ status'[s] = IF s = x THEN "REVERSED" ELSE IF s = u THEN "POSTED" ELSE status[s]
           /\ header'[s] = IF s = u THEN row ELSE header[s]
  BY <1>1, <1>2, BooksRows
<1>4. /\ approval[i] \in ApprovalRequests /\ approval[i].status = "PENDING"
      /\ approval[i].maker # admin
      /\ approval' = [approval EXCEPT ![i] = [approval[i] EXCEPT !.status = "EXECUTED",
                                                                !.checker = admin]]
  BY <1>1 DEF ApproveReversal, Decidable, Decide, Base, TypeOK
<1>5. \A j \in ApprovalIds \ {i} : approval'[j] = approval[j]
  BY <1>4
<1>6. /\ approval'[i].status = "EXECUTED" /\ approval'[i].target = x
      /\ approval'[i].maker # admin /\ approval'[i].checker = admin
      /\ approval'[i] \in ApprovalRequests
  <2> DEFINE decided == [approval[i] EXCEPT !.status = "EXECUTED", !.checker = admin]
  <2>1. /\ decided.status = "EXECUTED" /\ decided.target = x
        /\ decided.maker # admin /\ decided.checker = admin
        /\ decided \in ApprovalRequests
    BY <1>2, <1>4 DEF ApprovalRequests, ApprovalStatuses
  <2>2. approval'[i] = decided
    BY <1>4 DEF Base, TypeOK
  <2> QED BY <2>1, <2>2
<1>7. approval'[i] # None
  BY <1>6, CoreAssumptions
<1>8. audit' = audit \cup {<<"reversal.executed", x>>} /\ <<"reversal.proposed", x>> \in audit
  BY <1>1, <1>2 DEF ApproveReversal, Audit, FourEyesInv, ApprovalsKept
<1>9. \A j \in ApprovalIds : Executed(j) => j # i /\ approval[j].target # x
  BY <1>2, <1>4 DEF Executed, FourEyesInv, ApprovalsKept
<1>10. \A r, t \in TxIds : Imposed(r, t)' =>
         (Imposed(r, t) /\ header'[r] = header[r]) \/ (r = u /\ t = x)
  <2> SUFFICES ASSUME NEW r \in TxIds, NEW t \in TxIds, Imposed(r, t)', ~(r = u /\ t = x)
               PROVE  Imposed(r, t) /\ header'[r] = header[r]
    OBVIOUS
  <2>1. r # u
    BY <1>1, <1>2, <1>3 DEF Imposed, Reverses
  <2>2. header'[r] = header[r] /\ (Moved(r)' => Moved(r))
    BY <1>2, <1>3, <2>1 DEF Moved
  <2> QED BY <2>2 DEF Imposed, Reverses
<1>11. \A r, t \in TxIds : Imposed(r, t)' => \E j \in ApprovalIds : Behind(j, r, t)'
  <2> SUFFICES ASSUME NEW r \in TxIds, NEW t \in TxIds, Imposed(r, t)'
               PROVE  \E j \in ApprovalIds : Behind(j, r, t)'
    OBVIOUS
  <2>1. CASE r = u /\ t = x
    <3>1. header'[r].by = admin
      BY <1>1, <1>3, <2>1
    <3>2. Behind(i, r, t)'
      BY <1>6, <1>7, <1>8, <2>1, <3>1 DEF Behind, Executed
    <3> QED BY <3>2
  <2>2. CASE ~(r = u /\ t = x)
    <3>1. Imposed(r, t) /\ header'[r] = header[r]
      BY <1>10, <2>2
    <3>2. PICK j \in ApprovalIds : Behind(j, r, t)
      BY <3>1, FourEyesParts DEF FourEyesInv
    <3>3. approval'[j] = approval[j]
      BY <1>5, <1>9, <3>2 DEF Behind
    <3>4. Behind(j, r, t)'
      BY <1>8, <3>1, <3>2, <3>3 DEF Behind, Executed
    <3> QED BY <3>4
  <2> QED BY <2>1, <2>2
<1>12. \A j \in ApprovalIds \ {i} : Executed(j)' <=> Executed(j)
  BY <1>5 DEF Executed
<1>13. \A j, k \in ApprovalIds :
         Executed(j)' /\ Executed(k)' /\ approval'[j].target = approval'[k].target => j = k
  <2>1. \A j, k \in ApprovalIds :
          Executed(j) /\ Executed(k) /\ approval[j].target = approval[k].target => j = k
    BY FourEyesParts DEF FourEyesInv
  <2> QED BY <1>5, <1>6, <1>9, <1>12, <2>1
<1>14. FourEyes'
  BY <1>11, <1>13 DEF FourEyes, Imposed, Behind, Executed
<1>15. ApprovalsKept'
  <2> SUFFICES ASSUME NEW j \in ApprovalIds
               PROVE  /\ approval'[j] # None => <<"reversal.proposed", approval'[j].target>> \in audit'
                      /\ Executed(j)' => status'[approval'[j].target] = "REVERSED"
    BY DEF ApprovalsKept
  <2>1. CASE j = i
    BY <1>3, <1>6, <1>8, <2>1
  <2>2. CASE j # i
    <3>1. approval'[j] = approval[j] /\ (Executed(j)' <=> Executed(j))
      BY <1>5, <1>12, <2>2
    <3>2. approval[j] # None => <<"reversal.proposed", approval[j].target>> \in audit'
      BY <1>8 DEF FourEyesInv, ApprovalsKept
    <3>3. ASSUME Executed(j) PROVE status'[approval[j].target] = "REVERSED"
      <4>1. approval[j].target \in TxIds /\ status[approval[j].target] = "REVERSED"
        BY <3>3 DEF Executed, FourEyesInv, ApprovalsKept, Base, TypeOK, ApprovalRequests
      <4> QED BY <1>3, <4>1
    <3> QED BY <3>1, <3>2, <3>3
  <2> QED BY <2>1, <2>2
<1> QED BY <1>14, <1>15 DEF FourEyesInv

LEMMA FourEyesStep ==
  ASSUME SafetyInv, FourEyesInv, [Next]_vars
  PROVE  FourEyesInv'
<1>0. /\ Base /\ ReversalOnce /\ Effect /\ audit \subseteq audit'
      /\ \A i \in ApprovalIds : approval[i] # None => approval[i] \in ApprovalRequests
  BY Effects, AuditStep DEF SafetyInv, Base, TypeOK
<1>1. \A i \in ApprovalIds : Executed(i) => approval[i].target \in TxIds
  BY <1>0 DEF Executed, ApprovalRequests
<1>2. CASE UNCHANGED approval
  <2>1. Kept
    BY <1>0, <1>2, EffectKeeps
  <2>2. ExecutedSame
    BY <1>2 DEF ExecutedSame, Executed
  <2>3. \A i \in ApprovalIds :
          approval'[i] # None => <<"reversal.proposed", approval'[i].target>> \in audit'
    BY <1>0, <1>2 DEF FourEyesInv, ApprovalsKept
  <2> QED BY <1>0, <1>1, <2>1, <2>2, <2>3, NothingExecuted
<1>3. ASSUME NEW p \in Procs, NEW i \in ApprovalIds, InsertApproval(p, i) PROVE FourEyesInv'
  <2>1. Kept
    BY <1>3 DEF InsertApproval, txVars, Kept, Imposed, Reverses, Moved
  <2>2. \A j \in ApprovalIds \ {i} : approval'[j] = approval[j]
    BY <1>0, <1>3 DEF InsertApproval, Base, TypeOK
  <2>3. approval'[i].status = "PENDING" /\ approval'[i].target = req[p].tx /\ approval[i] = None
    BY <1>0, <1>3 DEF InsertApproval, Base, TypeOK
  <2>4. ExecutedSame
    BY <2>2, <2>3 DEF ExecutedSame, Executed
  <2>5. <<"reversal.proposed", req[p].tx>> \in audit'
    BY <1>3 DEF InsertApproval, Audit
  <2>6. \A j \in ApprovalIds :
          approval'[j] # None => <<"reversal.proposed", approval'[j].target>> \in audit'
    BY <1>0, <2>2, <2>3, <2>5 DEF FourEyesInv, ApprovalsKept
  <2> QED BY <1>0, <1>1, <2>1, <2>4, <2>6, NothingExecuted
<1>4. ASSUME NEW i \in ApprovalIds, NEW admin \in Admins, RejectReversal(i, admin)
      PROVE  FourEyesInv'
  <2>1. Kept
    BY <1>4 DEF RejectReversal, txVars, Kept, Imposed, Reverses, Moved
  <2>2. \A j \in ApprovalIds \ {i} : approval'[j] = approval[j]
    BY <1>0, <1>4 DEF RejectReversal, Decide, Base, TypeOK
  <2>3. /\ approval[i] # None /\ approval[i].status = "PENDING"
        /\ approval'[i].status = "REJECTED" /\ approval'[i].target = approval[i].target
    <3>1. approval[i] # None /\ approval[i].status = "PENDING"
      BY <1>4 DEF RejectReversal, Decidable
    <3>2. approval'[i] = [approval[i] EXCEPT !.status = "REJECTED", !.checker = admin]
      BY <1>0, <1>4 DEF RejectReversal, Decide, Base, TypeOK
    <3> QED BY <1>0, <3>1, <3>2 DEF ApprovalRequests
  <2>4. ExecutedSame
    BY <2>2, <2>3 DEF ExecutedSame, Executed
  <2>5. \A j \in ApprovalIds :
          approval'[j] # None => <<"reversal.proposed", approval'[j].target>> \in audit'
    BY <1>0, <2>2, <2>3 DEF FourEyesInv, ApprovalsKept
  <2> QED BY <1>0, <1>1, <2>1, <2>4, <2>5, NothingExecuted
<1> QED BY <1>0, <1>2, <1>3, <1>4, ApprovalSteps, ApprovedEyes

LEMMA InitFourEyes == Init => FourEyesInv
BY DEF Init, FourEyesInv, FourEyes, ApprovalsKept, Executed, Reverses, Moved

LEMMA InitMoney == Init => MoneyOnce
<1> SUFFICES ASSUME Init PROVE MoneyOnce
  OBVIOUS
<1>1. \A s \in TxIds : ~Moved(s)
  BY DEF Init, Moved
<1>2. ledger = {} /\ Due = {}
  BY <1>1 DEF Init, Due
<1> QED BY <1>2, MoneyParts DEF Booked, OnePerLeg

\* Money moves once per transaction: its two legs are in the ledger, once, and
\* nothing of a transaction that has not moved.
THEOREM AlwaysMoneyOnce == Spec => []MoneyOnce
<1>1. Init => SafetyInv /\ MoneyOnce
  BY InitSafety, InitMoney
<1>2. SafetyInv /\ MoneyOnce /\ [Next]_vars => (SafetyInv /\ MoneyOnce)'
  BY NextSafety, Effects, MoneyOnceStep DEF SafetyInv
<1> QED BY <1>1, <1>2, PTL DEF Spec

\* Of the ledger rows of an account one always shows the balance it has.
THEOREM AlwaysAfterIsCurrent == Spec => []AfterIsCurrent
<1>1. Init => SafetyInv /\ AfterIsCurrent
  BY InitSafety DEF Init, AfterIsCurrent
<1>2. SafetyInv /\ AfterIsCurrent /\ [Next]_vars => (SafetyInv /\ AfterIsCurrent)'
  BY NextSafety, Effects, AfterStep DEF SafetyInv
<1> QED BY <1>1, <1>2, PTL DEF Spec

\* Every reversal an admin caused had two admins behind it and both records, and no
\* transaction was reversed by two approvals.
THEOREM AlwaysFourEyes == Spec => []FourEyes
<1>1. Init => SafetyInv /\ FourEyesInv
  BY InitSafety, InitFourEyes
<1>2. SafetyInv /\ FourEyesInv /\ [Next]_vars => (SafetyInv /\ FourEyesInv)'
  BY NextSafety, FourEyesStep
<1>3. FourEyesInv => FourEyes
  BY DEF FourEyesInv
<1> QED BY <1>1, <1>2, <1>3, PTL DEF Spec

-----------------------------------------------------------------------------
(***************************************************************************)
(* Holds and funds.                                                        *)
(***************************************************************************)
\* A customer's outbound transfer pays the clearing account.
OutboundOK ==
  \A t \in TxIds :
    status[t] # "NONE" /\ IsExternal(t) /\ header[t].by \in Users
    => header[t].credit = OutClearing

\* What HoldFollowsTransfer says of one transaction.
HoldOK(t) ==
  /\ status[t] = "PENDING" /\ IsExternal(t) => hold[t] = "PLACED"
  /\ hold[t] # "NONE" =>
       /\ status[t] # "NONE" /\ IsExternal(t) /\ header[t].by \in Users
       /\ hold[t] = "SETTLED" <=> Moved(t)
       /\ status[t] = "FAILED" => hold[t] = "RELEASED"
  /\ Moved(t) /\ IsExternal(t) /\ header[t].by \in Users => hold[t] = "SETTLED"

HoldInv ==
  SafetyInv /\ OutboundOK /\ HoldFollowsTransfer /\ SettledXorReversed /\ FundsCoverHolds

-----------------------------------------------------------------------------
LEMMA OutboundStep ==
  ASSUME Base, OutboundOK, Effect
  PROVE  OutboundOK'
<1> SUFFICES ASSUME NEW t \in TxIds, status'[t] # "NONE",
                    header'[t].type = "external_outbound", header'[t].by \in Users
             PROVE  header'[t].credit = OutClearing
  BY DEF OutboundOK, IsExternal
<1>1. ASSUME status[t] # "NONE" /\ header'[t] = header[t]
      PROVE  header'[t].credit = OutClearing
  BY <1>1 DEF OutboundOK, IsExternal
<1>2. ASSUME NEW u \in TxIds, NEW row \in Headers, NEW swept \in SUBSET TxIds,
             \/ OpensInternal(u, row, swept)
             \/ \E r \in Requests : OpensExternal(u, row, swept, r)
      PROVE  header'[t].credit = OutClearing
  <2>1. CASE t = u
    BY <1>2, <2>1 DEF OpensInternal, OpensExternal, Opens
  <2>2. CASE t # u
    BY <1>1, <1>2, <2>2 DEF OpensInternal, OpensExternal, Opens
  <2> QED BY <2>1, <2>2
<1>3. ASSUME NEW u \in TxIds, NEW row \in Headers, Records(u, row)
      PROVE  header'[t].credit = OutClearing
  BY <1>1, <1>3 DEF Records
<1>4. ASSUME NEW u \in TxIds, NEW row \in Headers, Books(u, row)
      PROVE  header'[t].credit = OutClearing
  <2>1. row.by \notin Users BY <1>4, CoreAssumptions DEF Books
  <2>2. /\ header'[t] = IF t = u THEN row ELSE header[t]
        /\ row.reverses # None => status[row.reverses] = "POSTED"
        /\ status'[t] = IF t = row.reverses THEN "REVERSED"
                        ELSE IF t = u THEN "POSTED" ELSE status[t]
    BY <1>4, BooksRows
  <2> QED BY <1>1, <2>1, <2>2, CoreAssumptions
<1>5. ASSUME NEW u \in TxIds, NEW to, NEW holdTo, Lapses(u, to, holdTo)
      PROVE  header'[t].credit = OutClearing
  BY <1>1, <1>5 DEF Lapses
<1>6. ASSUME NEW u \in TxIds, Confirms(u) PROVE header'[t].credit = OutClearing
  BY <1>1, <1>6, ConfirmsRows
<1>7. CASE Quiet \/ \E u \in TxIds : Settles(u)
  BY <1>1, <1>7 DEF Quiet, Settles, txVars
<1> QED BY <1>2, <1>3, <1>4, <1>5, <1>6, <1>7 DEF Effect, ConfirmsInternal, ConfirmsExternal

-----------------------------------------------------------------------------
(* A hold stands where its transfer stands.                                 *)

LEMMA EachHold == HoldFollowsTransfer <=> \A t \in TxIds : HoldOK(t)
BY DEF HoldFollowsTransfer, HoldOK

LEMMA ReleaseRowsOf ==
  ASSUME TypeOK, NEW t \in TxIds, NEW to, ReleaseHold(t, to)
  PROVE  \A s \in TxIds : hold'[s] = IF s = t /\ hold[t] = "PLACED" THEN to ELSE hold[s]
BY DEF ReleaseHold, TypeOK

LEMMA HoldStep ==
  ASSUME Base, HoldFollowsTransfer, Effect
  PROVE  HoldFollowsTransfer'
<1>0. \A t \in TxIds : HoldOK(t) BY EachHold
<1> SUFFICES ASSUME NEW t \in TxIds PROVE HoldOK(t)'
  BY DEF HoldFollowsTransfer, HoldOK
<1>1. ASSUME status'[t] = status[t], header'[t] = header[t], hold'[t] = hold[t]
      PROVE  HoldOK(t)'
  BY <1>0, <1>1 DEF HoldOK, Moved, IsExternal
<1>2. ASSUME NEW u \in TxIds, NEW row \in Headers, NEW swept \in SUBSET TxIds,
             OpensInternal(u, row, swept)
      PROVE  HoldOK(t)'
  <2>1. CASE t = u
    BY <1>0, <1>2, <2>1 DEF OpensInternal, Opens, HoldOK, Moved, IsExternal
  <2>2. CASE t # u
    BY <1>0, <1>2, <2>2 DEF OpensInternal, Opens, HoldOK, Moved, IsExternal
  <2> QED BY <2>1, <2>2
<1>3. ASSUME NEW u \in TxIds, NEW row \in Headers, NEW swept \in SUBSET TxIds,
             NEW r \in Requests, OpensExternal(u, row, swept, r)
      PROVE  HoldOK(t)'
  <2>1. CASE t = u
    BY <1>3, <2>1 DEF OpensExternal, Opens, HoldOK, Moved, IsExternal
  <2>2. CASE t # u /\ Releases(r) /\ t = r.prior
    <3>1. /\ header'[t] = header[t] /\ hold[t] = "PLACED" /\ header[t].by = row.by
          /\ hold'[t] \in {"EXPIRED", "RELEASED"}
      BY <1>3, <2>2 DEF OpensExternal, Opens, Releases
    <3>2. /\ status[t] \notin {"NONE", "FAILED"} /\ ~Moved(t) /\ IsExternal(t)
          /\ header[t].by \in Users
      BY <1>0, <3>1 DEF HoldOK
    <3>3. status[t] = "PENDING" => t \in swept
      BY <1>3, <3>1 DEF OpensExternal, Opens, Pending
    <3>4. status'[t] \in {"EXPIRED", "CANCELLED"}
      BY <1>3, <2>2, <3>2, <3>3
         DEF OpensExternal, Opens, Moved, Base, TypeOK, TxStatuses
    <3> QED BY <3>1, <3>2, <3>4 DEF HoldOK, Moved, IsExternal
  <2>3. CASE t # u /\ ~(Releases(r) /\ t = r.prior)
    <3>1. header'[t] = header[t] /\ hold'[t] = hold[t]
      BY <1>3, <2>3 DEF OpensExternal, Opens
    <3>2. CASE t \in swept
      <4>1. status[t] = "PENDING" /\ status'[t] \in {"EXPIRED", "CANCELLED"}
        BY <1>3, <2>3, <3>2 DEF OpensExternal, Opens
      <4> QED BY <1>0, <3>1, <4>1 DEF HoldOK, Moved, IsExternal
    <3>3. CASE t \notin swept
      BY <1>1, <1>3, <2>3, <3>1, <3>3 DEF OpensExternal, Opens
    <3> QED BY <3>2, <3>3
  <2> QED BY <2>1, <2>2, <2>3
<1>4. ASSUME NEW u \in TxIds, NEW row \in Headers, Records(u, row) PROVE HoldOK(t)'
  <2>1. CASE t = u
    <3>1. hold[t] = "NONE" /\ hold'[t] = "NONE" /\ status'[t] = "FAILED"
      BY <1>0, <1>4, <2>1 DEF Records, HoldOK, holdVars
    <3> QED BY <3>1 DEF HoldOK, Moved
  <2> QED BY <1>1, <1>4, <2>1 DEF Records, holdVars
<1>5. ASSUME NEW u \in TxIds, NEW row \in Headers, Books(u, row) PROVE HoldOK(t)'
  <2>1. row.by \notin Users /\ hold' = hold BY <1>5, CoreAssumptions DEF Books, holdVars
  <2>2. /\ status[u] = "NONE" /\ row.reverses # u
        /\ t = row.reverses => status[t] = "POSTED"
        /\ status'[t] = IF t = row.reverses THEN "REVERSED"
                        ELSE IF t = u THEN "POSTED" ELSE status[t]
        /\ header'[t] = IF t = u THEN row ELSE header[t]
    BY <1>5, BooksRows, CoreAssumptions
  <2>3. CASE t = u
    <3>1. hold[t] = "NONE" BY <1>0, <2>2, <2>3 DEF HoldOK
    <3> QED BY <2>1, <2>2, <2>3, <3>1 DEF HoldOK, Moved
  <2>4. CASE t = row.reverses
    BY <1>0, <2>1, <2>2, <2>4 DEF HoldOK, Moved, IsExternal
  <2> QED BY <1>1, <2>1, <2>2, <2>3, <2>4
<1>6. ASSUME NEW u \in TxIds, NEW to \in LapseStatuses, NEW holdTo \in LapsedHolds,
             Lapses(u, to, holdTo)
      PROVE  HoldOK(t)'
  <2>1. /\ hold'[t] = IF t = u /\ hold[u] = "PLACED" THEN holdTo ELSE hold[t]
        /\ status'[t] = IF t = u THEN to ELSE status[t]
        /\ header'[t] = header[t]
        /\ status[u] = "PENDING" /\ (to = "FAILED" => holdTo = "RELEASED")
    BY <1>6, ReleaseRowsOf DEF Lapses, Base
  <2>2. CASE t = u
    BY <1>0, <2>1, <2>2 DEF HoldOK, Moved, IsExternal, LapseStatuses, LapsedHolds
  <2> QED BY <1>1, <2>1, <2>2
<1>7. ASSUME NEW u \in TxIds, ConfirmsInternal(u) PROVE HoldOK(t)'
  <2>1. CASE t = u
    BY <1>0, <1>7, <2>1, ConfirmsRows DEF ConfirmsInternal, HoldOK, Moved, IsExternal
  <2> QED BY <1>1, <1>7, <2>1, ConfirmsRows DEF ConfirmsInternal
<1>8. ASSUME NEW u \in TxIds, ConfirmsExternal(u) PROVE HoldOK(t)'
  <2>1. /\ status[u] = "PENDING" /\ header'[t] = header[t] /\ header[u].by \in Users
        /\ status'[t] = IF t = u THEN "POSTED" ELSE status[t]
    BY <1>8, ConfirmsRows DEF ConfirmsExternal
  <2>2. hold[u] = "PLACED" BY <1>0, <1>8, <2>1 DEF ConfirmsExternal, HoldOK
  <2>3. hold'[t] = IF t = u THEN "SETTLED" ELSE hold[t]
    BY <1>8, <2>2 DEF ConfirmsExternal, Base, TypeOK
  <2>4. CASE t = u
    BY <1>8, <2>1, <2>3, <2>4 DEF ConfirmsExternal, HoldOK, Moved, IsExternal
  <2> QED BY <1>1, <2>1, <2>3, <2>4
<1>9. CASE Quiet \/ \E u \in TxIds : Settles(u)
  BY <1>1, <1>9 DEF Quiet, Settles, txVars, holdVars
<1> QED BY <1>2, <1>3, <1>4, <1>5, <1>6, <1>7, <1>8, <1>9 DEF Effect

-----------------------------------------------------------------------------
(* Settled or reversed, never both.                                         *)

LEMMA SettledStep ==
  ASSUME Base, HoldFollowsTransfer, SettledXorReversed, Effect
  PROVE  SettledXorReversed'
<1> SUFFICES ASSUME NEW t \in TxIds, railRef'[t]
             PROVE  status'[t] = "POSTED" /\ hold'[t] = "SETTLED"
  BY DEF SettledXorReversed
<1> DEFINE Stays == status'[t] = "POSTED" /\ hold'[t] = "SETTLED"
<1>0. railRef[t] => status[t] = "POSTED" /\ hold[t] = "SETTLED"
  BY DEF SettledXorReversed
<1>1. ASSUME NEW u \in TxIds, NEW row \in Headers, NEW swept \in SUBSET TxIds,
             \/ OpensInternal(u, row, swept)
             \/ \E r \in Requests : OpensExternal(u, row, swept, r)
      PROVE  Stays
  <2>1. railRef[t] /\ t # u /\ t \notin swept
    BY <1>0, <1>1 DEF OpensInternal, OpensExternal, Opens
  <2> QED BY <1>0, <1>1, <2>1 DEF OpensInternal, OpensExternal, Opens, Releases
<1>2. ASSUME NEW u \in TxIds, NEW row \in Headers, Records(u, row) PROVE Stays
  BY <1>0, <1>2 DEF Records, holdVars
<1>3. ASSUME NEW u \in TxIds, NEW row \in Headers, Books(u, row) PROVE Stays
  <2>1. railRef[t] /\ hold' = hold BY <1>3 DEF Books, holdVars
  <2>2. IsExternal(t) BY <1>0, <2>1 DEF HoldFollowsTransfer
  <2>3. t # row.reverses
    <3>1. t = row.reverses => ~IsExternal(t) \/ ~railRef[t]
      BY <1>3, CoreAssumptions DEF Books, Reconcilable
    <3> QED BY <2>1, <2>2, <3>1
  <2>4. status[u] = "NONE"
        /\ status'[t] = IF t = row.reverses THEN "REVERSED"
                        ELSE IF t = u THEN "POSTED" ELSE status[t]
    BY <1>3, BooksRows
  <2> QED BY <1>0, <2>1, <2>3, <2>4
<1>4. ASSUME NEW u \in TxIds, NEW to, NEW holdTo, Lapses(u, to, holdTo) PROVE Stays
  <2>1. hold'[t] = IF t = u /\ hold[u] = "PLACED" THEN holdTo ELSE hold[t]
    BY <1>4, ReleaseRowsOf DEF Lapses, Base
  <2> QED BY <1>0, <1>4, <2>1 DEF Lapses
<1>5. ASSUME NEW u \in TxIds, Confirms(u), \A s \in TxIds \ {u} : hold'[s] = hold[s]
      PROVE  Stays
  BY <1>0, <1>5, ConfirmsRows DEF Confirms
<1>6. ASSUME NEW u \in TxIds, ConfirmsInternal(u) \/ ConfirmsExternal(u) PROVE Stays
  BY <1>5, <1>6 DEF ConfirmsInternal, ConfirmsExternal, Base, TypeOK
<1>7. CASE Quiet
  BY <1>0, <1>7 DEF Quiet, txVars, holdVars
<1>8. ASSUME NEW u \in TxIds, Settles(u) PROVE Stays
  <2>1. status[u] = "POSTED" /\ hold[u] = "SETTLED"
    BY <1>8 DEF Settles, Reconcilable, HoldFollowsTransfer, Moved
  <2>2. t = u \/ railRef[t]
    BY <1>8 DEF Settles, Base, TypeOK
  <2> QED BY <1>0, <1>8, <2>1, <2>2 DEF Settles, txVars
<1> QED BY <1>1, <1>2, <1>3, <1>4, <1>6, <1>7, <1>8 DEF Effect

-----------------------------------------------------------------------------
(* What each effect does to one customer account.                           *)

\* A compensation debits a clearing account.
LEMMA BooksDebit ==
  ASSUME Base, OutboundOK, HoldFollowsTransfer,
         NEW u \in TxIds, NEW row \in Headers, Books(u, row), row.debit \in Accounts
  PROVE  row.by \in Admins
<1>1. row.reverses \in TxIds \cup {None} /\ row.reverses # None => status[row.reverses] = "POSTED"
  BY BooksRows
<1>2. ASSUME Mirrors(row, row.reverses), Reconcilable(row.reverses) PROVE FALSE
  <2> DEFINE x == row.reverses
  <2>1. x \in TxIds /\ status[x] # "NONE" /\ IsExternal(x) /\ hold[x] # "NONE"
    BY <1>2 DEF Mirrors, Reconcilable
  <2>2. header[x].by \in Users BY <2>1 DEF HoldFollowsTransfer
  <2>3. header[x].credit = OutClearing BY <2>1, <2>2 DEF OutboundOK
  <2> QED BY <1>2, <2>3, CoreAssumptions DEF Mirrors
<1> QED BY <1>2, CoreAssumptions DEF Books

LEMMA ReleaseFunds ==
  ASSUME TypeOK, NEW t \in TxIds, NEW to, header[t] \in Headers, ReleaseHold(t, to),
         NEW a \in Accounts
  PROVE  held'[a] <= held[a]
<1>1. held[a] \in Int /\ header[t].amount \in Nat BY DEF TypeOK, Headers
<1> QED BY <1>1 DEF ReleaseHold, TypeOK

LEMMA ReleasedFunds ==
  ASSUME TypeOK, NEW r, Releases(r) => header[r.prior] \in Headers, NEW a \in Accounts
  PROVE  HeldAfterRelease(r, a) \in Int /\ HeldAfterRelease(r, a) <= held[a]
<1>1. held[a] \in Int /\ (Releases(r) => header[r.prior].amount \in Nat) BY DEF TypeOK, Headers
<1> QED BY <1>1 DEF HeldAfterRelease

\* An account either takes a debit or a hold it can afford, or a forced debit, or
\* only gains.
AccountStep(a) ==
  \/ a \notin frozen /\ balance'[a] >= held'[a]
  \/ \E r \in TxIds : /\ status[r] = "NONE" /\ status'[r] = "POSTED"
                      /\ header'[r] # None
                      /\ header'[r].debit = a /\ header'[r].by \in Admins
                      /\ held'[a] <= held[a]
  \/ balance'[a] >= balance[a] /\ held'[a] <= held[a]

LEMMA AccountSteps ==
  ASSUME Base, OutboundOK, HoldFollowsTransfer, Effect, NEW a \in Accounts
  PROVE  AccountStep(a)
<1>0. /\ TypeOK /\ balance[a] \in Int /\ held[a] \in Int /\ a \in AllAccounts
      /\ \A m \in Nat : held[a] + 0 = held[a] /\ held[a] - m <= held[a] /\ balance[a] + m >= balance[a]
  BY DEF Base, TypeOK, AllAccounts
<1>1. ASSUME NEW u \in TxIds, NEW row \in Headers, NEW swept \in SUBSET TxIds,
             NEW r \in Requests, OpensExternal(u, row, swept, r)
      PROVE  AccountStep(a)
  <2>1. /\ HeldAfterRelease(r, a) \in Int /\ HeldAfterRelease(r, a) <= held[a]
        /\ row.amount \in Nat
        /\ balance'[a] = balance[a]
    BY <1>0, <1>1, ReleasedFunds DEF OpensExternal, Opens, Headers
  <2>2. CASE a = row.debit
    <3>1. held'[a] = HeldAfterRelease(r, a) + row.amount
      BY <1>1, <2>2 DEF OpensExternal
    <3>2. a \notin frozen /\ balance[a] - HeldAfterRelease(r, a) >= row.amount
      BY <1>1, <2>2 DEF OpensExternal, DebitAllowed
    <3>3. balance'[a] >= held'[a]
      BY <1>0, <2>1, <3>1, <3>2
    <3> QED BY <3>2, <3>3 DEF AccountStep
  <2>3. CASE a # row.debit
    <3>1. held'[a] = HeldAfterRelease(r, a) + 0
      BY <1>1, <2>3 DEF OpensExternal
    <3>2. held'[a] <= held[a] /\ balance'[a] >= balance[a]
      BY <1>0, <2>1, <3>1
    <3> QED BY <3>2 DEF AccountStep
  <2> QED BY <2>2, <2>3
<1>2. ASSUME balance'[a] = balance[a], held'[a] = held[a] PROVE AccountStep(a)
  BY <1>0, <1>2 DEF AccountStep
<1>3. ASSUME NEW u \in TxIds, NEW row \in Headers, Books(u, row) PROVE AccountStep(a)
  <2>1. /\ held'[a] = held[a] /\ row.amount \in Nat
        /\ row.debit # row.credit
    BY <1>3, BooksRows DEF Books, Movement, Headers
  <2>2. balance'[a] = IF a = row.debit THEN balance[a] - row.amount
                      ELSE IF a = row.credit THEN balance[a] + row.amount ELSE balance[a]
    BY <1>0, <1>3, BooksRows
  <2>3. CASE a = row.debit
    <3>1. row.by \in Admins BY <1>3, <2>3, BooksDebit
    <3>2. status[u] = "NONE" /\ status'[u] = "POSTED" /\ header'[u] = row /\ row # None
      BY <1>3, BooksRows, CoreAssumptions
    <3> QED BY <1>0, <2>1, <2>3, <3>1, <3>2 DEF AccountStep
  <2> QED BY <1>0, <2>1, <2>2, <2>3 DEF AccountStep
<1>4. ASSUME NEW u \in TxIds, NEW to, NEW holdTo, Lapses(u, to, holdTo) PROVE AccountStep(a)
  <2>1. header[u] \in Headers BY <1>4 DEF Lapses, Base, TypeOK, Shape, RowOK
  <2>2. held'[a] <= held[a] /\ balance'[a] = balance[a]
    BY <1>0, <1>4, <2>1, ReleaseFunds DEF Lapses
  <2> QED BY <1>0, <2>2 DEF AccountStep
<1>5. ASSUME NEW u \in TxIds, ConfirmsInternal(u) PROVE AccountStep(a)
  <2>1. /\ header[u].amount \in Nat /\ held'[a] = held[a]
        /\ balance'[a] = IF a = header[u].debit THEN balance[a] - header[u].amount
                         ELSE IF a = header[u].credit THEN balance[a] + header[u].amount
                         ELSE balance[a]
    BY <1>0, <1>5, ConfirmsRows DEF ConfirmsInternal
  <2>2. CASE a = header[u].debit
    <3>1. a \notin frozen /\ balance[a] - held[a] >= header[u].amount
      BY <1>5, <2>2 DEF ConfirmsInternal, DebitAllowed
    <3>2. balance'[a] >= held'[a] BY <1>0, <2>1, <2>2, <3>1
    <3> QED BY <3>1, <3>2 DEF AccountStep
  <2> QED BY <1>0, <2>1, <2>2 DEF AccountStep
<1>6. ASSUME NEW u \in TxIds, ConfirmsExternal(u) PROVE AccountStep(a)
  <2>1. /\ header[u].amount \in Nat
        /\ held'[a] = IF a = header[u].debit THEN held[a] - header[u].amount ELSE held[a]
        /\ balance'[a] = IF a = header[u].debit THEN balance[a] - header[u].amount
                         ELSE IF a = header[u].credit THEN balance[a] + header[u].amount
                         ELSE balance[a]
    BY <1>0, <1>6, ConfirmsRows DEF ConfirmsExternal, TypeOK
  <2>2. CASE a = header[u].debit
    <3>1. a \notin frozen /\ balance[a] - (held[a] - header[u].amount) >= header[u].amount
      BY <1>6, <2>2 DEF ConfirmsExternal, DebitAllowed
    <3>2. balance'[a] >= held'[a] BY <1>0, <2>1, <2>2, <3>1
    <3> QED BY <3>1, <3>2 DEF AccountStep
  <2> QED BY <1>0, <2>1, <2>2 DEF AccountStep
<1>7. CASE \/ Quiet \/ \E u \in TxIds : Settles(u)
           \/ \E u \in TxIds, row \in Headers, swept \in SUBSET TxIds : OpensInternal(u, row, swept)
           \/ \E u \in TxIds, row \in Headers : Records(u, row)
  BY <1>2, <1>7 DEF Quiet, Settles, OpensInternal, Opens, Records
<1> QED BY <1>1, <1>3, <1>4, <1>5, <1>6, <1>7 DEF Effect

-----------------------------------------------------------------------------
(* The properties, step by step.                                            *)

LEMMA FundsStep ==
  ASSUME Base, Base', OutboundOK, HoldFollowsTransfer, FundsCoverHolds, BooksGrow, Effect
  PROVE  FundsCoverHolds'
<1> SUFFICES ASSUME NEW a \in Accounts,
                    \A t \in TxIds : ~(header'[t] # None /\ header'[t].by \in Admins
                                       /\ header'[t].debit = a)
             PROVE  balance'[a] >= held'[a]
  BY DEF FundsCoverHolds, Forced
<1>1. /\ balance[a] \in Int /\ held[a] \in Int /\ balance'[a] \in Int /\ held'[a] \in Int
  BY DEF Base, TypeOK, AllAccounts
<1>2. ASSUME balance'[a] >= balance[a], held'[a] <= held[a] PROVE balance'[a] >= held'[a]
  <2>1. \A t \in TxIds : header[t] # None => header'[t] = header[t]
    BY DEF Base, Shape, RowOK, BooksGrow
  <2>2. balance[a] >= held[a] BY <2>1 DEF FundsCoverHolds, Forced
  <2> QED BY <1>1, <1>2, <2>2
<1> QED BY <1>2, AccountSteps DEF AccountStep

FreezeStep ==
  \A a \in frozen :
    /\ held'[a] <= held[a]
    /\ balance'[a] < balance[a] =>
         \E r \in TxIds : status[r] = "NONE" /\ status'[r] = "POSTED"
                          /\ header'[r].debit = a /\ header'[r].by \in Admins

LEMMA FreezeSteps ==
  ASSUME Base, Base', OutboundOK, HoldFollowsTransfer, Effect
  PROVE  FreezeStep
<1> SUFFICES ASSUME NEW a \in frozen
             PROVE  /\ held'[a] <= held[a]
                    /\ balance'[a] < balance[a] =>
                         \E r \in TxIds : status[r] = "NONE" /\ status'[r] = "POSTED"
                                          /\ header'[r].debit = a /\ header'[r].by \in Admins
  BY DEF FreezeStep
<1>1. a \in Accounts /\ balance[a] \in Int /\ balance'[a] \in Int
  BY DEF Base, TypeOK, AllAccounts
<1>2. balance'[a] >= balance[a] => ~(balance'[a] < balance[a]) BY <1>1
<1> QED BY <1>1, <1>2, AccountSteps DEF AccountStep

SettleStep ==
  \A t \in TxIds :
    (status[t] = "PENDING" /\ IsExternal(t) /\ status'[t] = "POSTED") =>
      LET src == header[t].debit IN
      /\ hold[t] = "PLACED" /\ hold'[t] = "SETTLED"
      /\ balance'[src] = balance[src] - header[t].amount
      /\ held'[src] = held[src] - header[t].amount

LEMMA SettleSteps ==
  ASSUME Base, HoldFollowsTransfer, Effect
  PROVE  SettleStep
<1> SUFFICES ASSUME NEW t \in TxIds,
                    status[t] = "PENDING" /\ IsExternal(t) /\ status'[t] = "POSTED"
             PROVE  /\ hold[t] = "PLACED" /\ hold'[t] = "SETTLED"
                    /\ balance'[header[t].debit] = balance[header[t].debit] - header[t].amount
                    /\ held'[header[t].debit] = held[header[t].debit] - header[t].amount
  BY DEF SettleStep
<1>1. ASSUME NEW u \in TxIds, NEW row \in Headers, NEW swept \in SUBSET TxIds,
             Opens(u, row, swept)
      PROVE  FALSE
  BY <1>1 DEF Opens
<1>2. ASSUME NEW u \in TxIds, NEW row \in Headers, Books(u, row) PROVE FALSE
  <2>1. status[u] = "NONE"
        /\ status'[t] = IF t = row.reverses THEN "REVERSED"
                        ELSE IF t = u THEN "POSTED" ELSE status[t]
    BY <1>2, BooksRows
  <2> QED BY <2>1
<1>3. ASSUME NEW u \in TxIds, NEW to \in LapseStatuses, NEW holdTo, Lapses(u, to, holdTo)
      PROVE  FALSE
  BY <1>3 DEF Lapses, LapseStatuses
<1>4. ASSUME NEW u \in TxIds, ConfirmsInternal(u) PROVE FALSE
  BY <1>4, ConfirmsRows DEF ConfirmsInternal
<1>5. ~(Quiet \/ \E u \in TxIds : Settles(u) \/ \E row \in Headers : Records(u, row))
  BY DEF Quiet, Settles, Records, txVars
<1>6. ASSUME NEW u \in TxIds, ConfirmsExternal(u)
      PROVE  /\ hold[t] = "PLACED" /\ hold'[t] = "SETTLED"
             /\ balance'[header[t].debit] = balance[header[t].debit] - header[t].amount
             /\ held'[header[t].debit] = held[header[t].debit] - header[t].amount
  <2>1. t = u BY <1>6, ConfirmsRows DEF ConfirmsExternal
  <2>2. hold[t] = "PLACED" BY DEF HoldFollowsTransfer
  <2>3. header[t].debit \in Accounts /\ header[t].debit \in AllAccounts
    BY <1>6, <2>1 DEF ConfirmsExternal, Confirms, AllAccounts
  <2>4. balance'[header[t].debit] = balance[header[t].debit] - header[t].amount
    BY <1>6, <2>1, <2>3, ConfirmsRows DEF ConfirmsExternal
  <2>5. hold'[t] = "SETTLED" /\ held'[header[t].debit] = held[header[t].debit] - header[t].amount
    BY <1>6, <2>1, <2>2, <2>3 DEF ConfirmsExternal, Base, TypeOK
  <2> QED BY <2>2, <2>4, <2>5
<1> QED BY <1>1, <1>2, <1>3, <1>4, <1>5, <1>6 DEF Effect, OpensInternal, OpensExternal

-----------------------------------------------------------------------------
(* The invariant, and what follows.                                         *)

LEMMA InitHold == Init => HoldInv
<1> SUFFICES ASSUME Init PROVE HoldInv
  OBVIOUS
<1>1. SafetyInv BY InitSafety
<1>2. OutboundOK /\ HoldFollowsTransfer /\ SettledXorReversed
  BY DEF Init, OutboundOK, HoldFollowsTransfer, SettledXorReversed, Moved
<1>3. FundsCoverHolds
  <2>1. \A a \in Accounts : balance[a] = OpeningBalance[a] /\ OpeningBalance[a] \in Nat
                            /\ held[a] = 0
    BY CoreAssumptions DEF Init, AllAccounts
  <2> QED BY <2>1 DEF FundsCoverHolds
<1> QED BY <1>1, <1>2, <1>3 DEF HoldInv

LEMMA NextHold == HoldInv /\ [Next]_vars => HoldInv'
<1> SUFFICES ASSUME HoldInv, [Next]_vars PROVE HoldInv'
  OBVIOUS
<1>1. SafetyInv /\ SafetyInv' /\ Base /\ Base' /\ OneEventPerOutcome
  BY NextSafety DEF HoldInv, SafetyInv
<1>2. Effect BY Effects DEF HoldInv, SafetyInv
<1>3. BooksGrow BY <1>1, <1>2, BooksGrowStep
<1> QED BY <1>1, <1>2, <1>3, OutboundStep, HoldStep, SettledStep, FundsStep DEF HoldInv

\* Holds, rails and funds agree with the transfers in every state of the service.
THEOREM AlwaysHold == Spec => []HoldInv
<1> QED BY InitHold, NextHold, PTL DEF Spec

\* A hold is placed while its transfer is pending, spent exactly when it posts.
THEOREM AlwaysHoldFollows == Spec => []HoldFollowsTransfer
<1>1. HoldInv => HoldFollowsTransfer BY DEF HoldInv
<1> QED BY <1>1, AlwaysHold, PTL

\* Whatever the rail repeats, an outbound transfer it settled is never reversed.
THEOREM AlwaysSettledXorReversed == Spec => []SettledXorReversed
<1>1. HoldInv => SettledXorReversed BY DEF HoldInv
<1> QED BY <1>1, AlwaysHold, PTL

\* What is reserved of an account is there, unless a forced reversal took it.
THEOREM AlwaysFundsCover == Spec => []FundsCoverHolds
<1>1. HoldInv => FundsCoverHolds BY DEF HoldInv
<1> QED BY <1>1, AlwaysHold, PTL

\* No step debits or reserves money of a frozen account, but a forced reversal.
THEOREM AlwaysFreezeStopsDebits == Spec => FreezeStopsDebits
<1>1. HoldInv /\ HoldInv' /\ [Next]_vars => FreezeStep
  BY Effects, FreezeSteps DEF HoldInv, SafetyInv
<1>2. FreezeStep =>
        [\A a \in frozen :
           /\ held'[a] <= held[a]
           /\ balance'[a] < balance[a] =>
                \E r \in TxIds : status[r] = "NONE" /\ status'[r] = "POSTED"
                                 /\ header'[r].debit = a /\ header'[r].by \in Admins]_vars
  BY DEF FreezeStep
<1> QED BY <1>1, <1>2, AlwaysHold, PTL DEF Spec, FreezeStopsDebits

\* Money leaves for a rail out of the hold of that very transfer.
THEOREM AlwaysSettleSpendsHold == Spec => SettleSpendsHold
<1>1. HoldInv /\ [Next]_vars => SettleStep
  BY Effects, SettleSteps DEF HoldInv, SafetyInv
<1>2. SettleStep =>
        [\A t \in TxIds :
           (status[t] = "PENDING" /\ IsExternal(t) /\ status'[t] = "POSTED") =>
             LET src == header[t].debit IN
             /\ hold[t] = "PLACED" /\ hold'[t] = "SETTLED"
             /\ balance'[src] = balance[src] - header[t].amount
             /\ held'[src] = held[src] - header[t].amount]_vars
  BY DEF SettleStep
<1> QED BY <1>1, <1>2, AlwaysHold, PTL DEF Spec, SettleSpendsHold

-----------------------------------------------------------------------------
(***************************************************************************)
(* BalanceService implements Payments: each of its effects is one step of  *)
(* Payments or none.                                                       *)
(***************************************************************************)

\* What a row agrees to.
TermsIn(row) ==
  [by |-> row.by, debit |-> row.debit, credit |-> row.credit, amount |-> row.amount]

-----------------------------------------------------------------------------
(* The mapping, row by row.                                                 *)

LEMMA StageOf ==
  ASSUME NEW t \in TxIds
  PROVE  /\ Stages[t] = "none" <=> status[t] = "NONE"
         /\ Stages[t] = "open" <=> status[t] = "PENDING"
         /\ Stages[t] = "moved" <=> status[t] = "POSTED"
         /\ status[t] = "NONE" => Stages[t] = "none"
         /\ status[t] = "PENDING" => Stages[t] = "open"
         /\ status[t] = "POSTED" => Stages[t] = "moved"
         /\ status[t] = "REVERSED" => Stages[t] = "undone"
         /\ status[t] = "FAILED" => Stages[t] = "failed"
         /\ status[t] \in {"EXPIRED", "CANCELLED"} => Stages[t] = "lapsed"
BY DEF Stages, Stage

LEMMA StageOfNext ==
  ASSUME NEW t \in TxIds
  PROVE  /\ status'[t] = "PENDING" => Stages'[t] = "open"
         /\ status'[t] = "POSTED" => Stages'[t] = "moved"
         /\ status'[t] = "REVERSED" => Stages'[t] = "undone"
         /\ status'[t] = "FAILED" => Stages'[t] = "failed"
         /\ status'[t] \in {"EXPIRED", "CANCELLED"} => Stages'[t] = "lapsed"
         /\ status'[t] = status[t] => Stages'[t] = Stages[t]
BY DEF Stages, Stage

LEMMA StagesMap ==
  Stages = [t \in TxIds |-> Stages[t]] /\ Stages' = [t \in TxIds |-> Stages'[t]]
BY DEF Stages, Stage

LEMMA TermsOfRow ==
  ASSUME Base, NEW t \in TxIds, status[t] # "NONE"
  PROVE  header[t] \in Headers /\ Agreed[t] = TermsIn(header[t])
BY DEF Base, TypeOK, Shape, RowOK, Agreed, TermsOf, TermsIn

\* A row that is inserted agrees to its terms; the others keep theirs.
LEMMA TermsInserted ==
  ASSUME Base', NEW t \in TxIds, NEW row \in Headers, status'[t] # "NONE",
         \A s \in TxIds : header'[s] = IF s = t THEN row ELSE header[s]
  PROVE  /\ Agreed' = [Agreed EXCEPT ![t] = TermsIn(row)]
         /\ Agreed'[t] = TermsIn(row)
         /\ TermsIn(row) \in P!Terms
<1>1. row # None BY CoreAssumptions
<1>2. Agreed'[t] = TermsIn(row) BY <1>1 DEF Agreed, TermsOf, TermsIn
<1>3. \A s \in TxIds \ {t} : Agreed'[s] = Agreed[s] BY DEF Agreed, TermsOf
<1>4. TermsIn(row) \in P!Terms
  <2>1. row.amount \in Nat \ {0} BY DEF Base, Shape, RowOK, Headers
  <2> QED BY <2>1 DEF P!Terms, TermsIn, Headers
<1>5. /\ Agreed = [s \in TxIds |-> Agreed[s]]
      /\ Agreed' = [s \in TxIds |-> Agreed'[s]]
  BY DEF Agreed, TermsOf
<1> QED BY <1>2, <1>3, <1>4, <1>5

LEMMA TermsKept ==
  ASSUME \A s \in TxIds : header'[s] = header[s]
  PROVE  Agreed' = Agreed
BY DEF Agreed, TermsOf

-----------------------------------------------------------------------------
(* Effect by effect.                                                        *)

LEMMA OpensIsOpen ==
  ASSUME Base, Base', NEW t \in TxIds, NEW row \in Headers, NEW swept, Opens(t, row, swept)
  PROVE  P!Next
<1>1. /\ Agreed' = [Agreed EXCEPT ![t] = TermsIn(row)] /\ TermsIn(row) \in P!Terms
      /\ Agreed'[t] = TermsIn(row)
  BY TermsInserted DEF Opens
<1>2. \A s \in TxIds : s \in swept <=> status[s] = "PENDING" /\ header[s].by = row.by
  BY DEF Opens, Pending
<1>3. \A s \in TxIds :
        s \in swept <=> Stages[s] = "open" /\ Agreed[s].by = TermsIn(row).by
  <2> SUFFICES ASSUME NEW s \in TxIds
               PROVE  s \in swept <=> Stages[s] = "open" /\ Agreed[s].by = row.by
    BY DEF TermsIn
  <2>1. status[s] = "PENDING" => Agreed[s].by = header[s].by
    <3>1. ASSUME status[s] = "PENDING" PROVE Agreed[s] = TermsIn(header[s])
      BY <3>1, TermsOfRow
    <3>2. TermsIn(header[s]).by = header[s].by BY DEF TermsIn
    <3> QED BY <3>1, <3>2
  <2> QED BY <1>2, <2>1, StageOf
<1>4. \A s \in TxIds :
        Stages'[s] = IF s = t THEN "open" ELSE IF s \in swept THEN "lapsed" ELSE Stages[s]
  BY StageOfNext DEF Opens
<1>5. Stages' = [s \in TxIds |-> IF s = t THEN "open"
                                 ELSE IF s \in {x \in TxIds : Stages[x] = "open" /\ Agreed[x].by = TermsIn(row).by}
                                 THEN "lapsed" ELSE Stages[s]]
  BY <1>3, <1>4, StagesMap
<1>6. Stages[t] = "none" /\ UNCHANGED <<balance, outbox>>
  BY StageOf DEF Opens, bookVars
<1>7. P!Open(t, Agreed'[t])
  BY <1>1, <1>5, <1>6 DEF P!Open, P!Agree, P!OpenOf
<1> QED BY <1>7 DEF P!Next

LEMMA RecordsIsReject ==
  ASSUME Base, Base', NEW t \in TxIds, NEW row \in Headers, Records(t, row)
  PROVE  P!Next
<1>1. /\ Agreed' = [Agreed EXCEPT ![t] = TermsIn(row)] /\ TermsIn(row) \in P!Terms
      /\ Agreed'[t] = TermsIn(row)
  BY TermsInserted DEF Records
<1>2. \A s \in TxIds : Stages'[s] = IF s = t THEN "failed" ELSE Stages[s]
  BY StageOfNext DEF Records
<1>3. Stages' = [Stages EXCEPT ![t] = "failed"] /\ Stages[t] = "none"
  BY <1>2, StagesMap, StageOf DEF Records
<1>4. UNCHANGED balance /\ outbox' = [outbox EXCEPT ![t] = Append(@, "transaction.failed")]
  BY DEF Records, Emit
<1>5. P!Reject(t, Agreed'[t])
  BY <1>1, <1>3, <1>4 DEF P!Reject, P!Agree, P!Tell
<1> QED BY <1>5 DEF P!Next

LEMMA LapsesIsLapseOrFail ==
  ASSUME Base, NEW t \in TxIds, NEW to \in LapseStatuses, NEW holdTo, Lapses(t, to, holdTo)
  PROVE  P!Next
<1>1. Agreed' = Agreed BY TermsKept DEF Lapses
<1>2. Stages[t] = "open" /\ \A s \in TxIds \ {t} : Stages'[s] = Stages[s]
  BY StageOf, StageOfNext DEF Lapses
<1>3. CASE to = "FAILED"
  <2>1. Stages' = [Stages EXCEPT ![t] = "failed"]
    BY <1>2, <1>3, StagesMap, StageOfNext DEF Lapses
  <2>2. UNCHANGED balance /\ outbox' = [outbox EXCEPT ![t] = Append(@, "transaction.failed")]
    BY <1>3 DEF Lapses, Emit
  <2>3. P!Fail(t) BY <1>1, <1>2, <2>1, <2>2 DEF P!Fail, P!Tell
  <2> QED BY <2>3 DEF P!Next
<1>4. CASE to # "FAILED"
  <2>1. Stages' = [Stages EXCEPT ![t] = "lapsed"]
    BY <1>2, <1>4, StagesMap, StageOfNext DEF Lapses, LapseStatuses
  <2>2. P!Lapse(t) BY <1>1, <1>2, <1>4, <2>1 DEF Lapses, P!Lapse
  <2> QED BY <2>2 DEF P!Next
<1> QED BY <1>3, <1>4

LEMMA ConfirmsIsMove ==
  ASSUME Base, NEW t \in TxIds, Confirms(t)
  PROVE  P!Next
<1>1. Agreed' = Agreed BY TermsKept, ConfirmsRows
<1>2. /\ status[t] = "PENDING" /\ status'[t] = "POSTED"
      /\ \A s \in TxIds \ {t} : status'[s] = status[s]
  BY ConfirmsRows
<1>3. Stages[t] = "open" /\ Stages' = [Stages EXCEPT ![t] = "moved"]
  BY <1>2, StagesMap, StageOf, StageOfNext
<1>4. Agreed[t].debit = header[t].debit /\ Agreed[t].credit = header[t].credit
      /\ Agreed[t].amount = header[t].amount
  <2>1. Agreed[t] = TermsIn(header[t]) BY <1>2, TermsOfRow
  <2> QED BY <2>1 DEF TermsIn
<1>5. /\ balance' = [balance EXCEPT ![Agreed[t].debit] = @ - Agreed[t].amount,
                                    ![Agreed[t].credit] = @ + Agreed[t].amount]
      /\ outbox' = [outbox EXCEPT ![t] = Append(@, "transaction.posted")]
  BY <1>4 DEF Confirms, PostPending, MoveMoney, Emit
<1>6. P!Move(t) BY <1>1, <1>3, <1>5 DEF P!Move, P!Transfer, P!Tell
<1> QED BY <1>6 DEF P!Next

LEMMA BooksIsMoveOrUndo ==
  ASSUME Base, Base', NEW t \in TxIds, NEW row \in Headers, Books(t, row)
  PROVE  P!Next
<1> DEFINE x == row.reverses
<1>1. /\ status[t] = "NONE" /\ x # t /\ x \in TxIds \cup {None}
      /\ x # None => status[x] = "POSTED"
      /\ \A s \in TxIds :
           /\ status'[s] = IF s = x THEN "REVERSED" ELSE IF s = t THEN "POSTED" ELSE status[s]
           /\ header'[s] = IF s = t THEN row ELSE header[s]
  BY BooksRows
<1>2. /\ Agreed' = [Agreed EXCEPT ![t] = TermsIn(row)] /\ TermsIn(row) \in P!Terms
      /\ Agreed'[t] = TermsIn(row)
  BY <1>1, TermsInserted
<1>3. Stages[t] = "none" BY <1>1, StageOf
<1>4. /\ balance' = [balance EXCEPT ![TermsIn(row).debit] = @ - TermsIn(row).amount,
                                    ![TermsIn(row).credit] = @ + TermsIn(row).amount]
      /\ outbox' = [outbox EXCEPT ![t] = Append(@, "transaction.posted")]
  BY DEF Books, PostFresh, MoveMoney, Emit, TermsIn
<1>5. CASE x = None
  <2>1. \A s \in TxIds : s # x BY <1>5, CoreAssumptions
  <2>2. Stages' = [Stages EXCEPT ![t] = "moved"]
    BY <1>1, <2>1, StagesMap, StageOfNext
  <2>3. P!MoveAtOnce(t, Agreed'[t])
    BY <1>2, <1>3, <1>4, <2>2 DEF P!MoveAtOnce, P!Agree, P!Transfer, P!Tell
  <2> QED BY <2>3 DEF P!Next
<1>6. CASE x # None
  <2>1. x \in TxIds /\ status[x] = "POSTED" /\ Mirrors(row, x)
    BY <1>1, <1>6 DEF Books
  <2>2. Stages[x] = "moved" /\ Stages' = [Stages EXCEPT ![x] = "undone", ![t] = "moved"]
    BY <1>1, <2>1, StagesMap, StageOf, StageOfNext
  <2>3. Agreed[x] = TermsIn(header[x]) BY <2>1, TermsOfRow
  <2>4. TermsIn(row) = P!Mirror(Agreed[x], row.by)
    BY <2>1, <2>3 DEF P!Mirror, TermsIn, Mirrors
  <2>5. row.by \in Initiators BY DEF Headers
  <2>6. P!Undo(x, t, row.by)
    BY <1>2, <1>3, <1>4, <2>2, <2>4 DEF P!Undo, P!Agree, P!Transfer, P!Tell
  <2> QED BY <2>1, <2>5, <2>6 DEF P!Next
<1> QED BY <1>5, <1>6

LEMMA EffectIsStep ==
  ASSUME Base, Base', Effect
  PROVE  P!Next \/ UNCHANGED P!paymentVars
<1>1. CASE Quiet \/ \E t \in TxIds : Settles(t)
  <2>1. UNCHANGED <<status, header, balance, outbox>>
    BY <1>1 DEF Quiet, Settles, txVars, bookVars
  <2>2. Stages' = Stages /\ Agreed' = Agreed
    BY <2>1 DEF Stages, Stage, Agreed, TermsOf
  <2> QED BY <2>1, <2>2 DEF P!paymentVars
<1>2. ASSUME NEW t \in TxIds, NEW row \in Headers, NEW swept, Opens(t, row, swept)
      PROVE  P!Next
  BY <1>2, OpensIsOpen
<1>3. ASSUME NEW t \in TxIds, NEW row \in Headers, Records(t, row) \/ Books(t, row)
      PROVE  P!Next
  BY <1>3, RecordsIsReject, BooksIsMoveOrUndo
<1>4. ASSUME NEW t \in TxIds, NEW to \in LapseStatuses, NEW holdTo, Lapses(t, to, holdTo)
      PROVE  P!Next
  BY <1>4, LapsesIsLapseOrFail
<1>5. ASSUME NEW t \in TxIds, Confirms(t) PROVE P!Next
  BY <1>5, ConfirmsIsMove
<1> QED BY <1>1, <1>2, <1>3, <1>4, <1>5
        DEF Effect, OpensInternal, OpensExternal, ConfirmsInternal, ConfirmsExternal

LEMMA InitIsInit == Init => P!Init
<1> SUFFICES ASSUME Init PROVE P!Init
  OBVIOUS
<1>1. Stages = [t \in TxIds |-> "none"] BY DEF Init, Stages, Stage
<1>2. Agreed = [t \in TxIds |-> None] BY DEF Init, Agreed, TermsOf
<1> QED BY <1>1, <1>2 DEF Init, P!Init

\* Sweeps, holds, codes, locks, refusals, rails and approvals together implement the
\* promise of Payments, for any number of each: no step shows a customer, or who
\* reads the events, anything else.
THEOREM RefinesPayments == Spec => ImplementsPayments
<1>1. SafetyInv /\ SafetyInv' /\ [Next]_vars => [P!Next]_(P!paymentVars)
  BY Effects, EffectIsStep DEF SafetyInv
<1> QED BY <1>1, InitIsInit, AlwaysSafety, PTL DEF Spec, ImplementsPayments, P!Spec

-----------------------------------------------------------------------------
(***************************************************************************)
(* Sums over the rows: what the accounts carry and what the reports        *)
(* recompute.                                                              *)
(***************************************************************************)

\* There are finitely many transactions at any time, each step adds at most one.
RowIds == {t \in TxIds : status[t] # "NONE"}
RowsFinite == IsFiniteSet(RowIds)

LEMMA RowsFiniteStep ==
  ASSUME Base, RowsFinite, Effect
  PROVE  RowsFinite'
<1>1. ASSUME NEW u, RowIds' \subseteq RowIds \cup {u} PROVE RowsFinite'
  <2>1. IsFiniteSet(RowIds \cup {u}) BY FS_AddElement DEF RowsFinite
  <2> QED BY <1>1, <2>1, FS_Subset DEF RowsFinite
<1>2. ASSUME NEW u \in TxIds, NEW row, NEW swept, Opens(u, row, swept) PROVE RowsFinite'
  <2>1. RowIds' \subseteq RowIds \cup {u} BY <1>2 DEF RowIds, Opens
  <2> QED BY <1>1, <2>1
<1>3. ASSUME NEW u \in TxIds, NEW row \in Headers, Records(u, row) PROVE RowsFinite'
  <2>1. RowIds' \subseteq RowIds \cup {u} BY <1>3 DEF RowIds, Records
  <2> QED BY <1>1, <2>1
<1>4. ASSUME NEW u \in TxIds, NEW row \in Headers, Books(u, row) PROVE RowsFinite'
  <2>1. RowIds' \subseteq RowIds \cup {u}
    <3>1. \A s \in TxIds :
            /\ status'[s] = IF s = row.reverses THEN "REVERSED"
                            ELSE IF s = u THEN "POSTED" ELSE status[s]
            /\ s = row.reverses => status[s] = "POSTED"
      BY <1>4, BooksRows, CoreAssumptions
    <3> QED BY <3>1 DEF RowIds
  <2> QED BY <1>1, <2>1
<1>5. ASSUME NEW u \in TxIds, NEW to, NEW holdTo, Lapses(u, to, holdTo) PROVE RowsFinite'
  <2>1. RowIds' \subseteq RowIds \cup {u} BY <1>5 DEF RowIds, Lapses
  <2> QED BY <1>1, <2>1
<1>6. ASSUME NEW u \in TxIds, Confirms(u) PROVE RowsFinite'
  <2>1. RowIds' \subseteq RowIds \cup {u} BY <1>6, ConfirmsRows DEF RowIds
  <2> QED BY <1>1, <2>1
<1>7. CASE Quiet \/ \E u \in TxIds : Settles(u)
  BY <1>7 DEF Quiet, Settles, txVars, RowsFinite, RowIds
<1> QED BY <1>2, <1>3, <1>4, <1>5, <1>6, <1>7
        DEF Effect, OpensInternal, OpensExternal, ConfirmsInternal, ConfirmsExternal

-----------------------------------------------------------------------------
(* held is the sum of the holds that are placed.                            *)

\* The terms of the sum are finitely many naturals.
LEMMA PlacedTerms ==
  ASSUME Base, RowsFinite, HoldFollowsTransfer, NEW a
  PROVE  /\ IsFiniteSet(PlacedOn(a))
         /\ [t \in PlacedOn(a) |-> header[t].amount] \in [PlacedOn(a) -> Nat]
<1>1. PlacedOn(a) \subseteq RowIds
  BY DEF PlacedOn, RowIds, HoldFollowsTransfer
<1>2. IsFiniteSet(PlacedOn(a))
  BY <1>1, FS_Subset DEF RowsFinite
<1>3. \A t \in PlacedOn(a) : header[t].amount \in Nat
  BY <1>1 DEF PlacedOn, RowIds, Base, TypeOK, Shape, RowOK, Headers
<1> QED BY <1>2, <1>3

LEMMA HeldStep ==
  ASSUME Base, RowsFinite, HoldFollowsTransfer, HeldIsPlacedSum, Effect
  PROVE  HeldIsPlacedSum'
<1> SUFFICES ASSUME NEW a \in Accounts
             PROVE  held'[a] = Total([t \in PlacedOn(a)' |-> header'[t].amount])
  BY DEF HeldIsPlacedSum
<1> DEFINE S == PlacedOn(a)
           f == [t \in S |-> header[t].amount]
           Goal == held'[a] = Total([t \in PlacedOn(a)' |-> header'[t].amount])
<1>0. /\ IsFiniteSet(S) /\ f \in [S -> Nat] /\ held[a] = Total(f)
      /\ \A t \in TxIds : status[t] = "NONE" => hold[t] # "PLACED"
      /\ \A t : t \in S <=> t \in TxIds /\ hold[t] = "PLACED" /\ header[t].debit = a
      /\ TypeOK
  BY PlacedTerms DEF HeldIsPlacedSum, HoldFollowsTransfer, PlacedOn, Base
\* Nothing is placed or given back.
<1>1. ASSUME held'[a] = held[a], hold' = hold,
             \A s \in TxIds : hold[s] = "PLACED" => header'[s] = header[s]
      PROVE  Goal
  <2>1. PlacedOn(a)' = S /\ \A t \in S : header'[t].amount = header[t].amount
    BY <1>1 DEF PlacedOn
  <2>2. [t \in PlacedOn(a)' |-> header'[t].amount] = f
    BY <2>1
  <2> QED BY <1>0, <1>1, <2>2
\* The hold of u is given back or spent.
<1>2. ASSUME NEW u \in TxIds, hold[u] = "PLACED",
             \A s \in TxIds : hold'[s] = "PLACED" <=> hold[s] = "PLACED" /\ s # u,
             \A s \in TxIds : header'[s] = header[s],
             held'[a] = held[a] - (IF header[u].debit = a THEN header[u].amount ELSE 0)
      PROVE  Goal
  <2>1. CASE header[u].debit = a
    <3>1. u \in S /\ PlacedOn(a)' = S \ {u} /\ \A t \in S : header'[t] = header[t]
      BY <1>0, <1>2, <2>1 DEF PlacedOn
    <3>2. [t \in PlacedOn(a)' |-> header'[t].amount] = [t \in S \ {u} |-> f[t]]
      BY <3>1
    <3>3. f[u] = header[u].amount
      BY <3>1
    <3> HIDE DEF f, S
    <3>4. Total([t \in S \ {u} |-> f[t]]) = Total(f) - f[u]
      BY <1>0, <3>1, TotalRemove
    <3> QED BY <1>0, <1>2, <2>1, <3>2, <3>3, <3>4
  <2>2. CASE header[u].debit # a
    <3>1. PlacedOn(a)' = S /\ \A t \in S : header'[t] = header[t]
      BY <1>0, <1>2, <2>2 DEF PlacedOn
    <3>2. [t \in PlacedOn(a)' |-> header'[t].amount] = f
      BY <3>1
    <3>3. held[a] \in Int BY <1>0 DEF TypeOK
    <3> QED BY <1>0, <1>2, <2>2, <3>2, <3>3
  <2> QED BY <2>1, <2>2
<1>3. ASSUME NEW u \in TxIds, NEW row \in Headers, NEW swept \in SUBSET TxIds,
             NEW r \in Requests, OpensExternal(u, row, swept, r)
      PROVE  Goal
  <2> DEFINE M == IF Releases(r) THEN S \ {r.prior} ELSE S
             m == [t \in M |-> f[t]]
             g == [t \in PlacedOn(a)' |-> header'[t].amount]
  <2>1. /\ status[u] = "NONE" /\ row.amount \in Nat /\ u \notin S
        /\ \A s \in TxIds : header'[s] = IF s = u THEN row ELSE header[s]
    BY <1>0, <1>3 DEF OpensExternal, Opens, Headers
  <2>2. Total(m) = HeldAfterRelease(r, a) /\ IsFiniteSet(M) /\ m \in [M -> Nat]
    <3>1. CASE Releases(r) /\ header[r.prior].debit = a
      <4>1. r.prior \in S /\ M = S \ {r.prior} /\ f[r.prior] = header[r.prior].amount
        BY <1>0, <1>3, <3>1 DEF Releases, OpensExternal
      <4>2. HeldAfterRelease(r, a) = Total(f) - f[r.prior]
        BY <1>0, <3>1, <4>1 DEF HeldAfterRelease
      <4>3. m \in [M -> Nat] /\ IsFiniteSet(M)
        BY <1>0, FS_RemoveElement
      <4> HIDE DEF S, f
      <4>4. Total([t \in S \ {r.prior} |-> f[t]]) = Total(f) - f[r.prior]
        BY <1>0, <4>1, TotalRemove
      <4> HIDE DEF M
      <4> QED BY <4>1, <4>2, <4>3, <4>4
    <3>2. CASE ~(Releases(r) /\ header[r.prior].debit = a)
      <4>1. M = S
        BY <1>0, <3>2
      <4>2. m = f
        BY <4>1
      <4>3. held[a] \in Int
        BY <1>0 DEF TypeOK
      <4>4. HeldAfterRelease(r, a) = held[a] - 0
        BY <3>2 DEF HeldAfterRelease
      <4> HIDE DEF S, f, M, m
      <4> QED BY <1>0, <4>1, <4>2, <4>3, <4>4
    <3> QED BY <3>1, <3>2
  <2>3. \A s \in TxIds : hold'[s] = "PLACED" <=>
          s = u \/ (hold[s] = "PLACED" /\ ~(Releases(r) /\ s = r.prior))
    BY <1>0, <1>3, <2>1 DEF OpensExternal
  <2>4. HeldAfterRelease(r, a) \in Int
    <3> HIDE DEF M, m
    <3>1. Total(m) \in Nat BY <2>2, TotalType
    <3> QED BY <2>2, <3>1
  <2>5. CASE a = row.debit
    <3>1. PlacedOn(a)' = M \cup {u} /\ u \notin M
      BY <1>0, <2>1, <2>3, <2>5 DEF PlacedOn
    <3>2. g \in [M \cup {u} -> Nat] /\ g[u] = row.amount /\ [t \in M |-> g[t]] = m
      BY <1>0, <2>1, <3>1
    <3>3. held'[a] = HeldAfterRelease(r, a) + row.amount
      BY <1>3, <2>5 DEF OpensExternal
    <3> HIDE DEF g, M, m
    <3>4. Total(g) = Total([t \in M |-> g[t]]) + g[u]
      BY <2>2, <3>1, <3>2, TotalAdd
    <3>5. held'[a] = Total(g)
      BY <2>2, <3>2, <3>3, <3>4
    <3> QED BY <3>5 DEF g
  <2>6. CASE a # row.debit
    <3>1. PlacedOn(a)' = M
      BY <1>0, <2>1, <2>3, <2>6 DEF PlacedOn
    <3>2. g = m
      BY <1>0, <2>1, <3>1
    <3>3. held'[a] = HeldAfterRelease(r, a) + 0
      BY <1>3, <2>6 DEF OpensExternal
    <3> HIDE DEF M, m
    <3> QED BY <2>2, <2>4, <3>2, <3>3
  <2> QED BY <2>5, <2>6
<1>4. ASSUME NEW u \in TxIds, NEW row \in Headers, NEW swept \in SUBSET TxIds,
             OpensInternal(u, row, swept)
      PROVE  Goal
  BY <1>0, <1>1, <1>4 DEF OpensInternal, Opens
<1>5. ASSUME NEW u \in TxIds, NEW row \in Headers, Records(u, row) PROVE Goal
  BY <1>0, <1>1, <1>5 DEF Records, holdVars
<1>6. ASSUME NEW u \in TxIds, NEW row \in Headers, Books(u, row) PROVE Goal
  BY <1>0, <1>1, <1>6, BooksRows DEF Books, holdVars
<1>7. ASSUME NEW u \in TxIds, NEW to \in LapseStatuses, NEW holdTo \in LapsedHolds,
             Lapses(u, to, holdTo)
      PROVE  Goal
  <2>1. CASE hold[u] = "PLACED"
    <3>1. header[u] \in Headers /\ header[u].amount \in Nat /\ header' = header
      BY <1>7 DEF Lapses, Base, Shape, RowOK, TypeOK, Headers
    <3>2. held'[a] = held[a] - (IF header[u].debit = a THEN header[u].amount ELSE 0)
      BY <1>0, <1>7, <2>1, <3>1 DEF Lapses, ReleaseHold, TypeOK
    <3>3. \A s \in TxIds : hold'[s] = "PLACED" <=> hold[s] = "PLACED" /\ s # u
      BY <1>0, <1>7, <2>1, ReleaseRowsOf DEF Lapses, LapsedHolds
    <3> QED BY <1>2, <2>1, <3>1, <3>2, <3>3
  <2>2. CASE hold[u] # "PLACED"
    BY <1>1, <1>7, <2>2 DEF Lapses, ReleaseHold
  <2> QED BY <2>1, <2>2
<1>8. ASSUME NEW u \in TxIds, ConfirmsInternal(u) PROVE Goal
  BY <1>1, <1>8 DEF ConfirmsInternal, Confirms
<1>9. ASSUME NEW u \in TxIds, ConfirmsExternal(u) PROVE Goal
  <2>1. /\ hold[u] = "PLACED" /\ header' = header /\ header[u].amount \in Nat
    BY <1>9, ConfirmsRows DEF ConfirmsExternal, Confirms, HoldFollowsTransfer
  <2>2. held'[a] = held[a] - (IF header[u].debit = a THEN header[u].amount ELSE 0)
    BY <1>0, <1>9, <2>1 DEF ConfirmsExternal, TypeOK
  <2>3. \A s \in TxIds : hold'[s] = "PLACED" <=> hold[s] = "PLACED" /\ s # u
    BY <1>0, <1>9, <2>1 DEF ConfirmsExternal, TypeOK
  <2> QED BY <1>2, <2>1, <2>2, <2>3
<1>10. CASE Quiet \/ \E u \in TxIds : Settles(u)
  BY <1>1, <1>10 DEF Quiet, Settles, txVars, holdVars
<1> QED BY <1>3, <1>4, <1>5, <1>6, <1>7, <1>8, <1>9, <1>10 DEF Effect

SumInv == HoldInv /\ RowsFinite /\ HeldIsPlacedSum

LEMMA InitSums == Init => SumInv
<1> SUFFICES ASSUME Init PROVE RowsFinite /\ HeldIsPlacedSum
  BY InitHold DEF SumInv
<1>1. RowsFinite
  <2>1. RowIds = {} BY DEF Init, RowIds
  <2> QED BY <2>1, FS_EmptySet DEF RowsFinite
<1>2. ASSUME NEW a \in Accounts
      PROVE  held[a] = Total([t \in PlacedOn(a) |-> header[t].amount])
  <2> DEFINE f == [t \in PlacedOn(a) |-> header[t].amount]
  <2>1. PlacedOn(a) = {} /\ held[a] = 0 BY DEF Init, PlacedOn
  <2>2. DOMAIN f = {} BY <2>1
  <2> HIDE DEF f
  <2>3. Total(f) = 0 BY <2>2, TotalEmpty
  <2> QED BY <2>1, <2>3 DEF f
<1> QED BY <1>1, <1>2 DEF HeldIsPlacedSum

LEMMA NextSums == SumInv /\ [Next]_vars => SumInv'
<1> SUFFICES ASSUME SumInv, [Next]_vars PROVE SumInv'
  OBVIOUS
<1>1. Base /\ HoldFollowsTransfer /\ Effect
  BY Effects DEF SumInv, HoldInv, SafetyInv
<1> QED BY <1>1, NextHold, RowsFiniteStep, HeldStep DEF SumInv

\* The figure held carries on each account is the sum of the holds placed on it.
THEOREM AlwaysHeldIsPlacedSum == Spec => []HeldIsPlacedSum
<1>1. SumInv => HeldIsPlacedSum BY DEF SumInv
<1> QED BY <1>1, InitSums, NextSums, PTL DEF Spec

-----------------------------------------------------------------------------
(* The reports: what the legs of a set of ledger rows add up to.            *)

Debits(L) == {e \in L : e.delta < 0}
Credits(L) == {e \in L : e.delta > 0}
Of(L, a) == {e \in L : e.account = a}
Sent(L) == Total([e \in Debits(L) |-> -e.delta])
Received(L) == Total([e \in Credits(L) |-> e.delta])

\* The terms of these sums are finitely many naturals.
LEMMA LegTerms ==
  ASSUME NEW L \in SUBSET LedgerEntries, IsFiniteSet(L)
  PROVE  /\ IsFiniteSet(Debits(L)) /\ [e \in Debits(L) |-> -e.delta] \in [Debits(L) -> Nat]
         /\ IsFiniteSet(Credits(L)) /\ [e \in Credits(L) |-> e.delta] \in [Credits(L) -> Nat]
<1>1. IsFiniteSet(Debits(L)) /\ IsFiniteSet(Credits(L))
  <2>1. Debits(L) \subseteq L /\ Credits(L) \subseteq L BY DEF Debits, Credits
  <2> QED BY <2>1, FS_Subset
<1>2. \A e \in Debits(L) : -e.delta \in Nat
  BY DEF Debits, LedgerEntries
<1>3. \A e \in Credits(L) : e.delta \in Nat
  BY DEF Credits, LedgerEntries
<1> QED BY <1>1, <1>2, <1>3

LEMMA AccountsFinite == IsFiniteSet(AllAccounts)
<1>1. IsFiniteSet({OutClearing}) /\ IsFiniteSet({InClearing})
  BY FS_Singleton
<1>2. SystemAccounts = {OutClearing} \cup {InClearing}
  BY DEF SystemAccounts
<1>3. IsFiniteSet(SystemAccounts)
  BY <1>1, <1>2, FS_Union
<1> QED BY <1>3, ReportAssumptions, FS_Union DEF AllAccounts

\* Summed account by account they give what they give at once.
LEMMA ByAccount ==
  ASSUME NEW L \in SUBSET LedgerEntries, IsFiniteSet(L)
  PROVE  /\ Total([a \in AllAccounts |-> Sent(Of(L, a))]) = Sent(L)
         /\ Total([a \in AllAccounts |-> Received(Of(L, a))]) = Received(L)
         /\ Total([a \in AllAccounts |-> Cardinality(Of(L, a))]) = Cardinality(L)
<1>0. \A e \in L : e.account \in AllAccounts
  BY DEF LedgerEntries
<1>1. Total([a \in AllAccounts |-> Sent(Of(L, a))]) = Sent(L)
  <2> DEFINE D == Debits(L)
             f == [e \in D |-> -e.delta]
             key == [e \in D |-> e.account]
  <2>1. IsFiniteSet(D) /\ f \in [D -> Nat] /\ key \in [D -> AllAccounts]
    BY <1>0, LegTerms DEF Debits
  <2>2. ASSUME NEW a PROVE Sent(Of(L, a)) = Total([x \in {y \in D : key[y] = a} |-> f[x]])
    <3>1. Debits(Of(L, a)) = {y \in D : key[y] = a} BY DEF Debits, Of
    <3>2. [e \in Debits(Of(L, a)) |-> -e.delta] = [x \in {y \in D : key[y] = a} |-> f[x]]
      BY <3>1
    <3> QED BY <3>2 DEF Sent
  <2>3. [a \in AllAccounts |-> Sent(Of(L, a))]
          = [a \in AllAccounts |-> Total([x \in {y \in D : key[y] = a} |-> f[x]])]
    BY <2>2
  <2>4. Sent(L) = Total(f) BY DEF Sent
  <2> HIDE DEF D, f, key
  <2>5. Total([a \in AllAccounts |-> Total([x \in {y \in D : key[y] = a} |-> f[x]])]) = Total(f)
    BY <2>1, AccountsFinite, TotalOfParts
  <2> QED BY <2>3, <2>4, <2>5
<1>2. Total([a \in AllAccounts |-> Received(Of(L, a))]) = Received(L)
  <2> DEFINE C == Credits(L)
             f == [e \in C |-> e.delta]
             key == [e \in C |-> e.account]
  <2>1. IsFiniteSet(C) /\ f \in [C -> Nat] /\ key \in [C -> AllAccounts]
    BY <1>0, LegTerms DEF Credits
  <2>2. ASSUME NEW a PROVE Received(Of(L, a)) = Total([x \in {y \in C : key[y] = a} |-> f[x]])
    <3>1. Credits(Of(L, a)) = {y \in C : key[y] = a} BY DEF Credits, Of
    <3>2. [e \in Credits(Of(L, a)) |-> e.delta] = [x \in {y \in C : key[y] = a} |-> f[x]]
      BY <3>1
    <3> QED BY <3>2 DEF Received
  <2>3. [a \in AllAccounts |-> Received(Of(L, a))]
          = [a \in AllAccounts |-> Total([x \in {y \in C : key[y] = a} |-> f[x]])]
    BY <2>2
  <2>4. Received(L) = Total(f) BY DEF Received
  <2> HIDE DEF C, f, key
  <2>5. Total([a \in AllAccounts |-> Total([x \in {y \in C : key[y] = a} |-> f[x]])]) = Total(f)
    BY <2>1, AccountsFinite, TotalOfParts
  <2> QED BY <2>3, <2>4, <2>5
<1>3. Total([a \in AllAccounts |-> Cardinality(Of(L, a))]) = Cardinality(L)
  <2> DEFINE f == [e \in L |-> 1]
             key == [e \in L |-> e.account]
  <2>1. f \in [L -> Nat] /\ key \in [L -> AllAccounts]
    BY <1>0
  <2>2. ASSUME NEW a PROVE Cardinality(Of(L, a)) = Total([x \in {y \in L : key[y] = a} |-> f[x]])
    <3>1. Of(L, a) = {y \in L : key[y] = a} BY DEF Of
    <3>2. [x \in {y \in L : key[y] = a} |-> f[x]] = [x \in Of(L, a) |-> 1]
      BY <3>1
    <3>3. IsFiniteSet(Of(L, a)) BY FS_Subset DEF Of
    <3> QED BY <3>2, <3>3, TotalOfOnes
  <2>3. [a \in AllAccounts |-> Cardinality(Of(L, a))]
          = [a \in AllAccounts |-> Total([x \in {y \in L : key[y] = a} |-> f[x]])]
    BY <2>2
  <2>4. Total(f) = Cardinality(L) BY TotalOfOnes
  <2> HIDE DEF f, key
  <2>5. Total([a \in AllAccounts |-> Total([x \in {y \in L : key[y] = a} |-> f[x]])]) = Total(f)
    BY <2>1, AccountsFinite, TotalOfParts
  <2> QED BY <2>3, <2>4, <2>5
<1> QED BY <1>1, <1>2, <1>3

-----------------------------------------------------------------------------
(* The reports: each posted document has one debit leg and one credit leg.  *)

\* The legs of the ledger, seen from the rows and from the transactions.
LEMMA LegsOfMoved ==
  ASSUME Base, MoneyOnce
  PROVE  /\ \A e \in ledger :
              /\ e.tx \in TxIds /\ Moved(e.tx) /\ header[e.tx].amount \in Nat \ {0}
              /\ \/ e.account = header[e.tx].debit /\ e.delta = -header[e.tx].amount
                 \/ e.account = header[e.tx].credit /\ e.delta = header[e.tx].amount
         /\ \A t \in TxIds : Moved(t) =>
              /\ \E e \in ledger : e.tx = t /\ e.delta = -header[t].amount
              /\ \E e \in ledger : e.tx = t /\ e.delta = header[t].amount
         /\ \A d, e \in ledger : d.tx = e.tx /\ d.delta = e.delta => d = e
<1>1. \A t \in TxIds : Moved(t) =>
        /\ header[t].amount \in Nat \ {0} /\ header[t].debit # header[t].credit
  BY DEF Base, Shape, RowOK, TypeOK, Headers, Moved
<1>2. ASSUME NEW e \in ledger
      PROVE  /\ e.tx \in TxIds /\ Moved(e.tx) /\ header[e.tx].amount \in Nat \ {0}
             /\ \/ e.account = header[e.tx].debit /\ e.delta = -header[e.tx].amount
                \/ e.account = header[e.tx].credit /\ e.delta = header[e.tx].amount
  <2>1. <<e.tx, e.account, e.delta>> \in Due
    BY MoneyParts DEF Booked
  <2>2. PICK t \in TxIds : Moved(t) /\ <<e.tx, e.account, e.delta>> \in Legs(t)
    BY <2>1 DEF Due
  <2> QED BY <1>1, <2>2 DEF Legs
<1>3. ASSUME NEW t \in TxIds, Moved(t), NEW leg \in Legs(t)
      PROVE  \E e \in ledger : <<e.tx, e.account, e.delta>> = leg
  <2>1. leg \in Booked(ledger)
    BY <1>3, MoneyParts DEF Due
  <2> QED BY <2>1 DEF Booked
<1>4. ASSUME NEW t \in TxIds, Moved(t)
      PROVE  /\ \E e \in ledger : e.tx = t /\ e.delta = -header[t].amount
             /\ \E e \in ledger : e.tx = t /\ e.delta = header[t].amount
  <2>1. /\ <<t, header[t].debit, -header[t].amount>> \in Legs(t)
        /\ <<t, header[t].credit, header[t].amount>> \in Legs(t)
    BY DEF Legs
  <2>2. PICK e \in ledger :
          <<e.tx, e.account, e.delta>> = <<t, header[t].debit, -header[t].amount>>
    BY <1>3, <1>4, <2>1
  <2>3. PICK f \in ledger :
          <<f.tx, f.account, f.delta>> = <<t, header[t].credit, header[t].amount>>
    BY <1>3, <1>4, <2>1
  <2> QED BY <2>2, <2>3
<1>5. ASSUME NEW d \in ledger, NEW e \in ledger, d.tx = e.tx, d.delta = e.delta
      PROVE  d = e
  <2>1. d.account = e.account
    BY <1>2, <1>5
  <2> QED BY <1>5, <2>1, MoneyParts DEF OnePerLeg
<1> QED BY <1>2, <1>4, <1>5

\* The documents that settled something are those of the transactions that moved.
Settled(docs) == {t \in docs : DocumentStatus(t) = "POSTED"}

LEMMA SettledMoved ==
  ASSUME OneEventPerOutcome
  PROVE  \A t \in TxIds : Moved(t) <=> t \in Settled(Announced)
<1>1. \A t \in TxIds : ToldOnce(t)
  BY AnnouncedIsOneEvent
<1>2. ASSUME NEW t \in TxIds, Moved(t) PROVE outbox[t] # <<>> /\ outbox[t][1] = "transaction.posted"
  BY <1>1, <1>2 DEF ToldOnce
<1>3. ASSUME NEW t \in TxIds, ~Moved(t), outbox[t] # <<>> PROVE outbox[t][1] # "transaction.posted"
  BY <1>1, <1>3 DEF ToldOnce
<1> QED BY <1>2, <1>3 DEF Settled, Announced, DocumentStatus

\* What was settled is what was sent, what was received, and half the movements.
LEMMA LegsMirrorDocuments ==
  ASSUME Base, MoneyOnce, OneEventPerOutcome, RowsFinite, IsFiniteSet(ledger),
         NEW docs \in SUBSET Announced
  PROVE  LET S == Settled(docs)
             L == ReportedLegs(docs)
             volume == Total([t \in S |-> header[t].amount])
         IN /\ Sent(L) = volume
            /\ Received(L) = volume
            /\ Cardinality(L) = 2 * Cardinality(S)
<1> DEFINE S == Settled(docs)
           L == ReportedLegs(docs)
           D == Debits(L)
           C == Credits(L)
           f == [t \in S |-> header[t].amount]
           d == [e \in D |-> -e.delta]
           c == [e \in C |-> e.delta]
<1>1. /\ S \subseteq TxIds /\ \A t \in S : Moved(t)
      /\ L = {e \in ledger : e.tx \in S}
  BY SettledMoved DEF Settled, Announced, ReportedLegs
<1>2. IsFiniteSet(S) /\ f \in [S -> Nat]
  <2>1. S \subseteq RowIds BY <1>1 DEF RowIds, Moved
  <2>2. \A t \in S : header[t].amount \in Nat
    BY <1>1 DEF Base, Shape, RowOK, TypeOK, Headers, Moved
  <2> QED BY <2>1, <2>2, FS_Subset DEF RowsFinite
<1>3. /\ L \in SUBSET LedgerEntries /\ IsFiniteSet(L)
      /\ IsFiniteSet(D) /\ d \in [D -> Nat] /\ IsFiniteSet(C) /\ c \in [C -> Nat]
  <2>1. L \subseteq LedgerEntries BY <1>1 DEF Base, TypeOK
  <2>2. IsFiniteSet(L) BY <1>1, FS_Subset
  <2> QED BY <2>1, <2>2, LegTerms
<1>4. /\ \A e \in D : e \in ledger /\ e.tx \in S /\ -e.delta = header[e.tx].amount
      /\ \A e \in C : e \in ledger /\ e.tx \in S /\ e.delta = header[e.tx].amount
      /\ \A e \in L : e \in ledger /\ (e \in D \/ e \in C)
  BY <1>1, LegsOfMoved DEF Debits, Credits
<1>5. ASSUME NEW t \in S
      PROVE  (\E e \in D : e.tx = t) /\ (\E e \in C : e.tx = t)
  <2>1. t \in TxIds /\ Moved(t) /\ header[t].amount \in Nat \ {0}
    BY <1>1 DEF Base, Shape, RowOK, TypeOK, Headers, Moved
  <2>2. PICK e \in ledger : e.tx = t /\ e.delta = -header[t].amount
    BY <2>1, LegsOfMoved
  <2>3. PICK g \in ledger : g.tx = t /\ g.delta = header[t].amount
    BY <2>1, LegsOfMoved
  <2> QED BY <1>1, <2>1, <2>2, <2>3 DEF Debits, Credits
<1> DEFINE dTx == [e \in D |-> e.tx]
           cTx == [e \in C |-> e.tx]
<1>6. dTx \in Bijection(D, S)
  <2>1. dTx \in [D -> S] BY <1>4
  <2>2. \A e, g \in D : e.tx = g.tx => e = g
    BY <1>3, <1>4, LegsOfMoved DEF LedgerEntries, Debits
  <2>3. \A t \in S : \E e \in D : dTx[e] = t BY <1>5
  <2> QED BY <2>1, <2>2, <2>3 DEF Bijection, Injection, Surjection, IsInjective
<1>7. cTx \in Bijection(C, S)
  <2>1. cTx \in [C -> S] BY <1>4
  <2>2. \A e, g \in C : e.tx = g.tx => e = g
    BY <1>3, <1>4, LegsOfMoved DEF LedgerEntries, Credits
  <2>3. \A t \in S : \E e \in C : cTx[e] = t BY <1>5
  <2> QED BY <2>1, <2>2, <2>3 DEF Bijection, Injection, Surjection, IsInjective
<1>8. /\ \A e \in D : f[dTx[e]] = d[e]
      /\ \A e \in C : f[cTx[e]] = c[e]
  BY <1>4
<1>9. D \cup C = L /\ D \cap C = {}
  <2>1. \A e \in L : e.delta \in Int BY <1>3 DEF LedgerEntries
  <2> QED BY <1>4, <2>1 DEF Debits, Credits
<1>10. Sent(L) = Total(d) /\ Received(L) = Total(c)
  BY DEF Sent, Received
<1> HIDE DEF S, L, D, C, f, d, c, dTx, cTx
<1>11. Total(d) = Total(f)
  BY <1>2, <1>3, <1>6, <1>8, TotalRenamed
<1>12. Total(c) = Total(f)
  BY <1>2, <1>3, <1>7, <1>8, TotalRenamed
<1>13. Cardinality(D) = Cardinality(S) /\ Cardinality(C) = Cardinality(S)
  BY <1>3, <1>6, <1>7, FS_Bijection DEF ExistsBijection
<1>14. Cardinality(L) = 2 * Cardinality(S)
  <2>1. Cardinality(D \cup C) = Cardinality(D) + Cardinality(C) - Cardinality(D \cap C)
    BY <1>3, FS_Union
  <2>2. Cardinality(D \cap C) = 0
    BY <1>9, FS_EmptySet
  <2>3. Cardinality(S) \in Nat
    BY <1>2, FS_CardinalityType
  <2>4. Cardinality(L) = Cardinality(S) + Cardinality(S) - 0
    BY <1>9, <1>13, <2>1, <2>2
  <2>5. ASSUME NEW n \in Nat PROVE n + n - 0 = 2 * n
    OBVIOUS
  <2> QED BY <2>3, <2>4, <2>5
<1> QED BY <1>10, <1>11, <1>12, <1>14 DEF S, L, f

\* Summed type by type the daily aggregates give what the documents give at once.
LEMMA ByType ==
  ASSUME Base, RowsFinite, OneEventPerOutcome, NEW docs \in SUBSET Announced
  PROVE  LET S == Settled(docs) IN
         /\ Total([y \in TxTypes |-> DailyAggregate(docs, y).totalAmount])
              = Total([t \in S |-> header[t].amount])
         /\ Total([y \in TxTypes |-> DailyAggregate(docs, y).count]) = Cardinality(S)
<1> DEFINE S == Settled(docs)
           f == [t \in S |-> header[t].amount]
           one == [t \in S |-> 1]
           key == [t \in S |-> header[t].type]
<1>1. /\ S \subseteq RowIds /\ IsFiniteSet(S)
      /\ f \in [S -> Nat] /\ one \in [S -> Nat] /\ key \in [S -> TxTypes]
  <2>1. \A t \in S : t \in TxIds /\ Moved(t)
    BY SettledMoved DEF Settled, Announced
  <2>2. \A t \in S : header[t] \in Headers
    BY <2>1 DEF Base, Shape, RowOK, TypeOK, Moved
  <2>3. \A t \in S : header[t].amount \in Nat /\ header[t].type \in TxTypes
    BY <2>2 DEF Headers
  <2>4. S \subseteq RowIds BY <2>1 DEF RowIds, Moved
  <2> QED BY <2>3, <2>4, FS_Subset DEF RowsFinite
<1>2. IsFiniteSet(TxTypes)
  <2>1. TxTypes = ({} \cup {"internal"} \cup {"external_outbound"}) \cup {"external_inbound"}
    BY DEF TxTypes
  <2>2. IsFiniteSet({} \cup {"internal"})
    BY FS_EmptySet, FS_AddElement
  <2>3. IsFiniteSet({} \cup {"internal"} \cup {"external_outbound"})
    BY <2>2, FS_AddElement
  <2> QED BY <2>1, <2>3, FS_AddElement
<1>3. ASSUME NEW y \in TxTypes
      PROVE  /\ DailyAggregate(docs, y).totalAmount = Total([x \in {z \in S : key[z] = y} |-> f[x]])
             /\ DailyAggregate(docs, y).count = Total([x \in {z \in S : key[z] = y} |-> one[x]])
  <2> DEFINE M == {t \in docs : DocumentStatus(t) = "POSTED" /\ header[t].type = y}
  <2>1. M = {z \in S : key[z] = y} BY DEF Settled
  <2>2. /\ [t \in M |-> header[t].amount] = [x \in {z \in S : key[z] = y} |-> f[x]]
        /\ [t \in M |-> 1] = [x \in {z \in S : key[z] = y} |-> one[x]]
    BY <2>1
  <2>3. IsFiniteSet(M) BY <1>1, <2>1, FS_Subset
  <2>4. /\ DailyAggregate(docs, y).totalAmount = Total([t \in M |-> header[t].amount])
        /\ DailyAggregate(docs, y).count = Cardinality(M)
    BY DEF DailyAggregate
  <2> HIDE DEF M
  <2>5. Cardinality(M) = Total([t \in M |-> 1]) BY <2>3, TotalOfOnes
  <2> QED BY <2>2, <2>4, <2>5
<1>4. /\ [y \in TxTypes |-> DailyAggregate(docs, y).totalAmount]
           = [y \in TxTypes |-> Total([x \in {z \in S : key[z] = y} |-> f[x]])]
      /\ [y \in TxTypes |-> DailyAggregate(docs, y).count]
           = [y \in TxTypes |-> Total([x \in {z \in S : key[z] = y} |-> one[x]])]
  BY <1>3
<1>5. Total(one) = Cardinality(S) BY <1>1, TotalOfOnes
<1> HIDE DEF S, f, one, key
<1>6. /\ Total([y \in TxTypes |-> Total([x \in {z \in S : key[z] = y} |-> f[x]])]) = Total(f)
      /\ Total([y \in TxTypes |-> Total([x \in {z \in S : key[z] = y} |-> one[x]])]) = Total(one)
  BY <1>1, <1>2, TotalOfParts
<1> QED BY <1>4, <1>5, <1>6 DEF S, f

\* The two reports agree on any documents there are.
LEMMA ReportsMatch ==
  ASSUME Base, MoneyOnce, OneEventPerOutcome, RowsFinite, IsFiniteSet(ledger),
         NEW docs \in SUBSET Announced
  PROVE  LET volume == Total([y \in TxTypes |-> DailyAggregate(docs, y).totalAmount])
             movements == Total([y \in TxTypes |-> DailyAggregate(docs, y).count])
         IN /\ Total([a \in AllAccounts |-> AccountSummary(docs, a).totalDebited]) = volume
            /\ Total([a \in AllAccounts |-> AccountSummary(docs, a).totalCredited]) = volume
            /\ Total([a \in AllAccounts |-> AccountSummary(docs, a).txnCount]) = 2 * movements
<1> DEFINE L == ReportedLegs(docs)
<1>1. L \in SUBSET LedgerEntries /\ IsFiniteSet(L)
  <2>1. L \subseteq ledger BY DEF ReportedLegs
  <2> QED BY <2>1, FS_Subset DEF Base, TypeOK
<1>2. ASSUME NEW a
      PROVE  /\ AccountSummary(docs, a).totalDebited = Sent(Of(L, a))
             /\ AccountSummary(docs, a).totalCredited = Received(Of(L, a))
             /\ AccountSummary(docs, a).txnCount = Cardinality(Of(L, a))
  BY DEF AccountSummary, Sent, Received, Of, Debits, Credits
<1>3. /\ [a \in AllAccounts |-> AccountSummary(docs, a).totalDebited]
           = [a \in AllAccounts |-> Sent(Of(L, a))]
      /\ [a \in AllAccounts |-> AccountSummary(docs, a).totalCredited]
           = [a \in AllAccounts |-> Received(Of(L, a))]
      /\ [a \in AllAccounts |-> AccountSummary(docs, a).txnCount]
           = [a \in AllAccounts |-> Cardinality(Of(L, a))]
  BY <1>2
<1>4. /\ Sent(L) = Total([t \in Settled(docs) |-> header[t].amount])
      /\ Received(L) = Total([t \in Settled(docs) |-> header[t].amount])
      /\ Cardinality(L) = 2 * Cardinality(Settled(docs))
  BY LegsMirrorDocuments
<1> HIDE DEF L
<1>5. /\ Total([a \in AllAccounts |-> Sent(Of(L, a))]) = Sent(L)
      /\ Total([a \in AllAccounts |-> Received(Of(L, a))]) = Received(L)
      /\ Total([a \in AllAccounts |-> Cardinality(Of(L, a))]) = Cardinality(L)
  BY <1>1, ByAccount
<1>6. /\ Total([y \in TxTypes |-> DailyAggregate(docs, y).totalAmount])
           = Total([t \in Settled(docs) |-> header[t].amount])
      /\ Total([y \in TxTypes |-> DailyAggregate(docs, y).count]) = Cardinality(Settled(docs))
  BY ByType
<1> QED BY <1>3, <1>4, <1>5, <1>6

-----------------------------------------------------------------------------
(* The reports: the legs of the ledger explain the balances.                *)

Opened(a) == IF a \in Accounts THEN OpeningBalance[a] ELSE 0

BooksBalance ==
  \A a \in AllAccounts :
    balance[a] = Opened(a) + Received(Of(ledger, a)) - Sent(Of(ledger, a))

\* One more leg adds to one of the two sums.
LEMMA LegAdded ==
  ASSUME NEW L \in SUBSET LedgerEntries, IsFiniteSet(L), NEW x \in LedgerEntries, x \notin L
  PROVE  /\ x.delta < 0 => Sent(L \cup {x}) = Sent(L) - x.delta
                           /\ Received(L \cup {x}) = Received(L)
         /\ x.delta > 0 => Received(L \cup {x}) = Received(L) + x.delta
                           /\ Sent(L \cup {x}) = Sent(L)
<1> DEFINE K == L \cup {x}
<1>0. /\ x.delta \in Int
      /\ K \in SUBSET LedgerEntries /\ IsFiniteSet(K)
      /\ Sent(L) \in Nat /\ Received(L) \in Nat
  <2>1. IsFiniteSet(K) BY FS_AddElement
  <2>2. Sent(L) \in Nat /\ Received(L) \in Nat
    BY LegTerms, TotalType DEF Sent, Received
  <2> QED BY <2>1, <2>2 DEF LedgerEntries
<1>1. ASSUME x.delta < 0
      PROVE  Sent(K) = Sent(L) - x.delta /\ Received(K) = Received(L)
  <2> DEFINE D == Debits(L)
             f == [e \in Debits(K) |-> -e.delta]
  <2>1. Debits(K) = D \cup {x} /\ x \notin D /\ Credits(K) = Credits(L)
    BY <1>0, <1>1 DEF Debits, Credits
  <2>2. IsFiniteSet(D) /\ f \in [D \cup {x} -> Nat]
    BY <1>0, <2>1, LegTerms
  <2>3. f[x] = -x.delta /\ [e \in D |-> f[e]] = [e \in D |-> -e.delta]
    BY <2>1
  <2>4. Sent(K) = Total(f) /\ Sent(L) = Total([e \in D |-> -e.delta])
    BY DEF Sent
  <2> HIDE DEF D, f
  <2>5. Total(f) = Total([e \in D |-> f[e]]) + f[x]
    BY <2>1, <2>2, TotalAdd
  <2> QED BY <1>0, <2>1, <2>3, <2>4, <2>5 DEF Received
<1>2. ASSUME x.delta > 0
      PROVE  Received(K) = Received(L) + x.delta /\ Sent(K) = Sent(L)
  <2> DEFINE C == Credits(L)
             f == [e \in Credits(K) |-> e.delta]
  <2>1. Credits(K) = C \cup {x} /\ x \notin C /\ Debits(K) = Debits(L)
    BY <1>0, <1>2 DEF Debits, Credits
  <2>2. IsFiniteSet(C) /\ f \in [C \cup {x} -> Nat]
    BY <1>0, <2>1, LegTerms
  <2>3. f[x] = x.delta /\ [e \in C |-> f[e]] = [e \in C |-> e.delta]
    BY <2>1
  <2>4. Received(K) = Total(f) /\ Received(L) = Total([e \in C |-> e.delta])
    BY DEF Received
  <2> HIDE DEF C, f
  <2>5. Total(f) = Total([e \in C |-> f[e]]) + f[x]
    BY <2>1, <2>2, TotalAdd
  <2> QED BY <1>0, <2>1, <2>3, <2>4, <2>5 DEF Sent
<1> QED BY <1>1, <1>2

LEMMA MovesExplained ==
  ASSUME TypeOK, IsFiniteSet(ledger), BooksBalance, NEW t \in TxIds,
         NEW d \in AllAccounts, NEW c \in AllAccounts, d # c, NEW m \in Nat \ {0},
         MoveMoney(t, d, c, m), \A e \in ledger : e.tx # t
  PROVE  IsFiniteSet(ledger)' /\ BooksBalance'
<1> DEFINE x == [tx |-> t, account |-> d, delta |-> -m, after |-> balance[d] - m]
           y == [tx |-> t, account |-> c, delta |-> m, after |-> balance[c] + m]
<1>1. /\ balance[d] \in Int /\ balance[c] \in Int
      /\ ledger' = (ledger \cup {x}) \cup {y}
      /\ \A a \in AllAccounts :
           balance'[a] = IF a = d THEN balance[a] - m
                         ELSE IF a = c THEN balance[a] + m ELSE balance[a]
  BY MoneyRows DEF MoveMoney, TypeOK
<1>2. /\ x \in LedgerEntries /\ x \notin ledger /\ x.account = d /\ x.delta = -m
      /\ y \in LedgerEntries /\ y \notin ledger /\ y.account = c /\ y.delta = m
  BY <1>1 DEF LedgerEntries
<1>3. IsFiniteSet(ledger)'
  <2> HIDE DEF x, y
  <2>1. IsFiniteSet(ledger \cup {x}) BY FS_AddElement
  <2> QED BY <1>1, <2>1, FS_AddElement
<1> HIDE DEF x, y
<1>4. ASSUME NEW a \in AllAccounts
      PROVE  balance'[a] = Opened(a) + Received(Of(ledger', a)) - Sent(Of(ledger', a))
  <2> DEFINE L == Of(ledger, a)
  <2>1. /\ L \in SUBSET LedgerEntries /\ IsFiniteSet(L) /\ x \notin L /\ y \notin L
        /\ balance[a] = Opened(a) + Received(L) - Sent(L)
    <3>1. L \subseteq ledger BY DEF Of
    <3> QED BY <1>2, <3>1, FS_Subset DEF BooksBalance, TypeOK
  <2>2. Opened(a) \in Int /\ Received(L) \in Int /\ Sent(L) \in Int
    <3>1. Received(L) \in Nat /\ Sent(L) \in Nat
      <4> HIDE DEF L
      <4> QED BY <2>1, LegTerms, TotalType DEF Sent, Received
    <3> QED BY <3>1, CoreAssumptions DEF Opened
  <2>3. CASE a = d
    <3>1. Of(ledger', a) = L \cup {x} BY <1>1, <1>2, <2>3 DEF Of
    <3> HIDE DEF L
    <3>2. Sent(L \cup {x}) = Sent(L) - x.delta /\ Received(L \cup {x}) = Received(L)
      BY <1>2, <2>1, LegAdded
    <3>3. Sent(Of(ledger', a)) = Sent(L) + m /\ Received(Of(ledger', a)) = Received(L)
      BY <1>2, <2>2, <3>1, <3>2
    <3>4. balance'[a] = balance[a] - m
      BY <1>1, <2>3
    <3> QED BY <2>1, <2>2, <3>3, <3>4
  <2>4. CASE a = c
    <3>1. Of(ledger', a) = L \cup {y} BY <1>1, <1>2, <2>4 DEF Of
    <3> HIDE DEF L
    <3>2. Received(L \cup {y}) = Received(L) + y.delta /\ Sent(L \cup {y}) = Sent(L)
      BY <1>2, <2>1, LegAdded
    <3>3. Sent(Of(ledger', a)) = Sent(L) /\ Received(Of(ledger', a)) = Received(L) + m
      BY <1>2, <2>2, <3>1, <3>2
    <3>4. balance'[a] = balance[a] + m
      BY <1>1, <2>4
    <3> QED BY <2>1, <2>2, <3>3, <3>4
  <2>5. CASE a # d /\ a # c
    <3>1. Of(ledger', a) = L BY <1>1, <1>2, <2>5 DEF Of
    <3> QED BY <1>1, <2>1, <2>5, <3>1
  <2> QED BY <2>3, <2>4, <2>5
<1> QED BY <1>3, <1>4 DEF BooksBalance

LEMMA BooksBalanceStep ==
  ASSUME Base, MoneyOnce, IsFiniteSet(ledger), BooksBalance, Effect
  PROVE  IsFiniteSet(ledger)' /\ BooksBalance'
<1> DEFINE Goal == IsFiniteSet(ledger)' /\ BooksBalance'
<1>1. ASSUME UNCHANGED <<balance, ledger>> PROVE Goal
  BY <1>1 DEF BooksBalance
<1>2. ASSUME NEW u \in TxIds, Confirms(u) PROVE Goal
  <2>1. /\ TypeOK /\ header[u].debit \in AllAccounts /\ header[u].credit \in AllAccounts
        /\ header[u].amount \in Nat \ {0} /\ header[u].debit # header[u].credit
        /\ MoveMoney(u, header[u].debit, header[u].credit, header[u].amount)
    <3>1. RowOK(u) /\ status[u] = "PENDING" /\ header[u] \in Headers /\ header[u].amount \in Nat
      BY <1>2, ConfirmsRows
    <3>2. header[u].amount > 0 /\ header[u].debit # header[u].credit
      BY <3>1 DEF RowOK
    <3> QED BY <1>2, <3>1, <3>2 DEF Confirms, PostPending, Base, Headers
  <2>2. \A e \in ledger : e.tx # u
    BY <1>2, ConfirmsRows, LegsOfMoved DEF Moved
  <2> QED BY <2>1, <2>2, MovesExplained
<1>3. ASSUME NEW u \in TxIds, NEW row \in Headers, Books(u, row) PROVE Goal
  <2>1. /\ TypeOK /\ row.debit \in AllAccounts /\ row.credit \in AllAccounts
        /\ row.amount \in Nat \ {0} /\ row.debit # row.credit
        /\ MoveMoney(u, row.debit, row.credit, row.amount)
    BY <1>3 DEF Books, PostFresh, Movement, Base, Headers
  <2>2. \A e \in ledger : e.tx # u
    BY <1>3, BooksRows, LegsOfMoved DEF Moved
  <2> QED BY <2>1, <2>2, MovesExplained
<1>4. ASSUME NEW u \in TxIds, NEW row \in Headers, NEW swept \in SUBSET TxIds,
             Opens(u, row, swept)
      PROVE  Goal
  BY <1>1, <1>4 DEF Opens, bookVars
<1>5. CASE Quiet \/ \E u \in TxIds : Settles(u)
  BY <1>1, <1>5 DEF Quiet, Settles, bookVars
<1>6. ASSUME NEW u \in TxIds, NEW row \in Headers, Records(u, row) PROVE Goal
  BY <1>1, <1>6 DEF Records
<1>7. ASSUME NEW u \in TxIds, NEW to \in LapseStatuses, NEW holdTo, Lapses(u, to, holdTo)
      PROVE  Goal
  BY <1>1, <1>7 DEF Lapses
<1> QED BY <1>2, <1>3, <1>4, <1>5, <1>6, <1>7
        DEF Effect, OpensInternal, OpensExternal, ConfirmsInternal, ConfirmsExternal

ReportInv == SafetyInv /\ MoneyOnce /\ RowsFinite /\ IsFiniteSet(ledger) /\ BooksBalance

LEMMA InitReports == Init => ReportInv
<1> SUFFICES ASSUME Init PROVE IsFiniteSet(ledger) /\ BooksBalance
  BY InitSafety, InitMoney, InitSums DEF ReportInv, SumInv
<1>1. ledger = {} BY DEF Init
<1>2. IsFiniteSet(ledger) BY <1>1, FS_EmptySet
<1>3. ASSUME NEW a \in AllAccounts
      PROVE  balance[a] = Opened(a) + Received(Of(ledger, a)) - Sent(Of(ledger, a))
  <2> DEFINE f == [e \in Debits(Of(ledger, a)) |-> -e.delta]
             g == [e \in Credits(Of(ledger, a)) |-> e.delta]
  <2>1. Debits(Of(ledger, a)) = {} /\ Credits(Of(ledger, a)) = {}
    BY <1>1 DEF Of, Debits, Credits
  <2>2. DOMAIN f = {} /\ DOMAIN g = {} BY <2>1
  <2>3. Sent(Of(ledger, a)) = Total(f) /\ Received(Of(ledger, a)) = Total(g)
    BY DEF Sent, Received
  <2> HIDE DEF f, g
  <2>4. Total(f) = 0 /\ Total(g) = 0 BY <2>2, TotalEmpty
  <2>5. balance[a] = Opened(a) BY DEF Init, Opened
  <2>6. Opened(a) \in Int BY CoreAssumptions DEF Opened
  <2> QED BY <2>3, <2>4, <2>5, <2>6
<1> QED BY <1>2, <1>3 DEF BooksBalance

LEMMA NextReports == ReportInv /\ [Next]_vars => ReportInv'
<1> SUFFICES ASSUME ReportInv, [Next]_vars PROVE ReportInv'
  OBVIOUS
<1>1. Base /\ Effect
  BY Effects DEF ReportInv, SafetyInv
<1> QED BY <1>1, NextSafety, MoneyOnceStep, RowsFiniteStep, BooksBalanceStep DEF ReportInv

LEMMA ReportsOfInv == ReportInv => ReportsAgree
<1> SUFFICES ASSUME ReportInv PROVE ReportsAgree
  OBVIOUS
<1>1. Base /\ MoneyOnce /\ OneEventPerOutcome /\ RowsFinite /\ IsFiniteSet(ledger) /\ BooksBalance
  BY DEF ReportInv, SafetyInv
<1>2. ASSUME NEW a \in AllAccounts
      PROVE  LET s == AccountSummary(Announced, a) IN
             balance[a] = (IF a \in Accounts THEN OpeningBalance[a] ELSE 0)
                          + s.totalCredited - s.totalDebited
  <2>1. ReportedLegs(Announced) = ledger
    BY <1>1, LegsOfMoved, SettledMoved DEF ReportedLegs, Settled
  <2>2. /\ AccountSummary(Announced, a).totalDebited = Sent(Of(ledger, a))
        /\ AccountSummary(Announced, a).totalCredited = Received(Of(ledger, a))
    BY <2>1 DEF AccountSummary, Sent, Received, Of, Debits, Credits
  <2> QED BY <1>1, <2>2 DEF BooksBalance, Opened
<1>3. ASSUME NEW docs \in SUBSET Announced
      PROVE  LET volume == Total([y \in TxTypes |-> DailyAggregate(docs, y).totalAmount])
                 movements == Total([y \in TxTypes |-> DailyAggregate(docs, y).count])
             IN /\ Total([a \in AllAccounts |-> AccountSummary(docs, a).totalDebited]) = volume
                /\ Total([a \in AllAccounts |-> AccountSummary(docs, a).totalCredited]) = volume
                /\ Total([a \in AllAccounts |-> AccountSummary(docs, a).txnCount]) = 2 * movements
  BY <1>1, ReportsMatch
<1> QED BY <1>2, <1>3 DEF ReportsAgree

\* The two analytics reports agree with each other on whatever events have arrived,
\* and once all have, what they say was sent and received explains every balance.
THEOREM AlwaysReportsAgree == Spec => []ReportsAgree
<1> QED BY InitReports, NextReports, ReportsOfInv, PTL DEF Spec

====================================================================================
