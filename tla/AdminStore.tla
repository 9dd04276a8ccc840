------------------------------ MODULE AdminStore ------------------------------
(***************************************************************************)
(* The server the console of the administrators is run and tested against: *)
(* the request handlers of web/admin/src/mocks and the state behind them.  *)
(* A handler runs to its end without giving up the thread, so that it is   *)
(* one step.  The audit log is the exception: the stub only pages through  *)
(* rows it is given, and what adds to them is the audit log of the balance *)
(* service, whose rows are in the order of their created_at.               *)
(***************************************************************************)
EXTENDS Integers, Sequences, FiniteSets

CONSTANTS
  Admins,
  Me,             \* the one who is signed in at the console
  Fixture,        \* the transactions there are at first
  Accounts,
  Scopes, Caps,   \* rows of limits, and what their caps may be
  MaxRows,        \* transactions there can be
  MaxApprovals,
  MaxEntries,     \* rows of the audit log
  None

ASSUME AdminAssumptions ==
  /\ {MaxRows, MaxApprovals, MaxEntries} \subseteq Nat
  /\ Len(Fixture) <= MaxRows
  /\ Me \in Admins
  /\ None \notin Admins \union Accounts \union Caps \union Nat

VARIABLES
  transactions,   \* in the order they were stored
  approvals,
  account,        \* the status of each account
  limits,         \* the caps of each row, None if there is no such row
  log             \* the rows of the audit log, by their place in the order of created_at

adminVars == <<transactions, approvals, account, limits, log>>

Transaction == [type : {"internal", "external_inbound", "external_outbound"},
                status : {"PENDING", "POSTED", "REVERSED"},
                reverses : 0..MaxRows]     \* 0 if it reverses none

Approval == [status : {"PENDING", "EXECUTED", "REJECTED"}, target : 1..MaxRows,
             maker : Admins, checker : Admins \union {None}]

StoreTypeOK ==
  /\ transactions \in Seq(Transaction) /\ Len(transactions) <= MaxRows
  /\ approvals \in Seq(Approval) /\ Len(approvals) <= MaxApprovals
  /\ account \in [Accounts -> {"active", "frozen"}]
  /\ limits \in [Scopes -> Caps \union {None}]
  /\ log \subseteq 1..MaxEntries

\* The fixtures: a proposal by another administrator waits.
StoreInit ==
  /\ transactions = Fixture
  /\ \E admin \in Admins \ {Me} :
       approvals = <<[status |-> "PENDING", target |-> 1, maker |-> admin, checker |-> None]>>
  /\ account = [a \in Accounts |-> "active"]
  /\ limits = [s \in Scopes |-> None]

(***************************************************************************)
(* Answers.                                                                *)
(***************************************************************************)
Codes == {"TRANSACTION_NOT_REVERSIBLE", "REVERSAL_ALREADY_REQUESTED", "APPROVAL_NOT_PENDING",
          "SELF_APPROVAL_FORBIDDEN", "FETCH_ERROR"}
Done == [ok |-> TRUE, code |-> None]
Refuses(code) == [ok |-> FALSE, code |-> code]
Refuse(code, answer) == answer = Refuses(code) /\ UNCHANGED adminVars

(***************************************************************************)
(* Maker and checker.                                                      *)
(***************************************************************************)
IsReversible(t) == t.status = "POSTED" /\ t.type \in {"internal", "external_inbound"}

\* Nothing of the fixtures was reversed before, and what a proposal waits for can be.
ASSUME FixtureAssumptions ==
  /\ Fixture \in Seq(Transaction) /\ Fixture # <<>> /\ IsReversible(Fixture[1])
  /\ \A t \in DOMAIN Fixture : Fixture[t].status # "REVERSED" /\ Fixture[t].reverses = 0
  /\ MaxApprovals > 0

\* Mutant of Blocking: a proposal that waits does not stand in the way of another.
BlockingExecuted(i, id) == approvals[i].target = id /\ approvals[i].status = "EXECUTED"

\* The approvals that stand in the way of a proposal.
Blocking(i, id) == approvals[i].target = id /\ approvals[i].status \in {"PENDING", "EXECUTED"}

ProposeReversal(admin, id, answer) ==
  \/ ~IsReversible(transactions[id]) /\ Refuse("TRANSACTION_NOT_REVERSIBLE", answer)
  \/ /\ IsReversible(transactions[id])
     /\ \E i \in DOMAIN approvals : Blocking(i, id)
     /\ Refuse("REVERSAL_ALREADY_REQUESTED", answer)
  \/ /\ IsReversible(transactions[id])
     /\ ~\E i \in DOMAIN approvals : Blocking(i, id)
     /\ Len(approvals) < MaxApprovals
     /\ approvals' = Append(approvals, [status |-> "PENDING", target |-> id,
                                        maker |-> admin, checker |-> None])
     /\ answer = Done
     /\ UNCHANGED <<transactions, account, limits, log>>

\* What stands in the way of a decision, None if nothing does.
NotDecidable(admin, i) ==
  IF approvals[i].status # "PENDING" THEN "APPROVAL_NOT_PENDING"
  ELSE IF approvals[i].maker = admin THEN "SELF_APPROVAL_FORBIDDEN" ELSE None

Decide(admin, i, verdict) ==
  approvals' = [approvals EXCEPT ![i].status = verdict, ![i].checker = admin]

\* The compensating transaction is of the target's type, and posted at once.
Compensate(id) ==
  IF transactions[id].status = "POSTED"
  THEN /\ Len(transactions) < MaxRows
       /\ transactions' = Append([transactions EXCEPT ![id].status = "REVERSED"],
                                 [type |-> transactions[id].type, status |-> "POSTED",
                                  reverses |-> id])
  ELSE UNCHANGED transactions

ApproveReversal(admin, i, answer) ==
  \/ NotDecidable(admin, i) # None /\ Refuse(NotDecidable(admin, i), answer)
  \/ /\ NotDecidable(admin, i) = None
     /\ Decide(admin, i, "EXECUTED")
     /\ Compensate(approvals[i].target)
     /\ answer = Done
     /\ UNCHANGED <<account, limits, log>>

RejectReversal(admin, i, answer) ==
  \/ NotDecidable(admin, i) # None /\ Refuse(NotDecidable(admin, i), answer)
  \/ /\ NotDecidable(admin, i) = None
     /\ Decide(admin, i, "REJECTED")
     /\ answer = Done
     /\ UNCHANGED <<transactions, account, limits, log>>

(***************************************************************************)
(* Accounts and limits.  An account that is frozen may be frozen again.    *)
(***************************************************************************)
SetAccountStatus(a, s, answer) ==
  /\ account' = [account EXCEPT ![a] = s]
  /\ answer = Done
  /\ UNCHANGED <<transactions, approvals, limits, log>>

\* Every cap is written, one left out as uncapped.
UpsertLimits(s, caps, answer) ==
  /\ limits' = [limits EXCEPT ![s] = caps]
  /\ answer = Done
  /\ UNCHANGED <<transactions, approvals, account, log>>

\* A row is added.  Its created_at is when its transaction began, so that it may
\* come in after one that is newer, and there is no telling where its place is.
Record ==
  /\ \E at \in 1..MaxEntries \ log : log' = log \union {at}
  /\ UNCHANGED <<transactions, approvals, account, limits>>

(***************************************************************************)
(* What the reads return.  None of the lists is longer than a page.        *)
(***************************************************************************)
PendingApprovals == {i \in DOMAIN approvals : approvals[i].status = "PENDING"}

\* How many of the rows are newer than k.
Newer(k, rows) == Cardinality({j \in rows : j > k})

\* Mutant of AuditPage: the offset counts pages from one.
AuditPageFromOne(page, size, rows) ==
  {k \in rows : (page + 1) * size <= Newer(k, rows) /\ Newer(k, rows) < (page + 2) * size}

\* Newest first, past the offset, as many as fit.
AuditPage(page, size, rows) ==
  {k \in rows : page * size <= Newer(k, rows) /\ Newer(k, rows) < (page + 1) * size}
===============================================================================
