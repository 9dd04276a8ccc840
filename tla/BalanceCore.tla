----------------------------- MODULE BalanceCore -----------------------------
(***************************************************************************)
(* The state of the balance service and the posting reducer.               *)
(*                                                                         *)
(* The Postgres tables are functions over a bounded pool of row ids; a row *)
(* of "transaction" is split into its status and its immutable header, and *)
(* the hold row (at most one per transaction) into its status and its      *)
(* external_ref.  A committed database transaction is one step.  Where a   *)
(* request reads something before it takes the lock that protects it, or   *)
(* works in several database transactions, the request is a process of     *)
(* Procs whose progress is req[p], and other steps fall in between.        *)
(***************************************************************************)
EXTENDS Integers, Sequences

CONSTANTS
  Users,            \* customers
  Accounts,         \* customer accounts
  Owner,            \* Owner[a]: the user an account belongs to
  OpeningBalance,   \* OpeningBalance[a]: seeded balance of a customer account
  Destinations,     \* customer accounts an internal transfer may be sent to
  OutClearing,      \* clearing:rail-outbound
  InClearing,       \* clearing:rail-inbound
  RailActor,        \* initiated_by of a movement the rail asked for
  Admins,           \* back-office actors
  TxIds,            \* BOUND: pool of transaction ids
  Procs,            \* BOUND: requests in progress at the same time
  Amounts,          \* BOUND: amounts a caller may ask for, in minor units
  Refs,             \* BOUND: rail references of inbound credits
  ApprovalIds,      \* BOUND: pool of approval-request ids
  MaxClock,         \* BOUND: the database clock stops here
  PendingTtl,       \* lifetime of a PENDING transfer, in clock ticks
  TicksPerMs,       \* database clock ticks in one JavaScript millisecond
  CoolingOffUntil,  \* instant the enrolled payee may first be paid
  None              \* SQL NULL

SystemAccounts == {OutClearing, InClearing}
AllAccounts == Accounts \cup SystemAccounts
Initiators == Users \cup Admins \cup {RailActor}

TxTypes == {"internal", "external_outbound", "external_inbound"}
TxStatuses == {"NONE", "PENDING", "POSTED", "FAILED", "REVERSED", "EXPIRED", "CANCELLED"}
HoldStatuses == {"NONE", "PLACED", "SETTLED", "RELEASED", "EXPIRED"}
TransactionEvents == {"transaction.posted", "transaction.failed"}
ApprovalStatuses == {"PENDING", "EXECUTED", "REJECTED"}
AuditActions == {"account.freeze", "account.unfreeze",
                 "reversal.proposed", "reversal.executed", "reversal.rejected"}

\* The columns of a transaction row that never change after the insert.
Headers ==
  [type : TxTypes, amount : Nat, debit : AllAccounts, credit : AllAccounts,
   by : Initiators, reverses : TxIds \cup {None}, expires : Nat]

LedgerEntries == [tx : TxIds, account : AllAccounts, delta : Int, after : Int]

ApprovalRequests ==
  [status : ApprovalStatuses, target : TxIds, maker : Admins, checker : Admins \cup {None}]

\* What a request in progress remembers between two of its database steps.
Idle == [pc |-> "idle"]
Requests ==
  {Idle}
  \cup [pc : {"prior"}, src : Accounts, amt : Amounts, now : Nat, prior : TxIds \cup {None}]
  \cup [pc : {"swept"}, type : {"internal", "external_outbound"}, src : Accounts,
        dst : AllAccounts, amt : Amounts, now : Nat, prior : TxIds \cup {None},
        swept : SUBSET TxIds]
  \cup [pc : {"failing"}, src : Accounts, amt : Amounts]
  \cup [pc : {"loaded", "authorized", "refused"}, tx : TxIds]
  \cup [pc : {"proposing"}, tx : TxIds, maker : Admins]

ASSUME CoreAssumptions ==
  /\ Owner \in [Accounts -> Users]
  /\ OpeningBalance \in [Accounts -> Nat]
  /\ Destinations \subseteq Accounts
  /\ Amounts \subseteq Nat \ {0}
  /\ OutClearing # InClearing
  /\ OutClearing \notin Accounts /\ InClearing \notin Accounts
  /\ RailActor \notin Users /\ RailActor \notin Admins
  /\ Users \cap Admins = {}
  /\ None \notin TxIds /\ None \notin Headers /\ None \notin ApprovalRequests
  /\ None \notin Admins
  /\ MaxClock \in Nat /\ PendingTtl \in Nat \ {0} /\ TicksPerMs \in Nat \ {0}
  /\ CoolingOffUntil \in Nat

VARIABLES
  clock,       \* the database clock, now()
  balance,     \* account.balance
  held,        \* account.held
  frozen,      \* the accounts whose status is 'frozen'
  status,      \* transaction.status; "NONE": the id is not used yet
  header,      \* the rest of the transaction row
  hold,        \* hold.status of the transaction's hold
  railRef,     \* hold.external_ref is recorded
  ledger,      \* ledger_entry rows
  outbox,      \* outbox[t]: the events written for transaction t, in order
  codes,       \* users with an active one-time code
  inboundKey,  \* idempotency key (owner, rail-inbound:<ref>) -> its transaction
  approval,    \* approval_request rows
  audit,       \* audit_log rows, as <<action, target>>
  req          \* requests in progress

accountVars == <<balance, held, frozen>>
txVars == <<status, header>>
holdVars == <<hold, railRef>>
bookVars == <<ledger, outbox>>
adminVars == <<approval, audit>>
vars == <<clock, balance, held, frozen, status, header, hold, railRef, ledger,
          outbox, codes, inboundKey, approval, audit, req>>

TypeOK ==
  /\ clock \in Nat
  /\ balance \in [AllAccounts -> Int]
  /\ held \in [Accounts -> Int]
  /\ frozen \in SUBSET Accounts
  /\ status \in [TxIds -> TxStatuses]
  /\ header \in [TxIds -> Headers \cup {None}]
  /\ hold \in [TxIds -> HoldStatuses]
  /\ railRef \in [TxIds -> BOOLEAN]
  /\ ledger \subseteq LedgerEntries
  /\ outbox \in [TxIds -> Seq(TransactionEvents)]
  /\ codes \in SUBSET Users
  /\ inboundKey \in [Users \X Refs -> TxIds \cup {None}]
  /\ approval \in [ApprovalIds -> ApprovalRequests \cup {None}]
  /\ audit \subseteq AuditActions \X (Accounts \cup TxIds \cup ApprovalIds)
  /\ req \in [Procs -> Requests]

Init ==
  /\ clock = 0
  /\ balance = [a \in AllAccounts |-> IF a \in Accounts THEN OpeningBalance[a] ELSE 0]
  /\ held = [a \in Accounts |-> 0]
  /\ frozen = {}
  /\ status = [t \in TxIds |-> "NONE"]
  /\ header = [t \in TxIds |-> None]
  /\ hold = [t \in TxIds |-> "NONE"]
  /\ railRef = [t \in TxIds |-> FALSE]
  /\ ledger = {}
  /\ outbox = [t \in TxIds |-> <<>>]
  /\ codes = {}
  /\ inboundKey = [k \in Users \X Refs |-> None]
  /\ approval = [i \in ApprovalIds |-> None]
  /\ audit = {}
  /\ req = [p \in Procs |-> Idle]

-----------------------------------------------------------------------------
(* Row locks.  Only an initiate keeps locks across steps: from its sweep    *)
(* (rows it flipped, and the source account of the prior external pending   *)
(* it is releasing) to its commit.                                          *)

IsExternal(t) == header[t].type = "external_outbound"

RowLocked(t) == \E p \in Procs : req[p].pc = "swept" /\ t \in req[p].swept

LocksAccount(r, a) ==
  /\ r.pc = "swept"
  /\ r.prior # None
  /\ IsExternal(r.prior)
  /\ header[r.prior].debit = a

AccountLocked(a) == \E p \in Procs : LocksAccount(req[p], a)

LockedByOther(p, a) == \E q \in Procs \ {p} : LocksAccount(req[q], a)

-----------------------------------------------------------------------------
(* The posting reducer, inside the caller's database transaction.           *)

\* Mutants of DebitAllowed: a check against the balance instead of what is
\* available, and one that forgets the freeze.
DebitAgainstBalance(a, amt, heldNow) ==
  a \in Accounts => a \notin frozen /\ balance[a] >= amt

DebitEvenIfFrozen(a, amt, heldNow) == a \in Accounts => balance[a] - heldNow >= amt

\* checkAndFold: a customer debit needs an active account and available funds;
\* system accounts may go negative and credits are never refused.
DebitAllowed(a, amt, heldNow) ==
  a \in Accounts => /\ a \notin frozen
                    /\ balance[a] - heldNow >= amt

\* Mutant of MoveMoney: the ledger shows the balance before the row.
MoveWithStaleAfter(t, debit, credit, amt) ==
  /\ balance' = [balance EXCEPT ![debit] = @ - amt, ![credit] = @ + amt]
  /\ ledger' = ledger \cup
       {[tx |-> t, account |-> debit, delta |-> -amt, after |-> balance[debit]],
        [tx |-> t, account |-> credit, delta |-> amt, after |-> balance[credit]]}

\* The balance fold and the two ledger rows of a clean two-leg movement.
MoveMoney(t, debit, credit, amt) ==
  /\ balance' = [balance EXCEPT ![debit] = @ - amt, ![credit] = @ + amt]
  /\ ledger' = ledger \cup
       {[tx |-> t, account |-> debit, delta |-> -amt, after |-> balance[debit] - amt],
        [tx |-> t, account |-> credit, delta |-> amt, after |-> balance[credit] + amt]}

\* Mutant of Emit: the outbox row is not written.
EmitNothing(t, event) == UNCHANGED outbox

\* The single outbox row of a movement, in the same database transaction.
Emit(t, event) == outbox' = [outbox EXCEPT ![t] = Append(@, event)]

\* The insert of a fresh header: the id must be unused.
Row(type, amt, debit, credit, by, reverses, expires) ==
  [type |-> type, amount |-> amt, debit |-> debit, credit |-> credit,
   by |-> by, reverses |-> reverses, expires |-> expires]

InsertRow(t, row) ==
  /\ status[t] = "NONE"
  /\ header' = [header EXCEPT ![t] = row]

\* validateCommand, for the two legs every caller builds: -amt and +amt are not
\* zero and sum to zero, and the accounts are distinct.
ValidMovement(debit, credit, amt) == amt > 0 /\ debit # credit

\* postFreshInTx: a movement inserted POSTED; rev, when not None, is the posted
\* transaction it compensates, flipped to REVERSED in the same database
\* transaction.
PostFresh(t, row) ==
  /\ ValidMovement(row.debit, row.credit, row.amount)
  /\ InsertRow(t, row)
  /\ status' = IF row.reverses = None
               THEN [status EXCEPT ![t] = "POSTED"]
               ELSE [status EXCEPT ![t] = "POSTED", ![row.reverses] = "REVERSED"]
  /\ MoveMoney(t, row.debit, row.credit, row.amount)
  /\ Emit(t, "transaction.posted")

\* Mutant of PostPending: the flip is not guarded.
PostAnyStatus(t) ==
  /\ status' = [status EXCEPT ![t] = "POSTED"]
  /\ MoveMoney(t, header[t].debit, header[t].credit, header[t].amount)
  /\ Emit(t, "transaction.posted")

\* postPendingInTx: the guarded PENDING -> POSTED flip of an existing header.
PostPending(t) ==
  /\ ValidMovement(header[t].debit, header[t].credit, header[t].amount)
  /\ status[t] = "PENDING"
  /\ status' = [status EXCEPT ![t] = "POSTED"]
  /\ MoveMoney(t, header[t].debit, header[t].credit, header[t].amount)
  /\ Emit(t, "transaction.posted")

\* recordFailedInTx: the guarded PENDING -> FAILED flip and its event, no money.
RecordFailed(t) ==
  /\ status[t] = "PENDING"
  /\ status' = [status EXCEPT ![t] = "FAILED"]
  /\ Emit(t, "transaction.failed")

-----------------------------------------------------------------------------
(* Releasing a hold: guarded PLACED -> to, held reduced only if it flipped. *)

\* Mutant of ReleaseHold: the hold is forgotten.
KeepHold(t, to) == UNCHANGED <<hold, held>>

ReleaseHold(t, to) ==
  IF hold[t] = "PLACED"
  THEN /\ hold' = [hold EXCEPT ![t] = to]
       /\ held' = [held EXCEPT ![header[t].debit] = @ - header[t].amount]
  ELSE UNCHANGED <<hold, held>>

=============================================================================
