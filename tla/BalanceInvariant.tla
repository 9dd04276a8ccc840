--------------------------- MODULE BalanceInvariant ---------------------------
(***************************************************************************)
(* The strengthening that makes the invariants of BalanceService           *)
(* inductive: what the rows of a transaction say of each other, what a     *)
(* request in progress may still believe, and what an approval is about.   *)
(***************************************************************************)
EXTENDS BalanceService

\* A row has a header from its insert on; it joins two different accounts; only a
\* customer's transfer is ever pending, failed, expired or cancelled, and that one
\* debits a customer account and reverses nothing.
RowOK(t) ==
  /\ status[t] = "NONE" <=> header[t] = None
  /\ status[t] # "NONE" =>
       /\ header[t].debit # header[t].credit
       /\ header[t].amount > 0
       /\ header[t].by \in Users \/ Moved(t)
       /\ header[t].by \in Users =>
            /\ header[t].type # "external_inbound"
            /\ header[t].debit \in Accounts
            /\ header[t].reverses = None

\* What a request read of a row without keeping its lock stays true only as far as
\* rows never disappear and headers never change; what it locked stays as it was.
RequestOK(r) ==
  /\ r.pc \in {"prior", "swept"} /\ r.prior # None =>
       status[r.prior] # "NONE" /\ header[r.prior].by = Owner[r.src]
  /\ r.pc = "swept" =>
       /\ r.dst # r.src
       /\ \A t \in r.swept : status[t] = "PENDING" /\ header[t].by = Owner[r.src]
  /\ r.pc \in {"loaded", "authorized", "refused"} =>
       status[r.tx] # "NONE" /\ header[r.tx].by \in Users
  /\ r.pc = "proposing" => Moved(r.tx) /\ header[r.tx].type # "external_outbound"

\* Two initiates never hold the lock of the same row.
LocksDisjoint ==
  \A p, q \in Procs :
    p # q /\ req[p].pc = "swept" /\ req[q].pc = "swept" => req[p].swept \cap req[q].swept = {}

ApprovalOK(a) ==
  a # None => Moved(a.target) /\ header[a.target].type # "external_outbound"

\* The shape of the rows and of what is remembered about them.
Shape ==
  /\ \A t \in TxIds : RowOK(t)
  /\ \A p \in Procs : RequestOK(req[p])
  /\ LocksDisjoint
  /\ \A i \in ApprovalIds : ApprovalOK(approval[i])

===============================================================================
