------------------------------ MODULE BackOffice ------------------------------
(***************************************************************************)
(* ApprovalService (maker-checker reversals) and the freeze switch of      *)
(* AccountsService, with the audit rows both write in the same database    *)
(* transaction as the change.                                              *)
(***************************************************************************)
EXTENDS BalanceCore

Audit(action, target) == audit' = audit \cup {<<action, target>>}

Reversible(t) ==
  /\ status[t] = "POSTED"
  /\ header[t].type \in {"internal", "external_inbound"}

\* proposeReversal reads the target and the approvals it already has without any
\* lock ...
ProposeReversal(p, admin, t) ==
  /\ req[p] = Idle
  /\ Reversible(t)
  /\ \A i \in ApprovalIds :
       approval[i] # None /\ approval[i].target = t => approval[i].status = "REJECTED"
  /\ req' = [req EXCEPT ![p] = [pc |-> "proposing", tx |-> t, maker |-> admin]]
  /\ UNCHANGED <<clock, accountVars, txVars, holdVars, bookVars, codes, inboundKey, adminVars>>

\* ... and then inserts the PENDING approval and its audit row.
InsertApproval(p, i) ==
  /\ req[p].pc = "proposing"
  /\ approval[i] = None
  /\ approval' = [approval EXCEPT ![i] = [status |-> "PENDING", target |-> req[p].tx,
                                          maker |-> req[p].maker, checker |-> None]]
  /\ Audit("reversal.proposed", req[p].tx)
  /\ req' = [req EXCEPT ![p] = Idle]
  /\ UNCHANGED <<clock, accountVars, txVars, holdVars, bookVars, codes, inboundKey>>

\* Mutant of Decidable: the maker may decide.
DecidableByAnyone(i, admin) == approval[i] # None /\ approval[i].status = "PENDING"

\* Four eyes, and the guarded PENDING gate.
Decidable(i, admin) ==
  /\ approval[i] # None
  /\ approval[i].status = "PENDING"
  /\ approval[i].maker # admin

Decide(i, admin, verdict) ==
  approval' = [approval EXCEPT ![i].status = verdict, ![i].checker = admin]

\* Mutant of ApproveReversal: the target is not checked again.
ApproveAnyStatus(i, admin, r) ==
  LET t == approval[i].target IN
  /\ Decidable(i, admin)
  /\ Decide(i, admin, "EXECUTED")
  /\ ~AccountLocked(header[t].credit) /\ ~AccountLocked(header[t].debit)
  /\ PostFresh(r, Row(header[t].type, header[t].amount, header[t].credit,
                      header[t].debit, admin, t, 0))
  /\ Audit("reversal.executed", t)
  /\ UNCHANGED <<clock, held, frozen, holdVars, codes, inboundKey, req>>

\* approve: EXECUTED, POSTED -> REVERSED and the forced mirror movement r together;
\* a target that is no longer POSTED rolls all of it back.
ApproveReversal(i, admin, r) ==
  LET t == approval[i].target IN
  /\ Decidable(i, admin)
  /\ Decide(i, admin, "EXECUTED")
  /\ ~AccountLocked(header[t].credit) /\ ~AccountLocked(header[t].debit)
  /\ status[t] = "POSTED"
  /\ PostFresh(r, Row(header[t].type, header[t].amount, header[t].credit,
                      header[t].debit, admin, t, 0))
  /\ Audit("reversal.executed", t)
  /\ UNCHANGED <<clock, held, frozen, holdVars, codes, inboundKey, req>>

RejectReversal(i, admin) ==
  /\ Decidable(i, admin)
  /\ Decide(i, admin, "REJECTED")
  /\ Audit("reversal.rejected", i)
  /\ UNCHANGED <<clock, accountVars, txVars, holdVars, bookVars, codes, inboundKey, req>>

\* setFrozen, which rewrites the status even when it does not change.
SetFrozen(a, freeze) ==
  /\ ~AccountLocked(a)
  /\ frozen' = IF freeze THEN frozen \cup {a} ELSE frozen \ {a}
  /\ Audit(IF freeze THEN "account.freeze" ELSE "account.unfreeze", a)
  /\ UNCHANGED <<clock, balance, held, txVars, holdVars, bookVars, codes, inboundKey,
                 approval, req>>

BackOfficeNext ==
  \/ \E admin \in Admins :
       \/ \E p \in Procs, t \in TxIds : ProposeReversal(p, admin, t)
       \/ \E i \in ApprovalIds : RejectReversal(i, admin) \/ \E r \in TxIds : ApproveReversal(i, admin, r)
  \/ \E p \in Procs, i \in ApprovalIds : InsertApproval(p, i)
  \/ \E a \in Accounts, freeze \in BOOLEAN : SetFrozen(a, freeze)

=============================================================================
