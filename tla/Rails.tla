-------------------------------- MODULE Rails --------------------------------
(***************************************************************************)
(* RailsService: the callbacks of the external rail.  The rail may repeat, *)
(* reorder and contradict itself, so every callback may arrive at any time *)
(* and any number of times; one that is refused or replayed changes        *)
(* nothing and is not a step.  Each one that changes something runs in one *)
(* database transaction whose first act is to lock the customer account.   *)
(***************************************************************************)
EXTENDS BalanceCore

\* Mutant of Reconcilable: a settled transfer may still fail.
ReconcilableTwice(t) == status[t] = "POSTED" /\ IsExternal(t) /\ hold[t] # "NONE"

\* Both outcomes of an outbound name a transaction with a hold; a compensating
\* movement is external_outbound too, but has none.
Reconcilable(t) ==
  /\ status[t] = "POSTED"
  /\ IsExternal(t)
  /\ hold[t] # "NONE"
  /\ ~railRef[t]

\* reconcileOutboundSuccess: record the rail reference, no money moves.
RailSuccess(t) ==
  /\ Reconcilable(t)
  /\ ~AccountLocked(header[t].debit)
  /\ railRef' = [railRef EXCEPT ![t] = TRUE]
  /\ UNCHANGED <<clock, accountVars, txVars, hold, bookVars, codes, inboundKey, adminVars, req>>

\* reverseOutboundFailure: POSTED -> REVERSED and the compensating movement r,
\* clearing -> customer, in one database transaction.
RailFailure(t, r) ==
  /\ Reconcilable(t)
  /\ ~AccountLocked(header[t].debit)
  /\ PostFresh(r, Row("external_outbound", header[t].amount, header[t].credit,
                      header[t].debit, RailActor, t, 0))
  /\ UNCHANGED <<clock, held, frozen, holdVars, codes, inboundKey, adminVars, req>>

\* creditInbound under the idempotency key rail-inbound:<ref> of the owner.
InboundCredit(ref, a, amt, t) ==
  /\ inboundKey[<<Owner[a], ref>>] = None
  /\ ~AccountLocked(a)
  /\ PostFresh(t, Row("external_inbound", amt, InClearing, a, RailActor, None, 0))
  /\ inboundKey' = [inboundKey EXCEPT ![<<Owner[a], ref>>] = t]
  /\ UNCHANGED <<clock, held, frozen, holdVars, codes, adminVars, req>>

RailsNext ==
  \E t \in TxIds :
    \/ RailSuccess(t)
    \/ \E r \in TxIds : RailFailure(t, r)
    \/ \E ref \in Refs, a \in Accounts, amt \in Amounts : InboundCredit(ref, a, amt, t)

=============================================================================
