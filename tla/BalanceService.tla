---------------------------- MODULE BalanceService ----------------------------
(***************************************************************************)
(* The balance service: transfers, rail callbacks and the back office over *)
(* one database, with what has to hold of them together.                   *)
(***************************************************************************)
EXTENDS Transfers, Rails, BackOffice

Next == TransfersNext \/ RailsNext \/ BackOfficeNext

Spec == Init /\ [][Next]_vars

-----------------------------------------------------------------------------
(* Vocabulary of the properties.                                            *)

Moved(t) == status[t] \in {"POSTED", "REVERSED"}

Reverses(r, t) == Moved(r) /\ header[r].reverses = t

Legs(t) == {<<t, header[t].debit, -header[t].amount>>,
            <<t, header[t].credit, header[t].amount>>}

\* A debit nothing may refuse: the mirror movement of an approved reversal.
Forced(t) == header[t] # None /\ header[t].by \in Admins

-----------------------------------------------------------------------------
(* Invariants.                                                              *)

\* A customer has at most one transfer awaiting confirmation, whatever the order
\* of concurrent initiates (the partial unique index uq_one_pending_per_initiator
\* has to catch what the two sweeps of an initiate did not see).
SinglePending ==
  \A s, t \in TxIds :
    status[s] = "PENDING" /\ status[t] = "PENDING" /\ header[s].by = header[t].by => s = t

\* The hold of an outbound transfer stands where its transaction stands: money is
\* reserved while it is pending, spent once and only once it has posted (a rail
\* failure later leaves it spent), given back once it has failed.  Only outbound
\* transfers have one.
HoldFollowsTransfer ==
  \A t \in TxIds :
    /\ status[t] = "PENDING" /\ IsExternal(t) => hold[t] = "PLACED"
    /\ hold[t] # "NONE" =>
         /\ status[t] # "NONE" /\ IsExternal(t) /\ header[t].by \in Users
         /\ hold[t] = "SETTLED" <=> Moved(t)
         /\ status[t] = "FAILED" => hold[t] = "RELEASED"
    /\ Moved(t) /\ IsExternal(t) /\ header[t].by \in Users => hold[t] = "SETTLED"

\* Money moves once per transaction: the ledger holds exactly the two mirrored
\* legs of every posted (or posted and later reversed) transaction, one row each,
\* and nothing of a transaction that is pending, failed, expired or cancelled.
MoneyOnce ==
  /\ {<<e.tx, e.account, e.delta>> : e \in ledger} =
       UNION {Legs(t) : t \in {s \in TxIds : Moved(s)}}
  /\ \A d, e \in ledger : d.tx = e.tx /\ d.account = e.account => d = e

\* The balance_after of a ledger row was the balance after that row: of the rows of
\* an account, in any order of posting, one shows the present balance.
AfterIsCurrent ==
  \A a \in AllAccounts :
    (\E e \in ledger : e.account = a) =>
      \E e \in ledger : e.account = a /\ e.after = balance[a]

\* Every outcome is announced once, by the event that matches it, and an outcome
\* that is not announced (expiry, cancellation) or not there yet announces nothing.
OneEventPerOutcome ==
  \A t \in TxIds :
    outbox[t] = CASE Moved(t) -> <<"transaction.posted">>
                  [] status[t] = "FAILED" -> <<"transaction.failed">>
                  [] OTHER -> <<>>

\* A transaction is reversed by exactly one posted movement, its mirror image, and
\* is REVERSED for no other reason: rail failures, approvals and their repetitions
\* together cannot give the money back twice.
ReversalOnce ==
  /\ \A t \in TxIds : status[t] = "REVERSED" => \E r \in TxIds : Reverses(r, t)
  /\ \A r, t \in TxIds : Reverses(r, t) =>
       /\ status[t] = "REVERSED"
       /\ header[r].debit = header[t].credit
       /\ header[r].credit = header[t].debit
       /\ header[r].amount = header[t].amount
       /\ header[r].type = header[t].type
       /\ \A s \in TxIds : Reverses(s, t) => s = r

\* The rail settles an outbound transfer or reverses it, never both, whatever the
\* order and the repetition of its callbacks.
SettledXorReversed ==
  \A t \in TxIds : railRef[t] => status[t] = "POSTED" /\ hold[t] = "SETTLED"

\* A reversal an admin caused was proposed by another admin, approved once, and
\* left both audit rows; an executed approval did reverse its target.
FourEyes ==
  /\ \A r, t \in TxIds : Reverses(r, t) /\ header[r].by \in Admins =>
       \E i \in ApprovalIds :
         /\ approval[i] # None
         /\ approval[i].status = "EXECUTED"
         /\ approval[i].target = t
         /\ approval[i].checker = header[r].by
         /\ approval[i].maker # approval[i].checker
         /\ <<"reversal.proposed", t>> \in audit /\ <<"reversal.executed", t>> \in audit
  /\ \A i, j \in ApprovalIds :
       /\ approval[i] # None /\ approval[i].status = "EXECUTED"
       /\ approval[j] # None /\ approval[j].status = "EXECUTED"
       /\ approval[i].target = approval[j].target
       => i = j

\* What a customer has reserved is there to be spent: no interleaving of holds,
\* releases, internal postings and freezes lets the reserved amount exceed the
\* balance.  Only a forced reversal may take an account below it.
FundsCoverHolds ==
  \A a \in Accounts :
    (\A t \in TxIds : ~(Forced(t) /\ header[t].debit = a)) => balance[a] >= held[a]

-----------------------------------------------------------------------------
(* What a step may never do.                                                *)

StatusEdges ==
  {<<"NONE", "PENDING">>, <<"NONE", "POSTED">>, <<"NONE", "FAILED">>,
   <<"PENDING", "POSTED">>, <<"PENDING", "FAILED">>, <<"PENDING", "EXPIRED">>,
   <<"PENDING", "CANCELLED">>, <<"POSTED", "REVERSED">>}

\* A transaction leaves PENDING once, whichever of confirm, cancel, expiry,
\* supersede and failure persistence gets there first, and a terminal one stays.
LifecycleOnly ==
  [][\A t \in TxIds : status'[t] # status[t] => <<status[t], status'[t]>> \in StatusEdges]_vars

\* The books are append-only: rows of the ledger, of the outbox and of the audit
\* log are never rewritten, and a transaction's header never changes.
AppendOnly ==
  [][/\ ledger \subseteq ledger'
     /\ audit \subseteq audit'
     /\ \A t \in TxIds :
          /\ status[t] # "NONE" => header'[t] = header[t]
          /\ outbox[t] # <<>> => outbox'[t] = outbox[t]]_vars

\* A frozen account is not debited and takes no new hold, not even by a transfer
\* that was initiated or authorized before the freeze; only a forced reversal is
\* exempt.
FreezeStopsDebits ==
  [][\A a \in frozen :
       /\ held'[a] <= held[a]
       /\ balance'[a] < balance[a] =>
            \E r \in TxIds : status[r] = "NONE" /\ status'[r] = "POSTED"
                             /\ header'[r].debit = a /\ header'[r].by \in Admins]_vars

\* Money leaves an account for a rail only out of what was reserved for that very
\* transfer: balance and held fall together, by the amount, and not again.
SettleSpendsHold ==
  [][\A t \in TxIds :
       (status[t] = "PENDING" /\ IsExternal(t) /\ status'[t] = "POSTED") =>
         LET src == header[t].debit IN
         /\ hold[t] = "PLACED" /\ hold'[t] = "SETTLED"
         /\ balance'[src] = balance[src] - header[t].amount
         /\ held'[src] = held[src] - header[t].amount]_vars

-----------------------------------------------------------------------------
(* The service as its customers and the event consumers see it.             *)

Stage(t) == CASE status[t] = "NONE" -> "none"
              [] status[t] = "PENDING" -> "open"
              [] status[t] = "POSTED" -> "moved"
              [] status[t] = "REVERSED" -> "undone"
              [] status[t] = "FAILED" -> "failed"
              [] OTHER -> "lapsed"

TermsOf(t) ==
  IF header[t] = None THEN None
  ELSE [by |-> header[t].by, debit |-> header[t].debit, credit |-> header[t].credit,
        amount |-> header[t].amount]

Stages == [t \in TxIds |-> Stage(t)]
Agreed == [t \in TxIds |-> TermsOf(t)]

P == INSTANCE Payments WITH
       Payments <- TxIds,
       Parties <- Initiators,
       Places <- AllAccounts,
       Opening <- [a \in AllAccounts |-> IF a \in Accounts THEN OpeningBalance[a] ELSE 0],
       stage <- Stages,
       terms <- Agreed,
       Amounts <- Nat \ {0},
       book <- balance,
       news <- outbox

\* Sweeps, holds, codes, locks, refusals and retries together implement the promise
\* of Payments: each step is one of its steps, or none a customer could see.
ImplementsPayments == P!Spec

-----------------------------------------------------------------------------
(* What the documents say and the code does not do.                         *)

\* "A new initiate auto-supersedes the prior pending and releases its hold": funds
\* are reserved only for a transfer that is still pending.
HoldsBackPending ==
  \A t \in TxIds : hold[t] = "PLACED" => status[t] = "PENDING"

=============================================================================
