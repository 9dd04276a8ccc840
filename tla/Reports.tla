------------------------------- MODULE Reports -------------------------------
(***************************************************************************)
(* The two reports of the analytics server, recomputed at every request    *)
(* from the events that have reached its read model, one document each:    *)
(* any of those the balance service has written, in whatever order they    *)
(* came.  A document is an event: it keeps the status its transaction had. *)
(***************************************************************************)
EXTENDS Reconciliation

\* A report adds up over the accounts: there are finitely many.
ASSUME ReportAssumptions == IsFiniteSet(Accounts)

\* The documents there may be, and what one of them says.
Announced == {t \in TxIds : outbox[t] # <<>>}
DocumentStatus(t) == IF outbox[t][1] = "transaction.posted" THEN "POSTED" ELSE "FAILED"

\* The legs of the documents: a failed transfer has none.
ReportedLegs(docs) == {e \in ledger : e.tx \in docs /\ DocumentStatus(e.tx) = "POSTED"}

\* account-summaries: what an account sent and received, and in how many movements.
AccountSummary(docs, a) ==
  LET legs == {e \in ReportedLegs(docs) : e.account = a}
  IN [txnCount |-> Cardinality(legs),
      totalDebited |-> Total([e \in {l \in legs : l.delta < 0} |-> -e.delta]),
      totalCredited |-> Total([e \in {l \in legs : l.delta > 0} |-> e.delta])]

\* Mutant of DailyAggregate: a transaction that is reversed by now is not counted.
AggregateOfUnreversed(docs, type) ==
  LET matching == {t \in docs : status[t] = "POSTED" /\ header[t].type = type}
  IN [count |-> Cardinality(matching),
      totalAmount |-> Total([t \in matching |-> header[t].amount])]

\* daily-aggregates, of one day and one currency: the settled volume by type.  A
\* reversal counts beside what it reverses.
DailyAggregate(docs, type) ==
  LET matching == {t \in docs : DocumentStatus(t) = "POSTED" /\ header[t].type = type}
  IN [count |-> Cardinality(matching),
      totalAmount |-> Total([t \in matching |-> header[t].amount])]

-----------------------------------------------------------------------------
\* The reports agree with each other whichever events have arrived: the volume of
\* all types is what all accounts together sent, and what they received, though
\* one is computed from the headers of the events and the other from their legs.
\* And once all of them have arrived, sent and received explain the balances.
ReportsAgree ==
  /\ \A docs \in SUBSET Announced :
       LET volume == Total([y \in TxTypes |-> DailyAggregate(docs, y).totalAmount])
           movements == Total([y \in TxTypes |-> DailyAggregate(docs, y).count])
       IN /\ Total([a \in AllAccounts |-> AccountSummary(docs, a).totalDebited]) = volume
          /\ Total([a \in AllAccounts |-> AccountSummary(docs, a).totalCredited]) = volume
          /\ Total([a \in AllAccounts |-> AccountSummary(docs, a).txnCount]) = 2 * movements
  /\ \A a \in AllAccounts :
       LET s == AccountSummary(Announced, a) IN
       balance[a] = (IF a \in Accounts THEN OpeningBalance[a] ELSE 0)
                    + s.totalCredited - s.totalDebited
===============================================================================
