---------------------------- MODULE Reconciliation ----------------------------
(***************************************************************************)
(* A sum an auditor would recompute from the rows of the database, and     *)
(* what it must say of a figure each account row carries.                  *)
(***************************************************************************)
EXTENDS BalanceService, Sums

PlacedOn(a) == {t \in TxIds : hold[t] = "PLACED" /\ header[t].debit = a}

\* held is a running total kept by hand in five places; it has to equal the sum of
\* the holds still placed on the account.
HeldIsPlacedSum ==
  \A a \in Accounts : held[a] = Total([t \in PlacedOn(a) |-> header[t].amount])

=============================================================================
