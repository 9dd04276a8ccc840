------------------------------ MODULE MCBalance ------------------------------
(***************************************************************************)
(* Small instances of the balance service for TLC.                         *)
(***************************************************************************)
EXTENDS Reports, BalanceInvariant, TLC

CONSTANTS u1, a1, a2

\* Both accounts belong to one customer: her requests compete for them.
OneCustomer == a1 :> u1 @@ a2 :> u1

\* Funds for exactly one transfer of one unit from a1.
OneUnit == a1 :> 1 @@ a2 :> 0

OneAccount == a1 :> u1
OneUnitAlone == a1 :> 1
TwoUnitsAlone == a1 :> 2

OneUnitEach == a1 :> 1 @@ a2 :> 1

\* Rows and requests are interchangeable: no property tells one from another.
TxSymmetry == Permutations(TxIds) \cup Permutations(Procs)

BackOfficeSymmetry ==
  Permutations(TxIds) \cup Permutations(Procs) \cup Permutations(ApprovalIds)
  \cup Permutations(Admins)

==============================================================================
