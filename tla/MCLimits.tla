-------------------------------- MODULE MCLimits --------------------------------
(***************************************************************************)
(* SpendLimits for TLC: u1 has one account, and may open another.          *)
(***************************************************************************)
EXTENDS SpendLimits, TLC

CONSTANTS u1, n1

Caps(t, d, m) ==
  [f \in CapFields |-> CASE f = "transaction" -> t [] f = "day" -> d [] f = "month" -> m]

MCSeeded == [o \in Users |-> IF o = u1 THEN {n1} ELSE {}]
MCBaseline == Caps(None, 2, 3)
MCDaily == Caps(None, 2, None)
MCCapRows == {Caps(1, None, 2)}

Symmetric ==
  Permutations(Openers) \union Permutations(Spenders) \union Permutations(Clerks)
    \union Permutations(Numbers \ {n1})
================================================================================
