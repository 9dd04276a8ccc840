--------------------------------- MODULE Sums ---------------------------------
(***************************************************************************)
(* Sums of whole amounts.  An amount is a number of minor units, so that a *)
(* sum of amounts is the number of units there are in all.                 *)
(***************************************************************************)
EXTENDS Integers, FiniteSets

\* The units of the members of the domain of f, each paired with the member it is of.
Units(f) == UNION {{x} \X (1..f[x]) : x \in DOMAIN f}

Total(f) == Cardinality(Units(f))

===============================================================================
