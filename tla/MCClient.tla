------------------------------- MODULE MCClient -------------------------------
(***************************************************************************)
(* A small instance of the client application for TLC.                     *)
(***************************************************************************)
EXTENDS ClientApp

\* Funds for one transfer of one unit.
OneUnitEach == [a \in Accounts |-> 1]

\* One amount the forms accept, and one for each reason they have to reject it:
\* it is malformed, zero, too precise or too large.
SomeInputs ==
  {[plain |-> TRUE,  whole |-> 0,   digits |-> 2, fraction |-> 1],
   [plain |-> FALSE, whole |-> 0,   digits |-> 2, fraction |-> 1],
   [plain |-> TRUE,  whole |-> 0,   digits |-> 1, fraction |-> 0],
   [plain |-> TRUE,  whole |-> 0,   digits |-> 3, fraction |-> 1],
   [plain |-> TRUE,  whole |-> 100, digits |-> 0, fraction |-> 0]}

\* The conversion against a reference: an accepted text is the one amount whose
\* value in thousandths is what was typed.
Thousandths(t) ==
  1000 * t.whole + (CASE t.digits = 0 -> 0 [] t.digits = 1 -> 100 * t.fraction
                      [] t.digits = 2 -> 10 * t.fraction [] OTHER -> t.fraction)

SmallTexts == [plain : {TRUE}, whole : 0..4, digits : {0}, fraction : {0}]
              \union [plain : {TRUE}, whole : 0..4, digits : {1}, fraction : 0..9]
              \union [plain : {TRUE}, whole : 0..4, digits : {2}, fraction : 0..99]
              \union [plain : {TRUE}, whole : 0..4, digits : {3}, fraction : 0..999]

ASSUME ParsedExactly ==
  \A t \in SmallTexts : Accepted(t) => 10 * ToMinor(t) = Thousandths(t)
===============================================================================
