--------------------------------- MODULE Money ---------------------------------
(***************************************************************************)
(* Amounts of money between a person and the wire: what the customer's     *)
(* forms make of the text typed into them, and the decimal the customer's  *)
(* and the one-time code application show for the integer strings of the   *)
(* server.  Grouping of thousands, the symbol and its place are left out.  *)
(***************************************************************************)
EXTENDS Integers

CONSTANT MaxMinor   \* MAX_INT64_MINOR

ASSUME MoneyAssumptions == MaxMinor \in Nat

\* Every currency has two digits after the point: the table knows only MXN, and
\* the default is the same.
MinorUnitDigits == 2
Scale == 100

\* A text that was typed.  It is `plain` if it is digits, with a point and digits
\* or without, and of at most thirty characters: not blank, not signed.
Typed == {t \in [plain : BOOLEAN, whole : Nat, digits : Nat, fraction : Nat] :
            /\ t.digits = 0 => t.fraction = 0
            /\ t.digits = 1 => t.fraction < 10
            /\ t.digits = 2 => t.fraction < 100}

\* padEnd of the fraction, for a fraction of at most MinorUnitDigits.
Padded(t) == IF t.digits = 1 THEN 10 * t.fraction ELSE t.fraction

\* parseAmountToMinor: its value, and the texts it does not reject.
ToMinor(t) == Scale * t.whole + Padded(t)
Accepted(t) ==
  /\ t.plain
  /\ t.digits <= MinorUnitDigits
  /\ ToMinor(t) \in 1..MaxMinor

\* A canonical integer string: "-0" is one.
CanonicalIntegers == [minus : BOOLEAN, abs : Nat]
Unsigned(m) == [minus |-> FALSE, abs |-> m]
Amount(s) == IF s.minus THEN -s.abs ELSE s.abs

Sign(negative) == IF negative THEN "-" ELSE ""

\* The customer's application divides the magnitude of the value ...
ToDecimalString(s) ==
  LET abs == IF Amount(s) < 0 THEN -Amount(s) ELSE Amount(s)
  IN [sign |-> Sign(Amount(s) < 0), whole |-> abs \div Scale, fraction |-> abs % Scale]

\* ... and the one-time code application works on the sign and the digits.
FormatMinorUnits(s) ==
  [sign |-> Sign(s.minus /\ s.abs # 0), whole |-> s.abs \div Scale, fraction |-> s.abs % Scale]

\* Whether a line of a statement is money in or money out.
AmountDirection(s) ==
  CASE Amount(s) > 0 -> "in" [] Amount(s) < 0 -> "out" [] OTHER -> "zero"
================================================================================
