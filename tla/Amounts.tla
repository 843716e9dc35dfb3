-------------------------------- MODULE Amounts --------------------------------
(***************************************************************************)
(* Decimal amounts on their way from the body of a request through         *)
(* validate_amount and a NUMERIC column back to amounts_match.  A decimal  *)
(* is a rust_decimal::Decimal: an integer and the number of its fractional *)
(* digits, so that 10 and 10.0 are two representations of one value.  The  *)
(* three widths are written down in three places of the repository; they   *)
(* are constants here because they only work together.                     *)
(***************************************************************************)
EXTENDS Integers

CONSTANTS
  MaxScale,          \* most fractional digits validate_amount accepts: 7
  NumericPrecision,  \* payments.amount is NUMERIC(20, 7): 20 digits in all,
  NumericScale       \* 7 of them fractional

ASSUME AmountsAssumption ==
  /\ MaxScale \in Nat /\ NumericPrecision \in Nat /\ NumericScale \in Nat
  /\ NumericScale <= NumericPrecision

Decimal == [mantissa : Int, scale : Nat]

\* What a digit more or less is worth.
PowerOfTen[n \in Nat] == IF n = 0 THEN 1 ELSE 10 * PowerOfTen[n - 1]

\* Decimal's ==, and amounts_match on two amounts that parse.
SameAmount(a, b) == a.mantissa * PowerOfTen[b.scale] = b.mantissa * PowerOfTen[a.scale]

\* Mutant of Validate: the scale is not looked at.
Validate_AnyScale(a) == a.mantissa > 0

\* validate_amount, of text that parses: positive, and no finer than a stroop.
Validate(a) == a.mantissa > 0 /\ a.scale <= MaxScale

\* Decimal::normalize: no trailing zeros.
Normalize(a) ==
  LET shorter == {s \in 0..a.scale : a.mantissa % PowerOfTen[a.scale - s] = 0}
      s == CHOOSE t \in shorter : \A u \in shorter : t <= u
  IN [mantissa |-> a.mantissa \div PowerOfTen[a.scale - s], scale |-> s]

\* What the column makes of a positive amount: rounded half up to its scale.
ToNumeric(a) ==
  [mantissa |-> IF a.scale <= NumericScale
                THEN a.mantissa * PowerOfTen[NumericScale - a.scale]
                ELSE LET unit == PowerOfTen[a.scale - NumericScale]
                     IN (2 * a.mantissa + unit) \div (2 * unit),
   scale |-> NumericScale]

\* Whether it takes it; if not the statement fails with "numeric field
\* overflow", which is not a Conflict.
FitsNumeric(a) == ToNumeric(a).mantissa < PowerOfTen[NumericPrecision]
=============================================================================
