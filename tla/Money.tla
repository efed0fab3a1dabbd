-------------------------------- MODULE Money --------------------------------
(***************************************************************************)
(* Amounts of internal/money/money.go: integer cents in a machine word, and *)
(* the decimal texts they are read from and written to.                    *)
(***************************************************************************)
EXTENDS Integers, Sequences

CONSTANTS
    Width,       \* bits of the word that holds cents: 64
    NumericMax   \* the largest amount in cents that a NUMERIC(15,2) column holds

Half == 2^(Width - 1)

ASSUME MoneyAssumption ==
    /\ Width \in Nat \ {0}
    /\ Half \in Nat \ {0}
    /\ NumericMax \in 1..(Half - 1)

Cents == -Half..(Half - 1)

\* Two's complement arithmetic.
Wrap(x) == ((x + Half) % (2 * Half)) - Half

Add(a, b) == Wrap(a + b)
Multiply(a, quantity) == Wrap(a * quantity)

scale == 100

-----------------------------------------------------------------------------
(* A text is an optional minus, an integer literal, and an optional part    *)
(* behind the point, which is itself read as an integer literal: a sign and *)
(* digits.                                                                  *)

NoFraction == [point |-> FALSE, sign |-> "none", digits |-> <<>>]
Fraction(sign, digits) == [point |-> TRUE, sign |-> sign, digits |-> digits]

FractionLength(f) == Len(f.digits) + (IF f.sign = "none" THEN 0 ELSE 1)

DigitsValue(d) == IF d = <<>> THEN 0 ELSE IF Len(d) = 1 THEN d[1] ELSE 10 * d[1] + d[2]

\* ParseInt of the part behind the point, padded to two characters.
FractionValue(f) ==
    LET d == IF FractionLength(f) = 1 THEN Append(f.digits, 0) ELSE f.digits
    IN  IF f.sign = "minus" THEN -DigitsValue(d) ELSE DigitsValue(d)

\* Whether ParseString returns no error.
Accepts(t) ==
    /\ t.whole \in Cents
    /\ t.fraction.point => FractionLength(t.fraction) \in 1..2

\* Mutant: the fraction is not padded, so that ".5" reads as five cents.
ParseStringUnpadded(t) ==
    LET cents == Wrap(Wrap(t.whole * scale) + DigitsValue(t.fraction.digits))
    IN  IF t.neg THEN Wrap(-cents) ELSE cents

\* What ParseString returns for a text that it accepts.
ParseString(t) ==
    LET cents == Wrap(Wrap(t.whole * scale) + FractionValue(t.fraction))
    IN  IF t.neg THEN Wrap(-cents) ELSE cents

\* The two digits behind the point.
TwoDigits(n) == <<n \div 10, n % 10>>

\* Decimal, for an amount whose negation does not overflow.
Decimal(c) ==
    LET a == IF c < 0 THEN -c ELSE c
    IN  [neg |-> c < 0, whole |-> a \div scale,
         fraction |-> Fraction("none", TwoDigits(a % scale))]

\* Mutant: a fraction below ten cents is written without its leading zero.
MarshalJSONShort(c) ==
    LET a == IF c < 0 THEN -c ELSE c
    IN  [neg |-> c < 0, whole |-> a \div scale,
         fraction |-> IF a % scale = 0 THEN NoFraction
                      ELSE IF a % scale < 10 THEN Fraction("none", <<a % scale>>)
                      ELSE Fraction("none", TwoDigits(a % scale))]

\* MarshalJSON: as Decimal, but whole amounts have no fraction.
MarshalJSON(c) ==
    LET a == IF c < 0 THEN -c ELSE c
    IN  [neg |-> c < 0, whole |-> a \div scale,
         fraction |-> IF a % scale = 0 THEN NoFraction ELSE Fraction("none", TwoDigits(a % scale))]

==============================================================================
