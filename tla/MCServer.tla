------------------------------ MODULE MCServer ------------------------------
(***************************************************************************)
(* The parts of a process that share no state with another process, one per  *)
(* behaviour: every text of a bounded grammar through ParseString, Decimal    *)
(* and MarshalJSON; every request through the HTTP pipeline; every start of   *)
(* a binary.                                                               *)
(***************************************************************************)
EXTENDS HttpPipeline, Startup

CONSTANT MaxWhole   \* the bound on the integer literal of a text

ASSUME WholeAssumption == MaxWhole \in Nat

\* A product with Minute that is negative, zero, too large for the word and
\* wrapped to a negative or to a positive span.
SomeNumbers == {-1, 0, 1, 300, 450}

Digit == 0..9

\* At most two digits: ParseString refuses a longer fraction by its length.
Digits == UNION {[1..n -> Digit] : n \in 0..2}

Fractions == {NoFraction} \cup {Fraction(s, d) : s \in {"none", "plus", "minus"}, d \in Digits}

\* The first minus is always taken as the sign of the text; a second one belongs
\* to the integer literal.
Texts == {t \in [neg : BOOLEAN, whole : -MaxWhole..MaxWhole, fraction : Fractions] :
             t.whole < 0 => t.neg}

VARIABLES
    part,   \* which part the behaviour exercises
    text    \* the text that is read

vars == <<part, text, exchange, bootVars>>

NoText == [neg |-> FALSE, whole |-> 0, fraction |-> NoFraction]

\* A process that is not started.
BootIdle ==
    /\ binary = "seed"
    /\ env = [present |-> {}, jwtExp |-> Unset, workers |-> Unset, maxRetries |-> Unset,
              level |-> "", sentinel |-> "unset"]
    /\ at = "load" /\ cfg = NoConfig /\ expiry = 0 /\ opened = {} /\ deferred = {}

Init ==
    /\ HttpInit
    /\ \/ part = "money" /\ text \in Texts /\ BootIdle
       \/ part = "http" /\ text = NoText /\ BootIdle
       \/ part = "boot" /\ text = NoText /\ BootInit

Next ==
    \/ part = "http" /\ ~Served /\ Serve /\ UNCHANGED <<part, text, bootVars>>
    \/ part = "boot" /\ BootNext /\ UNCHANGED <<part, text, exchange>>

Spec == Init /\ [][Next]_vars

\* A decimal number: no sign but the first.
WellFormed(t) == t.whole >= 0 /\ t.fraction.sign = "none"

\* The number of cents that a decimal number denotes, as a plain integer: the
\* reference for ParseString.
Denotes(t) ==
    LET d == t.fraction.digits
        hundredths == IF d = <<>> THEN 0 ELSE IF Len(d) = 1 THEN 10 * d[1] ELSE 10 * d[1] + d[2]
        v == 100 * t.whole + hundredths
    IN  IF t.neg THEN -v ELSE v

\* ParseString is exact for every amount that fits the columns: one and two
\* digits behind the point, either sign.
ParseIsExact ==
    (/\ Accepts(text)
     /\ WellFormed(text)
     /\ Denotes(text) \in -NumericMax..NumericMax)
        => ParseString(text) = Denotes(text)

\* What an amount is written as, to the database or to a client, reads back as
\* the same amount.
RoundTrip ==
    Accepts(text) /\ ParseString(text) # -Half =>
        LET c == ParseString(text)
        IN  /\ Accepts(Decimal(c)) /\ ParseString(Decimal(c)) = c
            /\ Accepts(MarshalJSON(c)) /\ ParseString(MarshalJSON(c)) = c

=============================================================================
