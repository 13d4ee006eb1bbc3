-------------------------------- MODULE Units --------------------------------
(***************************************************************************)
(* model::units: exact decimals and what is built from them.  A Decimal is *)
(* an integer, the number of smallest units (10^-18) it stands for; since  *)
(* parse() normalizes, one value has one representation.  The text of a    *)
(* decimal is abstracted to the value it denotes and how it is written.    *)
(***************************************************************************)
EXTENDS Integers

CONSTANTS
    One,        \* smallest units in 1: 10^18
    Limit,      \* the first magnitude out of NUMERIC(38,18), in units: 10^38
    Precision   \* parts into which a quotient divides 1 (see Quotient)

ASSUME UnitsAssumption ==
    /\ One \in Nat \ {0} /\ Limit \in Nat \ {0} /\ Precision \in Nat \ {0}
    /\ One <= Limit /\ Limit <= Precision

Decimals == (1 - Limit)..(Limit - 1)

Abs(n) == IF n < 0 THEN -n ELSE n

Ok(value) == [ok |-> TRUE, value |-> value]
Err(error) == [ok |-> FALSE, error |-> error]

\* A text: "canonical" with no digit to spare, "padded" with zeros (or a minus
\* sign before zero), "excess" with digits past the last place or over 64
\* bytes, "malformed" when it is not plain decimal notation.
Texts == [negative : BOOLEAN, units : Nat,
          form : {"canonical", "padded", "excess", "malformed"}]

Parse(text) ==
    IF text.form \in {"canonical", "padded"} /\ text.units < Limit
    THEN Ok(IF text.negative THEN -text.units ELSE text.units)
    ELSE Err("InvalidDecimal")

\* Mutant: to_string() in place of to_plain_string(): a normalized multiple of
\* ten comes out with an exponent (here: every whole number above 1).
ToNumericTextScientific(d) ==
    [negative |-> d < 0, units |-> Abs(d),
     form |-> IF Abs(d) > One /\ d % One = 0 THEN "malformed" ELSE "canonical"]

ToNumericText(d) ==
    [negative |-> d < 0, units |-> Abs(d), form |-> "canonical"]

\* BigDecimal's "/": the nearest of the decimals with its precision of 100
\* digits, halves upwards, in parts of 1/Precision.  A quotient in the domain
\* has at most 38 digits before the point, which leaves 62 after it.
Quotient(value, step) == (2 * value * Precision + step) \div (2 * step)

\* Mutant: the quotient is rounded to the nearest integer.
FloorToStepNearest(value, step) ==
    CASE value < 0 \/ step < 0 -> Err("Negative")
      [] value >= 0 /\ step = 0 -> Err("ZeroStep")
      [] value >= 0 /\ step > 0 ->
            Parse(ToNumericText(((2 * value + step) \div (2 * step)) * step))

FloorToStep(value, step) ==
    CASE value < 0 \/ step < 0 -> Err("Negative")
      [] value >= 0 /\ step = 0 -> Err("ZeroStep")
      [] value >= 0 /\ step > 0 ->
            Parse(ToNumericText((Quotient(value, step) \div Precision) * step))

\* Mutant: the sum is not checked against the domain.
CheckedAddUnchecked(money, other) ==
    IF money.currency # other.currency THEN Err("CurrencyMismatch")
    ELSE Ok([money EXCEPT !.amount = @ + other.amount])

CheckedAdd(money, other) ==
    LET sum == Parse(ToNumericText(money.amount + other.amount)) IN
    IF money.currency # other.currency THEN Err("CurrencyMismatch")
    ELSE IF ~sum.ok THEN Err("OutOfRange")
    ELSE Ok([money EXCEPT !.amount = sum.value])

\* What Price, BaseQuantity and Contracts ask of their amount.
NonNegative(amount) == amount >= 0

\* SourceTimeMs::new and ReceivedTimeMs::new, on any i64
TimeMs(value) == value >= 0
==============================================================================
