------------------------ MODULE FactExchange_proofs ------------------------
(***************************************************************************)
(* Theorems about Units, Facts and FactExchange for any domain of decimals *)
(* and any texts, summands, steps, drafts and documents: figures are exact *)
(* although BigDecimal divides with finite precision, what was built is    *)
(* received as it was built, and what is received could have been built.   *)
(***************************************************************************)
EXTENDS FactExchange, FiniteSetTheorems, WellFoundedInduction, TLAPS

-----------------------------------------------------------------------------
(* Division *)

LEMMA TimesMonotone ==
    ASSUME NEW a \in Int, NEW b \in Int, NEW d \in Nat, a <= b
    PROVE  d * a <= d * b
OBVIOUS

LEMMA Divided ==
    ASSUME NEW n \in Int, NEW d \in Nat \ {0}
    PROVE  /\ n \div d \in Int /\ n % d \in 0..(d - 1)
           /\ n = d * (n \div d) + (n % d)
OBVIOUS

\* Quotient and remainder are unique.
LEMMA DivideUnique ==
    ASSUME NEW n \in Int, NEW d \in Nat \ {0}, NEW q \in Int, NEW r \in 0..(d - 1),
           n = d * q + r
    PROVE  n \div d = q /\ n % d = r
<1> PICK p \in Int : p = n \div d
  BY Divided
<1> PICK t \in 0..(d - 1) : t = n % d
  BY Divided
<1>1. d * q + r = d * p + t
  BY Divided
<1>2. ~(q < p)
  <2> SUFFICES ASSUME q < p PROVE FALSE
    OBVIOUS
  <2>1. d * (q + 1) <= d * p
    BY TimesMonotone
  <2>2. d * (q + 1) = d * q + d
    OBVIOUS
  <2> QED BY <1>1, <2>1, <2>2
<1>3. ~(p < q)
  <2> SUFFICES ASSUME p < q PROVE FALSE
    OBVIOUS
  <2>1. d * (p + 1) <= d * q
    BY TimesMonotone
  <2>2. d * (p + 1) = d * p + d
    OBVIOUS
  <2> QED BY <1>1, <2>1, <2>2
<1>4. p = q
  BY <1>2, <1>3
<1> QED BY <1>1, <1>4

LEMMA MultipleRemainder ==
    ASSUME NEW n \in Int, NEW d \in Nat \ {0}, NEW q \in Int, n = d * q
    PROVE  n % d = 0
<1> PICK t \in 0..(d - 1) : t = n % d
  BY Divided
<1> PICK p \in Int : p = n \div d
  BY Divided
<1>1. n = d * p + t
  BY Divided
<1>2. 0 \in 0..(d - 1) /\ n = d * q + 0
  OBVIOUS
<1>3. n \div d = q /\ n % d = 0
  BY <1>2, DivideUnique
<1> QED BY <1>3

LEMMA Distributes ==
    ASSUME NEW d \in Int, NEW a \in Int, NEW b \in Int
    PROVE  d * (a + b) = d * a + d * b /\ d * (a - b) = d * a - d * b
OBVIOUS

\* A quotient of decimals, though it is rounded to the precision of BigDecimal,
\* is never rounded up to the next integer.
LEMMA QuotientFloors ==
    ASSUME NEW value \in Nat, NEW step \in 1..(Limit - 1)
    PROVE  Quotient(value, step) \div Precision = value \div step
<1> PICK P : P = Precision
  OBVIOUS
<1>1. P \in Nat \ {0} /\ step < P /\ step \in Nat \ {0}
  BY UnitsAssumption
<1>a. /\ value \div step \in Int /\ value % step \in 0..(step - 1)
      /\ value = step * (value \div step) + (value % step)
  <2>1. value \in Int
    OBVIOUS
  <2> QED BY <1>1, <2>1, Divided
<1> PICK q \in Int : q = value \div step
  BY <1>a
<1> PICK r \in 0..(step - 1) : r = value % step
  BY <1>a
<1>2. q \in Int /\ r \in 0..(step - 1) /\ value = step * q + r
  BY <1>a
<1> PICK n : n = 2 * value * P + step
  OBVIOUS
<1> PICK m : m = 2 * r * P + step
  OBVIOUS
<1>3. /\ 2 * step \in Nat \ {0} /\ m \in Int /\ n \in Int
      /\ n = (2 * step) * (q * P) + m
  <2>1. n = (2 * step) * (q * P) + m
    <3>1. 2 * value * P + step = (2 * step) * (q * P) + (2 * r * P + step)
      <4>1. /\ step \in Int /\ q \in Int /\ r \in Int /\ P \in Int
            /\ value = step * q + r
        BY <1>1, <1>2
      <4>2. 2 * (step * q + r) * P + step = (2 * step) * (q * P) + (2 * r * P + step)
        BY <4>1
      <4> QED BY <4>1, <4>2
    <3> QED BY <3>1
  <2>2. 2 * r * P \in Int /\ 2 * value * P \in Int
    BY <1>1, <1>2
  <2> QED BY <1>1, <2>1, <2>2
<1>4. m < 2 * step * P /\ 0 <= m
  <2>1. r * P <= (step - 1) * P
    <3>1. P * r <= P * (step - 1)
      BY <1>1, <1>2, TimesMonotone
    <3> QED BY <1>1, <1>2, <3>1
  <2>2. (step - 1) * P = step * P - P
    BY <1>1
  <2>3. 2 * r * P <= 2 * (step * P) - 2 * P
    BY <1>1, <1>2, <2>1, <2>2
  <2>4. 0 <= r * P
    BY <1>1, <1>2
  <2> QED BY <1>1, <1>2, <2>3, <2>4
<1> PICK k \in Int : k = m \div (2 * step)
  BY <1>3, Divided
<1> PICK t \in 0..(2 * step - 1) : t = m % (2 * step)
  BY <1>3, Divided
<1>5. m = (2 * step) * k + t
  BY <1>3, Divided
<1>6. k \in 0..(P - 1)
  <2>1. ~(k < 0)
    <3> SUFFICES ASSUME k < 0 PROVE FALSE
      OBVIOUS
    <3>1. (2 * step) * k <= (2 * step) * (-1)
      BY <1>3, TimesMonotone
    <3> QED BY <1>1, <1>4, <1>5, <3>1
  <2>2. ~(P <= k)
    <3> SUFFICES ASSUME P <= k PROVE FALSE
      OBVIOUS
    <3>1. (2 * step) * P <= (2 * step) * k
      BY <1>1, <1>3, TimesMonotone
    <3> QED BY <1>1, <1>4, <1>5, <3>1
  <2> QED BY <1>1, <2>1, <2>2
<1>7. n = (2 * step) * (q * P + k) + t
  <2>1. q * P \in Int /\ 2 * step \in Int
    BY <1>1, <1>2
  <2> PICK a \in Int : a = q * P
    BY <2>1
  <2> PICK d \in Int : d = 2 * step
    BY <2>1
  <2>2. n = d * a + m /\ m = d * k + t /\ d * (a + k) = d * a + d * k
    BY <1>3, <1>5, Distributes
  <2>3. d * a \in Int /\ d * k \in Int /\ t \in Int
    OBVIOUS
  <2>4. n = d * (a + k) + t
    BY <2>2, <2>3
  <2> QED BY <2>4
<1>8. n \div (2 * step) = q * P + k
  <2>1. q * P + k \in Int
    BY <1>1, <1>2
  <2> QED BY <1>3, <1>7, <2>1, DivideUnique
<1>9. (q * P + k) \div P = q
  <2>1. q * P \in Int /\ q * P = P * q
    BY <1>1, <1>2
  <2> PICK z \in Int : z = q * P + k
    BY <2>1
  <2>2. z = P * q + k
    BY <2>1
  <2>3. P \in Nat \ {0} /\ z \in Int /\ q \in Int
    BY <1>1
  <2> PICK d \in Int : d = z \div P
    BY <2>3, Divided
  <2> PICK u \in 0..(P - 1) : u = z % P
    BY <2>3, Divided
  <2>4. P * q + k = P * d + u
    BY <2>2, <2>3, Divided
  <2>5. ~(d < q)
    <3> SUFFICES ASSUME d < q PROVE FALSE
      OBVIOUS
    <3>1. P * (d + 1) <= P * q /\ P * (d + 1) = P * d + P
      BY <2>3, TimesMonotone
    <3> QED BY <1>6, <2>3, <2>4, <3>1
  <2>6. ~(q < d)
    <3> SUFFICES ASSUME q < d PROVE FALSE
      OBVIOUS
    <3>1. P * (q + 1) <= P * d /\ P * (q + 1) = P * q + P
      BY <2>3, TimesMonotone
    <3> QED BY <1>6, <2>3, <2>4, <3>1
  <2> QED BY <2>5, <2>6
<1> QED BY <1>8, <1>9 DEF Quotient

-----------------------------------------------------------------------------
(* Units *)

\* The text of a decimal is read as that decimal, and nothing else out of the
\* domain is.
LEMMA TextRead ==
    ASSUME NEW d \in Int
    PROVE  /\ ToNumericText(d) \in Texts
           /\ Parse(ToNumericText(d)) =
                IF d \in Decimals THEN Ok(d) ELSE Err("InvalidDecimal")
<1>1. Abs(d) \in Nat /\ (IF d < 0 THEN -Abs(d) ELSE Abs(d)) = d
  BY DEF Abs
<1>2. d \in Decimals <=> Abs(d) < Limit
  BY UnitsAssumption DEF Abs, Decimals
<1>3. ToNumericText(d) \in Texts
  BY <1>1 DEF ToNumericText, Texts
<1> QED BY <1>1, <1>2, <1>3 DEF ToNumericText, Parse

LEMMA ParsedInDomain ==
    ASSUME NEW text \in Texts
    PROVE  /\ Parse(text).ok \in BOOLEAN
           /\ Parse(text).ok => Parse(text).value \in Decimals
           /\ Parse(text).ok => Parse(text).value = IF text.negative THEN -text.units ELSE text.units
           /\ Parse(text).ok \/ Parse(text).error = "InvalidDecimal"
BY UnitsAssumption DEF Parse, Texts, Ok, Err, Decimals

\* A rounding is the multiple of the step below the value, or has no meaning.
LEMMA FloorExact ==
    ASSUME NEW value \in Decimals, NEW step \in Decimals
    PROVE  /\ value >= 0 /\ step > 0 =>
                /\ MultipleBelow(value, step) \in Decimals
                /\ FloorToStep(value, step) = Ok(MultipleBelow(value, step))
           /\ ~(value >= 0 /\ step > 0) =>
                FloorToStep(value, step) \in {Err("Negative"), Err("ZeroStep")}
<1>1. value \in Int /\ step \in Int /\ Limit \in Nat
  BY UnitsAssumption DEF Decimals
<1>2. ASSUME value >= 0, step > 0
      PROVE  /\ MultipleBelow(value, step) \in Decimals
             /\ FloorToStep(value, step) = Ok(MultipleBelow(value, step))
  <2> PICK q \in Int : q = value \div step
    BY <1>1, <1>2, Divided
  <2> PICK r \in 0..(step - 1) : r = value % step
    BY <1>1, <1>2, Divided
  <2> PICK m : m = step * q
    OBVIOUS
  <2>1. value = m + r /\ m \in Int
    BY <1>1, <1>2, Divided
  <2>2. 0 <= q
    <3> SUFFICES ASSUME q < 0 PROVE FALSE
      OBVIOUS
    <3>1. step * q <= step * (-1)
      BY <1>1, <1>2, TimesMonotone
    <3> QED BY <1>1, <1>2, <2>1, <3>1
  <2>3. 0 <= m
    <3>1. step * 0 <= step * q
      BY <1>1, <1>2, <2>2, TimesMonotone
    <3> QED BY <1>1, <3>1
  <2>4. m \in 0..value /\ m % step = 0 /\ value - m < step
    <3>1. m = step * q /\ step \in Nat \ {0} /\ m \in Int
      BY <1>1, <1>2, <2>1
    <3>2. m % step = 0
      BY <3>1, MultipleRemainder
    <3> QED BY <1>1, <2>1, <2>3, <3>2
  <2>5. \A o \in 0..value : o % step = 0 /\ value - o < step => o = m
    <3> SUFFICES ASSUME NEW o \in 0..value, o % step = 0, value - o < step
                 PROVE  o = m
      OBVIOUS
    <3> PICK p \in Int : p = o \div step
      BY <1>1, <1>2, Divided
    <3>1. o = step * p
      BY <1>1, <1>2, Divided
    <3>2. value = step * p + (value - o) /\ value - o \in 0..(step - 1)
      BY <1>1, <3>1
    <3>3. p = q
      BY <1>1, <1>2, <3>2, DivideUnique
    <3> QED BY <3>1, <3>3
  <2>6. MultipleBelow(value, step) = m
    BY <2>4, <2>5 DEF MultipleBelow
  <2>7. m \in Decimals
    BY <1>1, <2>1, <2>3 DEF Decimals
  <2>8. Quotient(value, step) \div Precision = q
    <3>1. value \in Nat /\ step \in 1..(Limit - 1)
      BY <1>1, <1>2 DEF Decimals
    <3> QED BY <3>1, QuotientFloors
  <2>9. q * step = m
    BY <1>1
  <2>10. FloorToStep(value, step) = Parse(ToNumericText(q * step))
    BY <1>1, <1>2, <2>8 DEF FloorToStep
  <2> QED BY <2>1, <2>6, <2>7, <2>9, <2>10, TextRead
<1>3. ASSUME ~(value >= 0 /\ step > 0)
      PROVE  FloorToStep(value, step) \in {Err("Negative"), Err("ZeroStep")}
  BY <1>1, <1>3 DEF FloorToStep
<1> QED BY <1>2, <1>3

\* A sum is exact, or there is none in the domain.
LEMMA SumExact ==
    ASSUME NEW money, NEW other, money.amount \in Int, other.amount \in Int,
           money = [amount |-> money.amount, currency |-> money.currency]
    PROVE  LET exact == money.amount + other.amount
               sum == CheckedAdd(money, other)
           IN  /\ sum.ok \in BOOLEAN
               /\ sum.ok => sum.value.amount = exact /\ exact \in Decimals
               /\ ~sum.ok => \/ sum.error = "CurrencyMismatch"
                             \/ sum.error = "OutOfRange" /\ exact \notin Decimals
<1> PICK exact \in Int : exact = money.amount + other.amount
  OBVIOUS
<1>1. Parse(ToNumericText(exact)) = IF exact \in Decimals THEN Ok(exact) ELSE Err("InvalidDecimal")
  BY TextRead
<1>2. CheckedAdd(money, other) =
        IF money.currency # other.currency THEN Err("CurrencyMismatch")
        ELSE IF exact \notin Decimals THEN Err("OutOfRange")
        ELSE Ok([money EXCEPT !.amount = exact])
  <2>1. CASE exact \in Decimals
    <3>1. /\ Parse(ToNumericText(money.amount + other.amount)).ok
          /\ Parse(ToNumericText(money.amount + other.amount)).value = exact
      BY <1>1, <2>1 DEF Ok
    <3> QED BY <2>1, <3>1 DEF CheckedAdd
  <2>2. CASE exact \notin Decimals
    <3>1. Parse(ToNumericText(exact)).ok = FALSE
      BY <1>1, <2>2 DEF Err
    <3>2. Parse(ToNumericText(money.amount + other.amount)).ok = FALSE
      BY <3>1
    <3> QED BY <2>2, <3>2 DEF CheckedAdd
  <2> QED BY <2>1, <2>2
<1>3. [money EXCEPT !.amount = exact].amount = exact
  OBVIOUS
<1> QED BY <1>2, <1>3 DEF Ok, Err

-----------------------------------------------------------------------------
(* Facts and their documents *)

Amounts(fact) == Magnitudes(fact) \cup Monies(fact)

\* What mapping the amounts of a fact does to it: it is a fact over the other
\* amounts, with each amount from one of the fact's, and mapping them back
\* gives the fact.
MapsTo(fact, f, g, mapped) ==
    /\ mapped.kind = fact.kind
    /\ \A b \in Amounts(mapped) : \E a \in Amounts(fact) : b = f[a]
    /\ (\A a \in Amounts(fact) : g[f[a]] = a) => MapAmounts(mapped, g) = fact

LEMMA KindOfFact ==
    ASSUME NEW A, NEW fact \in Fact(A)
    PROVE  /\ fact.kind \in {"MarketEvent", "StrategyTarget", "AccountSnapshot",
                             "OrderSnapshot", "FillSnapshot"}
           /\ fact.kind = "MarketEvent" => fact \in MarketEvent
           /\ fact.kind = "StrategyTarget" => fact \in StrategyTarget(A)
           /\ fact.kind = "AccountSnapshot" => fact \in AccountSnapshot(A)
           /\ fact.kind = "OrderSnapshot" => fact \in OrderSnapshot(A)
           /\ fact.kind = "FillSnapshot" => fact \in FillSnapshot(A)
<1>1. /\ \A x \in MarketEvent : x.kind = "MarketEvent"
      /\ \A x \in StrategyTarget(A) : x.kind = "StrategyTarget"
      /\ \A x \in AccountSnapshot(A) : x.kind = "AccountSnapshot"
      /\ \A x \in OrderSnapshot(A) : x.kind = "OrderSnapshot"
      /\ \A x \in FillSnapshot(A) : x.kind = "FillSnapshot"
  BY DEF MarketEvent, StrategyTarget, AccountSnapshot, OrderSnapshot, FillSnapshot
<1> QED BY <1>1 DEF Fact

LEMMA EventMapped ==
    ASSUME NEW fact \in MarketEvent, NEW f, NEW g
    PROVE  MapAmounts(fact, f) \in MarketEvent /\ MapsTo(fact, f, g, MapAmounts(fact, f))
<1>1. fact.kind = "MarketEvent"
  BY DEF MarketEvent
<1> QED BY <1>1 DEF MapAmounts, MapsTo, Amounts, Magnitudes, Monies

LEMMA OrderMapped ==
    ASSUME NEW A, NEW B, NEW f \in [A -> B], NEW g, NEW fact \in OrderSnapshot(A)
    PROVE  /\ MapAmounts(fact, f) \in OrderSnapshot(B)
           /\ MapsTo(fact, f, g, MapAmounts(fact, f))
<1>1. fact.kind = "OrderSnapshot" /\ fact.filled_quantity \in PositionQuantity(A)
  BY DEF OrderSnapshot
<1> PICK q : q = MapAmount(fact.filled_quantity, f)
  OBVIOUS
<1>2. /\ q \in PositionQuantity(B) /\ q.amount = f[fact.filled_quantity.amount]
      /\ g[f[fact.filled_quantity.amount]] = fact.filled_quantity.amount
                => MapAmount(q, g) = fact.filled_quantity
  BY <1>1 DEF PositionQuantity, MapAmount
<1> PICK mapped : mapped = [fact EXCEPT !.filled_quantity = q]
  OBVIOUS
<1>3. MapAmounts(fact, f) = mapped
  BY <1>1 DEF MapAmounts
<1>4. mapped \in OrderSnapshot(B) /\ mapped.kind = "OrderSnapshot" /\ mapped.filled_quantity = q
  BY <1>2 DEF OrderSnapshot
<1>5. MapAmounts(mapped, g) = [mapped EXCEPT !.filled_quantity = MapAmount(q, g)]
  BY <1>4 DEF MapAmounts
<1>6. Amounts(mapped) = {q.amount} /\ Amounts(fact) = {fact.filled_quantity.amount}
  BY <1>1, <1>4 DEF Amounts, Magnitudes, Monies
<1>7. [mapped EXCEPT !.filled_quantity = fact.filled_quantity] = fact
  BY <1>2 DEF OrderSnapshot
<1> QED BY <1>1, <1>2, <1>3, <1>4, <1>5, <1>6, <1>7 DEF MapsTo

LEMMA FillMapped ==
    ASSUME NEW A, NEW B, NEW f \in [A -> B], NEW g, NEW fact \in FillSnapshot(A)
    PROVE  /\ MapAmounts(fact, f) \in FillSnapshot(B)
           /\ MapsTo(fact, f, g, MapAmounts(fact, f))
<1>1. /\ fact.kind = "FillSnapshot" /\ fact.quantity \in PositionQuantity(A)
      /\ fact.price \in Price(A) /\ fact.fee \in Money(A)
  BY DEF FillSnapshot
<1> PICK q : q = MapAmount(fact.quantity, f)
  OBVIOUS
<1> PICK p : p = MapAmount(fact.price, f)
  OBVIOUS
<1> PICK m : m = MapAmount(fact.fee, f)
  OBVIOUS
<1>2. /\ q \in PositionQuantity(B) /\ q.amount = f[fact.quantity.amount]
      /\ g[f[fact.quantity.amount]] = fact.quantity.amount
            => MapAmount(q, g) = fact.quantity
  BY <1>1 DEF PositionQuantity, MapAmount
<1>3. /\ p \in Price(B) /\ p.amount = f[fact.price.amount]
      /\ g[f[fact.price.amount]] = fact.price.amount => MapAmount(p, g) = fact.price
  BY <1>1 DEF Price, MapAmount
<1>4. /\ m \in Money(B) /\ m.amount = f[fact.fee.amount]
      /\ g[f[fact.fee.amount]] = fact.fee.amount => MapAmount(m, g) = fact.fee
  BY <1>1 DEF Money, MapAmount
<1> PICK mapped : mapped = [fact EXCEPT !.quantity = q, !.price = p, !.fee = m]
  OBVIOUS
<1>5. MapAmounts(fact, f) = mapped
  BY <1>1 DEF MapAmounts
<1>6. /\ mapped \in FillSnapshot(B) /\ mapped.kind = "FillSnapshot"
      /\ mapped.quantity = q /\ mapped.price = p /\ mapped.fee = m
  BY <1>2, <1>3, <1>4 DEF FillSnapshot
<1>7. MapAmounts(mapped, g) =
        [mapped EXCEPT !.quantity = MapAmount(q, g), !.price = MapAmount(p, g),
                       !.fee = MapAmount(m, g)]
  BY <1>6 DEF MapAmounts
<1>8. /\ Amounts(mapped) = {q.amount, p.amount, m.amount}
      /\ Amounts(fact) = {fact.quantity.amount, fact.price.amount, fact.fee.amount}
  BY <1>1, <1>6 DEF Amounts, Magnitudes, Monies
<1>9. [mapped EXCEPT !.quantity = fact.quantity, !.price = fact.price, !.fee = fact.fee] = fact
  BY DEF FillSnapshot
<1> QED BY <1>1, <1>2, <1>3, <1>4, <1>5, <1>6, <1>7, <1>8, <1>9 DEF MapsTo

\* The value of a target, by its kind.
LEMMA ValueOfTarget ==
    ASSUME NEW A, NEW value \in TargetValue(A)
    PROVE  \/ value \in [kind : {"NoSignal", "Unavailable"}]
           \/ value \in [kind : {"Spot"}, quantity : Quantity(A)]
           \/ value \in [kind : {"SwapNet"}, direction : {"Long", "Short", "Flat"},
                         contracts : Quantity(A)]
           \/ value \in [kind : {"SwapLegs"}, long : Quantity(A), short : Quantity(A)]
BY DEF TargetValue

\* MapsTo, of the value of a target.
ValueMapsTo(value, f, g, mapped) ==
    /\ mapped.kind = value.kind
    /\ \A b \in ValueAmounts(mapped) : \E a \in ValueAmounts(value) : b = f[a]
    /\ (\A a \in ValueAmounts(value) : g[f[a]] = a) => MapValue(mapped, g) = value

LEMMA ValueMapped ==
    ASSUME NEW A, NEW B, NEW f \in [A -> B], NEW g, NEW value \in TargetValue(A)
    PROVE  /\ MapValue(value, f) \in TargetValue(B)
           /\ ValueMapsTo(value, f, g, MapValue(value, f))
<1>1. CASE value \in [kind : {"NoSignal", "Unavailable"}]
  <2>1. value \in TargetValue(B)
    BY <1>1 DEF TargetValue
  <2>2. MapValue(value, f) = value /\ MapValue(value, g) = value
    BY <1>1 DEF MapValue
  <2> QED BY <2>1, <2>2, <1>1 DEF ValueMapsTo, ValueAmounts
<1>2. CASE value \in [kind : {"Spot"}, quantity : Quantity(A)]
  <2> PICK q : q = MapAmount(value.quantity, f)
    OBVIOUS
  <2> PICK mapped : mapped = [value EXCEPT !.quantity = q]
    OBVIOUS
  <2>1. /\ q \in Quantity(B) /\ q.amount = f[value.quantity.amount]
        /\ g[f[value.quantity.amount]] = value.quantity.amount
                => MapAmount(q, g) = value.quantity
    BY <1>2 DEF Quantity, MapAmount
  <2>2. /\ mapped \in [kind : {"Spot"}, quantity : Quantity(B)] /\ mapped.quantity = q
        /\ [mapped EXCEPT !.quantity = value.quantity] = value
    BY <1>2, <2>1
  <2>3. MapValue(value, f) = mapped /\ MapValue(mapped, g) = [mapped EXCEPT !.quantity = MapAmount(q, g)]
    BY <1>2, <2>2 DEF MapValue
  <2>4. ValueAmounts(mapped) = {q.amount} /\ ValueAmounts(value) = {value.quantity.amount}
    BY <1>2, <2>2 DEF ValueAmounts
  <2>5. mapped \in TargetValue(B) /\ mapped.kind = value.kind
    BY <1>2, <2>2 DEF TargetValue
  <2> QED BY <2>1, <2>2, <2>3, <2>4, <2>5 DEF ValueMapsTo
<1>3. CASE value \in [kind : {"SwapNet"}, direction : {"Long", "Short", "Flat"},
                      contracts : Quantity(A)]
  <2> PICK q : q = MapAmount(value.contracts, f)
    OBVIOUS
  <2> PICK mapped : mapped = [value EXCEPT !.contracts = q]
    OBVIOUS
  <2>1. /\ q \in Quantity(B) /\ q.amount = f[value.contracts.amount]
        /\ g[f[value.contracts.amount]] = value.contracts.amount
                => MapAmount(q, g) = value.contracts
    BY <1>3 DEF Quantity, MapAmount
  <2>2. /\ mapped \in [kind : {"SwapNet"}, direction : {"Long", "Short", "Flat"},
                       contracts : Quantity(B)]
        /\ mapped.contracts = q
        /\ [mapped EXCEPT !.contracts = value.contracts] = value
    BY <1>3, <2>1
  <2>3. MapValue(value, f) = mapped /\ MapValue(mapped, g) = [mapped EXCEPT !.contracts = MapAmount(q, g)]
    BY <1>3, <2>2 DEF MapValue
  <2>4. ValueAmounts(mapped) = {q.amount} /\ ValueAmounts(value) = {value.contracts.amount}
    BY <1>3, <2>2 DEF ValueAmounts
  <2>5. mapped \in TargetValue(B) /\ mapped.kind = value.kind
    BY <1>3, <2>2 DEF TargetValue
  <2> QED BY <2>1, <2>2, <2>3, <2>4, <2>5 DEF ValueMapsTo
<1>4. CASE value \in [kind : {"SwapLegs"}, long : Quantity(A), short : Quantity(A)]
  <2> PICK l : l = MapAmount(value.long, f)
    OBVIOUS
  <2> PICK s : s = MapAmount(value.short, f)
    OBVIOUS
  <2> PICK mapped : mapped = [value EXCEPT !.long = l, !.short = s]
    OBVIOUS
  <2>1. /\ l \in Quantity(B) /\ l.amount = f[value.long.amount]
        /\ g[f[value.long.amount]] = value.long.amount => MapAmount(l, g) = value.long
        /\ s \in Quantity(B) /\ s.amount = f[value.short.amount]
        /\ g[f[value.short.amount]] = value.short.amount => MapAmount(s, g) = value.short
    BY <1>4 DEF Quantity, MapAmount
  <2>2. /\ mapped \in [kind : {"SwapLegs"}, long : Quantity(B), short : Quantity(B)]
        /\ mapped.long = l /\ mapped.short = s
        /\ [mapped EXCEPT !.long = value.long, !.short = value.short] = value
    BY <1>4, <2>1
  <2>3. /\ MapValue(value, f) = mapped
        /\ MapValue(mapped, g) = [mapped EXCEPT !.long = MapAmount(l, g), !.short = MapAmount(s, g)]
    BY <1>4, <2>2 DEF MapValue
  <2>4. /\ ValueAmounts(mapped) = {l.amount, s.amount}
        /\ ValueAmounts(value) = {value.long.amount, value.short.amount}
    BY <1>4, <2>2 DEF ValueAmounts
  <2>5. mapped \in TargetValue(B) /\ mapped.kind = value.kind
    BY <1>4, <2>2 DEF TargetValue
  <2> QED BY <2>1, <2>2, <2>3, <2>4, <2>5 DEF ValueMapsTo
<1> QED BY <1>1, <1>2, <1>3, <1>4, ValueOfTarget

LEMMA TargetMapped ==
    ASSUME NEW A, NEW B, NEW f \in [A -> B], NEW g, NEW fact \in StrategyTarget(A)
    PROVE  /\ MapAmounts(fact, f) \in StrategyTarget(B)
           /\ MapsTo(fact, f, g, MapAmounts(fact, f))
<1>1. fact.kind = "StrategyTarget" /\ fact.value \in TargetValue(A)
  BY DEF StrategyTarget
<1> PICK value : value = MapValue(fact.value, f)
  OBVIOUS
<1> PICK mapped : mapped = [fact EXCEPT !.value = value]
  OBVIOUS
<1>2. value \in TargetValue(B) /\ ValueMapsTo(fact.value, f, g, value)
  BY <1>1, ValueMapped
<1>3. /\ mapped \in StrategyTarget(B) /\ mapped.kind = "StrategyTarget" /\ mapped.value = value
      /\ [mapped EXCEPT !.value = fact.value] = fact
  BY <1>1, <1>2 DEF StrategyTarget
<1>4. MapAmounts(fact, f) = mapped /\ MapAmounts(mapped, g) = [mapped EXCEPT !.value = MapValue(value, g)]
  BY <1>1, <1>3 DEF MapAmounts
<1>5. Amounts(mapped) = ValueAmounts(value) /\ Amounts(fact) = ValueAmounts(fact.value)
  BY <1>1, <1>3 DEF Amounts, Magnitudes, Monies
<1>6. \A b \in Amounts(mapped) : \E a \in Amounts(fact) : b = f[a]
  BY <1>2, <1>5 DEF ValueMapsTo
<1>7. ASSUME \A a \in Amounts(fact) : g[f[a]] = a
      PROVE  MapAmounts(mapped, g) = fact
  <2>1. MapValue(value, g) = fact.value
    BY <1>2, <1>5, <1>7 DEF ValueMapsTo
  <2> QED BY <1>3, <1>4, <2>1
<1> QED BY <1>1, <1>3, <1>4, <1>6, <1>7 DEF MapsTo

LEMMA PositionMapped ==
    ASSUME NEW A, NEW B, NEW f \in [A -> B], NEW g
    PROVE  \A position \in Position(A) :
            /\ MapPosition(position, f) \in Position(B)
            /\ MapPosition(position, f).quantity.amount = f[position.quantity.amount]
            /\ g[f[position.quantity.amount]] = position.quantity.amount
                => MapPosition(MapPosition(position, f), g) = position
<1> TAKE position \in Position(A)
<1>1. position.quantity \in PositionQuantity(A)
  BY DEF Position
<1> PICK q : q = MapAmount(position.quantity, f)
  OBVIOUS
<1> PICK mapped : mapped = [position EXCEPT !.quantity = q]
  OBVIOUS
<1>2. /\ q \in PositionQuantity(B) /\ q.amount = f[position.quantity.amount]
      /\ g[f[position.quantity.amount]] = position.quantity.amount
            => MapAmount(q, g) = position.quantity
  BY <1>1 DEF PositionQuantity, MapAmount
<1>3. /\ mapped \in Position(B) /\ mapped.quantity = q
      /\ [mapped EXCEPT !.quantity = position.quantity] = position
  BY <1>2 DEF Position
<1>4. MapPosition(position, f) = mapped /\ MapPosition(mapped, g) = [mapped EXCEPT !.quantity = MapAmount(q, g)]
  BY <1>3 DEF MapPosition
<1> QED BY <1>2, <1>3, <1>4

LEMMA AccountMapped ==
    ASSUME NEW A, NEW B, NEW f \in [A -> B], NEW g, NEW fact \in AccountSnapshot(A)
    PROVE  /\ MapAmounts(fact, f) \in AccountSnapshot(B)
           /\ MapsTo(fact, f, g, MapAmounts(fact, f))
<1>0. \A position \in Position(A) :
            /\ MapPosition(position, f) \in Position(B)
            /\ MapPosition(position, f).quantity.amount = f[position.quantity.amount]
            /\ g[f[position.quantity.amount]] = position.quantity.amount
                => MapPosition(MapPosition(position, f), g) = position
  BY PositionMapped
<1>1. /\ fact.kind = "AccountSnapshot" /\ fact.equity \in Money(A) /\ fact.available \in Money(A)
      /\ fact.positions \in Seq(Position(A))
  BY DEF AccountSnapshot
<1> PICK e : e = MapAmount(fact.equity, f)
  OBVIOUS
<1> PICK v : v = MapAmount(fact.available, f)
  OBVIOUS
<1> PICK positions : positions = [i \in DOMAIN fact.positions |-> MapPosition(fact.positions[i], f)]
  OBVIOUS
<1> PICK mapped : mapped = [fact EXCEPT !.equity = e, !.available = v, !.positions = positions]
  OBVIOUS
<1>2. /\ e \in Money(B) /\ e.amount = f[fact.equity.amount]
      /\ g[f[fact.equity.amount]] = fact.equity.amount => MapAmount(e, g) = fact.equity
      /\ v \in Money(B) /\ v.amount = f[fact.available.amount]
      /\ g[f[fact.available.amount]] = fact.available.amount => MapAmount(v, g) = fact.available
  BY <1>1 DEF Money, MapAmount
<1>3. /\ positions \in Seq(Position(B)) /\ DOMAIN positions = DOMAIN fact.positions
      /\ \A i \in DOMAIN fact.positions :
            positions[i].quantity.amount = f[fact.positions[i].quantity.amount]
      /\ (\A i \in DOMAIN fact.positions :
            g[f[fact.positions[i].quantity.amount]] = fact.positions[i].quantity.amount)
                => [i \in DOMAIN positions |-> MapPosition(positions[i], g)] = fact.positions
  <2> PICK old : old = fact.positions
    OBVIOUS
  <2>1. /\ positions = [i \in DOMAIN old |-> MapPosition(old[i], f)]
        /\ DOMAIN old = 1..Len(old) /\ Len(old) \in Nat
        /\ old = [i \in DOMAIN old |-> old[i]]
    BY <1>1
  <2>3. \A i \in DOMAIN old : old[i] \in Position(A)
    <3> DEFINE PA == Position(A)
    <3>1. old \in Seq(PA)
      BY <1>1
    <3> HIDE DEF PA
    <3>2. \A i \in DOMAIN old : old[i] \in PA
      BY <3>1
    <3> QED BY <3>2 DEF PA
  <2>4. DOMAIN positions = DOMAIN old /\ \A i \in DOMAIN old : positions[i] = MapPosition(old[i], f)
    BY <2>1
  <2>5. positions \in Seq(Position(B))
    <3> DEFINE PB == Position(B)
    <3>1. \A i \in DOMAIN old : MapPosition(old[i], f) \in PB
      BY <1>0, <2>3
    <3> HIDE DEF PB
    <3>2. positions \in [1..Len(old) -> PB]
      BY <2>1, <3>1
    <3>3. positions \in Seq(PB)
      BY <2>1, <3>2
    <3> QED BY <3>3, Zenon DEF PB
  <2>6. \A i \in DOMAIN old : positions[i].quantity.amount = f[old[i].quantity.amount]
    BY <1>0, <2>3, <2>4
  <2>7. ASSUME \A i \in DOMAIN old : g[f[old[i].quantity.amount]] = old[i].quantity.amount
        PROVE  [i \in DOMAIN positions |-> MapPosition(positions[i], g)] = old
    <3>1. \A i \in DOMAIN old : MapPosition(positions[i], g) = old[i]
      BY <1>0, <2>3, <2>4, <2>7
    <3>2. [i \in DOMAIN positions |-> MapPosition(positions[i], g)] = [i \in DOMAIN old |-> old[i]]
      BY <2>4, <3>1
    <3> QED BY <2>1, <3>2, Zenon
  <2> QED BY <2>4, <2>5, <2>6, <2>7
<1>4. /\ mapped \in AccountSnapshot(B) /\ mapped.kind = "AccountSnapshot"
      /\ mapped.equity = e /\ mapped.available = v /\ mapped.positions = positions
      /\ [mapped EXCEPT !.equity = fact.equity, !.available = fact.available,
                        !.positions = fact.positions] = fact
  <2> DEFINE SA == Seq(Position(A))
             SB == Seq(Position(B))
  <2>1. positions \in SB /\ fact \in [kind : {"AccountSnapshot"},
            position_mode : {"NetMode", "LongShortMode"}, equity : Money(A), available : Money(A),
            positions : SA, source_time_ms : Int, received_time_ms : Int]
    BY <1>3 DEF AccountSnapshot
  <2> HIDE DEF SA, SB
  <2>2. /\ mapped \in [kind : {"AccountSnapshot"},
            position_mode : {"NetMode", "LongShortMode"}, equity : Money(B), available : Money(B),
            positions : SB, source_time_ms : Int, received_time_ms : Int]
        /\ mapped.kind = "AccountSnapshot"
        /\ mapped.equity = e /\ mapped.available = v /\ mapped.positions = positions
        /\ [mapped EXCEPT !.equity = fact.equity, !.available = fact.available,
                          !.positions = fact.positions] = fact
    BY <1>2, <2>1
  <2> QED BY <2>2 DEF AccountSnapshot, SB
<1>5. MapAmounts(fact, f) = mapped
  BY <1>1 DEF MapAmounts
<1>6. MapAmounts(mapped, g) = [mapped EXCEPT !.equity = MapAmount(e, g), !.available = MapAmount(v, g),
                !.positions = [i \in DOMAIN positions |-> MapPosition(positions[i], g)]]
  BY <1>4 DEF MapAmounts
<1>7. /\ Amounts(mapped) = {positions[i].quantity.amount : i \in DOMAIN positions}
                                \cup {e.amount, v.amount}
      /\ Amounts(fact) = {fact.positions[i].quantity.amount : i \in DOMAIN fact.positions}
                                \cup {fact.equity.amount, fact.available.amount}
  BY <1>1, <1>4 DEF Amounts, Magnitudes, Monies
<1>8. \A b \in Amounts(mapped) : \E a \in Amounts(fact) : b = f[a]
  <2> SUFFICES ASSUME NEW b \in Amounts(mapped) PROVE \E a \in Amounts(fact) : b = f[a]
    OBVIOUS
  <2>1. CASE b \in {e.amount, v.amount}
    BY <1>2, <1>7, <2>1
  <2>2. ASSUME NEW i \in DOMAIN positions, b = positions[i].quantity.amount
        PROVE  \E a \in Amounts(fact) : b = f[a]
    <3>1. fact.positions[i].quantity.amount \in Amounts(fact)
      BY <1>3, <1>7
    <3> QED BY <1>3, <2>2, <3>1
  <2> QED BY <1>7, <2>1, <2>2
<1>9. ASSUME \A a \in Amounts(fact) : g[f[a]] = a
      PROVE  MapAmounts(mapped, g) = fact
  <2>1. \A i \in DOMAIN fact.positions :
            g[f[fact.positions[i].quantity.amount]] = fact.positions[i].quantity.amount
    BY <1>7, <1>9
  <2>2. [i \in DOMAIN positions |-> MapPosition(positions[i], g)] = fact.positions
    BY <1>3, <2>1
  <2>3. MapAmount(e, g) = fact.equity /\ MapAmount(v, g) = fact.available
    BY <1>2, <1>7, <1>9
  <2> QED BY <1>4, <1>6, <2>2, <2>3
<1> QED BY <1>1, <1>4, <1>5, <1>8, <1>9 DEF MapsTo

LEMMA FactMapped ==
    ASSUME NEW A, NEW B, NEW f \in [A -> B], NEW g, NEW fact \in Fact(A)
    PROVE  /\ MapAmounts(fact, f) \in Fact(B)
           /\ MapsTo(fact, f, g, MapAmounts(fact, f))
<1>1. CASE fact \in MarketEvent
  BY <1>1, EventMapped DEF Fact
<1>2. CASE fact \in StrategyTarget(A)
  BY <1>2, TargetMapped DEF Fact
<1>3. CASE fact \in AccountSnapshot(A)
  BY <1>3, AccountMapped DEF Fact
<1>4. CASE fact \in OrderSnapshot(A)
  BY <1>4, OrderMapped DEF Fact
<1>5. CASE fact \in FillSnapshot(A)
  BY <1>5, FillMapped DEF Fact
<1> QED BY <1>1, <1>2, <1>3, <1>4, <1>5 DEF Fact

\* What a text can be read as, or would be were it a number.
Parsed == {Parse(text).value : text \in Texts}

\* A document of facts is decoded to a fact.
LEMMA DecodedFact ==
    ASSUME NEW fact \in Fact(Texts)
    PROVE  MapAmounts(fact, [text \in Texts |-> Parse(text).value]) \in Fact(Parsed)
<1> DEFINE f == [text \in Texts |-> Parse(text).value]
<1>1. f \in [Texts -> Parsed]
  BY DEF Parsed
<1> HIDE DEF f
<1>2. MapAmounts(fact, f) \in Fact(Parsed)
  BY <1>1, FactMapped
<1> QED BY <1>2 DEF f

\* The document of an envelope is one of facts, and is decoded to the fact of
\* the envelope.
LEMMA ReadBack ==
    ASSUME NEW fact \in Fact(Int), Constructible(fact), Envelope(fact).ok
    PROVE  Encode(fact).fact \in Fact(Texts) /\ Decode(Encode(fact)) = Ok(fact)
<1> PICK f : f = [d \in Int |-> ToNumericText(d)]
  OBVIOUS
<1> PICK g : g = [text \in Texts |-> Parse(text).value]
  OBVIOUS
<1> PICK document : document = Encode(fact)
  OBVIOUS
<1>1. f \in [Int -> Texts]
  BY TextRead
<1>2. /\ document.fact = MapAmounts(fact, f) /\ document.unknown = {}
      /\ document.schema_version = SCHEMA_VERSION /\ document.identity_version = IDENTITY_VERSION
  BY DEF Encode
<1>3. document.fact \in Fact(Texts) /\ MapsTo(fact, f, g, document.fact)
  BY <1>1, <1>2, FactMapped
<1>4. \A a \in Amounts(fact) : a \in Int /\ a \in Decimals
  BY DEF Constructible, Amounts, Decimals
<1>5. \A a \in Amounts(fact) : f[a] \in Texts /\ Parse(f[a]).ok /\ g[f[a]] = a
  <2> SUFFICES ASSUME NEW a \in Amounts(fact)
               PROVE  f[a] \in Texts /\ Parse(f[a]).ok /\ g[f[a]] = a
    OBVIOUS
  <2>1. a \in Int /\ a \in Decimals
    BY <1>4
  <2>2. f[a] = ToNumericText(a) /\ ToNumericText(a) \in Texts
        /\ Parse(ToNumericText(a)) = Ok(a)
    BY <2>1, TextRead
  <2> QED BY <2>2 DEF Ok
<1>6. \A b \in Amounts(document.fact) : Parse(b).ok
  BY <1>3, <1>5 DEF MapsTo
<1>7. MapAmounts(document.fact, g) = fact
  BY <1>3, <1>5 DEF MapsTo
<1>8. VersionError(document) = "ok"
  BY <1>2 DEF VersionError
<1>9. Decode(document) = Envelope(fact)
  <2>1. Readable(document)
    BY <1>2, <1>6 DEF Readable, Amounts
  <2> QED BY <1>2, <1>7, <1>8, <2>1 DEF Decode
<1>10. Envelope(fact) = Ok(fact)
  BY DEF Envelope, Err
<1> QED BY <1>3, <1>9, <1>10

\* What decodes is an envelope of this version.
LEMMA Decoded ==
    ASSUME NEW document, document.fact \in Fact(Texts),
           document.unknown \subseteq StrictObjects \cup TaggedObjects,
           Decode(document).ok
    PROVE  LET fact == Decode(document).value IN
           /\ fact \in Fact(Parsed) /\ Constructible(fact) /\ Envelope(fact).ok
           /\ document.schema_version = SCHEMA_VERSION
           /\ document.identity_version = IDENTITY_VERSION
           /\ document.unknown \subseteq TaggedObjects
<1> PICK fact : fact = MapAmounts(document.fact, [text \in Texts |-> Parse(text).value])
  OBVIOUS
<1>1. fact \in Fact(Parsed)
  BY DecodedFact
<1>2. /\ Readable(document) /\ Constructible(fact)
      /\ VersionError(document) = "ok" /\ Decode(document) = Envelope(fact)
  BY DEF Decode, Err
<1>3. Envelope(fact).ok /\ Envelope(fact).value = fact
  BY <1>2 DEF Envelope, Err, Ok
<1>4. document.schema_version = SCHEMA_VERSION /\ document.identity_version = IDENTITY_VERSION
  BY <1>2 DEF VersionError
<1>5. document.unknown \subseteq TaggedObjects
  BY <1>2 DEF Readable
<1> QED BY <1>1, <1>2, <1>3, <1>4, <1>5

-----------------------------------------------------------------------------
(* The exchange *)

\* Figures are exact and in the domain; one fact is on its way at a time; an
\* envelope built here is the document on the wire and what is received of it.
ExchangeInv ==
    /\ producer.at \in {"idle", "figure", "refused"}
    /\ producer.at = "figure" => producer.amount \in Decimals
    /\ FiguresExact
    /\ producer # Idle => wire = NoDocument
    /\ consumer.at \in {"idle", "held", "refused", "considered"}
    /\ consumer # Idle => wire # NoDocument
    /\ wire # NoDocument =>
            /\ wire.document.fact \in Fact(Texts)
            /\ wire.document.unknown \subseteq StrictObjects \cup TaggedObjects
    /\ wire.built # None =>
            /\ wire.built \in Fact(Int) /\ Constructible(wire.built) /\ Envelope(wire.built).ok
            /\ wire.document = Encode(wire.built)
    /\ BuiltIsReceived
    /\ ReceivedIsBuildable
    /\ consumer.at \in {"held", "considered"} => consumer.fact \in Fact(Parsed)
    /\ consumer.at = "considered" =>
            consumer.now \in Int /\ consumer.expired = IsExpired(consumer.fact, consumer.now)

LEMMA IdleFacts == Idle.at = "idle" /\ NoDocument.built = None
BY DEF Idle, NoDocument

\* A step of the computation of a figure.
LEMMA ComputedKeeps ==
    ASSUME ExchangeInv, NEW by, NEW result, NEW currency, NEW exact, wire = NoDocument,
           Computed(by, result, currency, exact), UNCHANGED <<wire, consumer>>,
           result.ok \in BOOLEAN,
           result.ok => result.value \in Decimals /\ result.value = exact,
           ~result.ok /\ by = "add" /\ result.error = "OutOfRange" => exact \notin Decimals,
           ~result.ok /\ by = "floor" => result.error \in {"Negative", "ZeroStep"}
    PROVE  ExchangeInv'
<1>1. producer' \in {[at |-> "figure", amount |-> result.value, currency |-> currency,
                      exact |-> exact],
                     [at |-> "refused", by |-> by, error |-> result.error, exact |-> exact]}
  BY DEF Computed
<1>2. /\ producer'.at \in {"figure", "refused"}
      /\ producer'.at = "figure" => producer'.amount \in Decimals /\ producer'.amount = producer'.exact
  BY <1>1 DEF Computed
<1>3. producer'.at = "refused" =>
            /\ producer'.by = by /\ producer'.error = result.error /\ producer'.exact = exact
            /\ ~result.ok
  BY DEF Computed
<1>4. FiguresExact'
  BY <1>2, <1>3 DEF FiguresExact
<1>5. UNCHANGED <<wire, consumer>>
  OBVIOUS
<1>6. BuiltIsReceived' /\ ReceivedIsBuildable'
  BY <1>5 DEF ExchangeInv, BuiltIsReceived, ReceivedIsBuildable
<1> QED BY <1>2, <1>4, <1>5, <1>6 DEF ExchangeInv

LEMMA ReadTextKeeps ==
    ASSUME ExchangeInv, NEW text \in RawTexts, NEW currency, ReadText(text, currency)
    PROVE  ExchangeInv'
<1>1. text \in Texts
  BY FactExchangeAssumption
<1> QED BY <1>1, ParsedInDomain, ComputedKeeps DEF ReadText

LEMMA AddKeeps ==
    ASSUME ExchangeInv, NEW other \in Summands, Add(other)
    PROVE  ExchangeInv'
<1> PICK money : money = [amount |-> producer.amount, currency |-> producer.currency]
  OBVIOUS
<1> PICK sum : sum = CheckedAdd(money, other)
  OBVIOUS
<1> PICK result : result = IF sum.ok THEN Ok(sum.value.amount) ELSE sum
  OBVIOUS
<1> PICK exact : exact = producer.exact + other.amount
  OBVIOUS
<1>1. /\ producer.at = "figure" /\ UNCHANGED <<wire, consumer>>
      /\ Computed("add", result, producer.currency, exact)
  BY DEF Add
<1>2. /\ producer.amount \in Decimals /\ producer.amount \in Int /\ producer.exact = producer.amount
      /\ other.amount \in Int /\ wire = NoDocument
  BY <1>1, FactExchangeAssumption, IdleFacts DEF ExchangeInv, FiguresExact, Decimals
<1>3. /\ sum.ok \in BOOLEAN
      /\ sum.ok => sum.value.amount = exact /\ exact \in Decimals
      /\ ~sum.ok => \/ sum.error = "CurrencyMismatch"
                    \/ sum.error = "OutOfRange" /\ exact \notin Decimals
  <2>1. /\ money.amount \in Int /\ money = [amount |-> money.amount, currency |-> money.currency]
        /\ money.amount + other.amount = exact
    BY <1>2
  <2> QED BY <1>2, <2>1, SumExact
<1>4. /\ result.ok = sum.ok
      /\ result.ok => result.value = exact /\ exact \in Decimals
      /\ ~result.ok => result.error = sum.error
  BY <1>3 DEF Ok
<1> QED BY <1>1, <1>2, <1>3, <1>4, ComputedKeeps

LEMMA RoundDownKeeps ==
    ASSUME ExchangeInv, NEW step \in Steps, RoundDown(step)
    PROVE  ExchangeInv'
<1> PICK result : result = FloorToStep(producer.amount, step)
  OBVIOUS
<1> PICK exact : exact = IF producer.exact >= 0 /\ step > 0
                         THEN MultipleBelow(producer.exact, step) ELSE producer.exact
  OBVIOUS
<1>1. /\ producer.at = "figure" /\ UNCHANGED <<wire, consumer>>
      /\ Computed("floor", result, producer.currency, exact)
  BY DEF RoundDown
<1>2. /\ producer.amount \in Decimals /\ producer.exact = producer.amount
      /\ step \in Decimals /\ wire = NoDocument
  BY <1>1, FactExchangeAssumption, IdleFacts DEF ExchangeInv, FiguresExact
<1>3. /\ result.ok \in BOOLEAN
      /\ result.ok => result.value \in Decimals /\ result.value = exact
      /\ ~result.ok => result.error \in {"Negative", "ZeroStep"}
  <2> PICK value : value = producer.amount
    OBVIOUS
  <2>1. /\ value >= 0 /\ step > 0 =>
                MultipleBelow(value, step) \in Decimals /\ result = Ok(MultipleBelow(value, step))
        /\ ~(value >= 0 /\ step > 0) => result \in {Err("Negative"), Err("ZeroStep")}
    BY <1>2, FloorExact
  <2>2. CASE value >= 0 /\ step > 0
    <3>1. exact = MultipleBelow(value, step)
      BY <1>2, <2>2
    <3>2. result = Ok(exact) /\ exact \in Decimals
      BY <2>1, <2>2, <3>1
    <3> QED BY <3>2 DEF Ok
  <2>3. CASE ~(value >= 0 /\ step > 0)
    <3>1. PICK error \in {"Negative", "ZeroStep"} : result = Err(error)
      BY <2>1, <2>3
    <3>2. result.ok = FALSE /\ result.error = error
      BY <3>1 DEF Err
    <3> QED BY <3>2
  <2> QED BY <2>2, <2>3
<1> QED BY <1>1, <1>2, <1>3, ComputedKeeps

LEMMA BuildKeeps ==
    ASSUME ExchangeInv, producer.at = "figure", NEW draft \in Drafts(producer.amount), Build(draft)
    PROVE  ExchangeInv'
<1>1. draft \in Fact(Int) /\ wire = NoDocument /\ consumer = Idle /\ consumer' = consumer
  BY FactExchangeAssumption, IdleFacts DEF ExchangeInv, Build
<1>2. BuiltIsReceived' /\ ReceivedIsBuildable'
  BY <1>1, IdleFacts DEF BuiltIsReceived, ReceivedIsBuildable
<1>3. CASE Constructible(draft) /\ Envelope(draft).ok
  <2>1. wire' = [document |-> Encode(draft), built |-> draft] /\ producer' = Idle
    BY <1>3 DEF Build
  <2>2. wire'.document = Encode(draft) /\ wire'.built = draft
    BY <2>1
  <2>3. Encode(draft).fact \in Fact(Texts) /\ Encode(draft).unknown = {}
    <3>1. Encode(draft).unknown = {}
      BY DEF Encode
    <3> QED BY <1>1, <1>3, <3>1, ReadBack
  <2>4. FiguresExact'
    BY <2>1, IdleFacts DEF FiguresExact
  <2> QED BY <1>1, <1>2, <1>3, <2>1, <2>2, <2>3, <2>4, IdleFacts DEF ExchangeInv
<1>4. CASE ~(Constructible(draft) /\ Envelope(draft).ok)
  <2>1. /\ producer' = [at |-> "refused", by |-> "build", error |-> "draft", exact |-> producer.exact]
        /\ wire' = wire
    BY <1>4 DEF Build
  <2>2. FiguresExact'
    BY <2>1 DEF FiguresExact
  <2> QED BY <1>1, <1>2, <2>1, <2>2, IdleFacts DEF ExchangeInv
<1> QED BY <1>3, <1>4

LEMMA ReceiveKeeps ==
    ASSUME ExchangeInv, Receive
    PROVE  ExchangeInv'
<1> PICK decoded : decoded = Decode(wire.document)
  OBVIOUS
<1>1. /\ wire # NoDocument /\ UNCHANGED <<producer, wire>>
      /\ consumer' = IF decoded.ok THEN [at |-> "held", fact |-> decoded.value]
                     ELSE [at |-> "refused", error |-> decoded.error]
      /\ wire.document.fact \in Fact(Texts)
      /\ wire.document.unknown \subseteq StrictObjects \cup TaggedObjects
  BY DEF Receive, ExchangeInv
<1>2. FiguresExact'
  BY <1>1 DEF ExchangeInv, FiguresExact
<1>3. wire.built # None => decoded = Ok(wire.built)
  BY ReadBack DEF ExchangeInv
<1>4. CASE decoded.ok
  <2>1. consumer' = [at |-> "held", fact |-> decoded.value]
    BY <1>1, <1>4
  <2>2. /\ decoded.value \in Fact(Parsed) /\ Constructible(decoded.value)
        /\ Envelope(decoded.value).ok
        /\ wire.document.schema_version = SCHEMA_VERSION
        /\ wire.document.identity_version = IDENTITY_VERSION
        /\ wire.document.unknown \subseteq TaggedObjects
    BY <1>1, <1>4, Decoded
  <2>3. BuiltIsReceived' /\ ReceivedIsBuildable'
    BY <1>1, <1>3, <2>1, <2>2 DEF BuiltIsReceived, ReceivedIsBuildable, Ok
  <2> QED BY <1>1, <1>2, <2>1, <2>2, <2>3 DEF ExchangeInv
<1>5. CASE ~decoded.ok
  <2>1. consumer' = [at |-> "refused", error |-> decoded.error]
    BY <1>1, <1>5
  <2>2. wire.built = None
    BY <1>3, <1>5 DEF Ok
  <2>3. BuiltIsReceived' /\ ReceivedIsBuildable'
    BY <1>1, <2>1, <2>2 DEF BuiltIsReceived, ReceivedIsBuildable
  <2> QED BY <1>1, <1>2, <2>1, <2>3 DEF ExchangeInv
<1> QED BY <1>4, <1>5

LEMMA ConsiderKeeps ==
    ASSUME ExchangeInv, NEW now \in Instants, Consider(now)
    PROVE  ExchangeInv'
<1>1. /\ consumer.at = "held" /\ UNCHANGED <<producer, wire>> /\ now \in Int
      /\ consumer' = [at |-> "considered", fact |-> consumer.fact, now |-> now,
                      expired |-> IsExpired(consumer.fact, now)]
  BY FactExchangeAssumption DEF Consider
<1>2. /\ consumer'.at = "considered" /\ consumer'.fact = consumer.fact /\ consumer'.now = now
      /\ consumer'.expired = IsExpired(consumer.fact, now)
  BY <1>1
<1>3. FiguresExact'
  BY <1>1 DEF ExchangeInv, FiguresExact
<1>4. consumer # Idle
  BY <1>1, IdleFacts
<1>5. BuiltIsReceived' /\ ReceivedIsBuildable'
  BY <1>1, <1>2, <1>4 DEF ExchangeInv, BuiltIsReceived, ReceivedIsBuildable
<1> QED BY <1>1, <1>2, <1>3, <1>4, <1>5 DEF ExchangeInv

LEMMA ExchangeInvariant == ExchangeSpec => []ExchangeInv
<1>1. ExchangeInit => ExchangeInv
  BY IdleFacts DEF ExchangeInit, ExchangeInv, FiguresExact, BuiltIsReceived, ReceivedIsBuildable
<1>2. ExchangeInv /\ [ExchangeNext]_exchangeVars => ExchangeInv'
  <2> SUFFICES ASSUME ExchangeInv, [ExchangeNext]_exchangeVars PROVE ExchangeInv'
    OBVIOUS
  <2>1. ASSUME NEW text \in RawTexts, NEW money \in Summands, ReadText(text, money.currency)
        PROVE  ExchangeInv'
    BY <2>1, ReadTextKeeps
  <2>2. ASSUME NEW money \in Summands, Add(money) PROVE ExchangeInv'
    BY <2>2, AddKeeps
  <2>3. ASSUME NEW step \in Steps, RoundDown(step) PROVE ExchangeInv'
    BY <2>3, RoundDownKeeps
  <2>4. ASSUME producer.at = "figure", NEW draft \in Drafts(producer.amount), Build(draft)
        PROVE  ExchangeInv'
    BY <2>4, BuildKeeps
  <2>5. CASE GiveUp
    <3>1. producer' = Idle /\ UNCHANGED <<wire, consumer>>
      BY <2>5 DEF GiveUp
    <3> QED BY <3>1, IdleFacts
            DEF ExchangeInv, FiguresExact, BuiltIsReceived, ReceivedIsBuildable
  <2>6. ASSUME NEW document \in ForeignDocuments, Foreign(document) PROVE ExchangeInv'
    <3>1. /\ wire' = [document |-> document, built |-> None] /\ UNCHANGED <<producer, consumer>>
          /\ consumer = Idle /\ producer = Idle /\ document.fact \in Fact(Texts)
          /\ document.unknown \subseteq StrictObjects \cup TaggedObjects
      BY <2>6, FactExchangeAssumption DEF Foreign, ExchangeInv
    <3>2. wire'.document = document /\ wire'.built = None
      BY <3>1
    <3> QED BY <3>1, <3>2, IdleFacts
            DEF ExchangeInv, FiguresExact, BuiltIsReceived, ReceivedIsBuildable
  <2>7. CASE Receive
    BY <2>7, ReceiveKeeps
  <2>8. ASSUME NEW now \in Instants, Consider(now) PROVE ExchangeInv'
    BY <2>8, ConsiderKeeps
  <2>9. CASE Forget
    <3>1. wire' = NoDocument /\ consumer' = Idle /\ producer' = producer
      BY <2>9 DEF Forget
    <3> QED BY <3>1, IdleFacts
            DEF ExchangeInv, FiguresExact, BuiltIsReceived, ReceivedIsBuildable
  <2>10. CASE UNCHANGED exchangeVars
    BY <2>10 DEF exchangeVars, ExchangeInv, FiguresExact, BuiltIsReceived, ReceivedIsBuildable
  <2> QED BY <2>1, <2>2, <2>3, <2>4, <2>5, <2>6, <2>7, <2>8, <2>9, <2>10 DEF ExchangeNext
<1> QED BY <1>1, <1>2, PTL DEF ExchangeSpec

\* Producer, wire and consumer are in one of their states, whatever they compute
\* and receive; figures stay in the domain.
THEOREM ExchangeTyped == ExchangeSpec => []ExchangeTypeOK
<1>1. ExchangeInv => ExchangeTypeOK
  <2>1. Decimals \subseteq Int
    BY DEF Decimals
  <2> QED BY <2>1 DEF ExchangeInv, ExchangeTypeOK, FiguresExact
<1> QED BY <1>1, ExchangeInvariant, PTL

\* Decimal::parse, Money::checked_add and Decimal::floor_to_step are exact for
\* every domain, although BigDecimal divides with finite precision: it is enough
\* that the precision reaches as far as the domain.
THEOREM FiguresAreExact == ExchangeSpec => []FiguresExact
<1>1. ExchangeInv => FiguresExact
  BY DEF ExchangeInv
<1> QED BY <1>1, ExchangeInvariant, PTL

\* Deserialize undoes Serialize for every fact that FactEnvelope::new accepts.
THEOREM EnvelopesSurviveTheWire == ExchangeSpec => []BuiltIsReceived
<1>1. ExchangeInv => BuiltIsReceived
  BY DEF ExchangeInv
<1> QED BY <1>1, ExchangeInvariant, PTL

\* Deserialize accepts nothing that FactEnvelope::new would refuse, no other
\* version, and unknown fields only where a tagged enum ignores them.
THEOREM OnlyEnvelopesAreReceived == ExchangeSpec => []ReceivedIsBuildable
<1>1. ExchangeInv => ReceivedIsBuildable
  BY DEF ExchangeInv
<1> QED BY <1>1, ExchangeInvariant, PTL

-----------------------------------------------------------------------------
(* What validate() leaves *)

\* A list of checks is passed only if each holds.
LEMMA ChecksHold ==
    ASSUME NEW checks, DOMAIN checks \subseteq Nat, FirstFailure(checks) = "ok",
           \A i \in DOMAIN checks : checks[i].error # "ok"
    PROVE  \A i \in DOMAIN checks : checks[i].holds
<1> DEFINE failed == {i \in DOMAIN checks : ~checks[i].holds}
<1> SUFFICES ASSUME failed # {} PROVE FALSE
  OBVIOUS
<1>1. failed \subseteq Nat
  OBVIOUS
<1>2. PICK i \in failed : \A j \in failed : <<j, i>> \notin OpToRel(<, Nat)
  BY <1>1, NatLessThanWellFounded, WFMin
<1>3. \A j \in failed : i <= j
  <2>1. \A j \in failed : ~(j < i)
    BY <1>1, <1>2 DEF OpToRel
  <2> QED BY <1>1, <2>1
<1>4. (CHOOSE k \in failed : \A j \in failed : k <= j) \in failed
  BY <1>3
<1>5. checks[CHOOSE k \in failed : \A j \in failed : k <= j].error = "ok"
  BY DEF FirstFailure
<1> QED BY <1>4, <1>5

LEMMA ValidTarget ==
    ASSUME NEW target, ValidateTarget(target) = "ok"
    PROVE  /\ target.source_time_ms <= target.valid_until_ms
           /\ target.input_event_ids # <<>> \/ target.value.kind \in {"NoSignal", "Unavailable"}
           /\ TargetMatches(target)
<1> PICK checks : checks = <<
        [holds |-> target.source_time_ms <= target.valid_until_ms, error |-> "InvalidTime"],
        [holds |-> target.versioned, error |-> "InvalidBinding"],
        [holds |-> AllDistinct(target.input_event_ids), error |-> "DuplicateInput"],
        [holds |-> target.input_event_ids # <<>>
                     \/ target.value.kind \in {"NoSignal", "Unavailable"},
         error |-> "InvalidBinding"],
        [holds |-> TargetMatches(target), error |-> "InvalidBinding"] >>
  OBVIOUS
<1>1. FirstFailure(checks) = "ok"
  BY DEF ValidateTarget
<1>2. /\ DOMAIN checks = 1..5
      /\ \A i \in 1..5 : checks[i].error # "ok"
  OBVIOUS
<1>3. \A i \in 1..5 : checks[i].holds
  BY <1>1, <1>2, ChecksHold
<1>4. checks[1].holds /\ checks[4].holds /\ checks[5].holds
  BY <1>3
<1>5. target.source_time_ms <= target.valid_until_ms
  BY <1>4
<1>6. target.input_event_ids # <<>> \/ target.value.kind \in {"NoSignal", "Unavailable"}
  BY <1>4
<1>7. TargetMatches(target)
  BY <1>4
<1> QED BY <1>5, <1>6, <1>7

LEMMA ValidAccount ==
    ASSUME NEW account, ValidateAccount(account) = "ok"
    PROVE  /\ \A i, j \in DOMAIN account.positions :
                Slot(account.positions[i]) = Slot(account.positions[j]) => i = j
           /\ \A i \in DOMAIN account.positions :
                PositionMatches(account.positions[i], account.position_mode)
<1> PICK slots : slots = [i \in DOMAIN account.positions |-> Slot(account.positions[i])]
  OBVIOUS
<1> PICK checks : checks = <<
        [holds |-> account.equity.currency = account.available.currency,
         error |-> "InvalidAmount"],
        [holds |-> /\ AllDistinct(slots)
                   /\ \A i \in DOMAIN account.positions :
                         PositionMatches(account.positions[i], account.position_mode),
         error |-> "InvalidPosition"] >>
  OBVIOUS
<1>1. FirstFailure(checks) = "ok"
  BY DEF ValidateAccount
<1>2. DOMAIN checks = 1..2 /\ \A i \in 1..2 : checks[i].error # "ok"
  OBVIOUS
<1>3. checks[2].holds
  BY <1>1, <1>2, ChecksHold
<1>4. /\ AllDistinct(slots)
      /\ \A i \in DOMAIN account.positions :
            PositionMatches(account.positions[i], account.position_mode)
  BY <1>3
<1> QED BY <1>4 DEF AllDistinct

\* A target that was received has a direction exactly if it has an amount,
\* follows from an event if it has any, and is not expired before its time.
THEOREM ReceivedTargetsMeanSomething == ExchangeSpec => []TargetsMeanSomething
<1>1. ExchangeInv => TargetsMeanSomething
  <2> SUFFICES ASSUME ExchangeInv, consumer.at \in {"held", "considered"},
                      consumer.fact.kind = "StrategyTarget"
               PROVE  TargetsMeanSomething
    BY DEF TargetsMeanSomething
  <2> PICK target : target = consumer.fact
    OBVIOUS
  <2>1. /\ target \in StrategyTarget(Parsed) /\ target.kind = "StrategyTarget"
        /\ Constructible(target) /\ Envelope(target).ok
    BY KindOfFact DEF ExchangeInv, ReceivedIsBuildable
  <2>2. ValidateTarget(target) = "ok"
    BY <2>1 DEF Envelope, Err, Validate
  <2>3. /\ target.source_time_ms \in Int /\ target.valid_until_ms \in Int
        /\ target.input_event_ids \in Seq(EventIds) /\ target.value \in TargetValue(Parsed)
    BY <2>1 DEF StrategyTarget
  <2>4. ASSUME target.value.kind = "SwapNet"
        PROVE  target.value.direction \in {"Long", "Short"} <=> target.value.contracts.amount > 0
    <3>1. target.value.direction \in {"Long", "Short", "Flat"}
      BY <2>3, <2>4 DEF TargetValue
    <3>2. target.value.direction = "Flat" <=> target.value.contracts.amount = 0
      BY <2>2, <2>4, ValidTarget DEF TargetMatches
    <3>3. target.value.contracts.amount \in Magnitudes(target)
      BY <2>1, <2>4 DEF Magnitudes, ValueAmounts
    <3>4. target.value.contracts.amount \in Int /\ target.value.contracts.amount >= 0
      BY <2>1, <3>3 DEF Constructible, NonNegative, Decimals
    <3> QED BY <3>1, <3>2, <3>4
  <2>5. ASSUME Magnitudes(target) # {} PROVE Len(target.input_event_ids) > 0
    <3>1. target.value.kind \notin {"NoSignal", "Unavailable"}
      BY <2>1, <2>5 DEF Magnitudes, ValueAmounts
    <3>2. target.input_event_ids # <<>>
      BY <2>2, <3>1, ValidTarget
    <3> QED BY <2>3, <3>2
  <2>6. ASSUME consumer.at = "considered", consumer.now <= target.source_time_ms
        PROVE  ~consumer.expired
    <3>1. consumer.now \in Int /\ consumer.expired = IsExpired(target, consumer.now)
      BY <2>6 DEF ExchangeInv
    <3>2. target.source_time_ms <= target.valid_until_ms
      BY <2>2, ValidTarget
    <3>3. ~(consumer.now > target.valid_until_ms)
      BY <2>3, <2>6, <3>1, <3>2
    <3> QED BY <3>1, <3>3 DEF IsExpired
  <2> QED BY <2>4, <2>5, <2>6 DEF TargetsMeanSomething
<1> QED BY <1>1, ExchangeInvariant, PTL

\* An account that was received states at most one holding and, as its mode
\* says, one net position or two legs per product, however many positions.
THEOREM AccountsAreReadOneWay == ExchangeSpec => []AccountsReadOneWay
<1>1. ExchangeInv => AccountsReadOneWay
  <2> SUFFICES ASSUME ExchangeInv, consumer.at = "held", consumer.fact.kind = "AccountSnapshot"
               PROVE  AccountsReadOneWay
    BY DEF AccountsReadOneWay
  <2> PICK account : account = consumer.fact
    OBVIOUS
  <2>1. /\ account \in AccountSnapshot(Parsed) /\ account.kind = "AccountSnapshot"
        /\ Envelope(account).ok
    BY KindOfFact DEF ExchangeInv, ReceivedIsBuildable
  <2>2. ValidateAccount(account) = "ok"
    BY <2>1 DEF Envelope, Err, Validate
  <2>3. account.position_mode \in {"NetMode", "LongShortMode"}
    BY <2>1 DEF AccountSnapshot
  <2> PICK positions : positions = account.positions
    OBVIOUS
  <2>4. \A i, j \in DOMAIN positions :
            positions[i].product_id = positions[j].product_id
                /\ positions[i].side = positions[j].side => i = j
    <3> SUFFICES ASSUME NEW i \in DOMAIN positions, NEW j \in DOMAIN positions,
                        positions[i].product_id = positions[j].product_id,
                        positions[i].side = positions[j].side
                 PROVE  i = j
      OBVIOUS
    <3>1. Slot(positions[i]) = Slot(positions[j])
      BY DEF Slot
    <3> QED BY <2>2, <3>1, ValidAccount
  <2>5. \A i \in DOMAIN positions :
            \/ /\ positions[i].product_kind = "Spot" /\ positions[i].quantity.unit = "Spot"
               /\ positions[i].side = None
            \/ /\ positions[i].product_kind = "LinearUsdtSwap" /\ positions[i].quantity.unit = "Swap"
               /\ account.position_mode = "NetMode" /\ positions[i].side = "Net"
            \/ /\ positions[i].product_kind = "LinearUsdtSwap" /\ positions[i].quantity.unit = "Swap"
               /\ account.position_mode = "LongShortMode" /\ positions[i].side \in {"Long", "Short"}
    BY <2>2, <2>3, ValidAccount DEF PositionMatches
  <2>6. \A i, j \in DOMAIN positions :
            positions[j].side = positions[i].side
                => positions[j].product_kind = positions[i].product_kind
    BY <2>5, FactsAssumption
  <2> DEFINE OneSide(unit, side) ==
                \A i \in DOMAIN positions :
                    positions[i].quantity.unit = unit => positions[i].side = side
  <2>7. \A product, unit, side : OneSide(unit, side) => Stated(account, product, unit) <= 1
    <3> SUFFICES ASSUME NEW product, NEW unit, NEW side,
                        \A i \in DOMAIN positions :
                            positions[i].quantity.unit = unit => positions[i].side = side
                 PROVE  Stated(account, product, unit) <= 1
      BY DEF OneSide
    <3> DEFINE S == {i \in DOMAIN positions : /\ positions[i].product_id = product
                                              /\ positions[i].quantity.unit = unit}
    <3>1. \A i, j \in S : i = j
      BY <2>4
    <3>2. CASE S = {}
      BY <3>2, FS_EmptySet DEF Stated
    <3>3. CASE S # {}
      <4>1. PICK i : i \in S
        BY <3>3
      <4>2. S = {i}
        <5> HIDE DEF S
        <5> QED BY <3>1, <4>1
      <4>3. Cardinality(S) = 1
        BY <4>2, FS_Singleton
      <4> QED BY <4>3 DEF Stated
    <3> QED BY <3>2, <3>3
  <2> HIDE DEF OneSide
  <2>8. \A product : Stated(account, product, "Spot") <= 1
    <3>1. OneSide("Spot", None)
      BY <2>5 DEF OneSide
    <3> QED BY <2>7, <3>1
  <2>9. ASSUME account.position_mode = "NetMode", NEW product
        PROVE  Stated(account, product, "Swap") <= 1
    <3>1. OneSide("Swap", "Net")
      BY <2>5, <2>9 DEF OneSide
    <3> QED BY <2>7, <3>1
  <2>10. ASSUME account.position_mode = "LongShortMode", NEW product
         PROVE  Stated(account, product, "Swap") <= 2
    <3> DEFINE S == {i \in DOMAIN positions : /\ positions[i].product_id = product
                                              /\ positions[i].quantity.unit = "Swap"}
               Leg(side) == {i \in S : positions[i].side = side}
    <3>1. S = Leg("Long") \cup Leg("Short")
      BY <2>5, <2>10
    <3>2. ASSUME NEW side PROVE Leg(side) = {} \/ \E i : Leg(side) = {i}
      <4>1. \A i, j \in Leg(side) : i = j
        BY <2>4
      <4> HIDE DEF Leg
      <4> QED BY <4>1
    <3>3. \E i, j : S \subseteq {i, j}
      BY <3>1, <3>2
    <3>4. PICK i, j : S \subseteq {i, j}
      BY <3>3
    <3>5. IsFiniteSet({i, j}) /\ Cardinality({i, j}) <= 2
      <4>1. IsFiniteSet({i}) /\ Cardinality({i}) = 1
        BY FS_Singleton
      <4>2. /\ IsFiniteSet({i} \cup {j})
            /\ Cardinality({i} \cup {j}) = IF j \in {i} THEN Cardinality({i}) ELSE Cardinality({i}) + 1
        BY <4>1, FS_AddElement
      <4>3. {i, j} = {i} \cup {j}
        OBVIOUS
      <4>4. Cardinality({i} \cup {j}) <= 2
        BY <4>1, <4>2
      <4> QED BY <4>2, <4>3, <4>4
    <3>6. Cardinality(S) <= 2
      <4> HIDE DEF S
      <4>1. IsFiniteSet(S) /\ Cardinality(S) <= Cardinality({i, j})
        BY <3>4, <3>5, FS_Subset
      <4>2. Cardinality(S) \in Nat /\ Cardinality({i, j}) \in Nat
        BY <3>5, <4>1, FS_CardinalityType
      <4> QED BY <3>5, <4>1, <4>2
    <3> QED BY <3>6 DEF Stated
  <2> QED BY <2>3, <2>6, <2>8, <2>9, <2>10 DEF AccountsReadOneWay
<1> QED BY <1>1, ExchangeInvariant, PTL
=============================================================================
