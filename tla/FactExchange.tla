---------------------------- MODULE FactExchange ----------------------------
(***************************************************************************)
(* A producer and a consumer of facts, as far as the model crate decides   *)
(* what they can do: the producer reads a text, adds to it and rounds it   *)
(* down (units), drafts a fact with the figure as its quantity and wraps   *)
(* it in an envelope (facts); the envelope, or a document of another       *)
(* program, is decoded by the consumer, which may look whether a target    *)
(* has expired.  One fact at a time: no two envelopes are related by the   *)
(* code.  "exact" is history: what the figure should be.                   *)
(***************************************************************************)
EXTENDS Facts, FiniteSets

CONSTANTS
    RawTexts,           \* texts an amount may be read from
    Summands,           \* money that may be added
    Steps,              \* steps a figure may be rounded down to
    Drafts(_),          \* the facts a producer may draft with a figure
    ForeignDocuments,   \* documents of other programs
    Instants            \* times at which a target is considered

ASSUME FactExchangeAssumption ==
    /\ RawTexts \subseteq Texts
    /\ \A money \in Summands : money.amount \in Decimals
    /\ Steps \subseteq Decimals
    /\ \A figure \in Decimals : Drafts(figure) \subseteq Fact(Int)
    /\ \A document \in ForeignDocuments :
            /\ document.fact \in Fact(Texts)
            /\ document.unknown \subseteq StrictObjects \cup TaggedObjects
    /\ None \notin Fact(Int)
    /\ Instants \subseteq Int

VARIABLES
    producer,   \* the figure under computation, or why there is none
    wire,       \* the document on its way and, if it was built here, its fact
    consumer    \* what the consumer made of it

exchangeVars == <<producer, wire, consumer>>

Idle == [at |-> "idle"]
NoDocument == [document |-> None, built |-> None]

ExchangeInit == producer = Idle /\ wire = NoDocument /\ consumer = Idle

\* An operation returned: the figure is replaced, or the refusal is kept.
Computed(by, result, currency, exact) ==
    producer' = IF result.ok
                THEN [at |-> "figure", amount |-> result.value,
                      currency |-> currency, exact |-> exact]
                ELSE [at |-> "refused", by |-> by, error |-> result.error, exact |-> exact]

\* Decimal::parse
ReadText(text, currency) ==
    /\ producer = Idle /\ wire = NoDocument
    /\ Computed("parse", Parse(text), currency,
                IF text.negative THEN -text.units ELSE text.units)
    /\ UNCHANGED <<wire, consumer>>

\* Money::checked_add
Add(other) ==
    LET money == [amount |-> producer.amount, currency |-> producer.currency]
        sum == CheckedAdd(money, other)
    IN  /\ producer.at = "figure"
        /\ Computed("add", IF sum.ok THEN Ok(sum.value.amount) ELSE sum,
                    producer.currency, producer.exact + other.amount)
        /\ UNCHANGED <<wire, consumer>>

\* The greatest multiple of the step that is not above the value.
MultipleBelow(value, step) ==
    CHOOSE m \in 0..value : m % step = 0 /\ value - m < step

\* Decimal::floor_to_step
RoundDown(step) ==
    /\ producer.at = "figure"
    /\ Computed("floor", FloorToStep(producer.amount, step), producer.currency,
                IF producer.exact >= 0 /\ step > 0
                THEN MultipleBelow(producer.exact, step) ELSE producer.exact)
    /\ UNCHANGED <<wire, consumer>>

\* FactEnvelope::new and its serialization.
Build(draft) ==
    /\ producer.at = "figure"
    /\ IF Constructible(draft) /\ Envelope(draft).ok
       THEN /\ wire' = [document |-> Encode(draft), built |-> draft]
            /\ producer' = Idle
       ELSE /\ producer' = [at |-> "refused", by |-> "build",
                            error |-> "draft", exact |-> producer.exact]
            /\ UNCHANGED wire
    /\ UNCHANGED consumer

GiveUp ==
    /\ producer.at = "refused"
    /\ producer' = Idle
    /\ UNCHANGED <<wire, consumer>>

\* A document of another program, of whatever version.
Foreign(document) ==
    /\ producer = Idle /\ wire = NoDocument
    /\ wire' = [document |-> document, built |-> None]
    /\ UNCHANGED <<producer, consumer>>

Receive ==
    LET decoded == Decode(wire.document) IN
    /\ wire # NoDocument /\ consumer = Idle
    /\ consumer' = IF decoded.ok THEN [at |-> "held", fact |-> decoded.value]
                   ELSE [at |-> "refused", error |-> decoded.error]
    /\ UNCHANGED <<producer, wire>>

\* is_expired of a target that was received.
Consider(now) ==
    /\ consumer.at = "held" /\ consumer.fact.kind = "StrategyTarget"
    /\ consumer' = [at |-> "considered", fact |-> consumer.fact, now |-> now,
                    expired |-> IsExpired(consumer.fact, now)]
    /\ UNCHANGED <<producer, wire>>

\* The consumer is done with the fact, or the document is lost.
Forget ==
    /\ wire # NoDocument
    /\ wire' = NoDocument /\ consumer' = Idle
    /\ UNCHANGED producer

ExchangeNext ==
    \/ \E text \in RawTexts, money \in Summands : ReadText(text, money.currency)
    \/ \E money \in Summands : Add(money)
    \/ \E step \in Steps : RoundDown(step)
    \/ producer.at = "figure" /\ \E draft \in Drafts(producer.amount) : Build(draft)
    \/ GiveUp
    \/ \E document \in ForeignDocuments : Foreign(document)
    \/ Receive
    \/ \E now \in Instants : Consider(now)
    \/ Forget

ExchangeSpec == ExchangeInit /\ [][ExchangeNext]_exchangeVars

-----------------------------------------------------------------------------
\* Types of the control state.
ExchangeTypeOK ==
    /\ producer.at \in {"idle", "figure", "refused"}
    /\ consumer.at \in {"idle", "held", "refused", "considered"}
    /\ consumer # Idle => wire # NoDocument
    /\ producer.at = "figure" => producer.amount \in Decimals /\ producer.exact \in Int

\* Arithmetic never approximates: a figure is the exact result, within
\* NUMERIC(38,18), and a sum or a rounding is refused only when there is no
\* such result.  (units.rs: floor_to_step goes through a quotient of finite
\* precision, checked_add through a text; docs: "rejected, never truncated".)
FiguresExact ==
    /\ producer.at = "figure" => producer.amount = producer.exact
    /\ producer.at = "refused" =>
        /\ producer.by = "add" /\ producer.error = "OutOfRange" => producer.exact \notin Decimals
        /\ producer.by = "floor" => producer.error \in {"Negative", "ZeroStep"}

\* What was built is received as it was built: the texts, constructors and
\* checks of the decoder accept everything that new() accepts.
BuiltIsReceived ==
    wire.built # None /\ consumer # Idle =>
        consumer.at \in {"held", "considered"} /\ consumer.fact = wire.built

\* What is received could have been built here: a document of another version
\* or with parts that no constructor makes is not, and if it had unknown fields
\* they stood beside a tag and its content, the only place where they are ignored.
\* ("JSON decoding rejects unknown fields", crates/model/README.md, holds of the
\* other objects.)
ReceivedIsBuildable ==
    consumer.at \in {"held", "considered"} =>
        /\ wire.document.schema_version = SCHEMA_VERSION
        /\ wire.document.identity_version = IDENTITY_VERSION
        /\ wire.document.unknown \subseteq TaggedObjects
        /\ Constructible(consumer.fact) /\ Envelope(consumer.fact).ok

\* How many positions an account states for a product in a unit.
Stated(account, product, unit) ==
    Cardinality({i \in DOMAIN account.positions :
                    /\ account.positions[i].product_id = product
                    /\ account.positions[i].quantity.unit = unit})

\* An account that was received reads in one way: at most one holding and one
\* net position per product, or one long and one short, as its mode says.
\* (validate() tells positions apart by product and side, not by unit.)
AccountsReadOneWay ==
    consumer.at = "held" /\ consumer.fact.kind = "AccountSnapshot" =>
        LET account == consumer.fact
            legs == IF account.position_mode = "NetMode" THEN 1 ELSE 2
        IN  \A i \in DOMAIN account.positions :
                LET product == account.positions[i].product_id IN
                /\ Stated(account, product, "Spot") <= 1
                /\ Stated(account, product, "Swap") <= legs
                /\ \A j \in DOMAIN account.positions :
                    account.positions[j].side = account.positions[i].side
                        => account.positions[j].product_kind = account.positions[i].product_kind

\* A target that was received asks for what it says: a direction comes with a
\* position to take, whatever rounding made of the figure, a quantity with an
\* event it follows from, and the target is not expired at its own time.
TargetsMeanSomething ==
    consumer.at \in {"held", "considered"} /\ consumer.fact.kind = "StrategyTarget" =>
        LET target == consumer.fact IN
        /\ target.value.kind = "SwapNet" =>
              (target.value.direction \in {"Long", "Short"} <=> target.value.contracts.amount > 0)
        /\ Magnitudes(target) # {} => Len(target.input_event_ids) > 0
        /\ consumer.at = "considered" /\ consumer.now <= target.source_time_ms
              => ~consumer.expired
=============================================================================
