-------------------------------- MODULE Facts --------------------------------
(***************************************************************************)
(* model::facts: the five kinds of fact, FactEnvelope::new with its        *)
(* validate(), and the decoding of an envelope.  A fact is a record of the *)
(* fields that are checked or that tell facts apart.  The same record with *)
(* texts for decimals is the JSON body of a document.  The four versions   *)
(* of a target are one field, "versioned" (none of them is empty); a       *)
(* session is its length.  Identities and currencies are well formed.  A   *)
(* document also says which of its objects have fields the program does    *)
(* not know ("unknown": the types of those objects).                       *)
(***************************************************************************)
EXTENDS Units, Sequences

CONSTANTS
    None,           \* Option::None
    ProductIds,     \* the identities of products ...
    EventIds,       \* ... and of market events
    Currencies

ASSUME FactsAssumption == None \notin Int /\ None \notin {"Net", "Long", "Short"}

SCHEMA_VERSION == 1
IDENTITY_VERSION == 1

-----------------------------------------------------------------------------
\* The shapes of facts, over the set of what stands for a decimal.  A quantity
\* is bound to a product; one that may be of either unit names its unit.
Money(A) == [amount : A, currency : Currencies]
Price(A) == [amount : A, base : Currencies, quote : Currencies]
Quantity(A) == [amount : A, product_id : ProductIds]
PositionQuantity(A) == [unit : {"Spot", "Swap"}, amount : A, product_id : ProductIds]

MarketEvent ==
    [kind : {"MarketEvent"}, event_id : EventIds, product_id : ProductIds,
     source_sequence : Int \cup {None}, session_length : Nat,
     source_time_ms : Int, received_time_ms : Int]

TargetValue(A) ==
         [kind : {"NoSignal", "Unavailable"}]
    \cup [kind : {"Spot"}, quantity : Quantity(A)]
    \cup [kind : {"SwapNet"}, direction : {"Long", "Short", "Flat"}, contracts : Quantity(A)]
    \cup [kind : {"SwapLegs"}, long : Quantity(A), short : Quantity(A)]

StrategyTarget(A) ==
    [kind : {"StrategyTarget"}, product_id : ProductIds, versioned : BOOLEAN,
     input_event_ids : Seq(EventIds), source_time_ms : Int, valid_until_ms : Int,
     value : TargetValue(A)]

Position(A) ==
    [product_id : ProductIds, product_kind : {"Spot", "LinearUsdtSwap"},
     side : {None, "Net", "Long", "Short"}, quantity : PositionQuantity(A)]

AccountSnapshot(A) ==
    [kind : {"AccountSnapshot"}, position_mode : {"NetMode", "LongShortMode"},
     equity : Money(A), available : Money(A), positions : Seq(Position(A)),
     source_time_ms : Int, received_time_ms : Int]

OrderSnapshot(A) ==
    [kind : {"OrderSnapshot"}, product_id : ProductIds,
     status : {"Unknown", "Live", "PartiallyFilled", "Filled", "Canceled", "Rejected"},
     filled_quantity : PositionQuantity(A), source_time_ms : Int]

FillSnapshot(A) ==
    [kind : {"FillSnapshot"}, product_id : ProductIds, quantity : PositionQuantity(A),
     price : Price(A), fee : Money(A), source_time_ms : Int]

Fact(A) == MarketEvent \cup StrategyTarget(A) \cup AccountSnapshot(A)
             \cup OrderSnapshot(A) \cup FillSnapshot(A)

-----------------------------------------------------------------------------
\* Holds for no two positions of a list with the same value.
AllDistinct(list) == \A i, j \in DOMAIN list : list[i] = list[j] => i = j

\* A list of checks, each with its error: the error of the first that fails.
FirstFailure(checks) ==
    LET failed == {i \in DOMAIN checks : ~checks[i].holds} IN
    IF failed = {} THEN "ok"
    ELSE checks[CHOOSE i \in failed : \A j \in failed : i <= j].error

\* The amounts of a target's value.
ValueAmounts(value) ==
    CASE value.kind = "Spot" -> {value.quantity.amount}
      [] value.kind = "SwapNet" -> {value.contracts.amount}
      [] value.kind = "SwapLegs" -> {value.long.amount, value.short.amount}
      [] OTHER -> {}

\* The amounts of a fact that are quantities or prices, never negative ...
Magnitudes(fact) ==
    CASE fact.kind = "MarketEvent" -> {}
      [] fact.kind = "StrategyTarget" -> ValueAmounts(fact.value)
      [] fact.kind = "AccountSnapshot" ->
            {fact.positions[i].quantity.amount : i \in DOMAIN fact.positions}
      [] fact.kind = "OrderSnapshot" -> {fact.filled_quantity.amount}
      [] fact.kind = "FillSnapshot" -> {fact.quantity.amount, fact.price.amount}

\* ... and those that are money, of either sign.
Monies(fact) ==
    CASE fact.kind = "AccountSnapshot" -> {fact.equity.amount, fact.available.amount}
      [] fact.kind = "FillSnapshot" -> {fact.fee.amount}
      [] OTHER -> {}

\* A quantity or money, a position, a target's value and a fact, with each amount
\* replaced by what f makes of it.
MapAmount(of, f) == [of EXCEPT !.amount = f[@]]

MapPosition(position, f) == [position EXCEPT !.quantity = MapAmount(@, f)]

MapValue(value, f) ==
    CASE value.kind = "Spot" -> [value EXCEPT !.quantity = MapAmount(@, f)]
      [] value.kind = "SwapNet" -> [value EXCEPT !.contracts = MapAmount(@, f)]
      [] value.kind = "SwapLegs" ->
            [value EXCEPT !.long = MapAmount(@, f), !.short = MapAmount(@, f)]
      [] OTHER -> value

MapAmounts(fact, f) ==
    CASE fact.kind = "MarketEvent" -> fact
      [] fact.kind = "StrategyTarget" -> [fact EXCEPT !.value = MapValue(@, f)]
      [] fact.kind = "AccountSnapshot" ->
            [fact EXCEPT !.equity = MapAmount(@, f), !.available = MapAmount(@, f),
                         !.positions = [i \in DOMAIN @ |-> MapPosition(@[i], f)]]
      [] fact.kind = "OrderSnapshot" -> [fact EXCEPT !.filled_quantity = MapAmount(@, f)]
      [] fact.kind = "FillSnapshot" ->
            [fact EXCEPT !.quantity = MapAmount(@, f), !.price = MapAmount(@, f),
                         !.fee = MapAmount(@, f)]

Times(fact) ==
    CASE fact.kind = "StrategyTarget" -> {fact.source_time_ms, fact.valid_until_ms}
      [] fact.kind \in {"MarketEvent", "AccountSnapshot"} ->
            {fact.source_time_ms, fact.received_time_ms}
      [] OTHER -> {fact.source_time_ms}

\* The parts of a fact can be had from the constructors of their types.
Constructible(fact) ==
    /\ \A amount \in Magnitudes(fact) : amount \in Decimals /\ NonNegative(amount)
    /\ \A amount \in Monies(fact) : amount \in Decimals
    /\ \A time \in Times(fact) : TimeMs(time)

ValidateMarketEvent(event) ==
    IF \/ event.source_sequence # None /\ event.source_sequence < 0
       \/ event.session_length \notin 1..128
    THEN "InvalidTime" ELSE "ok"

\* Mutant: the direction is not held against the amount.
TargetMatchesLoosely(target) ==
    LET value == target.value IN
    CASE value.kind = "Spot" -> value.quantity.product_id = target.product_id
      [] value.kind = "SwapNet" -> value.contracts.product_id = target.product_id
      [] value.kind = "SwapLegs" -> /\ value.long.product_id = target.product_id
                                    /\ value.short.product_id = target.product_id
      [] OTHER -> TRUE

\* The value is in units of the target's product; flat is exactly zero.
TargetMatches(target) ==
    LET value == target.value IN
    CASE value.kind = "Spot" -> value.quantity.product_id = target.product_id
      [] value.kind = "SwapNet" ->
            /\ value.contracts.product_id = target.product_id
            /\ value.direction = "Flat" <=> value.contracts.amount = 0
      [] value.kind = "SwapLegs" -> /\ value.long.product_id = target.product_id
                                    /\ value.short.product_id = target.product_id
      [] OTHER -> TRUE

ValidateTarget(target) ==
    FirstFailure(<<
        [holds |-> target.source_time_ms <= target.valid_until_ms, error |-> "InvalidTime"],
        [holds |-> target.versioned, error |-> "InvalidBinding"],
        [holds |-> AllDistinct(target.input_event_ids), error |-> "DuplicateInput"],
        [holds |-> target.input_event_ids # <<>>
                     \/ target.value.kind \in {"NoSignal", "Unavailable"},
         error |-> "InvalidBinding"],
        [holds |-> TargetMatches(target), error |-> "InvalidBinding"] >>)

\* Unit and side are those of the position's kind in an account of this mode.
PositionMatches(position, mode) ==
    /\ position.quantity.product_id = position.product_id
    /\ \/ /\ position.product_kind = "Spot" /\ position.quantity.unit = "Spot"
          /\ position.side = None
       \/ /\ position.product_kind = "LinearUsdtSwap" /\ position.quantity.unit = "Swap"
          /\ position.side \in CASE mode = "NetMode" -> {"Net"}
                                 [] mode = "LongShortMode" -> {"Long", "Short"}

\* Mutant: the whole position is the key.
SlotWhole(position) == <<position, position.side>>

\* Positions are told apart by product and side.
Slot(position) == <<position.product_id, position.side>>

ValidateAccount(account) ==
    LET slots == [i \in DOMAIN account.positions |-> Slot(account.positions[i])] IN
    FirstFailure(<<
        [holds |-> account.equity.currency = account.available.currency,
         error |-> "InvalidAmount"],
        [holds |-> /\ AllDistinct(slots)
                   /\ \A i \in DOMAIN account.positions :
                         PositionMatches(account.positions[i], account.position_mode),
         error |-> "InvalidPosition"] >>)

ValidateOrder(order) ==
    IF /\ order.filled_quantity.product_id = order.product_id
       /\ order.status = "Filled" => order.filled_quantity.amount # 0
    THEN "ok" ELSE "InvalidOrder"

ValidateFill(fill) ==
    IF fill.quantity.product_id = fill.product_id /\ fill.quantity.amount # 0
    THEN "ok" ELSE "InvalidAmount"

Validate(fact) ==
    CASE fact.kind = "MarketEvent" -> ValidateMarketEvent(fact)
      [] fact.kind = "StrategyTarget" -> ValidateTarget(fact)
      [] fact.kind = "AccountSnapshot" -> ValidateAccount(fact)
      [] fact.kind = "OrderSnapshot" -> ValidateOrder(fact)
      [] fact.kind = "FillSnapshot" -> ValidateFill(fact)

\* FactEnvelope::new of a fact whose parts exist.
Envelope(fact) == IF Validate(fact) = "ok" THEN Ok(fact) ELSE Err(Validate(fact))

\* The objects of a document that deny unknown fields: the envelope and the
\* structs (serde's deny_unknown_fields) ...
StrictObjects ==
    {"FactEnvelope", "MarketEvent", "StrategyTarget", "AccountSnapshot", "OrderSnapshot",
     "FillSnapshot", "Position", "Money", "Price", "BaseQuantity", "Contracts"}

\* ... and those that ignore them: a tag beside its content, for which the
\* attribute is not given.
TaggedObjects == {"Fact", "TargetValue", "PositionQuantity"}

\* Serialize: the document of an envelope of this version.
Encode(fact) ==
    [schema_version |-> SCHEMA_VERSION, identity_version |-> IDENTITY_VERSION,
     unknown |-> {}, fact |-> MapAmounts(fact, [d \in Int |-> ToNumericText(d)])]

VersionError(document) ==
    IF document.schema_version # SCHEMA_VERSION THEN "SchemaVersion"
    ELSE IF document.identity_version # IDENTITY_VERSION THEN "IdentityVersion"
    ELSE "ok"

\* Mutant: the envelope accepts unknown fields.
ReadableLoosely(document) ==
    /\ document.unknown \cap (StrictObjects \ {"FactEnvelope"}) = {}
    /\ \A text \in Magnitudes(document.fact) \cup Monies(document.fact) : Parse(text).ok

\* The derived decoders know the fields, and the decimals can be read.
Readable(document) ==
    /\ document.unknown \cap StrictObjects = {}
    /\ \A text \in Magnitudes(document.fact) \cup Monies(document.fact) : Parse(text).ok

\* Deserialize: the shape with its fields and decimals, the types' own
\* constructors, the versions, then new().
Decode(document) ==
    LET fact == MapAmounts(document.fact, [text \in Texts |-> Parse(text).value])
    IN  IF ~Readable(document) \/ ~Constructible(fact) THEN Err("Malformed")
        ELSE IF VersionError(document) # "ok" THEN Err(VersionError(document))
        ELSE Envelope(fact)

\* StrategyTarget::is_expired
IsExpired(target, now) == now > target.valid_until_ms
==============================================================================
