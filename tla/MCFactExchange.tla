--------------------------- MODULE MCFactExchange ---------------------------
(***************************************************************************)
(* Instance of FactExchange: two smallest units in 1, magnitudes below 8.  *)
(***************************************************************************)
EXTENDS FactExchange

CONSTANTS Event1, Event2

AllTexts == [negative : BOOLEAN, units : {0, 1, 3, 6, 7, 8},
             form : {"canonical", "padded", "excess", "malformed"}]

AllMoney == [amount : {-7, -1, 2, 7}, currency : {"USDT", "BTC"}]

AllSteps == {-1, 0, 1, 2, 3, 5}

Product == CHOOSE p \in ProductIds : TRUE

Events ==
    [kind : {"MarketEvent"}, event_id : {Event1}, product_id : {Product},
     source_sequence : {None, -1, 0}, session_length : {0, 1, 128, 129},
     source_time_ms : {0, 2}, received_time_ms : {1}]

Targets(amounts) ==
    [kind : {"StrategyTarget"}, product_id : {Product}, versioned : BOOLEAN,
     input_event_ids : {<<>>, <<Event1>>, <<Event1, Event2>>, <<Event1, Event1>>},
     source_time_ms : {0, 1}, valid_until_ms : {0, 1}, value : TargetValue(amounts)]

Positions(amounts) ==
    [product_id : ProductIds, product_kind : {"Spot", "LinearUsdtSwap"},
     side : {None, "Net", "Long", "Short"},
     quantity : PositionQuantity(amounts)]

\* Pairs of positions of any kind, and three of one product.
PositionLists(amounts) ==
    LET sides == [side : {None, "Net", "Long", "Short"}]
        swap(s) == [product_id |-> Product, product_kind |-> "LinearUsdtSwap", side |-> s.side,
                    quantity |-> [unit |-> "Swap", amount |-> 0, product_id |-> Product]]
        held == [product_id |-> Product, product_kind |-> "Spot", side |-> None,
                 quantity |-> [unit |-> "Spot", amount |-> 0, product_id |-> Product]]
    IN       {<<>>} \cup {<<p>> : p \in Positions(amounts)}
        \cup {<<p, q>> : p \in Positions(amounts), q \in Positions({0})}
        \cup {<<held, swap(s), swap(t)>> : s, t \in sides}

Accounts(amounts) ==
    [kind : {"AccountSnapshot"}, position_mode : {"NetMode", "LongShortMode"},
     equity : {[amount |-> -3, currency |-> "USDT"]},
     available : [amount : {2}, currency : {"USDT", "BTC"}],
     positions : PositionLists(amounts), source_time_ms : {0}, received_time_ms : {1}]

Orders(amounts) ==
    [kind : {"OrderSnapshot"}, product_id : {Product},
     status : {"Unknown", "Live", "PartiallyFilled", "Filled", "Canceled", "Rejected"},
     filled_quantity : [unit : {"Spot", "Swap"}, amount : amounts, product_id : ProductIds],
     source_time_ms : {0}]

Fills(amounts) ==
    [kind : {"FillSnapshot"}, product_id : {Product},
     quantity : [unit : {"Spot", "Swap"}, amount : amounts, product_id : ProductIds],
     price : [amount : {0, 5}, base : {"BTC"}, quote : {"USDT"}],
     fee : [amount : {-1, 1}, currency : {"USDT"}], source_time_ms : {0}]

AllFacts(amounts) ==
    Events \cup Targets(amounts \cup {0}) \cup Accounts(amounts) \cup Orders(amounts) \cup Fills(amounts)

DraftsWith(figure) == AllFacts({figure})

\* Documents in which anything may be out of order: amounts that are negative,
\* too large, padded or unreadable, times before the epoch, unknown fields in
\* any of the objects of an order or an event, and other versions.
OddTexts == {[negative |-> TRUE, units |-> 1, form |-> "canonical"],
             [negative |-> TRUE, units |-> 0, form |-> "padded"],
             [negative |-> FALSE, units |-> Limit, form |-> "canonical"],
             [negative |-> FALSE, units |-> 1, form |-> "excess"]}

Odd(facts) ==
    UNION {{MapAmounts(fact, [amount \in Int |-> text]) : text \in OddTexts} : fact \in facts}

OddDocuments ==
    LET few == Targets({0}) \cup Orders({0}) \cup Fills({0})
        early == {[t EXCEPT !.source_time_ms = -1] : t \in Targets({0})}
    IN       [schema_version : {0, 1, 2}, identity_version : {0, 1, 2},
              unknown : {{}, {"Fact"}},
              fact : {Encode(fact).fact : fact \in Orders({0}) \cup Events}]
        \cup [schema_version : {1}, identity_version : {1},
              unknown : SUBSET {"FactEnvelope", "Fact", "OrderSnapshot", "PositionQuantity"},
              fact : {Encode(fact).fact : fact \in Orders({0})}]
        \cup [schema_version : {1}, identity_version : {1},
              unknown : SUBSET {"FactEnvelope", "Fact", "MarketEvent"},
              fact : {Encode(fact).fact : fact \in Events}]
        \cup [schema_version : {1}, identity_version : {1}, unknown : {{}},
              fact : Odd(few) \cup {Encode(fact).fact : fact \in early}]
=============================================================================
