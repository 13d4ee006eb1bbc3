------------------------------ MODULE MCCatalog ------------------------------
(* Small business files, good and bad, and an exchange with one spot        *)
(* instrument and one swap.                                                 *)
EXTENDS Catalog

Product(id, inst, kind, quote, settlement) ==
    [product_id |-> id, okx_inst_id |-> inst, kind |-> kind, base |-> "BTC",
     quote |-> quote, settlement |-> settlement]

SpotProduct == Product("p1", "spot", "Spot", USDT, None)
SwapProduct == Product("p2", "swap", "LinearUsdtSwap", USDT, USDT)

\* Good lists, a product id twice, an instrument twice, a swap without settlement,
\* and a product quoted in its own base.
ProductLists == {
    <<SpotProduct, SwapProduct>>,
    <<SpotProduct, [SwapProduct EXCEPT !.product_id = "p1"]>>,
    <<SpotProduct, SwapProduct, [SwapProduct EXCEPT !.product_id = "p3"]>>,
    <<SpotProduct, [SwapProduct EXCEPT !.settlement = None]>>,
    <<SpotProduct, [SwapProduct EXCEPT !.quote = "BTC"]>> }

ModeLists == {
    <<"NetMode">>, <<"LongShortMode">>, <<"NetMode", "LongShortMode">>,
    <<"NetMode", "NetMode">> }

Accounts ==
    {<<[account_id |-> "a1", allowed_position_modes |-> m, product_ids |-> p]>> :
        m \in ModeLists, p \in {<<"p2">>, <<"p1", "p2">>, <<"p1", "p1">>}}

Target(binding, id, mode) == [binding_id |-> binding, product_id |-> id, mode |-> mode]

Strategy(id, feed, input, targets) ==
    [strategy_instance_id |-> id, kind |-> "TradeFlow", account_id |-> "a1",
     versioned |-> TRUE, targets |-> targets,
     inputs |-> <<[binding_id |-> input, product_id |-> "p1", feed |-> feed]>>]

SpotTarget == Target("b2", "p1", "Spot")
NetTarget == Target("b2", "p2", "SwapNet")
LegsTarget == Target("b3", "p2", "SwapLegs")

\* Good ones, net and separate-leg targets of two strategies in one account, a
\* feed the strategy cannot use, and a binding id used twice.
Strategies == {
    <<Strategy("s1", "TradesAll", "b1", <<NetTarget>>)>>,
    <<Strategy("s1", "TradesAll", "b1", <<NetTarget>>),
      Strategy("s2", "TradesAll", "b4", <<LegsTarget>>)>>,
    <<Strategy("s1", "TradesAll", "b1", <<SpotTarget>>),
      Strategy("s2", "TradesAll", "b4", <<LegsTarget>>)>>,
    <<Strategy("s1", "TradesAll", "b1", <<SpotTarget>>),
      Strategy("s2", "TradesAll", "b1", <<LegsTarget>>)>>,
    <<Strategy("s1", "Candle1m", "b1", <<SpotTarget>>)>> }

AllFiles == {
    [headed |-> TRUE, enabled |-> FALSE, products |-> p, accounts |-> a, strategies |-> s] :
        p \in ProductLists, a \in Accounts, s \in Strategies}

SpotRow ==
    [inst_id |-> "spot", inst_type |-> "SPOT", state |-> "live", base_ccy |-> "BTC",
     quote_ccy |-> USDT, tick_sz |-> 1, lot_sz |-> 1, min_sz |-> 1, ct_type |-> None,
     ct_val |-> None, ct_val_ccy |-> None, settle_ccy |-> None, group_id |-> "g1"]
SwapRow ==
    [inst_id |-> "swap", inst_type |-> "SWAP", state |-> "live", base_ccy |-> None,
     quote_ccy |-> None, tick_sz |-> 1, lot_sz |-> 1, min_sz |-> 1, ct_type |-> "linear",
     ct_val |-> 1, ct_val_ccy |-> "BTC", settle_ccy |-> USDT, group_id |-> "g1"]

\* Also: a spot row with a contract value, one with another quote and no fee
\* group, a swap that is suspended and in another group, one without value, and
\* the wrong instrument.
ExchangeRows ==
    [i \in Instruments |->
        IF i = "spot" THEN {SpotRow, [SpotRow EXCEPT !.ct_val = 1],
                              [SpotRow EXCEPT !.quote_ccy = "USDC", !.group_id = None]}
        ELSE {SwapRow, [SwapRow EXCEPT !.state = "suspend", !.group_id = "g2"],
              [SwapRow EXCEPT !.ct_val = None], [SwapRow EXCEPT !.inst_id = "other"]}]

\* All is well at the start, but for the mode the account is in.
WellAtFirst ==
    {[mode |-> m, visible |-> Instruments,
      rows |-> [i \in Instruments |-> IF i = "spot" THEN SpotRow ELSE SwapRow]] :
        m \in Modes}

AheadOrBehind == {-1, 1}
ForthOrBack == {-2, 1}
==============================================================================
