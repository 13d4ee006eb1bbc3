---------------------------- MODULE BusinessConfig ----------------------------
(***************************************************************************)
(* config::business: which files parse() accepts, and whether an account's *)
(* actual position mode suits the accepted file.  A file is a record with  *)
(* the lists of the TOML; the versions, the risk fractions, the schema and *)
(* the environment are one flag, "headed", that all their checks pass.     *)
(* Which of several errors is reported is left out: a file is Valid or not. *)
(***************************************************************************)
EXTENDS Naturals, Sequences, Functions

CONSTANTS
    None,       \* Option::None
    USDT        \* the currency of that name

Distinct(list, field) == IsInjective([i \in DOMAIN list |-> list[i][field]])

Ids(list, field) == {list[i][field] : i \in DOMAIN list}

ValidProduct(p) ==
    /\ p.base # p.quote
    /\ p.settlement = IF p.kind = "Spot" THEN None ELSE USDT

ValidProducts(file) ==
    /\ Distinct(file.products, "product_id")
    /\ Distinct(file.products, "okx_inst_id")
    /\ \A p \in Range(file.products) : ValidProduct(p)

ValidAccounts(file) ==
    /\ Distinct(file.accounts, "account_id")
    /\ \A a \in Range(file.accounts) :
        /\ a.product_ids # << >> /\ a.allowed_position_modes # << >>
        /\ Range(a.product_ids) \subseteq Ids(file.products, "product_id")
        /\ IsInjective(a.product_ids)
        /\ IsInjective(a.allowed_position_modes)

RequiredFeed(kind) ==
    IF kind = "CandleMomentum" THEN "Candle1m" ELSE "TradesAll"

\* Mutant: separate legs are accepted for an account that is never dual-side.
CompatibleWithoutMode(product, mode, account) ==
    \/ product.kind = "Spot" /\ mode = "Spot"
    \/ product.kind = "LinearUsdtSwap" /\ mode \in {"SwapNet", "SwapLegs"}

\* A target's mode suits its product, and the account may be in the position
\* mode it needs.
Compatible(product, mode, account) ==
    \/ product.kind = "Spot" /\ mode = "Spot"
    \/ product.kind = "LinearUsdtSwap" /\ mode = "SwapNet"
    \/ /\ product.kind = "LinearUsdtSwap" /\ mode = "SwapLegs"
       /\ "LongShortMode" \in Range(account.allowed_position_modes)

ValidInputs(file, s) ==
    /\ s.inputs # << >>
    /\ Distinct(s.inputs, "product_id")
    /\ Ids(s.inputs, "product_id") \subseteq Ids(file.products, "product_id")
    /\ Ids(s.inputs, "feed") = {RequiredFeed(s.kind)}

ValidTargets(file, s, account) ==
    /\ s.targets # << >>
    /\ Distinct(s.targets, "product_id")
    /\ \A t \in Range(s.targets) :
        /\ t.product_id \in Range(account.product_ids)
        /\ \E p \in Range(file.products) :
            p.product_id = t.product_id /\ Compatible(p, t.mode, account)

\* The bindings of a strategy, inputs first; their ids are unique in the file.
BindingsOf(s) == [i \in DOMAIN s.inputs |-> s.inputs[i].binding_id]
                    \o [i \in DOMAIN s.targets |-> s.targets[i].binding_id]

BindingsDistinct(strategies) ==
    \A i, j \in DOMAIN strategies :
        \A k \in DOMAIN BindingsOf(strategies[i]), l \in DOMAIN BindingsOf(strategies[j]) :
            BindingsOf(strategies[i])[k] = BindingsOf(strategies[j])[l] => i = j /\ k = l

ValidStrategies(file) ==
    /\ Distinct(file.strategies, "strategy_instance_id")
    /\ BindingsDistinct(file.strategies)
    /\ \A s \in Range(file.strategies) :
        /\ s.versioned
        /\ ValidInputs(file, s)
        /\ \E a \in Range(file.accounts) :
            a.account_id = s.account_id /\ ValidTargets(file, s, a)

\* parse() accepts the file.
Valid(file) ==
    /\ file.headed /\ ~file.enabled
    /\ file.products # << >> /\ file.accounts # << >> /\ file.strategies # << >>
    /\ ValidProducts(file)
    /\ ValidAccounts(file)
    /\ ValidStrategies(file)

\* Mutant: separate legs run in any allowed mode.
ModeSuitsAllowed(file, account, actual) ==
    actual \in Range(account.allowed_position_modes)

\* Mutant: the observed mode is compared with the targets only.
ModeSuitsTargets(file, account, actual) ==
    \A s \in Range(file.strategies) :
        s.account_id = account.account_id /\ "SwapLegs" \in Ids(s.targets, "mode")
            => actual = "LongShortMode"

\* validate_actual_mode: the mode is allowed, and it is dual-side when some
\* strategy of the account targets separate legs.
ModeSuits(file, account, actual) ==
    /\ actual \in Range(account.allowed_position_modes)
    /\ \A s \in Range(file.strategies) :
        s.account_id = account.account_id /\ "SwapLegs" \in Ids(s.targets, "mode")
            => actual = "LongShortMode"
==============================================================================
