------------------------- MODULE InstrumentDirectory -------------------------
(***************************************************************************)
(* The instrument crate: Directory::new and Directory::assess as operators *)
(* on records.  Decimals are integers, of which only the sign matters;     *)
(* instants are integers (milliseconds, never negative in the code, so the *)
(* checked subtractions cannot overflow); the length limit of a version,   *)
(* which is a hash, is left out.                                           *)
(***************************************************************************)
EXTENDS Integers, Functions

CONSTANTS
    None,       \* Option::None
    USDT        \* the currency of that name

\* No two entries of a list agree in a field.
DistinctBy(list, field) == IsInjective([i \in DOMAIN list |-> list[i][field]])

\* validate_spec: units that cannot be mistaken.  A SPOT size is in base units;
\* a contract has a positive value in the base currency and settles in USDT.
UnitsSupported(spec) ==
    \/ /\ spec.kind = "Spot"
       /\ spec.settlement = None
       /\ spec.contract_value = None
       /\ spec.contract_value_currency = None
    \/ /\ spec.kind = "LinearUsdtSwap"
       /\ spec.settlement = USDT
       /\ spec.contract_value # None /\ spec.contract_value > 0
       /\ spec.contract_value_currency = spec.base

\* The mapping and the exchange speak of the same product.
Agrees(mapping, spec) ==
    \A field \in {"kind", "base", "quote", "settlement"} :
        mapping[field] = spec[field]

Usable(spec) ==
    /\ spec.version # ""
    /\ spec.tick_size > 0 /\ spec.lot_size > 0 /\ spec.min_size > 0
    /\ spec.source_time_ms <= spec.received_time_ms

ValidateSpec(mapping, spec) ==
    CASE ~Agrees(mapping, spec) -> "MappingMismatch"
      [] Agrees(mapping, spec) /\ ~Usable(spec) -> "InvalidSpecification"
      [] Agrees(mapping, spec) /\ Usable(spec) ->
            IF UnitsSupported(spec) THEN "ok" ELSE "UnsupportedKind"

SpecsOf(specs, inst) ==
    {specs[i] : i \in {j \in DOMAIN specs : specs[j].okx_inst_id = inst}}

\* What Directory::new may return.  The mappings are visited in the order of a
\* HashMap: with several bad ones any of their errors may be the one reported.
DirectoryOutcomes(mappings, specs) ==
    LET missing == {m \in Range(mappings) : SpecsOf(specs, m.okx_inst_id) = {}}
        checked == UNION {{ValidateSpec(m, s) : s \in SpecsOf(specs, m.okx_inst_id)} :
                            m \in Range(mappings)}
        errors == (checked \ {"ok"})
                    \cup IF missing = {} THEN {} ELSE {"MissingSpecification"}
    IN  IF ~DistinctBy(mappings, "okx_inst_id") \/ ~DistinctBy(mappings, "product_id")
        THEN {"DuplicateMapping"}
        ELSE IF ~DistinctBy(specs, "okx_inst_id") THEN {"DuplicateRemote"}
        ELSE IF errors = {} THEN {"ok"} ELSE errors

\* fresh(), on anything that carries a source and a receipt time.
InFuture(now, fact) ==
    \/ fact.source_time_ms > now
    \/ fact.received_time_ms > now
    \/ fact.source_time_ms > fact.received_time_ms

Stale(now, fact, max_age) ==
    \/ max_age < 0
    \/ now - fact.source_time_ms > max_age
    \/ now - fact.received_time_ms > max_age

\* assess(): the first check that fails, or "ok".  spec is the directory's
\* specification of the product, mapping its mapping.
Assess(mapping, spec, permit, eligibility, fee, now, max_age) ==
    LET Member(x, list) == x \in Range(list)
        feeMatches == /\ fee.okx_inst_id = mapping.okx_inst_id
                      /\ fee.version # ""
                      /\ spec.fee_group_id = fee.group_id
        checks == <<
            <<permit.account_id = eligibility.account_id, "AccountMismatch">>,
            <<Member(eligibility.position_mode, permit.allowed_modes), "ModeNotAllowed">>,
            <<Member(mapping.product_id, permit.product_ids), "ProductNotAllowed">>,
            <<mapping.okx_inst_id \in eligibility.instrument_ids, "RemoteNotEligible">>,
            <<spec.state = "Live", "Inactive">>,
            <<~InFuture(now, spec), "TimeInFuture">>,
            <<~Stale(now, spec, max_age), "StaleSpecification">>,
            <<~InFuture(now, eligibility), "TimeInFuture">>,
            <<~Stale(now, eligibility, max_age), "StaleEligibility">>,
            <<feeMatches, "InvalidFee">>,
            <<~InFuture(now, fee), "TimeInFuture">>,
            <<~Stale(now, fee, max_age), "StaleFee">> >>
        failed == {i \in DOMAIN checks : ~checks[i][1]}
    IN  IF failed = {} THEN "ok"
        ELSE checks[CHOOSE i \in failed : \A j \in failed : i <= j][2]
==============================================================================
