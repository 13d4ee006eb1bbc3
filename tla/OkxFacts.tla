------------------------------ MODULE OkxFacts ------------------------------
(***************************************************************************)
(* okx-client's parsing of rows and its conversions into the facts that    *)
(* the instrument crate judges.  A field that the exchange leaves out or   *)
(* sends empty is None.  Decimals are integers (their format is not modelled: *)
(* a row whose decimals do not parse is one that a call fails on), the     *)
(* hashes that version the facts are one non-empty string, and ids and     *)
(* currencies are well formed.                                             *)
(***************************************************************************)
EXTENDS Integers

CONSTANTS
    None,       \* Option::None
    USDT        \* the currency of that name

Category(kind) == IF kind = "Spot" THEN "SPOT" ELSE "SWAP"

\* positive(): an empty string is no decimal.
Positive(field) == field # None /\ field > 0

\* A perpetual swap that the client supports.
Linear(row) ==
    /\ row.ct_type = "linear" /\ row.settle_ccy = USDT /\ row.ct_val_ccy # None
    /\ Positive(row.ct_val)

\* InstrumentRow::parse succeeds.
Parses(row, kind) ==
    /\ row.inst_type = Category(kind)
    /\ row.state \in {"live", "post_only", "suspend", "rebase"}
    /\ Positive(row.tick_sz) /\ Positive(row.lot_sz) /\ Positive(row.min_sz)
    /\ kind = "Spot" => row.base_ccy # None /\ row.quote_ccy # None
    /\ kind = "LinearUsdtSwap" => Linear(row)
    /\ row.ct_val # None => Positive(row.ct_val)

TradingState(state) ==
    CASE state = "live" -> "Live"
      [] state = "post_only" -> "PostOnly"
      [] state \in {"suspend", "rebase"} -> "Inactive"

\* Observation<PublicInstrument>::to_instrument_spec of a parsed row: a swap is
\* denominated by the currency of its contract value and its settlement.
Spec(row, kind, source, received) ==
    [okx_inst_id |-> row.inst_id,
     kind |-> kind,
     base |-> IF kind = "Spot" THEN row.base_ccy ELSE row.ct_val_ccy,
     quote |-> IF kind = "Spot" THEN row.quote_ccy ELSE row.settle_ccy,
     settlement |-> row.settle_ccy,
     version |-> "hash",
     state |-> TradingState(row.state),
     tick_size |-> row.tick_sz, lot_size |-> row.lot_sz, min_size |-> row.min_sz,
     contract_value |-> row.ct_val,
     contract_value_currency |-> row.ct_val_ccy,
     fee_group_id |-> row.group_id,
     source_time_ms |-> source, received_time_ms |-> received]

\* Observation<FeeRates>::to_fee_schedule; the rates are left out.
FeeSchedule(inst, group, source, received) ==
    [okx_inst_id |-> inst, group_id |-> group, version |-> "hash",
     source_time_ms |-> source, received_time_ms |-> received]

Earlier(a, b) == IF a <= b THEN a ELSE b
Later(a, b) == IF a >= b THEN a ELSE b

\* Mutant: the later source time of two observations stands for both.
CombinedLater(eligibility, source, received) ==
    [eligibility EXCEPT !.source_time_ms = Later(@, source),
                        !.received_time_ms = Later(@, received)]

\* to_eligibility: two observations make one fact; the older source time and the
\* later receipt are its times.
Combined(eligibility, source, received) ==
    [eligibility EXCEPT !.source_time_ms = Earlier(@, source),
                        !.received_time_ms = Later(@, received)]
==============================================================================
