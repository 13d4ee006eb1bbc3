------------------------------- MODULE Catalog -------------------------------
(***************************************************************************)
(* A read-only catalog of an account's products, gathered as the stage-one *)
(* acceptance (integration-tests) does: parse the business file, read the  *)
(* account's mode, its visible instruments of each kind and, per product,  *)
(* the specification and its fee group; build the Directory; assess every  *)
(* product.  It composes config::business, okx-client's conversions and    *)
(* the instrument crate, while the exchange changes between two reads and  *)
(* time passes between the answer, the receipt and the assessment.         *)
(*                                                                         *)
(* "now" is the time since the sync; the local clock shows that time until *)
(* somebody steps it.  "offset" is what the sync adds to the local clock.  *)
(* The first failure ends the run, as every expect() of the acceptance     *)
(* does.                                                                   *)
(***************************************************************************)
EXTENDS Integers, Sequences, Functions

CONSTANTS
    None,           \* Option::None
    USDT,           \* the currency of that name
    Files,          \* bound: the business files a run may be given
    Instruments,    \* the exchange's instruments
    Rows,           \* bound: per instrument, the rows it may be answered with
    Modes,          \* PositionMode
    FirstExchanges, \* bound: what the exchange is at the start of a run
    Offsets,        \* bound: exchange clock minus local clock, as synced
    ClockSteps,     \* bound: by how much the local clock may be stepped
    HTTP_TIMEOUT,   \* 5 s
    MAX_AGE,        \* the 30 s of the acceptance
    MaxTime,        \* bound: the horizon of a run
    MaxChanges      \* bound: changes of the exchange and steps of the clock in a run

Exchanges == [mode : Modes, visible : SUBSET Instruments,
              rows : {r \in [Instruments -> UNION Range(Rows)] :
                        \A i \in Instruments : r[i] \in Rows[i]}]

ASSUME CatalogAssumption ==
    /\ HTTP_TIMEOUT \in Nat
    /\ MAX_AGE \in Nat
    /\ MaxTime \in Nat
    /\ MaxChanges \in Nat
    /\ Offsets \subseteq Int /\ ClockSteps \subseteq Int
    /\ None \notin Int
    /\ Instruments \subseteq DOMAIN Rows /\ FirstExchanges \subseteq Exchanges
    /\ \A f \in Files :
        /\ f.products \in Seq(Range(f.products))
        /\ \A p \in Range(f.products) : p.kind \in {"Spot", "LinearUsdtSwap"}
        /\ \A a \in Range(f.accounts) : a.allowed_position_modes \in Seq(Modes)

VARIABLES
    now,            \* time since the sync
    wall,           \* how far the local clock was stepped, and (history) how far back
    offset,         \* server_ms - local_ms of the sync
    exchange,       \* the account's mode and visible instruments, and the rows
    changes,        \* how often the exchange or the clock changed
    file,           \* the business file
    step,           \* the step of the run, and the product it is at
    answer,         \* the answer under way to the current read, or None
    facts,          \* eligibility, specs and fees gathered so far
    assessed        \* when the products are assessed (the time, and what the local
                    \* clock shows), and the verdicts

catalogVars ==
    <<now, wall, offset, exchange, changes, file, step, answer, facts, assessed>>

Business == INSTANCE BusinessConfig
Okx == INSTANCE OkxFacts
Instrument == INSTANCE InstrumentDirectory

Kinds == <<"Spot", "LinearUsdtSwap">>

\* let account = &file.accounts[0]
TheAccount == file.accounts[1]
TheProduct == file.products[step.at]

\* unix_ms()
LocalMs == now + wall.shift

\* observation(): never a source time after the receipt.
SourceTime == Okx!Earlier(LocalMs + offset, LocalMs)

\* Mutant: the last product is left out.
MoreButLast == step.at + 1 < Len(file.products)

\* The loops over the products have another one to go to.
More == step.at < Len(file.products)

At(name) == step.name = name
Reading == step.name \in {"config", "list", "spec", "fee"}

CatalogInit ==
    /\ now = 0
    /\ wall = [shift |-> 0, back |-> 0]
    /\ offset \in Offsets
    /\ exchange \in FirstExchanges
    /\ changes = 0
    /\ file \in Files
    /\ step = [name |-> "parse", at |-> 1]
    /\ answer = None
    /\ facts = [eligibility |-> None, specs |-> << >>, fees |-> << >>, oldest |-> << >>]
    /\ assessed = [at |-> None, local |-> None, verdicts |-> << >>]

Goto(name, at) == step' = [name |-> name, at |-> at]
Stop(why) == step' = [name |-> "stopped", at |-> why]
StopIf(bad, why, name, at) == IF bad THEN Stop(why) ELSE Goto(name, at)

ParseFile ==
    /\ At("parse")
    /\ StopIf(~Business!Valid(file), "InvalidFile", "config", 1)
    /\ UNCHANGED <<now, wall, offset, exchange, changes, file, answer, facts, assessed>>
------------------------------------------------------------------------------
(* One read: the exchange answers from its current state, the answer is    *)
(* received within the timeout of the request, and is parsed.              *)

\* What the exchange answers to the read the run is at.
Body ==
    CASE At("config") -> exchange.mode
      [] At("list") -> {i \in exchange.visible :
                            exchange.rows[i].inst_type = Okx!Category(Kinds[step.at])}
      [] At("spec") -> exchange.rows[TheProduct.okx_inst_id]
      [] At("fee") -> facts.specs[step.at].fee_group_id

AnswerRead ==
    /\ Reading /\ answer = None
    /\ answer' = [at |-> now, body |-> Body]
    /\ UNCHANGED <<now, wall, offset, exchange, changes, file, step, facts, assessed>>

\* A clock, transport, status or parse error ends the run.  (A step of the clock
\* may make timestamp() refuse; which ones it sees is ReadOnlyClient's.)
FailRead ==
    /\ Reading
    /\ Stop("Failed")
    /\ answer' = None
    /\ UNCHANGED <<now, wall, offset, exchange, changes, file, facts, assessed>>

Received == answer # None

\* account_configuration, then validate_actual_mode.
ReceiveConfig ==
    /\ At("config") /\ Received
    /\ StopIf(~Business!ModeSuits(file, TheAccount, answer.body),
              "ActualModeMismatch", "list", 1)
    /\ facts' = [facts EXCEPT
            !.eligibility = [account_id |-> TheAccount.account_id,
                             position_mode |-> answer.body,
                             instrument_ids |-> {},
                             source_time_ms |-> SourceTime,
                             received_time_ms |-> LocalMs],
            !.oldest = Append(@, answer.at)]
    /\ answer' = None
    /\ UNCHANGED <<now, wall, offset, exchange, changes, file, assessed>>

\* account_instruments of one kind, joined to the eligibility.
ReceiveList ==
    /\ At("list") /\ Received
    /\ facts' = [facts EXCEPT
            !.eligibility = Okx!Combined(
                [@ EXCEPT !.instrument_ids = @ \cup answer.body], SourceTime, LocalMs),
            !.oldest = Append(@, answer.at)]
    /\ answer' = None
    /\ IF step.at < Len(Kinds) THEN Goto("list", step.at + 1) ELSE Goto("spec", 1)
    /\ UNCHANGED <<now, wall, offset, exchange, changes, file, assessed>>

\* Mutant: public_instrument does not compare the returned id.
AnyInstrument(row) == Okx!Parses(row, TheProduct.kind)

\* public_instrument accepts the row.
RequestedInstrument(row) ==
    /\ Okx!Parses(row, TheProduct.kind)
    /\ row.inst_id = TheProduct.okx_inst_id

\* public_instrument of one product, whose fee group is read next.
ReceiveSpec ==
    /\ At("spec") /\ Received
    /\ LET accepted == RequestedInstrument(answer.body)
       IN  IF accepted
           THEN /\ facts' = [facts EXCEPT
                        !.specs = Append(@, Okx!Spec(answer.body, TheProduct.kind,
                                                     SourceTime, LocalMs)),
                        !.oldest = Append(@, answer.at)]
                /\ StopIf(answer.body.group_id = None, "NoFeeGroup", "fee", step.at)
           ELSE /\ Stop("InvalidResponse")
                /\ UNCHANGED facts
    /\ answer' = None
    /\ UNCHANGED <<now, wall, offset, exchange, changes, file, assessed>>

\* fee_group of the specification just read.
ReceiveFee ==
    /\ At("fee") /\ Received
    /\ facts' = [facts EXCEPT
            !.fees = Append(@, Okx!FeeSchedule(TheProduct.okx_inst_id, answer.body,
                                               SourceTime, LocalMs)),
            !.oldest = Append(@, answer.at)]
    /\ answer' = None
    /\ IF More THEN Goto("spec", step.at + 1)
               ELSE Goto("build", 1)
    /\ UNCHANGED <<now, wall, offset, exchange, changes, file, assessed>>
------------------------------------------------------------------------------
(* Directory::new, and assess for each product. *)

BuildDirectory ==
    /\ At("build")
    /\ \E outcome \in Instrument!DirectoryOutcomes(file.products, facts.specs) :
        StopIf(outcome # "ok", outcome, "assess", 1)
    /\ assessed' = [assessed EXCEPT !.at = now, !.local = LocalMs]
    /\ UNCHANGED <<now, wall, offset, exchange, changes, file, answer, facts>>

Permit == [account_id |-> TheAccount.account_id,
           allowed_modes |-> TheAccount.allowed_position_modes,
           product_ids |-> TheAccount.product_ids]

\* The verdict on the product the run is at.
Verdict ==
    LET spec == CHOOSE s \in Range(facts.specs) :
                    s.okx_inst_id = TheProduct.okx_inst_id
    IN  Instrument!Assess(TheProduct, spec, Permit, facts.eligibility,
                          facts.fees[step.at], assessed.local, MAX_AGE)

AssessProduct ==
    /\ At("assess")
    /\ assessed' = [assessed EXCEPT !.verdicts = Append(@, Verdict)]
    /\ IF Verdict # "ok" THEN Stop(Verdict)
       ELSE IF More THEN Goto("assess", step.at + 1)
       ELSE Stop("Usable")
    /\ UNCHANGED <<now, wall, offset, exchange, changes, file, answer, facts>>
------------------------------------------------------------------------------
(* The environment. *)

\* The account or an instrument changes at the exchange.  A change while an
\* answer is under way is seen no earlier than one right after it, and is left out.
ExchangeChanges ==
    /\ changes < MaxChanges
    /\ Reading /\ answer = None
    /\ \/ \E m \in Modes \ {exchange.mode} : exchange' = [exchange EXCEPT !.mode = m]
       \/ \E v \in SUBSET Instruments \ {exchange.visible} :
            exchange' = [exchange EXCEPT !.visible = v]
       \/ \E i \in Instruments : \E r \in Rows[i] \ {exchange.rows[i]} :
            exchange' = [exchange EXCEPT !.rows[i] = r]
    /\ changes' = changes + 1
    /\ UNCHANGED <<now, wall, offset, file, step, answer, facts, assessed>>

\* Somebody steps the local clock, before a read or after the last one.  A step
\* while an answer is under way is the same as one before the answer.
StepClock ==
    /\ changes < MaxChanges
    /\ (Reading /\ answer = None) \/ At("build")
    /\ \E d \in ClockSteps :
        wall' = [shift |-> wall.shift + d, back |-> wall.back + IF d < 0 THEN -d ELSE 0]
    /\ changes' = changes + 1
    /\ UNCHANGED <<now, offset, exchange, file, step, answer, facts, assessed>>

\* Time passes while the run waits for a slot or an answer, and between the last
\* answer and the assessment, but an answer is received within the timeout.
Tick ==
    /\ now < MaxTime
    /\ Reading \/ At("build")
    /\ answer # None => now - answer.at < HTTP_TIMEOUT
    /\ now' = now + 1
    /\ UNCHANGED <<wall, offset, exchange, changes, file, step, answer, facts, assessed>>

CatalogNext ==
    \/ ParseFile
    \/ AnswerRead \/ FailRead
    \/ ReceiveConfig \/ ReceiveList \/ ReceiveSpec \/ ReceiveFee
    \/ BuildDirectory \/ AssessProduct
    \/ ExchangeChanges \/ StepClock \/ Tick

CatalogSpec == CatalogInit /\ [][CatalogNext]_catalogVars
------------------------------------------------------------------------------
(* Properties *)

\* The run accepted the product at index i.
Accepted(i) == i \in DOMAIN assessed.verdicts /\ assessed.verdicts[i] = "ok"

\* Which answers the verdict on product i rests on: the mode, the two lists, and
\* the specification and the fee of the product.
EvidenceOf(i) == {1, 2, 3, 2 + 2 * i, 3 + 2 * i}

\* Types, and the facts are gathered in step with the run.
CatalogTypeOK ==
    /\ now \in 0 .. MaxTime
    /\ wall \in [shift : Int, back : Nat]
    /\ offset \in Offsets
    /\ exchange \in Exchanges
    /\ changes \in 0 .. MaxChanges
    /\ file \in Files
    /\ answer # None => answer.at \in 0 .. now
    /\ facts.oldest \in Seq(0 .. now)
    /\ At("spec") => Len(facts.specs) = step.at - 1 /\ Len(facts.fees) = step.at - 1
    /\ At("fee") => Len(facts.specs) = step.at /\ Len(facts.fees) = step.at - 1
    /\ At("build") \/ At("assess") =>
            /\ Len(facts.specs) = Len(file.products)
            /\ Len(facts.fees) = Len(file.products)
    /\ assessed.at \in (0 .. now) \cup {None}
    /\ assessed.at # None => assessed.local = assessed.at + wall.shift

\* assess(): a product is accepted only on facts that the exchange gave at most
\* MAX_AGE and one request timeout ago, each of them, although the account's
\* mode and its lists are joined into one fact with one pair of times.  If the
\* local clock is stepped back meanwhile, they may be older by just that much.
FreshEvidence ==
    \A i \in DOMAIN assessed.verdicts :
        Accepted(i) => \A e \in EvidenceOf(i) :
            assessed.at - facts.oldest[e] <= MAX_AGE + HTTP_TIMEOUT + wall.back

\* A product that is accepted can be traded as every strategy of the account
\* wants it: its specification is of the kind the target's mode is for, and
\* separate legs are wanted only in an account observed in dual-side mode.
TargetsExecutable ==
    \A i \in DOMAIN assessed.verdicts : Accepted(i) =>
        \A s \in Range(file.strategies) : \A t \in Range(s.targets) :
            /\ s.account_id = TheAccount.account_id
            /\ t.product_id = file.products[i].product_id
            => /\ facts.specs[i].kind = IF t.mode = "Spot" THEN "Spot"
                                        ELSE "LinearUsdtSwap"
               /\ t.mode = "SwapLegs"
                    => facts.eligibility.position_mode = "LongShortMode"

\* An accepted file leaves every account a mode to run in: no combination of its
\* strategies makes validate_actual_mode refuse all the modes it allows.
EveryAccountCanRun ==
    step.name \notin {"parse", "stopped"} =>
        \A a \in Range(file.accounts) :
            \E m \in Range(a.allowed_position_modes) : Business!ModeSuits(file, a, m)

Ended(reasons) == step.name = "stopped" /\ step.at \in reasons

\* Directory::new refuses what the client parsed for an accepted file only when
\* the exchange and the file disagree on a product, or when a SPOT row carries
\* contract fields: duplicates, missing and invalid specifications, and swaps
\* with unusable units were all refused before.
DirectoryRefusals ==
    /\ ~Ended({"DuplicateMapping", "DuplicateRemote", "MissingSpecification",
               "InvalidSpecification"})
    /\ Ended({"UnsupportedKind"}) =>
        \E s \in Range(facts.specs) :
            s.kind = "Spot" /\ (s.contract_value # None \/ s.contract_value_currency # None)

\* assess() never finds a fee, an account or a mode that does not belong to the
\* product and the account, however the exchange changed between the reads, and
\* a fact from the future only after the local clock was stepped back.
AssessmentRefusals ==
    /\ ~Ended({"InvalidFee", "AccountMismatch", "ModeNotAllowed"})
    /\ Ended({"TimeInFuture"}) => wall.back > 0
==============================================================================
