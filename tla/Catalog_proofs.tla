--------------------------- MODULE Catalog_proofs ---------------------------
(***************************************************************************)
(* Theorems about Catalog, for all files, exchanges, clocks, age limits and*)
(* timeouts: that the accounts of an accepted file can run, and that       *)
(* products are accepted on fresh evidence only.                           *)
(***************************************************************************)
EXTENDS Catalog, SequenceTheorems, WellFoundedInduction, TLAPS

------------------------------------------------------------------------------
(* Accounts and their position modes.                                      *)

Running == step.name \notin {"parse", "stopped"}

\* A run that goes on was given a file that parse() accepts.
RunningInv == file \in Files /\ (Running => Business!Valid(file))

\* The operators of Functions that BusinessConfig sees are those seen here.
LEMMA SameFunctions ==
    /\ \A f : Business!Range(f) = Range(f)
    /\ \A f : Business!IsInjective(f) <=> IsInjective(f)
BY DEF Range, IsInjective, Business!Range, Business!IsInjective

\* In an accepted file, an account that some strategy wants separate legs of
\* allows the dual-side mode: account ids name one account each.
LEMMA LegsAllowed ==
    ASSUME NEW f, Business!Valid(f), NEW a \in Range(f.accounts),
           NEW s \in Range(f.strategies), s.account_id = a.account_id,
           "SwapLegs" \in Business!Ids(s.targets, "mode")
    PROVE  "LongShortMode" \in Range(a.allowed_position_modes)
<1>1. PICK b \in Range(f.accounts) :
        b.account_id = s.account_id /\ Business!ValidTargets(f, s, b)
  BY SameFunctions DEF Business!Valid, Business!ValidStrategies
<1>2. PICK i \in DOMAIN f.accounts : f.accounts[i] = a
  BY DEF Range
<1>3. PICK j \in DOMAIN f.accounts : f.accounts[j] = b
  BY DEF Range
<1>4. IsInjective([k \in DOMAIN f.accounts |-> f.accounts[k].account_id])
  BY SameFunctions DEF Business!Valid, Business!ValidAccounts, Business!Distinct
<1>5. i = j
  BY <1>1, <1>2, <1>3, <1>4 DEF IsInjective
<1>6. b = a
  BY <1>2, <1>3, <1>5
<1>7. PICK k \in DOMAIN s.targets : s.targets[k].mode = "SwapLegs"
  BY DEF Business!Ids
<1>8. s.targets[k] \in Range(s.targets)
  BY DEF Range
<1>9. \E p \in Range(f.products) :
        Business!Compatible(p, s.targets[k].mode, b)
  BY <1>1, <1>8, SameFunctions DEF Business!ValidTargets
<1> QED
  BY <1>6, <1>7, <1>9, SameFunctions DEF Business!Compatible

\* An accepted file leaves each account a mode to run in.
LEMMA SomeModeSuits ==
    ASSUME NEW f, Business!Valid(f), NEW a \in Range(f.accounts),
           a.allowed_position_modes \in Seq(Modes)
    PROVE  \E m \in Range(a.allowed_position_modes) : Business!ModeSuits(f, a, m)
<1> DEFINE allowed == Range(a.allowed_position_modes)
<1>1. CASE "LongShortMode" \in allowed
  <2>1. "LongShortMode" \in Business!Range(a.allowed_position_modes)
    BY <1>1, SameFunctions
  <2> QED
    BY <1>1, <2>1 DEF Business!ModeSuits
<1>2. CASE "LongShortMode" \notin allowed
  <2>1. a.allowed_position_modes # << >>
    BY SameFunctions DEF Business!Valid, Business!ValidAccounts
  <2>2. 1 \in DOMAIN a.allowed_position_modes
    BY <2>1
  <2>3. PICK m : m \in allowed
    BY <2>2 DEF Range
  <2>4. \A s \in Range(f.strategies) :
            s.account_id = a.account_id =>
                "SwapLegs" \notin Business!Ids(s.targets, "mode")
    BY <1>2, LegsAllowed, SameFunctions
  <2> QED
    BY <2>3, <2>4, SameFunctions DEF Business!ModeSuits
<1> QED
  BY <1>1, <1>2

LEMMA RunningInit == CatalogInit => RunningInv
BY DEF CatalogInit, RunningInv, Running

LEMMA RunningStep == RunningInv /\ [CatalogNext]_catalogVars => RunningInv'
<1> SUFFICES ASSUME RunningInv, [CatalogNext]_catalogVars
             PROVE  RunningInv'
  OBVIOUS
<1>1. file' = file
  BY DEF CatalogNext, catalogVars, ParseFile, AnswerRead, FailRead, ReceiveConfig,
     ReceiveList, ReceiveSpec, ReceiveFee, BuildDirectory, AssessProduct,
     ExchangeChanges, StepClock, Tick
<1>2. ASSUME Running' PROVE Running \/ Business!Valid(file)
  <2>1. CASE ParseFile
    BY <1>2, <2>1 DEF ParseFile, StopIf, Stop, Goto, Running
  <2>2. CASE UNCHANGED step
    BY <1>2, <2>2 DEF Running
  <2>3. CASE ~UNCHANGED step /\ ~ParseFile
    BY <2>3 DEF CatalogNext, catalogVars, AnswerRead, FailRead, ReceiveConfig,
       ReceiveList, ReceiveSpec, ReceiveFee, BuildDirectory, AssessProduct,
       ExchangeChanges, StepClock, Tick, At, Reading, Running
  <2> QED
    BY <2>1, <2>2, <2>3
<1>3. Business!Valid(file)' <=> Business!Valid(file)
  BY <1>1 DEF Business!Valid, Business!ValidProducts, Business!ValidAccounts,
     Business!ValidStrategies, Business!BindingsDistinct, Business!ValidInputs,
     Business!ValidTargets, Business!ValidProduct, Business!Distinct, Business!Ids,
     Business!Compatible, Business!RequiredFeed, Business!BindingsOf
<1> QED
  BY <1>1, <1>2, <1>3 DEF RunningInv

\* business.rs: whatever the file that parse() accepted, each of its accounts
\* has an allowed position mode that validate_actual_mode does not refuse.
THEOREM AccountsCanRun == CatalogSpec => []EveryAccountCanRun
<1>1. RunningInv => EveryAccountCanRun
  BY SomeModeSuits, CatalogAssumption DEF RunningInv, Running, EveryAccountCanRun
<1> QED
  BY RunningInit, RunningStep, <1>1, PTL DEF CatalogSpec

------------------------------------------------------------------------------
(* The age of the evidence.                                                *)

\* A set of natural numbers has a least one.
LEMMA LeastNatural ==
    ASSUME NEW S, S \subseteq Nat, S # {}
    PROVE  \E i \in S : \A j \in S : i <= j
<1>1. PICK i \in S : \A j \in S : <<j, i>> \notin OpToRel(<, Nat)
  BY NatLessThanWellFounded, WFMin
<1>2. \A j \in S : ~(j < i)
  BY <1>1 DEF OpToRel
<1> QED
  BY <1>2

\* assess() looks for the first failing check, so with no error none failed: the
\* specification, the eligibility and the fee are not stale.
LEMMA AssessedFresh ==
    ASSUME NEW mapping, NEW spec, NEW permit, NEW eligibility, NEW fee,
           NEW at, NEW max_age,
           Instrument!Assess(mapping, spec, permit, eligibility, fee, at, max_age) = "ok"
    PROVE  /\ ~Instrument!Stale(at, spec, max_age)
           /\ ~Instrument!Stale(at, eligibility, max_age)
           /\ ~Instrument!Stale(at, fee, max_age)
<1> DEFINE Member(x, list) == x \in Instrument!Range(list)
<1> DEFINE feeMatches == /\ fee.okx_inst_id = mapping.okx_inst_id
                         /\ fee.version # ""
                         /\ spec.fee_group_id = fee.group_id
<1> DEFINE checks == <<
            <<permit.account_id = eligibility.account_id, "AccountMismatch">>,
            <<Member(eligibility.position_mode, permit.allowed_modes), "ModeNotAllowed">>,
            <<Member(mapping.product_id, permit.product_ids), "ProductNotAllowed">>,
            <<mapping.okx_inst_id \in eligibility.instrument_ids, "RemoteNotEligible">>,
            <<spec.state = "Live", "Inactive">>,
            <<~Instrument!InFuture(at, spec), "TimeInFuture">>,
            <<~Instrument!Stale(at, spec, max_age), "StaleSpecification">>,
            <<~Instrument!InFuture(at, eligibility), "TimeInFuture">>,
            <<~Instrument!Stale(at, eligibility, max_age), "StaleEligibility">>,
            <<feeMatches, "InvalidFee">>,
            <<~Instrument!InFuture(at, fee), "TimeInFuture">>,
            <<~Instrument!Stale(at, fee, max_age), "StaleFee">> >>
<1> DEFINE failed == {i \in DOMAIN checks : ~checks[i][1]}
<1>1. Instrument!Assess(mapping, spec, permit, eligibility, fee, at, max_age)
        = IF failed = {} THEN "ok"
          ELSE checks[CHOOSE i \in failed : \A j \in failed : i <= j][2]
  BY DEF Instrument!Assess
<1>2. DOMAIN checks = 1 .. 12
  OBVIOUS
<1>3. \A i \in 1 .. 12 : checks[i][2] # "ok"
  <2>1. /\ checks[1][2] # "ok" /\ checks[2][2] # "ok" /\ checks[3][2] # "ok"
        /\ checks[4][2] # "ok" /\ checks[5][2] # "ok" /\ checks[6][2] # "ok"
    OBVIOUS
  <2>2. /\ checks[7][2] # "ok" /\ checks[8][2] # "ok" /\ checks[9][2] # "ok"
        /\ checks[10][2] # "ok" /\ checks[11][2] # "ok" /\ checks[12][2] # "ok"
    OBVIOUS
  <2> HIDE DEF checks
  <2> QED
    BY <2>1, <2>2
<1>4. failed = {}
  <2> SUFFICES ASSUME failed # {} PROVE FALSE
    OBVIOUS
  <2> HIDE DEF checks
  <2>1. \E i \in failed : \A j \in failed : i <= j
    BY <1>2, LeastNatural
  <2>2. (CHOOSE i \in failed : \A j \in failed : i <= j) \in 1 .. 12
    BY <2>1, <1>2
  <2> QED
    BY <1>1, <1>3, <2>2
<1>5. checks[7][1] /\ checks[9][1] /\ checks[12][1]
  <2> HIDE DEF checks
  <2> QED
    BY <1>2, <1>4
<1> QED
  BY <1>5
------------------------------------------------------------------------------
(* The invariant: how much is gathered at each step of a run, and that the  *)
(* source time of a fact is at most a request timeout after each answer it *)
(* was made from.                                                          *)

Products == Len(file.products)

Gathered(answers, specs, fees) ==
    /\ Len(facts.oldest) = answers
    /\ Len(facts.specs) = specs
    /\ Len(facts.fees) = fees

ShapeInv ==
    /\ now \in Int /\ offset \in Int /\ wall \in [shift : Int, back : Nat]
    /\ DOMAIN facts = {"eligibility", "specs", "fees", "oldest"}
    /\ facts.oldest \in Seq(Int)
    /\ facts.specs \in Seq(Range(facts.specs))
    /\ facts.fees \in Seq(Range(facts.fees))
    /\ DOMAIN assessed = {"at", "local", "verdicts"}
    /\ assessed.verdicts \in Seq(Range(assessed.verdicts))
    /\ answer # None =>
            answer.at \in Int /\ answer.at <= now /\ now - answer.at <= HTTP_TIMEOUT

PlaceInv ==
    /\ At("parse") \/ At("config") => Gathered(0, 0, 0)
    /\ At("list") => step.at \in {1, 2} /\ Gathered(step.at, 0, 0)
    /\ At("spec") =>
            /\ step.at \in 1 .. Products
            /\ Gathered(2 * step.at + 1, step.at - 1, step.at - 1)
    /\ At("fee") =>
            /\ step.at \in 1 .. Products
            /\ Gathered(2 * step.at + 2, step.at, step.at - 1)
    /\ At("build") => Gathered(2 * Products + 3, Products, Products)
    /\ At("assess") =>
            /\ step.at \in 1 .. Products
            /\ Gathered(2 * Products + 3, Products, Products)
            /\ assessed.at \in Int /\ assessed.local = assessed.at + wall.shift
            /\ Len(assessed.verdicts) = step.at - 1
    /\ step.name \notin {"assess", "stopped"} => assessed.verdicts = << >>

\* How much later than an answer its source time can be, on any clock the run had
\* since: "shift" falls no more than "back" grows.
Grace == HTTP_TIMEOUT + wall.shift + wall.back

\* A fact's source time is not much later than the answer e was given.
Dated(fact, e) ==
    /\ e \in 1 .. Len(facts.oldest)
    /\ fact.source_time_ms \in Int
    /\ fact.source_time_ms <= facts.oldest[e] + Grace

EligibilityInv ==
    facts.oldest # << >> =>
        /\ DOMAIN facts.eligibility =
            {"account_id", "position_mode", "instrument_ids", "source_time_ms",
             "received_time_ms"}
        /\ \A e \in 1 .. 3 : e <= Len(facts.oldest) => Dated(facts.eligibility, e)

SpecsInv ==
    \A k \in 1 .. Len(facts.specs) :
        /\ Dated(facts.specs[k], 2 + 2 * k)
        /\ facts.specs[k].okx_inst_id = file.products[k].okx_inst_id

FeesInv == \A k \in 1 .. Len(facts.fees) : Dated(facts.fees[k], 3 + 2 * k)

SourcesInv == EligibilityInv /\ SpecsInv /\ FeesInv

EvidenceInv == RunningInv /\ ShapeInv /\ PlaceInv /\ SourcesInv /\ FreshEvidence

\* The list of products of a file.
LEMMA ProductList ==
    ASSUME RunningInv
    PROVE  /\ file.products \in Seq(Range(file.products))
           /\ Products \in Nat
           /\ Running => Products >= 1
           /\ Running => \A i, j \in 1 .. Products :
                file.products[i].okx_inst_id = file.products[j].okx_inst_id => i = j
<1>1. file.products \in Seq(Range(file.products))
  BY CatalogAssumption DEF RunningInv
<1>2. Products \in Nat /\ DOMAIN file.products = 1 .. Products
  BY <1>1, LenProperties DEF Products
<1>3. Running => Products >= 1
  <2>1. Running => file.products # << >>
    BY DEF RunningInv, Business!Valid
  <2> QED
    BY <1>1, <2>1, EmptySeq DEF Products
<1>4. Running => IsInjective([i \in DOMAIN file.products |-> file.products[i].okx_inst_id])
  BY SameFunctions DEF RunningInv, Business!Valid, Business!ValidProducts,
     Business!Distinct
<1> QED
  BY <1>1, <1>2, <1>3, <1>4 DEF IsInjective

\* Appending to a sequence of anything.
LEMMA AppendAny ==
    ASSUME NEW s, s \in Seq(Range(s)), NEW x
    PROVE  /\ Append(s, x) \in Seq(Range(Append(s, x)))
           /\ Len(s) \in Nat
           /\ Len(Append(s, x)) = Len(s) + 1
           /\ \A i \in 1 .. Len(s) : Append(s, x)[i] = s[i]
           /\ Append(s, x)[Len(s) + 1] = x
<1> DEFINE T == Range(s) \cup {x}
<1>1. s \in Seq(T) /\ x \in T
  BY SeqMonotonic
<1> HIDE DEF T
<1>2. /\ Append(s, x) \in Seq(T)
      /\ Len(Append(s, x)) = Len(s) + 1
      /\ \A i \in 1 .. Len(s) : Append(s, x)[i] = s[i]
      /\ Append(s, x)[Len(s) + 1] = x
  BY <1>1, AppendProperties
<1>3. Append(s, x) \in Seq(Range(Append(s, x)))
  BY <1>2, SeqOfRange
<1>4. Len(s) \in Nat
  BY <1>1, LenProperties
<1> QED
  BY <1>2, <1>3, <1>4

LEMMA EvidenceInit == CatalogInit => EvidenceInv
<1> SUFFICES ASSUME CatalogInit PROVE EvidenceInv
  OBVIOUS
<1>1. RunningInv
  BY RunningInit
<1>2. << >> \in Seq(Range(<< >>)) /\ << >> \in Seq(Int) /\ Len(<< >>) = 0
  BY EmptySeq
<1>3. ShapeInv
  BY <1>2, CatalogAssumption DEF CatalogInit, ShapeInv
<1>4. PlaceInv
  BY <1>2 DEF CatalogInit, PlaceInv, Gathered, At
<1>5. SourcesInv
  BY <1>2 DEF CatalogInit, SourcesInv, EligibilityInv, SpecsInv, FeesInv
<1>6. FreshEvidence
  <2>1. DOMAIN << >> = {}
    OBVIOUS
  <2> QED
    BY <2>1 DEF CatalogInit, FreshEvidence
<1> QED
  BY <1>1, <1>3, <1>4, <1>5, <1>6 DEF EvidenceInv

\* A step that gathers and assesses nothing keeps what is known of the facts.
LEMMA FactsKept ==
    ASSUME EvidenceInv, UNCHANGED <<facts, wall, file, assessed>>
    PROVE  SourcesInv' /\ FreshEvidence'
BY DEF EvidenceInv, SourcesInv, EligibilityInv, SpecsInv, FeesInv, Dated, Grace,
   FreshEvidence, Accepted, EvidenceOf

\* Grace is a number, and as long as nobody steps the clock the same one.
LEMMA GraceInt == ShapeInv => Grace \in Int
BY CatalogAssumption DEF ShapeInv, Grace

LEMMA GraceKept == wall' = wall => Grace' = Grace
BY DEF Grace

LEMMA ClockStepped == EvidenceInv /\ RunningInv' /\ StepClock => EvidenceInv'
<1> SUFFICES ASSUME EvidenceInv, RunningInv', StepClock
             PROVE  EvidenceInv'
  OBVIOUS
<1> USE DEF EvidenceInv
<1>1. UNCHANGED <<now, offset, file, step, answer, facts, assessed>>
  BY DEF StepClock
<1>2. PICK d \in ClockSteps :
        wall' = [shift |-> wall.shift + d, back |-> wall.back + IF d < 0 THEN -d ELSE 0]
  BY DEF StepClock
<1>3. wall.shift \in Int /\ wall.back \in Nat /\ d \in Int
  BY CatalogAssumption DEF ShapeInv
<1>4. /\ wall' \in [shift : Int, back : Nat]
      /\ wall.shift + wall.back <= wall'.shift + wall'.back
  BY <1>2, <1>3
<1>5. /\ Grace \in Int /\ Grace' \in Int
      /\ Grace <= Grace'
  BY <1>3, <1>4, CatalogAssumption DEF Grace
<1>6. ShapeInv'
  BY <1>1, <1>4 DEF ShapeInv
<1>7. step.name \notin {"assess", "stopped"} /\ assessed.verdicts = << >>
  BY DEF StepClock, Reading, At, PlaceInv
<1>8. PlaceInv'
  BY <1>1, <1>7 DEF PlaceInv, Gathered, At, Products
<1>9. ASSUME NEW fact, NEW e, Dated(fact, e)
      PROVE  /\ e \in 1 .. Len(facts.oldest)
             /\ fact.source_time_ms \in Int
             /\ fact.source_time_ms <= facts.oldest[e] + Grace'
  <2>1. facts.oldest[e] \in Int
    BY <1>9, ElementOfSeq DEF Dated, ShapeInv
  <2> QED
    BY <1>5, <1>9, <2>1 DEF Dated
<1>10. SourcesInv'
  <2> HIDE DEF Grace
  <2>1. EligibilityInv'
    BY <1>1, <1>9 DEF SourcesInv, EligibilityInv, Dated
  <2>2. SpecsInv' /\ FeesInv'
    BY <1>1, <1>9 DEF SourcesInv, SpecsInv, FeesInv, Dated
  <2> QED
    BY <2>1, <2>2 DEF SourcesInv
<1>11. FreshEvidence'
  <2>1. DOMAIN << >> = {}
    OBVIOUS
  <2> QED
    BY <1>1, <1>7, <2>1 DEF FreshEvidence
<1> QED
  BY <1>6, <1>8, <1>10, <1>11

LEMMA QuietSteps ==
    ASSUME EvidenceInv, RunningInv',
           ParseFile \/ AnswerRead \/ FailRead \/ ExchangeChanges \/ Tick
                \/ UNCHANGED catalogVars
    PROVE  EvidenceInv'
<1> USE DEF EvidenceInv
<1>1. UNCHANGED <<facts, wall, file, assessed>>
  BY DEF ParseFile, AnswerRead, FailRead, ExchangeChanges, Tick, catalogVars
<1>2. SourcesInv' /\ FreshEvidence'
  BY <1>1, FactsKept
<1>3. ShapeInv'
  <2>1. CASE AnswerRead
    BY <2>1, CatalogAssumption DEF AnswerRead, ShapeInv
  <2>2. CASE Tick
    BY <2>2, CatalogAssumption DEF Tick, ShapeInv
  <2>3. CASE ParseFile \/ FailRead \/ ExchangeChanges \/ UNCHANGED catalogVars
    BY <2>3 DEF ParseFile, FailRead, ExchangeChanges, catalogVars, ShapeInv
  <2> QED
    BY <2>1, <2>2, <2>3
<1>4. PlaceInv'
  <2>1. CASE UNCHANGED step
    BY <1>1, <2>1 DEF PlaceInv, Gathered, At, Products
  <2>2. CASE ParseFile
    BY <1>1, <2>2 DEF ParseFile, StopIf, Stop, Goto, PlaceInv, Gathered, At, Products
  <2>3. CASE FailRead
    BY <2>3 DEF FailRead, Stop, PlaceInv, At
  <2> QED
    BY <2>1, <2>2, <2>3 DEF AnswerRead, ExchangeChanges, Tick, catalogVars
<1> QED
  BY <1>2, <1>3, <1>4

\* The source time of an answer is not much later than the answer.
LEMMA SourceTimeClose ==
    ASSUME ShapeInv, answer # None
    PROVE  /\ SourceTime \in Int
           /\ SourceTime <= answer.at + Grace
<1>1. /\ answer.at \in Int /\ now \in Int /\ offset \in Int /\ HTTP_TIMEOUT \in Int
      /\ wall.shift \in Int /\ wall.back \in Nat
      /\ now <= answer.at + HTTP_TIMEOUT
  BY CatalogAssumption DEF ShapeInv
<1>2. SourceTime \in Int /\ SourceTime <= now + wall.shift
  BY <1>1 DEF SourceTime, LocalMs, Okx!Earlier
<1> QED
  BY <1>1, <1>2 DEF Grace

LEMMA ConfigReceived == EvidenceInv /\ RunningInv' /\ ReceiveConfig => EvidenceInv'
<1> SUFFICES ASSUME EvidenceInv, RunningInv', ReceiveConfig
             PROVE  EvidenceInv'
  OBVIOUS
<1> USE DEF EvidenceInv
<1>1. /\ UNCHANGED <<now, wall, offset, file, assessed>> /\ answer' = None
      /\ facts'.oldest = Append(facts.oldest, answer.at)
      /\ facts'.specs = facts.specs /\ facts'.fees = facts.fees
      /\ DOMAIN facts' = DOMAIN facts
      /\ DOMAIN facts'.eligibility =
            {"account_id", "position_mode", "instrument_ids", "source_time_ms",
             "received_time_ms"}
      /\ facts'.eligibility.source_time_ms = SourceTime
  BY DEF ReceiveConfig, ShapeInv
<1>2. Gathered(0, 0, 0) /\ assessed.verdicts = << >>
  BY DEF ReceiveConfig, PlaceInv, At
<1>3. answer # None /\ answer.at \in Int
  BY DEF ReceiveConfig, Received, ShapeInv
<1>4. /\ facts'.oldest \in Seq(Int) /\ Len(facts'.oldest) = 1
      /\ facts'.oldest[1] = answer.at
  BY <1>1, <1>2, <1>3, AppendProperties DEF ShapeInv, Gathered
<1>5. ShapeInv'
  BY <1>1, <1>4 DEF ShapeInv
<1>6. Gathered(1, 0, 0)'
  BY <1>1, <1>2, <1>4 DEF Gathered
<1>7. PlaceInv'
  BY <1>1, <1>2, <1>6 DEF ReceiveConfig, StopIf, Stop, Goto, PlaceInv, At
<1>8. SourcesInv'
  BY <1>1, <1>3, <1>4, <1>6, SourceTimeClose, GraceKept
     DEF SourcesInv, EligibilityInv, SpecsInv, FeesInv, Dated, Gathered
<1>9. FreshEvidence'
  <2>1. DOMAIN << >> = {}
    OBVIOUS
  <2> QED
    BY <1>1, <1>2, <2>1 DEF FreshEvidence
<1> QED
  BY <1>5, <1>7, <1>8, <1>9

LEMMA ListReceived == EvidenceInv /\ RunningInv' /\ ReceiveList => EvidenceInv'
<1> SUFFICES ASSUME EvidenceInv, RunningInv', ReceiveList
             PROVE  EvidenceInv'
  OBVIOUS
<1> USE DEF EvidenceInv
<1> DEFINE k == step.at
<1>1. k \in {1, 2} /\ Gathered(k, 0, 0) /\ assessed.verdicts = << >>
  BY DEF ReceiveList, PlaceInv, At
<1>2. answer # None /\ answer.at \in Int
  BY DEF ReceiveList, Received, ShapeInv
<1>3. /\ SourceTime \in Int
      /\ SourceTime <= answer.at + Grace
  BY <1>2, SourceTimeClose
<1>4. /\ DOMAIN facts.eligibility =
            {"account_id", "position_mode", "instrument_ids", "source_time_ms",
             "received_time_ms"}
      /\ \A e \in 1 .. k : Dated(facts.eligibility, e)
  <2>1. facts.oldest # << >>
    BY <1>1, EmptySeq DEF ShapeInv, Gathered
  <2> QED
    BY <1>1, <2>1 DEF SourcesInv, EligibilityInv, Gathered
<1>5. /\ UNCHANGED <<now, wall, offset, file, assessed>> /\ answer' = None
      /\ facts'.oldest = Append(facts.oldest, answer.at)
      /\ facts'.specs = facts.specs /\ facts'.fees = facts.fees
      /\ DOMAIN facts' = DOMAIN facts
  BY DEF ReceiveList, ShapeInv
<1>6. /\ DOMAIN facts'.eligibility = DOMAIN facts.eligibility
      /\ facts'.eligibility.source_time_ms =
            Okx!Earlier(facts.eligibility.source_time_ms, SourceTime)
  BY <1>4 DEF ReceiveList, ShapeInv, Okx!Combined
<1>7. /\ facts'.oldest \in Seq(Int) /\ Len(facts'.oldest) = k + 1
      /\ \A e \in 1 .. k : facts'.oldest[e] = facts.oldest[e]
      /\ facts'.oldest[k + 1] = answer.at
  <2>1. facts.oldest \in Seq(Int) /\ Len(facts.oldest) = k
    BY <1>1 DEF ShapeInv, Gathered
  <2> HIDE DEF EvidenceInv, k
  <2>2. /\ Append(facts.oldest, answer.at) \in Seq(Int)
        /\ Len(Append(facts.oldest, answer.at)) = k + 1
        /\ \A e \in 1 .. k : Append(facts.oldest, answer.at)[e] = facts.oldest[e]
        /\ Append(facts.oldest, answer.at)[k + 1] = answer.at
    BY <1>2, <2>1, AppendProperties
  <2> QED
    BY <1>5, <2>2
<1>8. ShapeInv'
  BY <1>5, <1>7 DEF ShapeInv
<1>9. /\ Len(facts'.oldest) = k + 1
      /\ Len(facts'.specs) = 0 /\ Len(facts'.fees) = 0
  BY <1>1, <1>5, <1>7 DEF Gathered
<1>10. PlaceInv'
  <2>1. CASE k < Len(Kinds)
    <3>1. k = 1 /\ step' = [name |-> "list", at |-> 2]
      BY <1>1, <2>1 DEF ReceiveList, Goto, Kinds
    <3> QED
      BY <1>5, <1>1, <1>9, <3>1 DEF PlaceInv, At, Gathered
  <2>2. CASE ~(k < Len(Kinds))
    <3>1. k = 2 /\ step' = [name |-> "spec", at |-> 1]
      BY <1>1, <2>2 DEF ReceiveList, Goto, Kinds
    <3>2. Products' >= 1 /\ Products' \in Nat
      BY <1>5, <3>1, ProductList DEF Running, ReceiveList, At, Products
    <3> QED
      BY <1>5, <1>1, <1>9, <3>1, <3>2 DEF PlaceInv, At, Gathered
  <2> QED
    BY <2>1, <2>2
<1>11. SourcesInv'
  <2>1. \A e \in 1 .. k + 1 : Dated(facts.eligibility, e)'
    <3>1. /\ facts'.eligibility.source_time_ms \in Int
          /\ facts'.eligibility.source_time_ms <= facts.eligibility.source_time_ms
          /\ facts'.eligibility.source_time_ms <= SourceTime
      BY <1>1, <1>3, <1>4, <1>6 DEF Dated, Okx!Earlier
    <3>2. ASSUME NEW e \in 1 .. k
          PROVE  Dated(facts.eligibility, e)'
      <4>1. /\ e \in 1 .. Len(facts.oldest) /\ facts.oldest[e] \in Int
            /\ facts.eligibility.source_time_ms \in Int
            /\ facts.eligibility.source_time_ms <= facts.oldest[e] + Grace
        BY <1>4, ElementOfSeq DEF Dated, ShapeInv
      <4>2. e \in 1 .. Len(facts'.oldest) /\ facts'.oldest[e] = facts.oldest[e]
        BY <1>1, <1>7
      <4> QED
        BY <3>1, <4>1, <4>2, <1>5, GraceKept, GraceInt DEF Dated
    <3>3. ASSUME NEW e, e = k + 1
          PROVE  Dated(facts.eligibility, e)'
      <4>1. /\ e \in 1 .. Len(facts'.oldest) /\ facts'.oldest[e] = answer.at
        BY <1>1, <1>7, <3>3
      <4> QED
        BY <1>2, <1>3, <3>1, <4>1, <1>5, GraceKept, GraceInt DEF Dated
    <3> QED
      BY <1>1, <3>2, <3>3
  <2>2. EligibilityInv'
    BY <1>1, <1>4, <1>6, <1>7, <2>1 DEF EligibilityInv
  <2> QED
    BY <1>9, <2>2 DEF SourcesInv, SpecsInv, FeesInv, Gathered
<1>12. FreshEvidence'
  <2>1. DOMAIN << >> = {}
    OBVIOUS
  <2> QED
    BY <1>1, <1>5, <2>1 DEF FreshEvidence
<1> QED
  BY <1>8, <1>10, <1>11, <1>12

\* A further answer leaves the dates of the earlier ones.
LEMMA DatesKept ==
    ASSUME ShapeInv, answer.at \in Int,
           facts'.oldest = Append(facts.oldest, answer.at)
    PROVE  /\ facts'.oldest \in Seq(Int)
           /\ Len(facts.oldest) \in Nat
           /\ Len(facts'.oldest) = Len(facts.oldest) + 1
           /\ facts'.oldest[Len(facts.oldest) + 1] = answer.at
           /\ \A fact, e : Dated(fact, e) =>
                /\ e \in 1 .. Len(facts'.oldest)
                /\ fact.source_time_ms \in Int
                /\ fact.source_time_ms <= facts'.oldest[e] + Grace
<1>1. /\ facts'.oldest \in Seq(Int)
      /\ Len(facts.oldest) \in Nat
      /\ Len(facts'.oldest) = Len(facts.oldest) + 1
      /\ \A e \in 1 .. Len(facts.oldest) : facts'.oldest[e] = facts.oldest[e]
      /\ facts'.oldest[Len(facts.oldest) + 1] = answer.at
  BY AppendProperties, LenProperties DEF ShapeInv
<1>2. ASSUME NEW fact, NEW e, Dated(fact, e)
      PROVE  /\ e \in 1 .. Len(facts'.oldest)
             /\ fact.source_time_ms \in Int
             /\ fact.source_time_ms <= facts'.oldest[e] + Grace
  <2>1. e \in 1 .. Len(facts.oldest) /\ facts'.oldest[e] = facts.oldest[e]
    BY <1>1, <1>2 DEF Dated
  <2> QED
    BY <1>1, <1>2, <2>1 DEF Dated
<1> QED
  BY <1>1, <1>2

LEMMA SpecReceived == EvidenceInv /\ RunningInv' /\ ReceiveSpec => EvidenceInv'
<1> SUFFICES ASSUME EvidenceInv, RunningInv', ReceiveSpec
             PROVE  EvidenceInv'
  OBVIOUS
<1> USE DEF EvidenceInv
<1>1. PICK k : k = step.at
  OBVIOUS
<1>2. /\ k \in 1 .. Products
      /\ Gathered(2 * k + 1, k - 1, k - 1)
      /\ assessed.verdicts = << >>
      /\ Products \in Nat
  BY <1>1, ProductList DEF ReceiveSpec, PlaceInv, At
<1>3. answer # None /\ answer.at \in Int /\ answer' = None
  BY DEF ReceiveSpec, Received, ShapeInv
<1>4. UNCHANGED <<now, wall, offset, file, assessed>>
  BY DEF ReceiveSpec
<1>5. FreshEvidence'
  <2>1. DOMAIN << >> = {}
    OBVIOUS
  <2> QED
    BY <1>2, <1>4, <2>1 DEF FreshEvidence
<1>6. CASE ~RequestedInstrument(answer.body)
  <2>1. UNCHANGED facts /\ step'.name = "stopped"
    BY <1>6 DEF ReceiveSpec, Stop
  <2>2. SourcesInv'
    BY <1>4, <2>1, FactsKept
  <2>3. ShapeInv'
    BY <1>3, <1>4, <2>1 DEF ShapeInv
  <2>4. PlaceInv'
    BY <2>1 DEF PlaceInv, At
  <2> QED
    BY <1>5, <2>2, <2>3, <2>4
<1>7. CASE RequestedInstrument(answer.body)
  <2> DEFINE spec == Okx!Spec(answer.body, TheProduct.kind, SourceTime, LocalMs)
  <2>1. /\ facts'.oldest = Append(facts.oldest, answer.at)
        /\ facts'.specs = Append(facts.specs, spec)
        /\ facts'.fees = facts.fees
        /\ facts'.eligibility = facts.eligibility
        /\ DOMAIN facts' = DOMAIN facts
    BY <1>7 DEF ReceiveSpec, ShapeInv
  <2>2. /\ spec.source_time_ms = SourceTime
        /\ spec.okx_inst_id = file.products[k].okx_inst_id
    BY <1>1, <1>7 DEF RequestedInstrument, Okx!Spec, TheProduct
  <2> HIDE DEF spec
  <2>3. /\ facts'.specs \in Seq(Range(facts'.specs))
        /\ Len(facts'.specs) = k
        /\ \A i \in 1 .. k - 1 : facts'.specs[i] = facts.specs[i]
        /\ facts'.specs[k] = spec
    <3>1. facts.specs \in Seq(Range(facts.specs)) /\ Len(facts.specs) = k - 1 /\ k \in Nat
      BY <1>2 DEF ShapeInv, Gathered
    <3>2. /\ facts'.specs \in Seq(Range(facts'.specs))
          /\ Len(facts'.specs) = Len(facts.specs) + 1
          /\ \A i \in 1 .. Len(facts.specs) : facts'.specs[i] = facts.specs[i]
          /\ facts'.specs[Len(facts.specs) + 1] = spec
      <4> HIDE DEF EvidenceInv
      <4> QED
        BY <2>1, <3>1, AppendAny
    <3> QED
      BY <3>1, <3>2
  <2>4. /\ facts'.oldest \in Seq(Int)
        /\ Len(facts'.oldest) = 2 * k + 2
        /\ facts'.oldest[2 * k + 2] = answer.at
    BY <1>2, <1>3, <2>1, DatesKept DEF Gathered
  <2>5. ShapeInv'
    BY <1>3, <1>4, <2>1, <2>3, <2>4 DEF ShapeInv
  <2>6. PlaceInv'
    <3>1. \/ step'.name = "stopped"
          \/ step' = [name |-> "fee", at |-> k]
      BY <1>1, <1>7 DEF ReceiveSpec, StopIf, Stop, Goto
    <3>2. Len(facts'.fees) = k - 1
      BY <1>2, <2>1 DEF Gathered
    <3>3. Products' = Products
      BY <1>4 DEF Products
    <3> QED
      <4>1. /\ k \in 1 .. Products'
            /\ step'.name = "fee" => step'.at = k
        BY <1>2, <3>1, <3>3
      <4>2. Gathered(2 * k + 2, k, k - 1)'
        BY <2>3, <2>4, <3>2 DEF Gathered
      <4>3. assessed'.verdicts = << >>
        BY <1>2, <1>4
      <4> HIDE DEF Gathered
      <4> QED
        BY <3>1, <4>1, <4>2, <4>3 DEF PlaceInv, At
  <2>7. SourcesInv'
    <3>1. EligibilityInv'
      <4>1. facts.oldest # << >> /\ Len(facts.oldest) = 2 * k + 1
        BY <1>2, EmptySeq DEF ShapeInv, Gathered
      <4>2. /\ DOMAIN facts.eligibility =
                {"account_id", "position_mode", "instrument_ids", "source_time_ms",
                 "received_time_ms"}
            /\ \A e \in 1 .. 3 : Dated(facts.eligibility, e)
        BY <1>2, <4>1 DEF SourcesInv, EligibilityInv
      <4>3. \A e \in 1 .. 3 : Dated(facts.eligibility, e)'
        BY <1>3, <1>4, GraceKept, <2>1, <4>2, DatesKept DEF Dated
      <4> QED
        BY <2>1, <4>2, <4>3 DEF EligibilityInv
    <3>2. SpecsInv'
      <4> SUFFICES ASSUME NEW i \in 1 .. k
                   PROVE  /\ Dated(facts.specs[i], 2 + 2 * i)'
                          /\ facts'.specs[i].okx_inst_id = file.products[i].okx_inst_id
        BY <1>4, <2>3 DEF SpecsInv
      <4>1. CASE i = k
        <5>1. facts'.specs[i].source_time_ms = SourceTime
          BY <2>2, <2>3, <4>1
        <5>2. 2 + 2 * i \in 1 .. Len(facts'.oldest) /\ facts'.oldest[2 + 2 * i] = answer.at
          BY <1>2, <2>4, <4>1
        <5> QED
          BY <1>3, <2>2, <2>3, <4>1, <5>1, <5>2, <1>4, SourceTimeClose, GraceKept DEF Dated
      <4>2. CASE i # k
        <5>1. i \in 1 .. Len(facts.specs) /\ facts'.specs[i] = facts.specs[i]
          BY <1>2, <2>3, <4>2 DEF Gathered
        <5>2. /\ Dated(facts.specs[i], 2 + 2 * i)
              /\ facts.specs[i].okx_inst_id = file.products[i].okx_inst_id
          BY <5>1 DEF SourcesInv, SpecsInv
        <5> QED
          BY <1>3, <2>1, <5>1, <5>2, <1>4, GraceKept, DatesKept DEF Dated
      <4> QED
        BY <4>1, <4>2
    <3>3. FeesInv'
      BY <1>3, <2>1, <1>4, GraceKept, DatesKept DEF SourcesInv, FeesInv, Dated
    <3> QED
      BY <3>1, <3>2, <3>3 DEF SourcesInv
  <2> QED
    BY <1>5, <2>5, <2>6, <2>7
<1> QED
  BY <1>6, <1>7

LEMMA FeeReceived == EvidenceInv /\ RunningInv' /\ ReceiveFee => EvidenceInv'
<1> SUFFICES ASSUME EvidenceInv, RunningInv', ReceiveFee
             PROVE  EvidenceInv'
  OBVIOUS
<1> USE DEF EvidenceInv
<1>1. PICK k : k = step.at
  OBVIOUS
<1>2. /\ k \in 1 .. Products
      /\ Gathered(2 * k + 2, k, k - 1)
      /\ assessed.verdicts = << >>
      /\ Products \in Nat
  BY <1>1, ProductList DEF ReceiveFee, PlaceInv, At
<1>3. answer # None /\ answer.at \in Int /\ answer' = None
  BY DEF ReceiveFee, Received, ShapeInv
<1>4. UNCHANGED <<now, wall, offset, file, assessed>>
  BY DEF ReceiveFee
<1>5. FreshEvidence'
  <2>1. DOMAIN << >> = {}
    OBVIOUS
  <2> QED
    BY <1>2, <1>4, <2>1 DEF FreshEvidence
<1> DEFINE fee == Okx!FeeSchedule(TheProduct.okx_inst_id, answer.body, SourceTime, LocalMs)
<1>6. /\ facts'.oldest = Append(facts.oldest, answer.at)
      /\ facts'.fees = Append(facts.fees, fee)
      /\ facts'.specs = facts.specs
      /\ facts'.eligibility = facts.eligibility
      /\ DOMAIN facts' = DOMAIN facts
  BY DEF ReceiveFee, ShapeInv
<1>7. fee.source_time_ms = SourceTime
  BY DEF Okx!FeeSchedule
<1> HIDE DEF fee
<1>8. /\ facts'.fees \in Seq(Range(facts'.fees))
      /\ Len(facts'.fees) = k
      /\ \A i \in 1 .. k - 1 : facts'.fees[i] = facts.fees[i]
      /\ facts'.fees[k] = fee
  <2>1. facts.fees \in Seq(Range(facts.fees)) /\ Len(facts.fees) = k - 1 /\ k \in Nat
    BY <1>2 DEF ShapeInv, Gathered
  <2>2. /\ facts'.fees \in Seq(Range(facts'.fees))
        /\ Len(facts'.fees) = Len(facts.fees) + 1
        /\ \A i \in 1 .. Len(facts.fees) : facts'.fees[i] = facts.fees[i]
        /\ facts'.fees[Len(facts.fees) + 1] = fee
    <3> HIDE DEF EvidenceInv
    <3> QED
      BY <1>6, <2>1, AppendAny
  <2> QED
    BY <2>1, <2>2
<1>9. /\ facts'.oldest \in Seq(Int)
      /\ Len(facts'.oldest) = 2 * k + 3
      /\ facts'.oldest[2 * k + 3] = answer.at
  BY <1>2, <1>3, <1>6, DatesKept DEF Gathered
<1>10. ShapeInv'
  BY <1>3, <1>4, <1>6, <1>8, <1>9 DEF ShapeInv
<1>11. PlaceInv'
  <2>1. Len(facts'.specs) = k
    BY <1>2, <1>6 DEF Gathered
  <2>2. Products' = Products
    BY <1>4 DEF Products
  <2>3. CASE More
    <3>1. step' = [name |-> "spec", at |-> k + 1] /\ k + 1 \in 1 .. Products
      BY <1>1, <1>2, <2>3 DEF ReceiveFee, Goto, More, Products
    <3> QED
      BY <1>2, <1>4, <1>8, <1>9, <2>1, <2>2, <3>1 DEF PlaceInv, Gathered, At
  <2>4. CASE ~More
    <3>1. step' = [name |-> "build", at |-> 1] /\ k = Products
      BY <1>1, <1>2, <2>4 DEF ReceiveFee, Goto, More, Products
    <3> QED
      BY <1>2, <1>4, <1>8, <1>9, <2>1, <2>2, <3>1 DEF PlaceInv, Gathered, At
  <2> QED
    BY <2>3, <2>4
<1>12. SourcesInv'
  <2>1. EligibilityInv'
    <3>1. facts.oldest # << >> /\ Len(facts.oldest) = 2 * k + 2
      BY <1>2, EmptySeq DEF ShapeInv, Gathered
    <3>2. /\ DOMAIN facts.eligibility =
              {"account_id", "position_mode", "instrument_ids", "source_time_ms",
               "received_time_ms"}
          /\ \A e \in 1 .. 3 : Dated(facts.eligibility, e)
      BY <1>2, <3>1 DEF SourcesInv, EligibilityInv
    <3>3. \A e \in 1 .. 3 : Dated(facts.eligibility, e)'
      BY <1>3, <1>6, <3>2, <1>4, GraceKept, DatesKept DEF Dated
    <3> QED
      BY <1>6, <3>2, <3>3 DEF EligibilityInv
  <2>2. SpecsInv'
    BY <1>3, <1>4, <1>6, GraceKept, DatesKept DEF SourcesInv, SpecsInv, Dated
  <2>3. FeesInv'
    <3> SUFFICES ASSUME NEW i \in 1 .. k
                 PROVE  Dated(facts.fees[i], 3 + 2 * i)'
      BY <1>8 DEF FeesInv
    <3>1. CASE i = k
      <4>1. 3 + 2 * i \in 1 .. Len(facts'.oldest) /\ facts'.oldest[3 + 2 * i] = answer.at
        BY <1>2, <1>9, <3>1
      <4> QED
        BY <1>3, <1>7, <1>8, <3>1, <4>1, <1>4, GraceKept, SourceTimeClose DEF Dated
    <3>2. CASE i # k
      <4>1. i \in 1 .. Len(facts.fees) /\ facts'.fees[i] = facts.fees[i]
        BY <1>2, <1>8, <3>2 DEF Gathered
      <4>2. Dated(facts.fees[i], 3 + 2 * i)
        BY <4>1 DEF SourcesInv, FeesInv
      <4> QED
        BY <1>3, <1>6, <4>1, <4>2, <1>4, GraceKept, DatesKept DEF Dated
    <3> QED
      BY <3>1, <3>2
  <2> QED
    BY <2>1, <2>2, <2>3 DEF SourcesInv
<1> QED
  BY <1>5, <1>10, <1>11, <1>12

LEMMA DirectoryBuilt == EvidenceInv /\ RunningInv' /\ BuildDirectory => EvidenceInv'
<1> SUFFICES ASSUME EvidenceInv, RunningInv', BuildDirectory
             PROVE  EvidenceInv'
  OBVIOUS
<1> USE DEF EvidenceInv
<1>1. UNCHANGED <<now, wall, offset, file, answer, facts>>
  BY DEF BuildDirectory
<1>2. /\ assessed'.at = now /\ assessed'.local = now + wall.shift
      /\ assessed'.verdicts = assessed.verdicts
      /\ DOMAIN assessed' = DOMAIN assessed
  BY DEF BuildDirectory, ShapeInv, LocalMs
<1>3. assessed.verdicts = << >> /\ Gathered(2 * Products + 3, Products, Products)
  BY DEF BuildDirectory, PlaceInv, At
<1>4. \/ step'.name = "stopped"
      \/ step' = [name |-> "assess", at |-> 1]
  BY DEF BuildDirectory, StopIf, Stop, Goto
<1>5. Products >= 1 /\ Products \in Nat
  BY ProductList DEF BuildDirectory, At, Running
<1>6. ShapeInv'
  BY <1>1, <1>2 DEF ShapeInv
<1>7. PlaceInv'
  BY <1>1, <1>2, <1>3, <1>4, <1>5 DEF PlaceInv, ShapeInv, Gathered, At, Products
<1>8. SourcesInv'
  BY <1>1, GraceKept DEF SourcesInv, EligibilityInv, SpecsInv, FeesInv, Dated
<1>9. FreshEvidence'
  <2>1. DOMAIN << >> = {}
    OBVIOUS
  <2> QED
    BY <1>2, <1>3, <2>1 DEF FreshEvidence
<1> QED
  BY <1>6, <1>7, <1>8, <1>9

\* The specification a product is judged with is the one read for it.
LEMMA OwnSpecification ==
    ASSUME RunningInv, Running, ShapeInv, SpecsInv, NEW k \in 1 .. Products,
           Len(facts.specs) = Products
    PROVE  (CHOOSE s \in Range(facts.specs) :
                s.okx_inst_id = file.products[k].okx_inst_id) = facts.specs[k]
<1>1. DOMAIN facts.specs = 1 .. Products
  BY LenProperties DEF ShapeInv
<1>2. \A j \in 1 .. Products : facts.specs[j].okx_inst_id = file.products[j].okx_inst_id
  BY DEF SpecsInv
<1>3. \A s \in Range(facts.specs) :
        s.okx_inst_id = file.products[k].okx_inst_id => s = facts.specs[k]
  <2> SUFFICES ASSUME NEW s \in Range(facts.specs),
                      s.okx_inst_id = file.products[k].okx_inst_id
               PROVE  s = facts.specs[k]
    OBVIOUS
  <2>1. PICK j \in 1 .. Products : s = facts.specs[j]
    BY <1>1 DEF Range
  <2>2. file.products[j].okx_inst_id = file.products[k].okx_inst_id
    BY <1>2, <2>1
  <2>3. j = k
    BY <2>2, ProductList
  <2> QED
    BY <2>1, <2>3
<1>4. facts.specs[k] \in Range(facts.specs)
  BY <1>1 DEF Range
<1> QED
  BY <1>2, <1>3, <1>4

LEMMA ProductAssessed == EvidenceInv /\ RunningInv' /\ AssessProduct => EvidenceInv'
<1> SUFFICES ASSUME EvidenceInv, RunningInv', AssessProduct
             PROVE  EvidenceInv'
  OBVIOUS
<1> USE DEF EvidenceInv
<1>1. PICK k : k = step.at
  OBVIOUS
<1>2. /\ k \in 1 .. Products /\ Products \in Nat
      /\ Gathered(2 * Products + 3, Products, Products)
      /\ assessed.at \in Int /\ assessed.local = assessed.at + wall.shift
      /\ Len(assessed.verdicts) = k - 1
  BY <1>1, ProductList DEF AssessProduct, PlaceInv, At
<1>3. UNCHANGED <<now, wall, offset, file, answer, facts>>
  BY DEF AssessProduct
<1>4. /\ assessed'.at = assessed.at /\ assessed'.local = assessed.local
      /\ assessed'.verdicts = Append(assessed.verdicts, Verdict)
      /\ DOMAIN assessed' = DOMAIN assessed
  BY DEF AssessProduct, ShapeInv
<1>5. /\ assessed'.verdicts \in Seq(Range(assessed'.verdicts))
      /\ Len(assessed'.verdicts) = k
      /\ \A i \in 1 .. k - 1 : assessed'.verdicts[i] = assessed.verdicts[i]
      /\ assessed'.verdicts[k] = Verdict
  BY <1>2, <1>4, AppendAny DEF ShapeInv
<1>6. ShapeInv'
  BY <1>3, <1>4, <1>5 DEF ShapeInv
<1>7. PlaceInv'
  <2>1. \/ step'.name = "stopped"
        \/ step' = [name |-> "assess", at |-> k + 1] /\ k + 1 \in 1 .. Products
    BY <1>1, <1>2 DEF AssessProduct, Stop, Goto, More, Products
  <2>2. Products' = Products
    BY <1>3 DEF Products
  <2> QED
    BY <1>2, <1>3, <1>4, <1>5, <2>1, <2>2 DEF PlaceInv, Gathered, At
<1>8. SourcesInv'
  BY <1>3, GraceKept DEF SourcesInv, EligibilityInv, SpecsInv, FeesInv, Dated
<1>9. ASSUME Verdict = "ok", NEW e \in EvidenceOf(k)
      PROVE  assessed.at - facts.oldest[e] <= MAX_AGE + HTTP_TIMEOUT + wall.back
  <2>1. (CHOOSE s \in Range(facts.specs) :
            s.okx_inst_id = TheProduct.okx_inst_id) = facts.specs[k]
    BY <1>1, <1>2, OwnSpecification
       DEF SourcesInv, Gathered, TheProduct, AssessProduct, At, Running
  <2>2. Instrument!Assess(TheProduct, facts.specs[k], Permit, facts.eligibility,
                          facts.fees[k], assessed.local, MAX_AGE) = "ok"
    BY <1>1, <1>9, <2>1 DEF Verdict
  <2>3. /\ ~Instrument!Stale(assessed.local, facts.specs[k], MAX_AGE)
        /\ ~Instrument!Stale(assessed.local, facts.eligibility, MAX_AGE)
        /\ ~Instrument!Stale(assessed.local, facts.fees[k], MAX_AGE)
    BY <2>2, AssessedFresh
  <2>4. ASSUME NEW fact, Dated(fact, e), ~Instrument!Stale(assessed.local, fact, MAX_AGE)
        PROVE  assessed.at - facts.oldest[e] <= MAX_AGE + HTTP_TIMEOUT + wall.back
    <3>1. facts.oldest[e] \in Int /\ fact.source_time_ms \in Int
      BY <2>4, ElementOfSeq DEF Dated, ShapeInv
    <3>2. assessed.at + wall.shift - fact.source_time_ms <= MAX_AGE
      BY <1>2, <2>4, <3>1, CatalogAssumption DEF Instrument!Stale, ShapeInv
    <3>3. fact.source_time_ms <= facts.oldest[e] + (HTTP_TIMEOUT + wall.shift + wall.back)
      BY <2>4 DEF Dated, Grace
    <3>4. /\ assessed.at \in Int /\ MAX_AGE \in Int /\ HTTP_TIMEOUT \in Int
          /\ wall.shift \in Int /\ wall.back \in Int
      BY <1>2, CatalogAssumption DEF ShapeInv
    <3> QED
      BY <3>1, <3>2, <3>3, <3>4
  <2>5. CASE e \in 1 .. 3
    <3>1. facts.oldest # << >> /\ e <= Len(facts.oldest)
      BY <1>2, <2>5, EmptySeq DEF ShapeInv, Gathered
    <3> QED
      BY <2>3, <2>4, <2>5, <3>1 DEF SourcesInv, EligibilityInv
  <2>6. CASE e = 2 + 2 * k
    BY <1>2, <2>3, <2>4, <2>6 DEF SourcesInv, SpecsInv, Gathered
  <2>7. CASE e = 3 + 2 * k
    BY <1>2, <2>3, <2>4, <2>7 DEF SourcesInv, FeesInv, Gathered
  <2> QED
    BY <2>5, <2>6, <2>7 DEF EvidenceOf
<1>10. FreshEvidence'
  <2>1. DOMAIN assessed'.verdicts = 1 .. k /\ DOMAIN assessed.verdicts = 1 .. k - 1
    BY <1>2, <1>5, LenProperties DEF ShapeInv
  <2> SUFFICES ASSUME NEW i \in 1 .. k, assessed'.verdicts[i] = "ok",
                      NEW e \in EvidenceOf(i)
               PROVE  assessed.at - facts.oldest[e] <= MAX_AGE + HTTP_TIMEOUT + wall.back
    BY <1>3, <1>4, <2>1 DEF FreshEvidence, Accepted, EvidenceOf
  <2>2. CASE i = k
    BY <1>5, <1>9, <2>2
  <2>3. CASE i # k
    BY <1>2, <1>5, <2>1, <2>3 DEF FreshEvidence, Accepted
  <2> QED
    BY <2>2, <2>3
<1> QED
  BY <1>6, <1>7, <1>8, <1>10

LEMMA EvidenceStep == EvidenceInv /\ [CatalogNext]_catalogVars => EvidenceInv'
<1> SUFFICES ASSUME EvidenceInv, [CatalogNext]_catalogVars
             PROVE  EvidenceInv'
  OBVIOUS
<1>1. RunningInv'
  BY RunningStep DEF EvidenceInv
<1>2. CASE ReceiveConfig
  BY <1>1, <1>2, ConfigReceived
<1>3. CASE ReceiveList
  BY <1>1, <1>3, ListReceived
<1>4. CASE ReceiveSpec
  BY <1>1, <1>4, SpecReceived
<1>5. CASE ReceiveFee
  BY <1>1, <1>5, FeeReceived
<1>6. CASE BuildDirectory
  BY <1>1, <1>6, DirectoryBuilt
<1>7. CASE AssessProduct
  BY <1>1, <1>7, ProductAssessed
<1>9. CASE StepClock
  BY <1>1, <1>9, ClockStepped
<1>8. CASE ParseFile \/ AnswerRead \/ FailRead \/ ExchangeChanges \/ Tick
            \/ UNCHANGED catalogVars
  BY <1>1, <1>8, QuietSteps
<1> QED
  BY <1>2, <1>3, <1>4, <1>5, <1>6, <1>7, <1>8, <1>9 DEF CatalogNext

\* assess(): a product is accepted only on facts each of which the exchange gave
\* at most MAX_AGE and one request timeout ago, and what the local clock was
\* stepped back since, whatever the file, the exchange, the offset of the clock
\* and the limits.
THEOREM AcceptedOnFreshEvidence == CatalogSpec => []FreshEvidence
<1>1. EvidenceInv => FreshEvidence
  BY DEF EvidenceInv
<1> QED
  BY EvidenceInit, EvidenceStep, <1>1, PTL DEF CatalogSpec
==============================================================================
