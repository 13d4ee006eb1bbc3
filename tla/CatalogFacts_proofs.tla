-------------------------- MODULE CatalogFacts_proofs --------------------------
(***************************************************************************)
(* What the facts of a Catalog run are, and what follows: what an accepted *)
(* product can be traded as, and why products and catalogs are refused,    *)
(* for all files, exchanges, clocks and bounds.                            *)
(***************************************************************************)
EXTENDS Catalog_proofs

LEMMA SameDirectoryFunctions ==
    /\ \A f : Instrument!Range(f) = Range(f)
    /\ \A f : Instrument!IsInjective(f) <=> IsInjective(f)
BY DEF Range, IsInjective, Instrument!Range, Instrument!IsInjective

\* What a verdict of assess() says of the facts it judges.
Causes(verdict, mapping, spec, permit, eligibility, fee, at) ==
    /\ verdict \in {"ok", "AccountMismatch", "ModeNotAllowed", "ProductNotAllowed",
                    "RemoteNotEligible", "Inactive", "TimeInFuture",
                    "StaleSpecification", "StaleEligibility", "InvalidFee", "StaleFee"}
    /\ verdict = "AccountMismatch" => permit.account_id # eligibility.account_id
    /\ verdict = "ModeNotAllowed" =>
            eligibility.position_mode \notin Range(permit.allowed_modes)
    /\ verdict = "InvalidFee" =>
            ~ /\ fee.okx_inst_id = mapping.okx_inst_id
              /\ fee.version # ""
              /\ spec.fee_group_id = fee.group_id
    /\ verdict = "TimeInFuture" =>
            \/ Instrument!InFuture(at, spec)
            \/ Instrument!InFuture(at, eligibility)
            \/ Instrument!InFuture(at, fee)

\* assess() gives the reason of a check that failed.
LEMMA AssessCauses ==
    ASSUME NEW mapping, NEW spec, NEW permit, NEW eligibility, NEW fee,
           NEW at, NEW max_age
    PROVE  Causes(Instrument!Assess(mapping, spec, permit, eligibility, fee, at, max_age),
                  mapping, spec, permit, eligibility, fee, at)
<1> DEFINE verdict ==
        Instrument!Assess(mapping, spec, permit, eligibility, fee, at, max_age)
<1> DEFINE Member(x, list) == x \in Instrument!Range(list)
<1> DEFINE feeMatches == /\ fee.okx_inst_id = mapping.okx_inst_id
                         /\ fee.version # ""
                         /\ spec.fee_group_id = fee.group_id
<1> DEFINE checks == <<
            <<permit.account_id = eligibility.account_id, "AccountMismatch">>,
            <<Member(eligibility.position_mode, permit.allowed_modes), "ModeNotAllowed">>,
            <<Member(mapping.product_id, permit.product_ids), "ProductNotAllowed">>,
            <<mapping.okx_inst_id \in eligibility.instrument_ids, "RemoteNotEligible">>,
            <<spec.state = "Live", "Inactive">>,
            <<~Instrument!InFuture(at, spec), "TimeInFuture">>,
            <<~Instrument!Stale(at, spec, max_age), "StaleSpecification">>,
            <<~Instrument!InFuture(at, eligibility), "TimeInFuture">>,
            <<~Instrument!Stale(at, eligibility, max_age), "StaleEligibility">>,
            <<feeMatches, "InvalidFee">>,
            <<~Instrument!InFuture(at, fee), "TimeInFuture">>,
            <<~Instrument!Stale(at, fee, max_age), "StaleFee">> >>
<1> DEFINE failed == {i \in DOMAIN checks : ~checks[i][1]}
<1>1. verdict = IF failed = {} THEN "ok"
                ELSE checks[CHOOSE i \in failed : \A j \in failed : i <= j][2]
  BY DEF Instrument!Assess
<1> SUFFICES Causes(verdict, mapping, spec, permit, eligibility, fee, at)
  OBVIOUS
<1> HIDE DEF verdict
<1>2. DOMAIN checks = 1 .. 12
  OBVIOUS
<1>3. CASE failed = {}
  BY <1>1, <1>3 DEF Causes
<1>4. CASE failed # {}
  <2>1. PICK i \in 1 .. 12 : verdict = checks[i][2] /\ ~checks[i][1]
    <3> HIDE DEF checks
    <3>1. \E i \in failed : \A j \in failed : i <= j
      BY <1>2, <1>4, LeastNatural
    <3> QED
      BY <1>1, <1>2, <1>4, <3>1
  <2>2. /\ ~checks[1][1] => permit.account_id # eligibility.account_id
        /\ ~checks[2][1] =>
                eligibility.position_mode \notin Instrument!Range(permit.allowed_modes)
        /\ ~checks[10][1] => ~feeMatches
    OBVIOUS
  <2>3. /\ ~checks[6][1] => Instrument!InFuture(at, spec)
        /\ ~checks[8][1] => Instrument!InFuture(at, eligibility)
        /\ ~checks[11][1] => Instrument!InFuture(at, fee)
    OBVIOUS
  <2>4. /\ checks[1][2] = "AccountMismatch" /\ checks[2][2] = "ModeNotAllowed"
        /\ checks[3][2] = "ProductNotAllowed" /\ checks[4][2] = "RemoteNotEligible"
        /\ checks[5][2] = "Inactive" /\ checks[6][2] = "TimeInFuture"
    OBVIOUS
  <2>5. /\ checks[7][2] = "StaleSpecification" /\ checks[8][2] = "TimeInFuture"
        /\ checks[9][2] = "StaleEligibility" /\ checks[10][2] = "InvalidFee"
        /\ checks[11][2] = "TimeInFuture" /\ checks[12][2] = "StaleFee"
    OBVIOUS
  <2>6. Instrument!Range(permit.allowed_modes) = Range(permit.allowed_modes)
    BY SameDirectoryFunctions
  <2> HIDE DEF checks
  <2>7. /\ verdict \in {"AccountMismatch", "ModeNotAllowed", "ProductNotAllowed",
                        "RemoteNotEligible", "Inactive", "TimeInFuture",
                        "StaleSpecification", "StaleEligibility", "InvalidFee", "StaleFee"}
        /\ verdict = "AccountMismatch" => i = 1
        /\ verdict = "ModeNotAllowed" => i = 2
        /\ verdict = "InvalidFee" => i = 10
        /\ verdict = "TimeInFuture" => i \in {6, 8, 11}
    BY <2>1, <2>4, <2>5
  <2>8. verdict = "TimeInFuture" =>
            \/ Instrument!InFuture(at, spec)
            \/ Instrument!InFuture(at, eligibility)
            \/ Instrument!InFuture(at, fee)
    BY <2>1, <2>3, <2>7
  <2>9. verdict = "InvalidFee" => ~feeMatches
    BY <2>1, <2>2, <2>7
  <2>10. /\ verdict = "AccountMismatch" => permit.account_id # eligibility.account_id
         /\ verdict = "ModeNotAllowed" =>
                eligibility.position_mode \notin Instrument!Range(permit.allowed_modes)
    BY <2>1, <2>2, <2>7
  <2> QED
    BY <2>6, <2>7, <2>8, <2>9, <2>10 DEF Causes
<1> QED
  BY <1>3, <1>4
------------------------------------------------------------------------------
(* The specifications that Directory::new is given. *)

\* A specification made of a row that the client parsed for a product.
ParsedSpec(spec, product) ==
    \E row, source, received :
        /\ Okx!Parses(row, product.kind)
        /\ row.inst_id = product.okx_inst_id
        /\ spec = Okx!Spec(row, product.kind, source, received)

\* Such a specification, held against its own product, has no defect but the two
\* that DirectoryRefusals leaves.
LEMMA SpecificationValidated ==
    ASSUME NEW product, product.kind \in {"Spot", "LinearUsdtSwap"},
           Business!ValidProduct(product),
           NEW spec, ParsedSpec(spec, product),
           spec.source_time_ms <= spec.received_time_ms
    PROVE  /\ Instrument!ValidateSpec(product, spec)
                \in {"ok", "MappingMismatch", "UnsupportedKind"}
           /\ Instrument!ValidateSpec(product, spec) = "UnsupportedKind" =>
                /\ spec.kind = "Spot"
                /\ spec.contract_value # None \/ spec.contract_value_currency # None
<1>1. PICK row, source, received :
        /\ Okx!Parses(row, product.kind)
        /\ spec = Okx!Spec(row, product.kind, source, received)
  BY DEF ParsedSpec
<1>2. Instrument!Usable(spec)
  BY <1>1 DEF Okx!Parses, Okx!Spec, Okx!Positive, Instrument!Usable
<1>3. Instrument!ValidateSpec(product, spec) =
        IF ~Instrument!Agrees(product, spec) THEN "MappingMismatch"
        ELSE IF Instrument!UnitsSupported(spec) THEN "ok" ELSE "UnsupportedKind"
  BY <1>2 DEF Instrument!ValidateSpec
<1>4. ASSUME Instrument!Agrees(product, spec), ~Instrument!UnitsSupported(spec)
      PROVE  /\ spec.kind = "Spot"
             /\ spec.contract_value # None \/ spec.contract_value_currency # None
  <2>1. spec.kind = product.kind /\ spec.settlement = product.settlement
    BY <1>4 DEF Instrument!Agrees
  <2>2. CASE product.kind = "Spot"
    BY <1>4, <2>1, <2>2 DEF Business!ValidProduct, Instrument!UnitsSupported
  <2>3. CASE product.kind = "LinearUsdtSwap"
    <3>1. /\ spec.settlement = USDT /\ spec.contract_value # None /\ spec.contract_value > 0
          /\ spec.contract_value_currency = spec.base
      BY <1>1, <2>3 DEF Okx!Parses, Okx!Linear, Okx!Positive, Okx!Spec
    <3> QED
      BY <1>4, <2>1, <2>3, <3>1 DEF Instrument!UnitsSupported
  <2> QED
    BY <2>2, <2>3
<1> QED
  BY <1>3, <1>4
------------------------------------------------------------------------------
(* The invariant: what the facts of a run that goes on were made from. *)

\* No clock that the run saw showed more than this.
Latest == now + wall.shift + wall.back

\* A fact was received by then, and its source time is not later.
Timely(fact, latest) ==
    /\ fact.source_time_ms \in Int /\ fact.received_time_ms \in Int
    /\ fact.source_time_ms <= fact.received_time_ms
    /\ fact.received_time_ms <= latest

AccountFacts ==
    facts.oldest # << >> =>
        /\ facts.eligibility.account_id = TheAccount.account_id
        /\ Timely(facts.eligibility, Latest)
        /\ Business!ModeSuits(file, TheAccount, facts.eligibility.position_mode)

SpecFacts ==
    \A k \in 1 .. Len(facts.specs) :
        /\ ParsedSpec(facts.specs[k], file.products[k])
        /\ Timely(facts.specs[k], Latest)

FeeFacts ==
    \A k \in 1 .. Len(facts.fees) :
        /\ facts.fees[k].okx_inst_id = file.products[k].okx_inst_id
        /\ facts.fees[k].version # ""
        /\ facts.fees[k].group_id = facts.specs[k].fee_group_id
        /\ Timely(facts.fees[k], Latest)

\* The answer to a read of fees is of the group of the last specification.
AnswerFacts ==
    At("fee") /\ answer # None => answer.body = facts.specs[step.at].fee_group_id

FactsInv == Running => AccountFacts /\ SpecFacts /\ FeeFacts /\ AnswerFacts

\* No time passes while the products are assessed.
AssessInv == At("assess") => assessed.at = now

OriginInv ==
    /\ EvidenceInv /\ FactsInv /\ AssessInv
    /\ TargetsExecutable /\ DirectoryRefusals /\ AssessmentRefusals
------------------------------------------------------------------------------
(* What the facts say when they are judged. *)

\* A target's mode tells the kind of the product it names.
LEMMA TargetKind ==
    ASSUME NEW f, Business!Valid(f), NEW k \in DOMAIN f.products,
           NEW s \in Range(f.strategies), NEW t \in Range(s.targets),
           t.product_id = f.products[k].product_id
    PROVE  f.products[k].kind = IF t.mode = "Spot" THEN "Spot" ELSE "LinearUsdtSwap"
<1>1. PICK a : Business!ValidTargets(f, s, a)
  BY SameFunctions DEF Business!Valid, Business!ValidStrategies
<1>2. PICK p \in Range(f.products) :
        p.product_id = t.product_id /\ Business!Compatible(p, t.mode, a)
  BY <1>1, SameFunctions DEF Business!ValidTargets
<1>3. PICK j \in DOMAIN f.products : p = f.products[j]
  BY <1>2 DEF Range
<1>4. IsInjective([i \in DOMAIN f.products |-> f.products[i].product_id])
  BY SameFunctions DEF Business!Valid, Business!ValidProducts, Business!Distinct
<1>5. j = k
  BY <1>2, <1>3, <1>4 DEF IsInjective
<1> QED
  BY <1>2, <1>3, <1>5 DEF Business!Compatible

\* Directory::new, on the specifications of a run.
LEMMA BuildOutcomes ==
    ASSUME EvidenceInv, SpecFacts, At("build"),
           NEW outcome \in Instrument!DirectoryOutcomes(file.products, facts.specs)
    PROVE  /\ outcome \in {"ok", "MappingMismatch", "UnsupportedKind"}
           /\ outcome = "UnsupportedKind" =>
                \E s \in Range(facts.specs) :
                    /\ s.kind = "Spot"
                    /\ s.contract_value # None \/ s.contract_value_currency # None
<1> DEFINE products == file.products
           specs == facts.specs
           missing == {m \in Instrument!Range(products) :
                            Instrument!SpecsOf(specs, m.okx_inst_id) = {}}
           checked == UNION {{Instrument!ValidateSpec(m, s) :
                                    s \in Instrument!SpecsOf(specs, m.okx_inst_id)} :
                                m \in Instrument!Range(products)}
           errors == (checked \ {"ok"})
                        \cup IF missing = {} THEN {} ELSE {"MissingSpecification"}
<1>1. /\ RunningInv /\ ShapeInv /\ SpecsInv /\ Running
      /\ Business!Valid(file)
      /\ Len(specs) = Products /\ Products \in Nat
      /\ DOMAIN products = 1 .. Products /\ DOMAIN specs = 1 .. Products
      /\ \A i, j \in 1 .. Products :
            products[i].okx_inst_id = products[j].okx_inst_id => i = j
  <2>1. /\ RunningInv /\ ShapeInv /\ SpecsInv /\ Running /\ Len(specs) = Products
    BY DEF EvidenceInv, SourcesInv, PlaceInv, Gathered, Running, At
  <2>2. products \in Seq(Range(products)) /\ specs \in Seq(Range(specs))
    BY <2>1, ProductList DEF ShapeInv
  <2>3. DOMAIN products = 1 .. Products /\ DOMAIN specs = 1 .. Products
    BY <2>1, <2>2, LenProperties DEF Products
  <2> QED
    BY <2>1, <2>3, ProductList DEF RunningInv
<1>2. \A k \in 1 .. Products : specs[k].okx_inst_id = products[k].okx_inst_id
  BY <1>1 DEF SpecsInv
<1>3. \A k \in 1 .. Products :
        Instrument!SpecsOf(specs, products[k].okx_inst_id) = {specs[k]}
  BY <1>1, <1>2 DEF Instrument!SpecsOf
<1>4. missing = {}
  <2> SUFFICES ASSUME NEW m \in Instrument!Range(products),
                      Instrument!SpecsOf(specs, m.okx_inst_id) = {}
               PROVE  FALSE
    OBVIOUS
  <2>1. PICK k \in 1 .. Products : m = products[k]
    BY <1>1 DEF Instrument!Range
  <2> QED
    BY <1>3, <2>1
<1>5. /\ Instrument!DistinctBy(products, "okx_inst_id")
      /\ Instrument!DistinctBy(products, "product_id")
      /\ Instrument!DistinctBy(specs, "okx_inst_id")
  <2>1. /\ IsInjective([i \in DOMAIN products |-> products[i].okx_inst_id])
        /\ IsInjective([i \in DOMAIN products |-> products[i].product_id])
    BY <1>1, SameFunctions
       DEF Business!Valid, Business!ValidProducts, Business!Distinct
  <2>2. IsInjective([i \in DOMAIN specs |-> specs[i].okx_inst_id])
    BY <1>1, <1>2 DEF IsInjective
  <2> QED
    BY <2>1, <2>2, SameDirectoryFunctions DEF Instrument!DistinctBy
<1>6. outcome \in errors \cup {"ok"}
  BY <1>5 DEF Instrument!DirectoryOutcomes
<1>7. ASSUME NEW k \in 1 .. Products
      PROVE  /\ Instrument!ValidateSpec(products[k], specs[k])
                    \in {"ok", "MappingMismatch", "UnsupportedKind"}
             /\ Instrument!ValidateSpec(products[k], specs[k]) = "UnsupportedKind" =>
                    /\ specs[k].kind = "Spot"
                    /\ \/ specs[k].contract_value # None
                       \/ specs[k].contract_value_currency # None
  <2>1. products[k] \in Range(products)
    BY <1>1 DEF Range
  <2>2. products[k].kind \in {"Spot", "LinearUsdtSwap"}
    BY <1>1, <2>1, CatalogAssumption DEF RunningInv
  <2>3. Business!ValidProduct(products[k])
    BY <1>1, <2>1, SameFunctions DEF Business!Valid, Business!ValidProducts
  <2>4. /\ ParsedSpec(specs[k], products[k])
        /\ specs[k].source_time_ms <= specs[k].received_time_ms
    BY <1>1 DEF SpecFacts, Timely
  <2> QED
    BY <2>2, <2>3, <2>4, SpecificationValidated
<1>8. \A c \in checked : \E k \in 1 .. Products :
            c = Instrument!ValidateSpec(products[k], specs[k])
  <2>1. \A m \in Instrument!Range(products) : \E k \in 1 .. Products : m = products[k]
    BY <1>1 DEF Instrument!Range
  <2> QED
    BY <1>3, <2>1
<1> HIDE DEF checked, missing
<1>9. outcome = "ok" \/ \E k \in 1 .. Products :
            outcome = Instrument!ValidateSpec(products[k], specs[k])
  BY <1>4, <1>6, <1>8
<1>10. \A k \in 1 .. Products : specs[k] \in Range(specs)
  BY <1>1 DEF Range
<1> QED
  BY <1>7, <1>9, <1>10

\* What the run judges a product by.
LEMMA JudgedBy ==
    ASSUME EvidenceInv, FactsInv, At("assess")
    PROVE  /\ Running /\ Business!Valid(file)
           /\ step.at \in 1 .. Products
           /\ Len(facts.specs) = Products /\ Len(facts.fees) = Products
           /\ DOMAIN file.products = 1 .. Products
           /\ AccountFacts /\ SpecFacts /\ FeeFacts /\ facts.oldest # << >>
           /\ Verdict = Instrument!Assess(TheProduct, facts.specs[step.at], Permit,
                            facts.eligibility, facts.fees[step.at], assessed.local, MAX_AGE)
<1>1. /\ RunningInv /\ ShapeInv /\ SpecsInv /\ Running
      /\ step.at \in 1 .. Products
      /\ Gathered(2 * Products + 3, Products, Products)
  BY DEF EvidenceInv, SourcesInv, PlaceInv, Running, At
<1>2. Products \in Nat /\ DOMAIN file.products = 1 .. Products
  BY <1>1, ProductList, LenProperties DEF Products
<1>3. facts.oldest # << >>
  BY <1>1, <1>2, EmptySeq DEF ShapeInv, Gathered
<1>4. (CHOOSE s \in Range(facts.specs) :
            s.okx_inst_id = TheProduct.okx_inst_id) = facts.specs[step.at]
  BY <1>1, OwnSpecification DEF Gathered, TheProduct
<1> QED
  BY <1>1, <1>2, <1>3, <1>4 DEF FactsInv, RunningInv, Gathered, Verdict

\* The verdicts that a run cannot come to.
LEMMA VerdictCauses ==
    ASSUME EvidenceInv, FactsInv, AssessInv, At("assess")
    PROVE  /\ Verdict \in {"ok", "ProductNotAllowed", "RemoteNotEligible", "Inactive",
                           "TimeInFuture", "StaleSpecification", "StaleEligibility",
                           "StaleFee"}
           /\ Verdict = "TimeInFuture" => wall.back > 0
<1>1. PICK k : k = step.at
  OBVIOUS
<1>2. /\ k \in 1 .. Products
      /\ k \in 1 .. Len(facts.specs) /\ k \in 1 .. Len(facts.fees)
      /\ AccountFacts /\ SpecFacts /\ FeeFacts /\ facts.oldest # << >>
      /\ Verdict = Instrument!Assess(TheProduct, facts.specs[k], Permit,
                        facts.eligibility, facts.fees[k], assessed.local, MAX_AGE)
  BY <1>1, JudgedBy
<1>3. /\ Permit.account_id = facts.eligibility.account_id
      /\ facts.eligibility.position_mode \in Range(Permit.allowed_modes)
  BY <1>2, SameFunctions DEF AccountFacts, Permit, Business!ModeSuits
<1>4. /\ facts.fees[k].okx_inst_id = TheProduct.okx_inst_id
      /\ facts.fees[k].version # ""
      /\ facts.specs[k].fee_group_id = facts.fees[k].group_id
  BY <1>1, <1>2 DEF FeeFacts, TheProduct
<1>5. /\ Timely(facts.eligibility, Latest)
      /\ Timely(facts.specs[k], Latest)
      /\ Timely(facts.fees[k], Latest)
  BY <1>2 DEF AccountFacts, SpecFacts, FeeFacts
<1>6. ASSUME NEW fact, Timely(fact, Latest), Instrument!InFuture(assessed.local, fact)
      PROVE  wall.back > 0
  <2>1. /\ assessed.local = now + wall.shift
        /\ now \in Int /\ wall.shift \in Int /\ wall.back \in Nat
    BY DEF EvidenceInv, PlaceInv, ShapeInv, AssessInv
  <2> QED
    BY <1>6, <2>1 DEF Timely, Latest, Instrument!InFuture
<1>7. Causes(Verdict, TheProduct, facts.specs[k], Permit, facts.eligibility,
             facts.fees[k], assessed.local)
  BY <1>2, AssessCauses
<1>8. Verdict = "TimeInFuture" => wall.back > 0
  BY <1>5, <1>6, <1>7 DEF Causes
<1> QED
  BY <1>3, <1>4, <1>7, <1>8 DEF Causes
------------------------------------------------------------------------------
(* Each step keeps what is known of the facts. *)

LEMMA LatestGrows ==
    ASSUME EvidenceInv, [CatalogNext]_catalogVars
    PROVE  Latest \in Int /\ Latest' \in Int /\ Latest <= Latest'
<1>1. now \in Int /\ wall.shift \in Int /\ wall.back \in Nat
  BY DEF EvidenceInv, ShapeInv
<1>2. CASE StepClock
  <2>1. PICK d \in ClockSteps :
            wall' = [shift |-> wall.shift + d,
                     back |-> wall.back + IF d < 0 THEN -d ELSE 0]
    BY <1>2 DEF StepClock
  <2>2. now' = now /\ d \in Int
    BY <1>2, CatalogAssumption DEF StepClock
  <2> QED
    BY <1>1, <2>1, <2>2 DEF Latest
<1>3. CASE Tick
  BY <1>1, <1>3 DEF Tick, Latest
<1>4. CASE ~StepClock /\ ~Tick
  <2>1. UNCHANGED <<now, wall>>
    BY <1>4 DEF CatalogNext, catalogVars, ParseFile, AnswerRead, FailRead, ReceiveConfig,
       ReceiveList, ReceiveSpec, ReceiveFee, BuildDirectory, AssessProduct,
       ExchangeChanges
  <2> QED
    BY <1>1, <2>1 DEF Latest
<1> QED
  BY <1>2, <1>3, <1>4

\* A fact made of the answer under way is timely.
LEMMA ReceiptTimely ==
    ASSUME ShapeInv
    PROVE  /\ SourceTime \in Int /\ LocalMs \in Int
           /\ SourceTime <= LocalMs /\ LocalMs <= Latest
<1>1. /\ now \in Int /\ offset \in Int /\ wall.shift \in Int /\ wall.back \in Nat
  BY DEF ShapeInv
<1> QED
  BY <1>1 DEF SourceTime, LocalMs, Latest, Okx!Earlier

\* The facts of the next state, said of the file as it is.
LEMMA AccountFactsNext ==
    ASSUME UNCHANGED file,
           facts'.oldest # << >> =>
              /\ facts'.eligibility.account_id = TheAccount.account_id
              /\ Timely(facts'.eligibility, Latest')
              /\ Business!ModeSuits(file, TheAccount, facts'.eligibility.position_mode)
    PROVE  AccountFacts'
BY DEF AccountFacts, Timely, Business!ModeSuits, Business!Ids, Business!Range, TheAccount

LEMMA SpecFactsNext ==
    ASSUME UNCHANGED file,
           \A k \in 1 .. Len(facts'.specs) :
              /\ ParsedSpec(facts'.specs[k], file.products[k])
              /\ Timely(facts'.specs[k], Latest')
    PROVE  SpecFacts'
<1> SUFFICES ASSUME NEW k \in 1 .. Len(facts'.specs)
             PROVE  /\ ParsedSpec(facts.specs[k], file.products[k])'
                    /\ Timely(facts.specs[k], Latest)'
  BY DEF SpecFacts
<1>1. PICK row, source, received :
        /\ Okx!Parses(row, file.products[k].kind)
        /\ row.inst_id = file.products[k].okx_inst_id
        /\ facts'.specs[k] = Okx!Spec(row, file.products[k].kind, source, received)
  BY DEF ParsedSpec
<1>2. /\ Okx!Parses(row, file'.products[k].kind)
      /\ row.inst_id = file'.products[k].okx_inst_id
      /\ facts'.specs[k] = Okx!Spec(row, file'.products[k].kind, source, received)
  BY <1>1
<1>3. ParsedSpec(facts.specs[k], file.products[k])'
  BY <1>2 DEF ParsedSpec
<1> QED
  BY <1>3 DEF Timely

LEMMA FeeFactsNext ==
    ASSUME UNCHANGED file,
           \A k \in 1 .. Len(facts'.fees) :
              /\ facts'.fees[k].okx_inst_id = file.products[k].okx_inst_id
              /\ facts'.fees[k].version # ""
              /\ facts'.fees[k].group_id = facts'.specs[k].fee_group_id
              /\ Timely(facts'.fees[k], Latest')
    PROVE  FeeFacts'
BY DEF FeeFacts, Timely

\* Facts stay timely as time passes and the clock is stepped.
LEMMA TimelyKept ==
    ASSUME NEW fact, NEW latest \in Int, NEW later \in Int, latest <= later,
           Timely(fact, latest)
    PROVE  Timely(fact, later)
BY DEF Timely

LEMMA SameFactsKept ==
    ASSUME EvidenceInv, FactsInv, [CatalogNext]_catalogVars, UNCHANGED <<facts, file>>,
           Running
    PROVE  (AccountFacts /\ SpecFacts /\ FeeFacts)'
<1>1. Latest \in Int /\ Latest' \in Int /\ Latest <= Latest'
  BY LatestGrows
<1>2. AccountFacts /\ SpecFacts /\ FeeFacts
  BY DEF FactsInv
<1>3. AccountFacts'
  BY <1>1, <1>2, TimelyKept, AccountFactsNext DEF AccountFacts
<1>4. SpecFacts'
  BY <1>1, <1>2, TimelyKept, SpecFactsNext DEF SpecFacts
<1>5. FeeFacts'
  BY <1>1, <1>2, TimelyKept, FeeFactsNext DEF FeeFacts
<1> QED
  BY <1>3, <1>4, <1>5

\* Before the first product is read there are no such facts.
LEMMA NoneRead ==
    ASSUME Len(facts'.specs) = 0, Len(facts'.fees) = 0
    PROVE  SpecFacts' /\ FeeFacts'
BY DEF SpecFacts, FeeFacts

LEMMA FactsOfConfig ==
    ASSUME EvidenceInv, EvidenceInv', FactsInv, ReceiveConfig
    PROVE  FactsInv'
<1> SUFFICES ASSUME Running' PROVE FactsInv'
  BY DEF FactsInv
<1>1. /\ UNCHANGED <<now, wall, file>>
      /\ Gathered(0, 0, 0)
      /\ facts'.specs = facts.specs /\ facts'.fees = facts.fees
      /\ facts'.eligibility = [account_id |-> TheAccount.account_id,
                               position_mode |-> answer.body,
                               instrument_ids |-> {},
                               source_time_ms |-> SourceTime,
                               received_time_ms |-> LocalMs]
      /\ answer' = None
  BY DEF ReceiveConfig, EvidenceInv, ShapeInv, PlaceInv, At
<1>2. Business!ModeSuits(file, TheAccount, answer.body)
  BY DEF ReceiveConfig, StopIf, Stop, Running
<1>3. Latest' = Latest
  BY <1>1 DEF Latest
<1>4. /\ SourceTime \in Int /\ LocalMs \in Int
      /\ SourceTime <= LocalMs /\ LocalMs <= Latest'
  BY <1>3, ReceiptTimely DEF EvidenceInv
<1>5. AccountFacts'
  <2>1. Timely(facts'.eligibility, Latest')
    BY <1>1, <1>4 DEF Timely
  <2> QED
    BY <1>1, <1>2, <2>1, AccountFactsNext
<1>6. SpecFacts' /\ FeeFacts'
  BY <1>1, NoneRead DEF Gathered
<1>7. AnswerFacts'
  BY <1>1 DEF AnswerFacts
<1> QED
  BY <1>5, <1>6, <1>7 DEF FactsInv

LEMMA FactsOfList ==
    ASSUME EvidenceInv, EvidenceInv', FactsInv, ReceiveList
    PROVE  FactsInv'
<1>1. /\ UNCHANGED <<now, wall, file>>
      /\ step.at \in {1, 2} /\ Gathered(step.at, 0, 0)
      /\ facts'.specs = facts.specs /\ facts'.fees = facts.fees
      /\ answer' = None
  <2>1. step.at \in {1, 2} /\ Gathered(step.at, 0, 0)
    BY DEF ReceiveList, EvidenceInv, PlaceInv, At
  <2>2. DOMAIN facts = {"eligibility", "specs", "fees", "oldest"}
    BY DEF EvidenceInv, ShapeInv
  <2> QED
    BY <2>1, <2>2 DEF ReceiveList
<1>2. facts.oldest # << >> /\ Running
  BY <1>1, EmptySeq DEF Gathered, ReceiveList, At, Running
<1>3. /\ facts.eligibility.account_id = TheAccount.account_id
      /\ Timely(facts.eligibility, Latest)
      /\ Business!ModeSuits(file, TheAccount, facts.eligibility.position_mode)
      /\ DOMAIN facts.eligibility =
            {"account_id", "position_mode", "instrument_ids", "source_time_ms",
             "received_time_ms"}
  BY <1>2 DEF FactsInv, AccountFacts, EvidenceInv, SourcesInv, EligibilityInv
<1>4. Latest' = Latest
  BY <1>1 DEF Latest
<1>5. /\ SourceTime \in Int /\ LocalMs \in Int
      /\ SourceTime <= LocalMs /\ LocalMs <= Latest'
  BY <1>4, ReceiptTimely DEF EvidenceInv
<1>6. /\ facts'.eligibility.account_id = facts.eligibility.account_id
      /\ facts'.eligibility.position_mode = facts.eligibility.position_mode
      /\ facts'.eligibility.source_time_ms =
            Okx!Earlier(facts.eligibility.source_time_ms, SourceTime)
      /\ facts'.eligibility.received_time_ms =
            Okx!Later(facts.eligibility.received_time_ms, LocalMs)
  <2>1. DOMAIN facts = {"eligibility", "specs", "fees", "oldest"}
    BY DEF EvidenceInv, ShapeInv
  <2> QED
    BY <1>3, <2>1 DEF ReceiveList, Okx!Combined
<1>7. Latest \in Int
  BY DEF EvidenceInv, ShapeInv, Latest
<1>8. Timely(facts'.eligibility, Latest')
  BY <1>3, <1>4, <1>5, <1>6, <1>7 DEF Timely, Okx!Earlier, Okx!Later
<1>9. AccountFacts'
  BY <1>1, <1>3, <1>6, <1>8, AccountFactsNext
<1>10. SpecFacts' /\ FeeFacts'
  BY <1>1, NoneRead DEF Gathered
<1>11. AnswerFacts'
  BY <1>1 DEF AnswerFacts
<1> QED
  BY <1>9, <1>10, <1>11 DEF FactsInv

LEMMA FactsOfSpec ==
    ASSUME EvidenceInv, EvidenceInv', FactsInv, ReceiveSpec
    PROVE  FactsInv'
<1> SUFFICES ASSUME Running' PROVE FactsInv'
  BY DEF FactsInv
<1>1. PICK k : k = step.at
  OBVIOUS
<1>2. /\ UNCHANGED <<now, wall, file>> /\ answer' = None
      /\ Len(facts.specs) = k - 1 /\ Len(facts.fees) = k - 1
      /\ k \in 1 .. Products /\ Products \in Nat
      /\ facts.specs \in Seq(Range(facts.specs))
      /\ AccountFacts /\ SpecFacts /\ FeeFacts
  BY <1>1, ProductList
     DEF ReceiveSpec, EvidenceInv, ShapeInv, PlaceInv, Gathered, At, FactsInv, Running
<1>3. RequestedInstrument(answer.body)
  BY DEF ReceiveSpec, Stop, Running
<1> DEFINE spec == Okx!Spec(answer.body, TheProduct.kind, SourceTime, LocalMs)
<1>4. /\ facts'.specs = Append(facts.specs, spec)
      /\ facts'.fees = facts.fees /\ facts'.eligibility = facts.eligibility
  <2>1. DOMAIN facts = {"eligibility", "specs", "fees", "oldest"}
    BY DEF EvidenceInv, ShapeInv
  <2> QED
    BY <1>3, <2>1 DEF ReceiveSpec
<1>5. Latest' = Latest
  BY <1>2 DEF Latest
<1>6. Timely(spec, Latest')
  <2>1. /\ SourceTime \in Int /\ LocalMs \in Int
        /\ SourceTime <= LocalMs /\ LocalMs <= Latest'
    BY <1>5, ReceiptTimely DEF EvidenceInv
  <2>2. spec.source_time_ms = SourceTime /\ spec.received_time_ms = LocalMs
    BY DEF Okx!Spec
  <2> HIDE DEF spec
  <2> QED
    BY <2>1, <2>2 DEF Timely
<1>7. ParsedSpec(spec, file.products[k])
  BY <1>1, <1>3 DEF ParsedSpec, RequestedInstrument, TheProduct
<1> HIDE DEF spec
<1>8. /\ Len(facts'.specs) = k
      /\ \A i \in 1 .. k - 1 : facts'.specs[i] = facts.specs[i]
      /\ facts'.specs[k] = spec
  <2>1. /\ Len(facts'.specs) = Len(facts.specs) + 1
        /\ \A i \in 1 .. Len(facts.specs) : facts'.specs[i] = facts.specs[i]
        /\ facts'.specs[Len(facts.specs) + 1] = spec
    BY <1>2, <1>4, AppendAny
  <2> QED
    BY <1>2, <2>1
<1>9. SpecFacts'
  <2>1. ASSUME NEW i \in 1 .. k
        PROVE  /\ ParsedSpec(facts'.specs[i], file.products[i])
               /\ Timely(facts'.specs[i], Latest')
    <3>1. CASE i = k
      BY <1>6, <1>7, <1>8, <3>1
    <3>2. CASE i # k
      <4>1. i \in 1 .. Len(facts.specs) /\ facts'.specs[i] = facts.specs[i]
        BY <1>2, <1>8, <3>2
      <4> QED
        BY <1>2, <1>5, <4>1 DEF SpecFacts
    <3> QED
      BY <3>1, <3>2
  <2> QED
    BY <1>2, <1>8, <2>1, SpecFactsNext
<1>10. FeeFacts'
  <2>1. ASSUME NEW i \in 1 .. Len(facts'.fees)
        PROVE  /\ facts'.fees[i].okx_inst_id = file.products[i].okx_inst_id
               /\ facts'.fees[i].version # ""
               /\ facts'.fees[i].group_id = facts'.specs[i].fee_group_id
               /\ Timely(facts'.fees[i], Latest')
    <3>1. /\ i \in 1 .. Len(facts.fees) /\ i \in 1 .. k - 1
          /\ facts'.fees[i] = facts.fees[i] /\ facts'.specs[i] = facts.specs[i]
      BY <1>2, <1>4, <1>8
    <3> QED
      BY <1>2, <1>5, <3>1 DEF FeeFacts
  <2> QED
    BY <1>2, <2>1, FeeFactsNext
<1>11. AccountFacts'
  <2>1. facts.oldest # << >>
    BY <1>1, EmptySeq DEF ReceiveSpec, EvidenceInv, PlaceInv, Gathered, At
  <2> QED
    BY <1>2, <1>4, <1>5, <2>1, AccountFactsNext DEF AccountFacts
<1>12. AnswerFacts'
  BY <1>2 DEF AnswerFacts
<1> QED
  BY <1>9, <1>10, <1>11, <1>12 DEF FactsInv

LEMMA FactsOfFee ==
    ASSUME EvidenceInv, EvidenceInv', FactsInv, ReceiveFee
    PROVE  FactsInv'
<1>1. PICK k : k = step.at
  OBVIOUS
<1>2. /\ UNCHANGED <<now, wall, file>> /\ answer' = None
      /\ Len(facts.specs) = k /\ Len(facts.fees) = k - 1
      /\ k \in 1 .. Products /\ Products \in Nat
      /\ facts.fees \in Seq(Range(facts.fees))
      /\ AccountFacts /\ SpecFacts /\ FeeFacts /\ AnswerFacts
  BY <1>1, ProductList
     DEF ReceiveFee, EvidenceInv, ShapeInv, PlaceInv, Gathered, At, FactsInv, Running
<1> DEFINE fee == Okx!FeeSchedule(TheProduct.okx_inst_id, answer.body, SourceTime, LocalMs)
<1>3. /\ facts'.fees = Append(facts.fees, fee)
      /\ facts'.specs = facts.specs /\ facts'.eligibility = facts.eligibility
  <2>1. DOMAIN facts = {"eligibility", "specs", "fees", "oldest"}
    BY DEF EvidenceInv, ShapeInv
  <2> QED
    BY <2>1 DEF ReceiveFee
<1>4. Latest' = Latest
  BY <1>2 DEF Latest
<1>5. /\ fee.source_time_ms = SourceTime /\ fee.received_time_ms = LocalMs
      /\ fee.okx_inst_id = TheProduct.okx_inst_id /\ fee.version = "hash"
      /\ fee.group_id = answer.body
  BY DEF Okx!FeeSchedule
<1> HIDE DEF fee
<1>6. Timely(fee, Latest')
  <2>1. /\ SourceTime \in Int /\ LocalMs \in Int
        /\ SourceTime <= LocalMs /\ LocalMs <= Latest'
    BY <1>4, ReceiptTimely DEF EvidenceInv
  <2> QED
    BY <1>5, <2>1 DEF Timely
<1>7. fee.group_id = facts.specs[k].fee_group_id
  BY <1>1, <1>2, <1>5 DEF ReceiveFee, Received, AnswerFacts
<1>8. /\ Len(facts'.fees) = k
      /\ \A i \in 1 .. k - 1 : facts'.fees[i] = facts.fees[i]
      /\ facts'.fees[k] = fee
  <2>1. /\ Len(facts'.fees) = Len(facts.fees) + 1
        /\ \A i \in 1 .. Len(facts.fees) : facts'.fees[i] = facts.fees[i]
        /\ facts'.fees[Len(facts.fees) + 1] = fee
    BY <1>2, <1>3, AppendAny
  <2> QED
    BY <1>2, <2>1
<1>9. FeeFacts'
  <2>1. ASSUME NEW i \in 1 .. k
        PROVE  /\ facts'.fees[i].okx_inst_id = file.products[i].okx_inst_id
               /\ facts'.fees[i].version # ""
               /\ facts'.fees[i].group_id = facts'.specs[i].fee_group_id
               /\ Timely(facts'.fees[i], Latest')
    <3>1. CASE i = k
      BY <1>1, <1>3, <1>5, <1>6, <1>7, <1>8, <3>1 DEF TheProduct
    <3>2. CASE i # k
      <4>1. i \in 1 .. Len(facts.fees) /\ facts'.fees[i] = facts.fees[i]
        BY <1>2, <1>8, <3>2
      <4> QED
        BY <1>2, <1>3, <1>4, <4>1 DEF FeeFacts
    <3> QED
      BY <3>1, <3>2
  <2> QED
    BY <1>2, <1>8, <2>1, FeeFactsNext
<1>10. SpecFacts'
  BY <1>2, <1>3, <1>4, SpecFactsNext DEF SpecFacts
<1>11. AccountFacts'
  <2>1. facts.oldest # << >>
    BY <1>1, EmptySeq DEF ReceiveFee, EvidenceInv, PlaceInv, Gathered, At
  <2> QED
    BY <1>2, <1>3, <1>4, <2>1, AccountFactsNext DEF AccountFacts
<1>12. AnswerFacts'
  BY <1>2 DEF AnswerFacts
<1> QED
  BY <1>9, <1>10, <1>11, <1>12 DEF FactsInv

\* A step that gathers nothing.
LEMMA FactsOfOthers ==
    ASSUME EvidenceInv, EvidenceInv', FactsInv, [CatalogNext]_catalogVars,
           ~(ReceiveConfig \/ ReceiveList \/ ReceiveSpec \/ ReceiveFee)
    PROVE  FactsInv'
<1>1. UNCHANGED <<facts, file>>
  BY DEF CatalogNext, catalogVars, ParseFile, AnswerRead, FailRead, BuildDirectory,
     AssessProduct, ExchangeChanges, StepClock, Tick
<1> SUFFICES ASSUME Running' PROVE FactsInv'
  BY DEF FactsInv
<1>2. CASE ParseFile
  <2>1. Gathered(0, 0, 0) /\ answer' = answer /\ ~At("fee")'
    BY <1>2 DEF ParseFile, EvidenceInv, PlaceInv, At, StopIf, Stop, Goto
  <2>2. /\ facts'.oldest = << >> /\ Len(facts'.specs) = 0 /\ Len(facts'.fees) = 0
    <3>1. facts.oldest = << >>
      BY <2>1, EmptySeq DEF Gathered, EvidenceInv, ShapeInv
    <3> QED
      BY <1>1, <2>1, <3>1 DEF Gathered
  <2> QED
    BY <2>1, <2>2, NoneRead DEF FactsInv, AccountFacts, AnswerFacts
<1>3. CASE AnswerRead
  <2>1. Running /\ step' = step /\ answer' = [at |-> now, body |-> Body]
    BY <1>3 DEF AnswerRead, Reading, Running
  <2>2. At("fee") => Body = facts.specs[step.at].fee_group_id
    BY DEF Body, At
  <2>3. AnswerFacts'
    BY <1>1, <2>1, <2>2 DEF AnswerFacts, At
  <2> QED
    BY <1>1, <2>1, <2>3, SameFactsKept DEF FactsInv
<1>4. CASE ~ParseFile /\ ~AnswerRead
  <2>1. Running
    BY <1>4 DEF CatalogNext, catalogVars, FailRead, BuildDirectory, AssessProduct,
       ExchangeChanges, StepClock, Tick, At, Reading, Running
  <2>2. At("fee")' /\ answer' # None => UNCHANGED <<step, answer>>
    BY <1>4 DEF CatalogNext, catalogVars, FailRead, BuildDirectory, AssessProduct,
       ExchangeChanges, StepClock, Tick, At, Stop, StopIf, Goto
  <2>3. AnswerFacts'
    BY <1>1, <2>1, <2>2 DEF AnswerFacts, At, FactsInv
  <2> QED
    BY <1>1, <2>1, <2>3, SameFactsKept DEF FactsInv
<1> QED
  BY <1>2, <1>3, <1>4

LEMMA FactsStep ==
    ASSUME EvidenceInv, EvidenceInv', FactsInv, [CatalogNext]_catalogVars
    PROVE  FactsInv'
BY FactsOfConfig, FactsOfList, FactsOfSpec, FactsOfFee, FactsOfOthers
------------------------------------------------------------------------------
(* The invariant holds, and what follows from it. *)

LEMMA OriginInit == CatalogInit => OriginInv
<1> SUFFICES ASSUME CatalogInit PROVE OriginInv
  OBVIOUS
<1>1. EvidenceInv
  BY EvidenceInit
<1>2. step.name = "parse" /\ assessed.verdicts = << >>
  BY DEF CatalogInit
<1>3. FactsInv /\ AssessInv /\ DirectoryRefusals /\ AssessmentRefusals
  BY <1>2 DEF FactsInv, Running, AssessInv, At, DirectoryRefusals, AssessmentRefusals, Ended
<1>4. TargetsExecutable
  <2>1. DOMAIN << >> = {}
    OBVIOUS
  <2> QED
    BY <1>2, <2>1 DEF TargetsExecutable
<1> QED
  BY <1>1, <1>3, <1>4 DEF OriginInv

LEMMA AssessStep ==
    ASSUME AssessInv, EvidenceInv, [CatalogNext]_catalogVars
    PROVE  AssessInv'
<1> SUFFICES ASSUME At("assess")' PROVE assessed'.at = now'
  BY DEF AssessInv, At
<1>1. CASE BuildDirectory
  BY <1>1 DEF BuildDirectory, EvidenceInv, ShapeInv
<1>2. CASE AssessProduct
  BY <1>2 DEF AssessProduct, AssessInv, EvidenceInv, ShapeInv
<1>3. CASE ~BuildDirectory /\ ~AssessProduct
  BY <1>3 DEF CatalogNext, catalogVars, ParseFile, AnswerRead, FailRead, ReceiveConfig,
     ReceiveList, ReceiveSpec, ReceiveFee, ExchangeChanges, StepClock, Tick, At, Reading,
     StopIf, Stop, Goto, AssessInv
<1> QED
  BY <1>1, <1>2, <1>3

\* What the run knows of a product it assesses suits every target of the account.
LEMMA TargetsSuited ==
    ASSUME EvidenceInv, FactsInv, At("assess"), NEW i \in 1 .. Products,
           NEW s \in Range(file.strategies), NEW t \in Range(s.targets),
           s.account_id = TheAccount.account_id,
           t.product_id = file.products[i].product_id
    PROVE  /\ facts.specs[i].kind = IF t.mode = "Spot" THEN "Spot" ELSE "LinearUsdtSwap"
           /\ t.mode = "SwapLegs" => facts.eligibility.position_mode = "LongShortMode"
<1>1. /\ Business!Valid(file) /\ i \in DOMAIN file.products /\ i \in 1 .. Len(facts.specs)
      /\ AccountFacts /\ SpecFacts /\ facts.oldest # << >>
  BY JudgedBy
<1>2. file.products[i].kind = IF t.mode = "Spot" THEN "Spot" ELSE "LinearUsdtSwap"
  BY <1>1, TargetKind
<1>3. facts.specs[i].kind = file.products[i].kind
  <2>1. ParsedSpec(facts.specs[i], file.products[i])
    BY <1>1 DEF SpecFacts
  <2> QED
    BY <2>1 DEF ParsedSpec, Okx!Spec
<1>4. ASSUME t.mode = "SwapLegs"
      PROVE  facts.eligibility.position_mode = "LongShortMode"
  <2>1. "SwapLegs" \in Business!Ids(s.targets, "mode")
    BY <1>4 DEF Range, Business!Ids
  <2>2. Business!ModeSuits(file, TheAccount, facts.eligibility.position_mode)
    BY <1>1 DEF AccountFacts
  <2> QED
    BY <2>1, <2>2, SameFunctions DEF Business!ModeSuits
<1> QED
  BY <1>2, <1>3, <1>4

LEMMA TargetsStep ==
    ASSUME EvidenceInv, EvidenceInv', FactsInv, TargetsExecutable,
           [CatalogNext]_catalogVars
    PROVE  TargetsExecutable'
<1>1. CASE AssessProduct
  <2>1. /\ UNCHANGED <<file, facts>> /\ At("assess")
        /\ assessed'.verdicts = Append(assessed.verdicts, Verdict)
    BY <1>1 DEF AssessProduct, EvidenceInv, ShapeInv
  <2>2. step.at \in 1 .. Products /\ Products \in Nat
    BY <2>1, ProductList DEF EvidenceInv, PlaceInv
  <2>3. DOMAIN assessed'.verdicts = 1 .. step.at
    <3>1. /\ assessed.verdicts \in Seq(Range(assessed.verdicts))
          /\ Len(assessed.verdicts) = step.at - 1
      BY <2>1 DEF EvidenceInv, ShapeInv, PlaceInv
    <3>2. /\ assessed'.verdicts \in Seq(Range(assessed'.verdicts))
          /\ Len(assessed'.verdicts) = Len(assessed.verdicts) + 1
      BY <2>1, <3>1, AppendAny
    <3> QED
      BY <2>2, <3>1, <3>2, LenProperties
  <2>4. \A i \in DOMAIN assessed'.verdicts : i \in 1 .. Products
    BY <2>2, <2>3
  <2> QED
    BY <2>1, <2>4, TargetsSuited DEF TargetsExecutable, TheAccount
<1>2. CASE UNCHANGED catalogVars
  BY <1>2 DEF catalogVars, TargetsExecutable, Accepted, TheAccount
<1>3. CASE ~AssessProduct /\ ~UNCHANGED catalogVars
  <2>1. assessed.verdicts = << >>
    BY <1>3 DEF CatalogNext, ParseFile, AnswerRead, FailRead, ReceiveConfig, ReceiveList,
       ReceiveSpec, ReceiveFee, BuildDirectory, ExchangeChanges, StepClock, Tick, At,
       Reading, EvidenceInv, PlaceInv
  <2>2. assessed'.verdicts = assessed.verdicts
    BY <1>3 DEF CatalogNext, ParseFile, AnswerRead, FailRead, ReceiveConfig, ReceiveList,
       ReceiveSpec, ReceiveFee, BuildDirectory, ExchangeChanges, StepClock, Tick,
       EvidenceInv, ShapeInv
  <2>3. DOMAIN << >> = {}
    OBVIOUS
  <2> QED
    BY <2>1, <2>2, <2>3 DEF TargetsExecutable
<1> QED
  BY <1>1, <1>2, <1>3

LEMMA RefusalsStep ==
    ASSUME EvidenceInv, FactsInv, AssessInv, DirectoryRefusals, AssessmentRefusals,
           [CatalogNext]_catalogVars
    PROVE  DirectoryRefusals' /\ AssessmentRefusals'
<1>1. CASE BuildDirectory
  <2>1. PICK outcome \in Instrument!DirectoryOutcomes(file.products, facts.specs) :
            step' = IF outcome # "ok" THEN [name |-> "stopped", at |-> outcome]
                    ELSE [name |-> "assess", at |-> 1]
    BY <1>1 DEF BuildDirectory, StopIf, Stop, Goto
  <2>2. /\ outcome \in {"ok", "MappingMismatch", "UnsupportedKind"}
        /\ outcome = "UnsupportedKind" =>
            \E s \in Range(facts.specs) :
                /\ s.kind = "Spot"
                /\ s.contract_value # None \/ s.contract_value_currency # None
    BY <1>1, BuildOutcomes DEF BuildDirectory, FactsInv, Running, At
  <2>3. UNCHANGED facts
    BY <1>1 DEF BuildDirectory
  <2> QED
    BY <2>1, <2>2, <2>3 DEF DirectoryRefusals, AssessmentRefusals, Ended
<1>2. CASE AssessProduct
  <2>1. /\ Verdict \in {"ok", "ProductNotAllowed", "RemoteNotEligible", "Inactive",
                        "TimeInFuture", "StaleSpecification", "StaleEligibility",
                        "StaleFee"}
        /\ Verdict = "TimeInFuture" => wall.back > 0
    BY <1>2, VerdictCauses DEF AssessProduct
  <2>2. step'.name = "stopped" => step'.at \in {Verdict, "Usable"} /\ step'.at # "ok"
    BY <1>2 DEF AssessProduct, Stop, Goto
  <2>3. UNCHANGED wall
    BY <1>2 DEF AssessProduct
  <2> QED
    BY <2>1, <2>2, <2>3 DEF DirectoryRefusals, AssessmentRefusals, Ended
<1>3. CASE UNCHANGED catalogVars
  BY <1>3 DEF catalogVars, DirectoryRefusals, AssessmentRefusals, Ended
<1>4. CASE ~BuildDirectory /\ ~AssessProduct /\ ~UNCHANGED catalogVars
  <2>1. step'.name = "stopped" =>
            step'.at \in {"InvalidFile", "Failed", "ActualModeMismatch", "NoFeeGroup",
                          "InvalidResponse"}
    BY <1>4 DEF CatalogNext, ParseFile, AnswerRead, FailRead, ReceiveConfig, ReceiveList,
       ReceiveSpec, ReceiveFee, ExchangeChanges, StepClock, Tick, At, Reading, StopIf,
       Stop, Goto
  <2> QED
    BY <2>1 DEF DirectoryRefusals, AssessmentRefusals, Ended
<1> QED
  BY <1>1, <1>2, <1>3, <1>4

LEMMA OriginStep == OriginInv /\ [CatalogNext]_catalogVars => OriginInv'
<1> SUFFICES ASSUME OriginInv, [CatalogNext]_catalogVars
             PROVE  OriginInv'
  OBVIOUS
<1>1. /\ EvidenceInv /\ FactsInv /\ AssessInv
      /\ TargetsExecutable /\ DirectoryRefusals /\ AssessmentRefusals
  BY DEF OriginInv
<1>2. EvidenceInv'
  BY <1>1, EvidenceStep
<1>3. FactsInv' /\ AssessInv'
  BY <1>1, <1>2, FactsStep, AssessStep
<1>4. TargetsExecutable' /\ DirectoryRefusals' /\ AssessmentRefusals'
  BY <1>1, <1>2, TargetsStep, RefusalsStep
<1> QED
  BY <1>2, <1>3, <1>4 DEF OriginInv

\* business.rs and directory: whatever the file, the rows of the exchange and its
\* changes, a product that is accepted has a specification of the kind that every
\* target of the account is for, and separate legs are wanted only in dual-side mode.
THEOREM AcceptedTargetsExecutable == CatalogSpec => []TargetsExecutable
<1>1. OriginInv => TargetsExecutable
  BY DEF OriginInv
<1> QED
  BY OriginInit, OriginStep, <1>1, PTL DEF CatalogSpec

\* Directory::new: on the specifications that the client parsed for an accepted
\* file, it fails only by a mismatch of the file and the exchange, or on a SPOT row
\* that carries contract fields.
THEOREM DirectoryRefusesMismatchesOnly == CatalogSpec => []DirectoryRefusals
<1>1. OriginInv => DirectoryRefusals
  BY DEF OriginInv
<1> QED
  BY OriginInit, OriginStep, <1>1, PTL DEF CatalogSpec

\* assess(): the fee, the account and the mode always belong to the product and the
\* account, and a fact lies in the future only after a step of the clock back, by
\* whatever amounts and as often as it was stepped.
THEOREM AssessmentsRefuseOwnFactsNever == CatalogSpec => []AssessmentRefusals
<1>1. OriginInv => AssessmentRefusals
  BY DEF OriginInv
<1> QED
  BY OriginInit, OriginStep, <1>1, PTL DEF CatalogSpec
------------------------------------------------------------------------------
(* Types. *)

\* CatalogTypeOK without what PlaceInv says already; nothing is assessed before the
\* directory is built.
TypeInv ==
    /\ now \in 0 .. MaxTime
    /\ offset \in Offsets
    /\ exchange \in Exchanges
    /\ changes \in 0 .. MaxChanges
    /\ file \in Files
    /\ answer # None => answer.at \in 0 .. now
    /\ facts.oldest \in Seq(0 .. now)
    /\ assessed.at \in (0 .. now) \cup {None}
    /\ assessed.at # None => assessed.local = assessed.at + wall.shift
    /\ step.name \notin {"assess", "stopped"} => assessed.at = None

LEMMA TypeInit == CatalogInit => TypeInv
<1> SUFFICES ASSUME CatalogInit PROVE TypeInv
  OBVIOUS
<1>1. << >> \in Seq(0 .. 0)
  BY EmptySeq
<1> QED
  BY <1>1, CatalogAssumption DEF CatalogInit, TypeInv

\* The exchange stays an exchange.
LEMMA ExchangeKept ==
    ASSUME TypeInv, ExchangeChanges
    PROVE  exchange' \in Exchanges
<1>1. /\ exchange.mode \in Modes /\ exchange.visible \in SUBSET Instruments
      /\ exchange.rows \in [Instruments -> UNION Range(Rows)]
      /\ \A j \in Instruments : exchange.rows[j] \in Rows[j]
      /\ DOMAIN exchange = {"mode", "visible", "rows"}
  BY DEF TypeInv, Exchanges
<1>2. CASE \E m \in Modes : exchange' = [exchange EXCEPT !.mode = m]
  BY <1>2 DEF TypeInv, Exchanges
<1>3. CASE \E v \in SUBSET Instruments : exchange' = [exchange EXCEPT !.visible = v]
  BY <1>3 DEF TypeInv, Exchanges
<1>4. CASE \E i \in Instruments : \E r \in Rows[i] :
                exchange' = [exchange EXCEPT !.rows[i] = r]
  <2>1. PICK i \in Instruments : \E r \in Rows[i] :
            exchange' = [exchange EXCEPT !.rows[i] = r]
    BY <1>4
  <2>2. PICK r \in Rows[i] : exchange' = [exchange EXCEPT !.rows[i] = r]
    BY <2>1
  <2>3. r \in UNION Range(Rows)
    BY CatalogAssumption DEF Range
  <2>4. /\ exchange'.mode = exchange.mode /\ exchange'.visible = exchange.visible
        /\ exchange'.rows = [exchange.rows EXCEPT ![i] = r]
        /\ exchange' = [mode |-> exchange.mode, visible |-> exchange.visible,
                        rows |-> [exchange.rows EXCEPT ![i] = r]]
    BY <2>2 DEF TypeInv, Exchanges
  <2>5. /\ [exchange.rows EXCEPT ![i] = r] \in [Instruments -> UNION Range(Rows)]
        /\ \A j \in Instruments : [exchange.rows EXCEPT ![i] = r][j] \in Rows[j]
    BY <1>1, <2>3
  <2> QED
    BY <1>1, <2>4, <2>5 DEF Exchanges
<1> QED
  BY <1>2, <1>3, <1>4 DEF ExchangeChanges

LEMMA TypeStep ==
    ASSUME EvidenceInv, TypeInv, [CatalogNext]_catalogVars
    PROVE  TypeInv'
<1> USE CatalogAssumption
<1>1. CASE Tick
  <2>1. facts.oldest \in Seq(0 .. now')
    BY <1>1, SeqMonotonic DEF Tick, TypeInv
  <2> QED
    BY <1>1, <2>1 DEF Tick, TypeInv
<1>2. CASE ExchangeChanges
  <2>1. exchange' \in Exchanges
    BY <1>2, ExchangeKept
  <2> QED
    BY <1>2, <2>1 DEF ExchangeChanges, TypeInv
<1>3. CASE StepClock
  BY <1>3 DEF StepClock, Reading, At, TypeInv
<1>4. CASE AnswerRead
  BY <1>4 DEF AnswerRead, TypeInv
<1>5. CASE ReceiveConfig \/ ReceiveList \/ ReceiveSpec \/ ReceiveFee
  <2>1. /\ UNCHANGED <<now, wall, offset, exchange, changes, file, assessed>>
        /\ answer' = None /\ answer # None
        /\ assessed.at = None
    BY <1>5 DEF ReceiveConfig, ReceiveList, ReceiveSpec, ReceiveFee, Received, At, TypeInv
  <2>2. facts' = facts \/ facts'.oldest = Append(facts.oldest, answer.at)
    BY <1>5 DEF ReceiveConfig, ReceiveList, ReceiveSpec, ReceiveFee, EvidenceInv, ShapeInv
  <2>3. facts'.oldest \in Seq(0 .. now)
    <3>1. answer.at \in 0 .. now /\ facts.oldest \in Seq(0 .. now)
      BY <2>1 DEF TypeInv
    <3>2. Append(facts.oldest, answer.at) \in Seq(0 .. now)
      BY <3>1, AppendProperties
    <3> QED
      BY <2>2, <3>1, <3>2
  <2> QED
    BY <2>1, <2>3 DEF TypeInv
<1>6. CASE BuildDirectory
  BY <1>6 DEF BuildDirectory, StopIf, Stop, Goto, LocalMs, At, TypeInv, EvidenceInv,
     ShapeInv
<1>7. CASE AssessProduct
  <2>1. UNCHANGED <<now, wall, offset, exchange, changes, file, answer, facts>>
    BY <1>7 DEF AssessProduct
  <2>2. assessed'.at = assessed.at /\ assessed'.local = assessed.local
    BY <1>7 DEF AssessProduct, EvidenceInv, ShapeInv
  <2>3. step'.name \in {"assess", "stopped"}
    BY <1>7 DEF AssessProduct, Stop, Goto
  <2> QED
    BY <2>1, <2>2, <2>3 DEF TypeInv
<1>8. CASE ParseFile \/ FailRead
  BY <1>8 DEF ParseFile, FailRead, StopIf, Stop, Goto, Reading, At, TypeInv
<1>9. CASE UNCHANGED catalogVars
  BY <1>9 DEF catalogVars, TypeInv
<1> QED
  BY <1>1, <1>2, <1>3, <1>4, <1>5, <1>6, <1>7, <1>8, <1>9 DEF CatalogNext

\* Types, and the facts are gathered in step with the run, for all files and
\* exchanges, steps of the clock and bounds.
THEOREM CatalogTypeCorrect == CatalogSpec => []CatalogTypeOK
<1>1. EvidenceInv /\ TypeInv => CatalogTypeOK
  BY DEF EvidenceInv, TypeInv, ShapeInv, PlaceInv, Gathered, Products, CatalogTypeOK, At
<1>2. CatalogInit => EvidenceInv /\ TypeInv
  BY EvidenceInit, TypeInit
<1>3. EvidenceInv /\ TypeInv /\ [CatalogNext]_catalogVars => (EvidenceInv /\ TypeInv)'
  BY EvidenceStep, TypeStep
<1> QED
  BY <1>1, <1>2, <1>3, PTL DEF CatalogSpec
==============================================================================
