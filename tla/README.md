# A TLA+ model of okx-trading

This directory holds TLA+ modules that model the parts of this repository that
decide, wait, share or combine state, the TLC configurations that check them on
small instances, and proofs that TLAPS checks for every value of their
constants. Paths such as `crates/okx-client/src/lib.rs` are relative to the
repository. `PROJECT.json` maps each definition to the lines it models.

## 1. The system

The repository is at "stage one" of a trading system for the OKX exchange:
libraries, a live acceptance test, and a large design in `docs/`. There is no
order path, no event store and no service binary yet (`ingest`, `trader`,
`recovery` exist only in the docs). What there is falls into eight parts.

| part | state it keeps | operations | talks to |
|---|---|---|---|
| `okx-client` `ReadOnlyClient` | two `AsyncMutex<Option<Instant>>` (last request, last time request), `Mutex<Option<ClockSync>>` | `synchronize_clock`, `public_instrument(s)`, `account_configuration`, `account_instruments`, `fee_group`; inside them `get_rows`, `require_clock`, `timestamp`, `observation` | the exchange over HTTP; local wall clock; monotonic clock; every task that holds the shared client |
| `okx-client` rows and conversions | none | `InstrumentRow::parse`, `to_instrument_spec`, `to_eligibility`, `to_fee_schedule` | turns answers into the facts `instrument` judges |
| `instrument` `Directory` | mappings and specifications, fixed at construction | `Directory::new`, `assess` | given mappings by `config`, facts by `okx-client`, the time by its caller |
| `config::business` | an accepted file | `parse`, `validate_actual_mode` | products, accounts and strategies for everybody else |
| `config::deployment` | none | `Deployment::from_pairs` | environment of a process, per role; its node id goes to the log, its secret references to `okx-client` |
| `model` | none | `Decimal`, `Money`, `Price`, `Quantity`, fact envelopes, ids | used by all; envelopes travel between processes |
| credentials | three secret files in a directory | `import_demo_credentials` writes them once; `CredentialFiles`, `read_credential`, `Credentials::new` read them | an operator, the file system, a trader process |
| `telemetry` | `Health`: `AtomicBool` and a `Mutex<Option<Reason>>`; `Registry`: counters under one mutex; log lines | `pause`, `mark_ready`, `stop`, `snapshot`; `increment`, `snapshot`; `Context::new` | threads of one process |

`integration-tests/tests/stage1_catalog.rs` is where the parts meet: parse the
business file, synchronise the clock, read the account, its instruments and for
each product its specification and fee group, build the `Directory`, assess every
product.

### What is hard about each part, and what makes it correct

*ReadOnlyClient.* Any number of tasks await two limiters in turn, futures are
dropped anywhere, a request may get no answer, and three clocks are involved (the
exchange's, the monotonic one, the local wall clock, which somebody may step).
Values are read before an await and used after it: `before`, the result of
`require_clock()`, the slot of the time endpoint. A slot is stamped before `send()`
is awaited, so requests may leave closer to each other than their slots. It is correct
when every request has a slot of its own, soon before it leaves, and the slots are
paced whatever the tasks do; when no lock stays behind a dropped future; when every
call returns; and when what is derived from the clock sync
(an accepted clock, the timestamp of a signed request, the source time of an
observation) is near the truth by a bound that can be stated.

*Rows, Directory, business file.* Pure, but their results are combined: facts
that the exchange gave at different moments, a file that allows some modes and
strategies that need others, product identities that appear in three places. They
are correct when what is accepted rests on fresh facts, each of them; when it can
be traded the way the file's strategies want it; and when refusals have only the
causes their names say, whatever changes at the exchange between two reads.

*Health.* `stop()` clears the flag outside the mutex and `snapshot()` loads it
after it released the mutex, so all interleavings matter: a `mark_ready()` that loaded
`live` before may write after. It is correct when that is one late verdict, written
before the shutdown and never over it, and when shutdown is final and shows.

*Registry.* Several threads raise and copy counters under one mutex. It is correct
when no increment is lost, a counter stays at its limit, and a copy is of one moment.

*Units and facts.* Pure, but the constructors, `validate()`, the serializer and the
decoder each have rules of their own for the same values, and rounding goes through
a quotient of finite precision. They are correct when arithmetic is exact or
refused, when all that can be built survives the wire, and when what is received
could have been built and means one thing.

*Deployment, identity, log.* Three rules for identifiers and a table of keys per
role, applied one after the other. They are correct when an environment is taken as
it is or not at all, belongs to one role, and when what one rule accepts the next
does not refuse.

*Credential import and load.* A one-time script writes three files one by one; it
may fail anywhere and the machine may crash; a retry comes after somebody removed the
directory; a trader may load at any time. It is correct when secrets that are loaded
belong together and are whole.

## 2. Modules

| module | what it is |
|---|---|
| `RateLimit` | abstract: what a limiter promises to the server (spaced slots, each with one permit that lapses) |
| `Pacer` | one `AsyncMutex<Option<Instant>>` used as a limiter (lock, sleep, stamp, drop) |
| `ReadOnlyClient` | the client: two `Pacer`s (`INSTANCE`), the clock sync, all calls |
| `CallProgress` | abstract: how calls move through the limiters, no contents, unbounded time |
| `ReadOnlyClient_proofs` | theorems about `ReadOnlyClient` |
| `ClientWaits_proofs` | theorems about what its calls wait for, with punctual timers or a clock not stepped |
| `CallProgress_proofs` | theorems about `CallProgress` |
| `ProcessThreads` | the threads of one process |
| `ProcessLifecycle` | abstract: what `Health` promises to who watches a process, with one late verdict after a stop |
| `Health` | the real one, one access per step |
| `Metrics` | the counters of `Registry`, one access per step |
| `Telemetry` | `Health` and `Metrics` in one process |
| `Telemetry_proofs` | theorems about the three |
| `BusinessConfig` | pure: which files are valid, which modes suit an account |
| `OkxFacts` | pure: which rows parse, and the facts made of them |
| `InstrumentDirectory` | pure: what `Directory::new` and `assess` return |
| `Catalog` | the stage-one acceptance over the three pure modules, with an exchange that changes |
| `Catalog_proofs`, `CatalogFacts_proofs` | theorems about `Catalog` |
| `Units` | pure: decimals, money, rounding down |
| `Facts` | pure: the five facts, `validate()`, serialization, decoding |
| `FactExchange` | a producer and a consumer of facts over the two |
| `FactExchange_proofs` | theorems about it |
| `Identity` | pure: three rules for identifiers |
| `Deployment` | pure: `from_pairs` |
| `CredentialStore` | the three secret files, the importer, crashes, and the reader's rules |
| `Startup` | a process that configures itself, opens its log and loads its secrets, over the three |
| `Startup_proofs` | theorems about it |
| `MCReadOnlyClient`, `MCCatalog`, `MCFactExchange`, `MCStartup` | values for TLC |

An operator whose comment starts with "Mutant:" is a variant of the definition
below it as a plausible bug would have it. Nothing uses it: replacing the
definition by it must make the property named in `PROJECT.json` fail, which shows
that the property can see that bug.

### ReadOnlyClient: state and actions

One step runs a future from one await to the next, as tokio polls it. `call[t]`
says where task t is suspended and carries the locals that live across that await:

| `pc` | suspended at |
|---|---|
| `idle` | no call; the outcome of the last one |
| `timeWait` | `last_time_request.lock()` or the sleep under it (400-403) |
| `requestWait` | `last_request.lock()` or the sleep under it (626-629); a sync carries `before` |
| `inFlight` | `send()` or `chunk()`: `sent` is the stamp of its slot, `left` whether it has left, `answer` when the exchange answered; a sync carries `before`, a private read the time it was signed with |

| action | code |
|---|---|
| `CallSync` | `synchronize_clock` up to its first await |
| `TakeTimeSlot` | stamp the time slot, drop the guard, read `before`, call `lock()` in `get_rows` |
| `CallRead`, `RefuseRead` | a read, whose `require_clock()` passes or refuses; or `fee_group` refuses the group it is given |
| `SendRequest`, `RefuseToSign` | stamp the request slot, drop the guard, and, with no await between, build the request, sign it (`timestamp()`) and pass it to `send()`; or `timestamp()` refuses and the slot is spent for nothing |
| `Depart` | the request leaves: at any moment while `send()` is awaited, if at all |
| `Answer` | the exchange processes the request |
| `FinishSync`, `FinishRead` | the body is complete: midpoint, skew check and commit; or `observation()`, which checks the clock again |
| `Fail` | timeout, status, size, envelope or row checks refuse (there are no retries) |
| `Cancel` | the caller drops the future at any of the three awaits |
| `Tick`, `StepWall` | time; somebody steps the wall clock |

How the world is abstracted:
- A tick stands for the unit that the constants of a `.cfg` share. The ratios of
  the real constants (500 ms, 5 s, 5 s, 60 s, 5 s, 2 s) are reduced so that each
  comparison can go both ways within the horizon; the proofs hold for all values.
- The exchange's clock is taken as true and runs with the monotonic clock, so the
  exchange's time is `now`. The wall clock is off by `wallShift`, which `StepWall`
  changes. A rate error of the wall clock is not modelled apart from such steps.
- Timers never fire early. With `Punctual` false tasks may run late by any amount;
  with `Punctual` true a due slot is used before time passes (only in runs whose
  question is not about lateness).
- tokio's mutex serves its waiters in order, so a limiter is a queue whose head
  holds the lock. A dropped future leaves the queue and, as the head, drops its
  guard without a stamp.
- `send()` is awaited after the slot is stamped: the task may be polled late, and a
  connection has to be found or made. So `Depart` is a step of its own, at any time up to
  the timeout, and the order of departures is not that of the slots. That the HTTP
  library itself may send a request again on another connection is not modelled.
- The total timeout of the HTTP client ends a request on time (`Tick` does not pass
  it); the future learns of it in the same tick.
- A poisoned `std` mutex, a failure of the system clock and i64 overflow are left
  out; the last is listed among the hazards.

### Health: state and actions

`CallPause`, `CallMarkReady`, `CallStop` (which clears `live` at once) and
`CallSnapshot` begin a call; `Lock`, `LoadLive` and `Write` are the three accesses
of a setter, `Lock`, `ReadReason` and `ReturnSnapshot` those of a snapshot.
Accesses to the one atomic are interleaved: with a single flag that is only ever
cleared, Release stores and Acquire loads and a mutex around the rest, no
other outcome can be observed. `VerdictUnderWay` says that a setter which saw the process
live before `stop()` cleared it holds the mutex and is about to write; it is what
`ProcessLifecycle` calls a late verdict.

### Catalog: state and actions

`step` is the position in the acceptance, `answer` the answer under way,
`facts` what was gathered (and `facts.oldest`, a history of when the exchange
gave each), `assessed` the verdicts. `ParseFile`, the four `Receive...` actions
(each the whole of a client method, from parsing to conversion),
`BuildDirectory` and `AssessProduct` are the test's statements; `AnswerRead` and
`FailRead` are the other half of a read; `ExchangeChanges` changes the mode, the
visible instruments or a row between two reads; `StepClock` steps the local clock,
which gives receipts and the time of the assessment (`wall.shift`; `wall.back`, how far it
was stepped back in all, is a history); `Tick` is the time spent in
limiters, on the wire and before the assessment.

Left out: which of several errors `parse` reports; the schema, environment,
versions and risk fractions of a file (one flag, `headed`); fee rates; hashes. The
sync's offset is fixed, and when `timestamp()` refuses after a step is `ReadOnlyClient`'s
question: here any read may fail.
`Directory::new` visits its mappings in the order of a `HashMap`, so
`DirectoryOutcomes` is the set of results it can return.

### Metrics and Telemetry: state and actions

`values` are the counters, `guard` who holds the mutex, `user[t]` where thread t's
call stands; `begun`, `ended`, and `since` and `until` in a snapshot are history.
`increment` is `CallIncrement`, `Acquire`, `ReadCount` (`entry().or_default()`) and
`WriteCount` (the saturating add, the end of the guard and the return); `snapshot` is
`CallSnapshotOfCounts`, `Acquire`, one `CopyCount` for each counter, in any order, and
`ReturnCounts`. Only the guard keeps a `WriteCount` from falling between two of them. A
key that is not in the map counts 0.
A process has one `Health` and one `Registry`; they share nothing and neither
calls the other, so `Telemetry` explores one of the two (`used`) per behaviour.

### FactExchange: state and actions

`producer` is the figure under computation or why there is none, `wire` the document
that travels (and, as history, the fact it was built from), `consumer` what was made
of it. `exact` is history: what exact arithmetic would have given.

| action | code |
|---|---|
| `ReadText`, `Add`, `RoundDown` | `Decimal::parse`, `Money::checked_add`, `Decimal::floor_to_step` |
| `Build` | the constructors of a fact's parts, `FactEnvelope::new`, `Serialize` |
| `Foreign` | a document of another program or version arrives |
| `Receive` | `Deserialize` of the envelope: shape, parts, versions, `new()` |
| `Consider` | `StrategyTarget::is_expired` |
| `GiveUp`, `Forget` | a refused figure is dropped; a document is done with, or lost |

A `Decimal` is a number of smallest units, since `parse` normalizes; its domain is
`Limit`, as `NUMERIC(38,18)` is for the code. A text is the value it denotes and
how it is written (canonical, padded, with excess digits, malformed). `Quotient` is
BigDecimal's division: rounded to `Precision` parts, halves up. A fact has the
fields that some check reads or that tell facts apart; `MapAmounts` takes facts to
documents and back. A document's `unknown` are the types of its objects that have a field
their type does not know: `StrictObjects` refuse it, `TaggedObjects` (an adjacent tag and
its content, `TargetValue`, `PositionQuantity` and `Fact`) ignore it. One document at a
time: the code relates no two envelopes.

### CredentialStore and Startup: state and actions

`directory` and `files` are the destination and its three files, each with whose
secret it holds, of which import, how much of it, whether it was synced and whether
its mode is right; `importer` is where the import stands.

| action | code |
|---|---|
| `StartImport` | the source is read and checked, all three values with it |
| `MakeDirectory`, `CreateFile`, `WriteFile`, `SyncFile` | `create`, `create_new` with mode 600, the writes of `write_all`, `sync_all` |
| `FailImport` | a file system error, or the importer is killed; nothing is undone |
| `CrashMachine` | what was not synced may be cut anywhere; and since nobody syncs the directory, any file may be gone |
| `Discard` | an operator removes the directory, so that an import can be tried again |
| `Configure`, `OpenLog` | `from_pairs`; `Context::new` and `with_event_id` |
| `OpenCredentials` | `CredentialFiles::new` |
| `CheckSecret`, `ReadSecret` | the two halves of `read_credential`, on what the file is at that moment; after the third file `Credentials::new` |
| `FailToRead`, `End` | an I/O error or text that is no UTF-8; the process ends or restarts |
| `Stir`, `Crash` | any step of the store while a process starts; a crash takes both |

`environment` is the role and pairs a process is given, `process` how far its start
got, `stirred` is history: the files changed since the load began. No binary wires
these calls yet: the order is `trader_wiring`'s in the acceptance. The code promises
nothing for a load that races with changes of the files, so the properties of a load
say `~stirred`; the steps that race are in the model all the same, since a
process may check one state and read another.

## 3. What the runs check

Each passing property has a mutant that it catches.

| run | question | result |
|---|---|---|
| `client_stable` | three callers, wall clock off by a constant | pass |
| `client_signing` | two callers, late timers, wall clock stepped once either way | pass |
| `call_progress` | four callers, unbounded time: does every call return? | pass |
| `health` | three threads, all operations of `Health` and of `Registry` | pass |
| `catalog` | every file of a family of good and bad ones, one change of the exchange or step of the clock, time anywhere | pass |
| `facts` | figures at every edge of the domain, every fact they can be put in, odd foreign documents | pass |
| `startup` | environments one change away from good ones, under every role; a trader next to two imports with failures and crashes | pass |
| `time_endpoint`, `clock_check`, `fresh_sync`, `source_times`, `health_snapshot` | five statements of the documentation | violated, see 4 |

*client_stable* (3 callers, intervals 1 and 2, timeout 1, age 2, skew 1, horizon 4).
`WirePaced`: the requests implement `RateLimit`, with calls cancelled at every
await, refused after their slot, failed and timed out: no request leaves but on a slot of
its own, at most a timeout after it, and slots are an interval apart. Two requests may
leave closer than that, which the code does not prevent, but no window of time sees more of
them than slots fit into the window and a timeout. `InFlightBounded`: the guard is
dropped before `send()`, so requests overlap, but no more of them than slots fit into a
timeout. `CallsImplementProgress`:
the client's steps are steps of `CallProgress`, so its liveness argument is about
this client. `SyncSampleRecent`: also when two syncs overlap and the first to ask
commits last, the answer a sync holds is at most a timeout older than the instant
its age is counted from. `AcceptedClockAccurate` and `ObservationHonest`:
with a constant error of the wall clock, an accepted clock is off by at most the
skew plus the sync's own lag, and so are source times; `Lag` is in the bound
because the wait in the request queue is part of the measurement, which is
what two findings are about. `SyncWaitsItsTurn` bounds that wait: with punctual timers a
sync at the i-th place has aged by at most one interval for each place it can have come
from, whoever joins, is refused or is dropped meanwhile. `LocksHeldByWaiters`: the queues
list exactly the suspended calls.

*client_signing* (2 callers, intervals 1 and 3, timeout 2, age 3, skew 1, drift 1,
horizon 5, one step of the wall clock, 2 forward or 4 back). `SignedTimestampAccurate`: what is signed
is within drift and timeout of the exchange's time, however the wall clock was
stepped while calls waited.

Two callers suffice for overlapping syncs and for a queue with a holder and a
waiter; the third lets a holder be cancelled with two behind it. The horizons let a
sync expire (age 2 or 3) and be followed by another one. Callers are symmetric.

*call_progress* (4 callers, intervals 2 and 4, timeout 3; timers hold the time they
still have to run, so no horizon is needed). `EveryCallReturns`; and, step by step and
without fairness, its variant `WaitOnlyShrinks`: the cooldown of a lock and the intervals
of those before a call in its queue never add up to more than they did.

*health* (3 threads, two reasons and Shutdown). `StopSticks`: after a `stop()` returned
the reason is Shutdown and stays, whatever `pause` and `mark_ready` were
under way. `LateSnapshots`: a snapshot called after that says so.
`ImplementsLifecycle`: refinement of `ProcessLifecycle`: once `live` is cleared, at most
one verdict still comes, that of the setter which held the mutex and saw `live` set; what
is written after it, or without it, is Shutdown. Were `live` loaded outside the mutex,
two could come, or one over the shutdown. `ShutdownShows`: after
`live` is cleared the reason becomes Shutdown for good. Three threads are a setter,
a stop and an observer; two stops and a `mark_ready` also fit.
For the registry (two keys, three increments in all, limit 2): `CountsExact`: a counter
is the number of increments that returned, up to its limit. `SnapshotsOfAMoment`:
a snapshot holds all increments that returned before it was called and none called
after it was complete, and any two snapshots are ordered in all counters. Three increments
of one key pass the limit; two keys are what it takes to tear a copy, and its mutant,
which locks for each counter anew, does.

*catalog* (5 product lists x 12 account sections x 5 strategy lists, one spot
and one swap instrument with seven rows between them, both position modes, offset
-1 and 1, age limit 1, timeout 1, horizon 3, one change of the exchange or one step of the
local clock, 1 forward or 2 back).
`FreshEvidence`: an accepted product rests on five answers, each at most the age
limit and one timeout old, although the mode and both lists are joined into one
fact; a step back of the clock adds what it is, and no more. `TargetsExecutable`: it can
be traded as the strategies of its account want. `EveryAccountCanRun`: no accepted file
leaves an account without a mode that `validate_actual_mode` accepts, also when one strategy
nets a swap and another holds it in separate legs. `DirectoryRefusals`: of the errors of
`Directory::new` on parsed facts only `MappingMismatch` and, for a SPOT row
with contract fields, `UnsupportedKind` are left. `AssessmentRefusals`:
three of `assess`'s refusals cannot happen, in particular
the fee always belongs to the specification it is judged with, and `TimeInFuture` only
after the clock was stepped back. One change is enough
to make any two reads disagree; the horizon lets the first fact expire while the
last is fresh. Deadlock is not checked here: a sequential run stops.

*facts* (2 smallest units in 1, magnitudes below 8, precision 8, the least that
`UnitsAssumption` allows). `FiguresExact`: a figure is exactly the result of its
operations, and a refusal means that there is none in the domain, although rounding
down divides with a finite precision. `BuiltIsReceived`: what `new()` accepted
is decoded to the same fact. `ReceivedIsBuildable`: what was decoded, of whatever origin,
has the current versions, passes all constructors and checks, and had unknown fields, if
any, only in tagged objects (see 4). `AccountsReadOneWay`: an
account states at most one holding and one net position, or two legs, per product.
`TargetsMeanSomething`: a received target's direction, amount, inputs and expiry agree.
The texts, summands and steps reach both ends of the domain, zero, negative values
and remainders of every kind; positions come in all pairs and in threes; foreign orders
and events come with unknown fields in any of their objects.

*startup* (two imports; good environments of the six roles and those that differ from one
in one pair, each tried as every role; the store moves for a good trader). `AcceptedExactly`:
a deployment is its environment, nothing is overridden or ignored. `OneRole`: no
environment configures two roles, but for Archive and Observe, which need the same.
`ConfigurationSuffices`: what was accepted can be logged and opened. `OneImport`:
loaded secrets are of one import and each is its own. `LoadedWhole`: only the file an
unfinished import was at can be loaded cut short. `ImportUsable`: after an import that
finished, the loader refuses only a missing file, a line break or an overlong
secret. Two imports are what it takes to mix secrets.

### Fairness

Safety is checked without fairness. `CallProgress` assumes weak fairness of time,
of a task whose timer fired and that holds the lock (tokio polls it again) and
of the end of a request (its total timeout). It does not assume that a task is
dropped or that calls are made. `Health` assumes weak fairness of a thread
inside a call and strong fairness of getting the mutex: `std::sync::Mutex` promises
no order, so that is an assumption about the platform (its futex hands the
lock on eventually), and `ShutdownShows` rests on it.

## 4. Where documentation and code differ

1. `crates/okx-client/src/lib.rs:398`: "limited to one call per five seconds per
   client". The time slot is stamped before the request queue is entered, so a
   delayed sync and the next one can leave closer together (`time_endpoint`).
2. `lib.rs:397`: "checks the local clock within five seconds". `before` is read
   ahead of the request queue; half of the wait counts as skew, and an exact clock is
   refused when the wait is long (`clock_check`; its request interval of 3 stands for
   the added-up wait of several queued reads, ten or more in the code).
3. `lib.rs:463-464`: private calls require "a recent successful clock check". The
   drift is measured from the commit while the local time is the midpoint, so
   after a round trip (with its queue wait) of more than four seconds every private
   call fails with `ClockSkew` until the next sync (`fresh_sync`).
4. `lib.rs:426-427`: "timestamp the observation honestly". `observation()` has no
   drift check, so after the wall clock is stepped public source times are off by the
   step until the next sync (`source_times`).
5. `crates/telemetry/src/health.rs:64`: "Reads a consistent diagnostic snapshot". A
   snapshot that overlaps with `stop()` can show a process that is not live with a reason
   other than Shutdown (`health_snapshot`).
6. `crates/model/README.md:11`: "JSON decoding rejects unknown fields". Three enums that
   are written as a tag and its content, `TargetValue`, `PositionQuantity` and `Fact`
   (`crates/model/src/facts.rs:94`, 203, 314), do not deny them: a further key beside the
   tag and the content is ignored. This one has no run of its own;
   `ReceivedIsBuildable` says which objects the statement does hold of.

## 5. What is proved

All theorems hold for every value of the constants that satisfies the module's
assumption: any set of callers or threads, any intervals, any files. Where a theorem needs
more (a finite set of callers, punctual timers), it says so in its ASSUME.

*`ReadOnlyClient_proofs`*, from `Spec` under `ClientAssumption` (intervals and limits
are naturals, `REQUEST_INTERVAL` is positive, `None` is no integer):
- `TypeCorrect`, `LocksReleased`. `TypeOK` is not inductive by itself: that the
  call at the head of a queue is in the matching `pc`, so that it has the
  locals the step reads, is `LocksHeldByWaiters`. The invariant is their
  conjunction `TypeInv`. Three lemmas say what appending to, taking the head of and
  deleting from a queue does to the set it lists.
- `RequestsPaced`: the client implements `RateLimit`, with the permits in hand being the
  slots of requests that have not left (`SlotsInHand`). `FlightsBounded`: `InFlightBounded`.
The
  invariant of both is `SlotsApart`: requests in flight have slots an interval apart and
  none after the last, so two of them never share a permit, and `ApartCount` counts how
  many fit into a timeout.
- `SyncRecent`, `SigningAccurate`, from `TimeInv`: a request in flight was sent
  after its call began and at most a timeout ago, an answer lies between, a
  sync holds such an answer, and a signed time is close (`StampClose`). The step to
  `StampClose` is the arithmetic of `timestamp()`: its drift check bounds the
  local clock against the sync, `SyncSampleRecent` bounds the sync against the exchange.
- `ClockAccurate`, `ObservationsHonest`, for behaviours in which nobody steps the local
  clock (`[][FALSE]_wallShift`; a stepped clock is what `timestamp()` is there for).
  `MeasureInv` adds that a sync read "before" no later than it sent its request, so that
  an accepted sync is off by at most the skew and `Lag`, and its answer is at most twice
  `Lag` old when it is committed.
- `ProgressImplemented`: `Spec => CallsImplementProgress`, from `TypeInv` with one lemma
  per action. Its substance is the queues: the head leaves as `Pacer!Grant` has it, a
  dropped call by its index, and both are `CallProgress`'s `Without` because
  `LocksHeldByWaiters` lists a task at most once, and only in the queue it waits in.

*`ClientWaits_proofs`*, from the same, for a finite set of callers. Most of it needs
`Punctual` (a due slot is used before time passes: without that a limiter bounds a wait
from below only) and behaviours, or their part, in which nobody has stepped the
local clock (`wallSteps = 0`). A turn is one `REQUEST_INTERVAL`, and `MeasureTime`, a turn
for every caller and the request timeout, is what can pass from "before" to "after".
- `SyncsInTurn`: `SyncWaitsItsTurn`. That a sync has not waited too long at its place
  (`QueueInTurn`) is inductive only together with what the slot says of the next grant: the
  first of the queue is granted when the interval since the last slot is over, so
  everybody moves up by a place while an interval passes (`WaitInv`). The
  lemmas `Granted`, `Joined` and `Slept` are the three ways the queue or the time
  changes, and `ThinnedByGrant` and `ThinnedByLeave` say which place a task had before.
- `SkewRefusalsReal`, `AcceptedClockClose`, `SourceTimesClose`: what that comes to for the
  measurement. `CheckInv` adds to `MeasureInv` that `Lag` is at most half of `MeasureTime`
  (`SyncQuick`), so a clock is refused only if it is off by more than the skew less
  half of `MeasureTime`, accepted only if it is off by no more than the skew and that half,
  and source times are as good.
- `TimeEndpointSpaced`: `ApartInv` says that the syncs in the request queue took their time
  slots an interval apart and in the order of the queue, so their requests are passed to
  `send()` at least the interval less the turns apart.
- `QuickSyncSuffices`, which needs no punctual timer: a private call is refused for the drift
  of a clock that nobody stepped only if `Lag` alone is more than the drift limit.

Four of these are what is left of statements that section 4 refutes (for the fifth it is
`LateSnapshots`: a snapshot that is called after a `stop()` returned is whole): `ExactClockPasses`
(the statement that `clock_check` refutes holds if `MeasureTime` is at most twice the skew:
ten callers, with the intervals of the source), `QuickSyncSuffices` (`fresh_sync`),
`TimeEndpointSpaced` (`time_endpoint`) and `SourceTimesClose` (`source_times`).

*`CallProgress_proofs`*, from `ProgressSafety` under `Intervals`: `ProgressTyped` and
`WaitsShrink`. The invariant is the types and that a queue lists tasks at their place,
each once (`Queued`); then a task that leaves moves everybody behind it by one interval,
and a grant, which starts the interval again, moves everybody by as much. `CallersMoveUp`, in
`ClientWaits_proofs`, brings it back to the client: with `ProgressImplemented`, `Spec`
implies `Progress!WaitOnlyShrinks`, timers late or not, for any callers.

*`Telemetry_proofs`*: `HealthTyped`, `ShutdownSticks`, `LateSnapshotsShowShutdown` and
`LifecycleImplemented`, from `HealthSafety`. A verdict from before the stop can only be
that of the one thread that holds the mutex (`UnderWayStays`), so while it is to come
nobody else writes, and once it is written no thread believes any more that `live` is set.
The invariant `HealthInv` adds to the types that
who is inside `stop()` has cleared `live` before (so its own write is Shutdown), and
that after a `stop()` returned no thread under the mutex still believes that `live`
is set: such a thread would have loaded it before that `stop()` took the mutex,
and must have written and left by then. `MetricsTyped`,
`NoIncrementLost` and `SnapshotsLinear`, from `MetricsSpec`, for any threads, keys and limit.
`MetricsInv` adds that who read a count holds the
guard, so that it is still the count; that increments called but not returned are those
of the threads inside one (`Accounted`); that the counters a snapshot has copied so far are
still what they were, since it holds the guard (so that the whole copy is of the moment
it is complete); and that what a snapshot has shown lies in the past.
`PartsAsAlone` is the link to the run: a behaviour of `TelemetrySpec` is one of `HealthSafety`
and one of `MetricsSpec`.

*`FactExchange_proofs`*, from `ExchangeSpec` under the assumptions of the modules
(`One <= Limit <= Precision`: BigDecimal's 100 digits leave 62 after the point of a
quotient in the domain, and a step has at most 38): `ExchangeTyped`, `FiguresAreExact`,
`EnvelopesSurviveTheWire`, `OnlyEnvelopesAreReceived`, `AccountsAreReadOneWay`,
`ReceivedTargetsMeanSomething`. The heart of the figures is `QuotientFloors`: a
quotient rounded to `Precision` parts never reaches the next integer, because the exact
one stays at least one part of the step below it; `FloorExact` follows. That of
the wire is `FactMapped`: applying a function to all amounts of a fact and then its
inverse gives the fact back, kind by kind, for position lists of any length.
`ExchangeInv` ties a document to the fact it was built from, and what a consumer
holds to the checks of `Decode`.

*`Startup_proofs`*, from `StartupSpec`, for any environments, sources and number of imports:
`StartupTyped`, `NothingOverriddenOrIgnored`, `EnvironmentIsOfOneRole`,
`ConfigurationIsEnough`, `LoadsOneImport`, `LoadsWholeSecrets`, `ImportsAreUsable`. `StoreInv`
says that the files present are of one import; that where one is not whole and synced
nothing was made after it; and how far an import under way has come. `LoadInv` says that
what was read is still what the files hold, as long as nobody touched them. `ConfigInv`
keeps the deployment equal to what `from_pairs` returned.

*`Catalog_proofs`*, from `CatalogSpec`: `AccountsCanRun`. Past `parse` the file is
`Valid` (`RunningInv`), and a valid file with a target in separate legs allows
`LongShortMode` for that account.

Under `CatalogAssumption` also
`AcceptedOnFreshEvidence`, whatever the steps of the clock. `FreshEvidence` speaks of verdicts and of when the exchange
answered, and the code only sees source times, so `EvidenceInv` relates the three. `PlaceInv`
says how many answers, specifications and fees there are at each step of a run (which
answer belongs to which fact); `SourcesInv` that each fact's source time is at most a
timeout after every answer it was made from, which for the eligibility are three, plus what
the clock's steps account for (`Grace`, which no step makes smaller); and
the specification `Directory` finds for a product is the one read for it because an
accepted file has distinct instruments (`RunningInv`). `assess` then bounds the age
of the source times.

*`CatalogFacts_proofs`*, from `CatalogSpec` under `CatalogAssumption` (products are of
the two kinds the file format knows, and the exchange lists what it has rows for):
`AcceptedTargetsExecutable`, `DirectoryRefusesMismatchesOnly`,
`AssessmentsRefuseOwnFactsNever`, `CatalogTypeCorrect`. `OriginInv` adds to `EvidenceInv`
what each fact was made from: the eligibility is the account's, in a mode that suits the
file; the k-th specification is a row that parsed for the k-th product; the k-th fee is of
that product and of the group of that specification; and all were received no later than
any clock of the run ever showed (`Latest`). Two lemmas are about the pure operators:
`AssessCauses` (a reason that `assess` gives is the reason of a check that fails) and
`SpecificationValidated` (a parsed row has no defect left but the two of
`DirectoryRefusals`).

Only model-checked: liveness (`EveryCallReturns`, `ShutdownShows`), which is out of the
prover's reach under fairness. Every other property of a passing run is a theorem.

## 6. What is not modelled

- `okx-client`: the HMAC of a signature (no state); the framing of responses, which in
  `ReadOnlyClient` is the action `Fail`; fee rates and their update time and the hashes that
  version facts, which nothing here decides on; `public_instruments` (the batch read) is
  a public read in `ReadOnlyClient`, its rows are not in `Catalog`, which the acceptance does
  not use it for.
- `config::business`: TOML syntax, the digest, and which of several errors is reported.
- `model`: `Ratio`, which no fact carries, and the letters of currencies.
- `telemetry::log`: `init_json` and `emit`, which hand a line to a library.
- i64 overflow in the clock check: the exchange's clock is taken as true, so an extreme
  timestamp does not occur.
- A load of secrets that races with changes of the files is modelled, but the code
  promises nothing of its result.
- `connectivity.rs`, `stage1_numeric_pg.rs`, deployment files, CI: they drive external
  services.
- The services of `docs/architecture.md`: no code.

## 7. Plan

Done, in this order: `Pacer`, `RateLimit`, `ReadOnlyClient`, `CallProgress`,
`Health`, `ProcessLifecycle`, `BusinessConfig`, `OkxFacts`, `InstrumentDirectory`,
`Catalog` and their proofs; then `Metrics` and `Telemetry`, `Units`, `Facts` and
`FactExchange`, `Identity`, `Deployment`, `CredentialStore` and `Startup`, with theirs.

Next, when the code grows: the batch read, once the ingest service that needs it
exists; an event store and an order path, which are designed in `docs/` only.
