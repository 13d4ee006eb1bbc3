---------------------------- MODULE ReadOnlyClient ----------------------------
(***************************************************************************)
(* okx-client's ReadOnlyClient: one client shared by concurrent tasks, two *)
(* rate limiters, the checked exchange clock and the three kinds of call   *)
(* (synchronize_clock, public reads, signed reads).                        *)
(*                                                                         *)
(* A step runs from one await to the next, as tokio runs a future.  What a *)
(* slot permits is stamped before send() is awaited: the request itself    *)
(* leaves (Depart) at any moment from then to its timeout.  The monotonic  *)
(* clock is "now"; the exchange's clock is taken as true and runs with it, *)
(* so the exchange's time IS now; the local system clock is off by         *)
(* wallShift, and may be stepped while calls wait.  Contents of the        *)
(* responses are left out but for the timestamp of /public/time; every way *)
(* a request or its parsing can fail is the one action Fail.               *)
(***************************************************************************)
EXTENDS Integers, Sequences, FiniteSets

CONSTANTS
    Tasks,              \* concurrent callers of the client
    None,               \* Option::None
    REQUEST_INTERVAL,   \* 500 ms
    TIME_INTERVAL,      \* 5 s
    HTTP_TIMEOUT,       \* 5 s, reqwest's total timeout
    CLOCK_MAX_AGE,      \* 60 s
    CLOCK_MAX_SKEW,     \* CLOCK_MAX_SKEW_MS
    MAX_DRIFT,          \* the literal 2_000 of timestamp()
    Punctual,           \* timers fire and locks are handed over with no delay
    MaxTime,            \* bound: the horizon of a run
    InitialShifts,      \* bound: local clock minus exchange clock at the start
    WallSteps,          \* bound: by how much the local clock may be stepped
    MaxWallSteps        \* bound: how often

Reads == {"public", "private"}
Kinds == Reads \cup {"sync"}

ASSUME ClientAssumption ==
    /\ REQUEST_INTERVAL \in Nat \ {0}
    /\ TIME_INTERVAL \in Nat
    /\ HTTP_TIMEOUT \in Nat
    /\ CLOCK_MAX_AGE \in Nat
    /\ CLOCK_MAX_SKEW \in Nat
    /\ MAX_DRIFT \in Nat
    /\ Punctual \in BOOLEAN
    /\ MaxTime \in Nat
    /\ MaxWallSteps \in Nat
    /\ InitialShifts \subseteq Int
    /\ WallSteps \subseteq Int
    /\ None \notin Int

VARIABLES
    now,            \* Instant::now(), and the exchange's own clock
    wallShift,      \* the local system clock minus the exchange's clock
    wallSteps,      \* how often the local clock was stepped
    timeQueue,      \* tasks at last_time_request, the head holds the lock
    lastTime,       \* *last_time_request
    requestQueue,   \* tasks at last_request, the head holds the lock
    lastRequest,    \* *last_request
    clock,          \* the ClockSync under the mutex, or None
    call,           \* per task: where its call stands, with its locals
    wire,           \* history: alternates as requests leave the client
    timeSent        \* history: when one to /public/time was last passed to
                    \* send(); no two are at one instant

vars == <<now, wallShift, wallSteps, timeQueue, lastTime, requestQueue,
          lastRequest, clock, call, wire, timeSent>>

waiting == <<timeQueue, lastTime, requestQueue, lastRequest>>
clocks == <<now, wallShift, wallSteps>>

TimePacer == INSTANCE Pacer
    WITH Interval <- TIME_INTERVAL, queue <- timeQueue, last <- lastTime
RequestPacer == INSTANCE Pacer
    WITH Interval <- REQUEST_INTERVAL, queue <- requestQueue, last <- lastRequest

------------------------------------------------------------------------------
(* Readings of the clocks.                                                 *)

\* SystemTime::now() as the code sees it.
UnixMs == now + wallShift

ServerNow == now

Abs(x) == IF x >= 0 THEN x ELSE -x

\* i64 division by two truncates towards zero.
HalfOf(x) == IF x >= 0 THEN x \div 2 ELSE -((-x) \div 2)

\* at.elapsed() > CLOCK_MAX_AGE, or no sync at all.
ClockUsable == clock # None /\ now - clock.at <= CLOCK_MAX_AGE

Offset == clock.server_ms - clock.local_ms

\* Mutant: timestamp() does not compare the two clocks.
DriftIgnored == FALSE

\* The local clock moved away from the monotonic clock since the sync.
Drifted == Abs(UnixMs - clock.local_ms - (now - clock.at)) > MAX_DRIFT

------------------------------------------------------------------------------
(* The states of a call.  A record carries the locals that are live there: *)
(* in flight, "sent" is the stamp of its slot, "left" whether the request  *)
(* has left, "answer" when the exchange answered it.                       *)

Errors == {"ClockUnavailable", "ClockSkew", "Failed"}

Done(kind, outcome) ==
    [pc |-> "idle", kind |-> kind, outcome |-> outcome]
Observed(kind, source, received) ==
    [pc |-> "idle", kind |-> kind, outcome |-> "observed",
     source |-> source, received |-> received]

ClockSync == [at : Nat, server_ms : Int, local_ms : Int]

CallState ==
         [pc : {"idle"}, kind : Kinds, outcome : Errors \cup {"none", "synchronized"}]
    \cup [pc : {"idle"}, kind : Reads, outcome : {"observed"},
          source : Int, received : Int]
    \cup [pc : {"timeWait"}, kind : {"sync"}]
    \cup [pc : {"requestWait"}, kind : {"sync"}, before : Int]
    \cup [pc : {"requestWait"}, kind : Reads]
    \cup [pc : {"inFlight"}, kind : {"sync"}, before : Int, sent : Nat,
          left : BOOLEAN, answer : Nat \cup {None}]
    \cup [pc : {"inFlight"}, kind : {"public"}, sent : Nat,
          left : BOOLEAN, answer : Nat \cup {None}]
    \cup [pc : {"inFlight"}, kind : {"private"}, sent : Nat, stamp : Int,
          left : BOOLEAN, answer : Nat \cup {None}]

At(place) == {t \in Tasks : call[t].pc = place}
InFlight == At("inFlight")

TypeOK ==
    /\ now \in 0 .. MaxTime
    /\ wallShift \in Int
    /\ wallSteps \in 0 .. MaxWallSteps
    /\ timeQueue \in Seq(Tasks)
    /\ requestQueue \in Seq(Tasks)
    /\ lastTime \in Nat \cup {None}
    /\ lastRequest \in Nat \cup {None}
    /\ clock \in ClockSync \cup {None}
    /\ call \in [Tasks -> CallState]
    /\ wire \in {0, 1}
    /\ timeSent \in Nat \cup {None}

Init ==
    /\ now = 0
    /\ wallShift \in InitialShifts
    /\ wallSteps = 0
    /\ timeQueue = << >> /\ lastTime = None
    /\ requestQueue = << >> /\ lastRequest = None
    /\ clock = None
    /\ call = [t \in Tasks |-> Done("sync", "none")]
    /\ wire = 0
    /\ timeSent = None

------------------------------------------------------------------------------
(* synchronize_clock *)

\* The call goes to the lock of the time endpoint; no clock is needed.
CallSync(t) ==
    /\ call[t].pc = "idle"
    /\ TimePacer!Enqueue(t)
    /\ call' = [call EXCEPT ![t] = [pc |-> "timeWait", kind |-> "sync"]]
    /\ UNCHANGED <<clocks, requestQueue, lastRequest, clock, wire, timeSent>>

\* Mutant: any task waiting for the time slot may take it.
TakeTimeSlotUnlocked(t) ==
    /\ t \in {timeQueue[i] : i \in DOMAIN timeQueue}
    /\ TimePacer!SlotDue
    /\ timeQueue' = SelectSeq(timeQueue, LAMBDA u : u # t)
    /\ lastTime' = now
    /\ RequestPacer!Enqueue(t)
    /\ call' = [call EXCEPT ![t] =
            [pc |-> "requestWait", kind |-> "sync", before |-> UnixMs]]
    /\ UNCHANGED <<clocks, clock, wire, timeSent>>

\* The time slot is stamped, "before" is read and get_rows calls lock().
TakeTimeSlot(t) ==
    /\ TimePacer!Grant(t)
    /\ RequestPacer!Enqueue(t)
    /\ call' = [call EXCEPT ![t] =
            [pc |-> "requestWait", kind |-> "sync", before |-> UnixMs]]
    /\ UNCHANGED <<clocks, clock, wire, timeSent>>

\* Mutant: the answer is attributed to the moment it arrived.
MidpointAtArrival(before, after) == after

\* The local time the sync attributes to the answer, given "after".
Midpoint(before, after) == before + HalfOf(after - before)

\* The answer arrived: refuse a skewed local clock, else commit the sync.
FinishSync(t) ==
    /\ call[t].pc = "inFlight" /\ call[t].kind = "sync" /\ call[t].answer # None
    /\ LET midpoint == Midpoint(call[t].before, UnixMs)
           skewed == Abs(call[t].answer - midpoint) > CLOCK_MAX_SKEW
       IN  /\ clock' = IF skewed THEN clock
                       ELSE [at |-> now, server_ms |-> call[t].answer,
                             local_ms |-> midpoint]
           /\ call' = [call EXCEPT ![t] =
                    Done("sync", IF skewed THEN "ClockSkew" ELSE "synchronized")]
    /\ UNCHANGED <<clocks, waiting, wire, timeSent>>

------------------------------------------------------------------------------
(* public_instruments, public_instrument (public) and                      *)
(* account_configuration, account_instruments, fee_group (private).        *)

\* require_clock() passes and get_rows calls lock().
CallRead(t, kind) ==
    /\ call[t].pc = "idle"
    /\ ClockUsable
    /\ RequestPacer!Enqueue(t)
    /\ call' = [call EXCEPT ![t] = [pc |-> "requestWait", kind |-> kind]]
    /\ UNCHANGED <<clocks, timeQueue, lastTime, clock, wire, timeSent>>

\* require_clock() refuses, or fee_group() the group it is given: nothing is
\* sent, no slot is used.
RefuseRead(t, kind) ==
    /\ call[t].pc = "idle"
    /\ \/ /\ ~ClockUsable
          /\ call' = [call EXCEPT ![t] = Done(kind, "ClockUnavailable")]
       \/ /\ ClockUsable /\ kind = "private"
          /\ call' = [call EXCEPT ![t] = Done(kind, "Failed")]
    /\ UNCHANGED <<clocks, waiting, clock, wire, timeSent>>

\* Mutant: the offset is applied with the wrong sign.
ObservationAtFlipped(local) == [source |-> IF local - Offset <= local
                                           THEN local - Offset ELSE local,
                                received |-> local]

\* observation(): the receipt time is the local clock, the source time is
\* the exchange's time as the sync estimates it, never after the receipt.
ObservationAt(local) == [source |-> IF local + Offset <= local
                                    THEN local + Offset ELSE local,
                         received |-> local]

\* A valid response arrived; the clock is checked a second time.
FinishRead(t) ==
    /\ call[t].pc = "inFlight" /\ call[t].kind \in Reads /\ call[t].answer # None
    /\ LET obs == ObservationAt(UnixMs)
       IN  call' = [call EXCEPT ![t] =
                IF ClockUsable
                THEN Observed(call[t].kind, obs.source, obs.received)
                ELSE Done(call[t].kind, "ClockUnavailable")]
    /\ UNCHANGED <<clocks, waiting, clock, wire, timeSent>>

------------------------------------------------------------------------------
(* get_rows, from the slot to the response *)

\* What timestamp() puts into OK-ACCESS-TIMESTAMP.
Timestamp == UnixMs + Offset

\* Mutant: private requests are sent without a timestamp.
SentUnsigned(c) ==
    IF c.kind = "sync"
    THEN [pc |-> "inFlight", kind |-> "sync", before |-> c.before,
          sent |-> now, left |-> FALSE, answer |-> None]
    ELSE [pc |-> "inFlight", kind |-> c.kind, sent |-> now, left |-> FALSE,
          answer |-> None]

\* The locals of the request that is sent now.
Sent(c) ==
    CASE c.kind = "sync" ->
            [pc |-> "inFlight", kind |-> "sync", before |-> c.before,
             sent |-> now, left |-> FALSE, answer |-> None]
      [] c.kind = "public" ->
            [pc |-> "inFlight", kind |-> "public",
             sent |-> now, left |-> FALSE, answer |-> None]
      [] c.kind = "private" ->
            [pc |-> "inFlight", kind |-> "private", stamp |-> Timestamp,
             sent |-> now, left |-> FALSE, answer |-> None]

\* The slot is stamped, its guard dropped and, with no await between, the
\* request is built, signed if it is private, and passed to send().
SendRequest(t) ==
    /\ RequestPacer!Grant(t)
    /\ call[t].kind = "private" => ClockUsable /\ ~Drifted
    /\ call' = [call EXCEPT ![t] = Sent(call[t])]
    /\ timeSent' = IF call[t].kind = "sync" THEN now ELSE timeSent
    /\ UNCHANGED <<clocks, timeQueue, lastTime, clock, wire>>

\* timestamp() refuses to sign: the slot is spent and nothing is sent.
RefuseToSign(t) ==
    /\ RequestPacer!Grant(t)
    /\ call[t].kind = "private"
    /\ ~ClockUsable \/ Drifted
    /\ call' = [call EXCEPT ![t] =
            Done("private", IF ClockUsable THEN "ClockSkew" ELSE "ClockUnavailable")]
    /\ UNCHANGED <<clocks, timeQueue, lastTime, clock, wire, timeSent>>

\* send() is awaited: once the task runs again and a connection is there, the
\* request leaves the client.
Depart(t) ==
    /\ call[t].pc = "inFlight" /\ ~call[t].left
    /\ call' = [call EXCEPT ![t].left = TRUE]
    /\ wire' = 1 - wire
    /\ UNCHANGED <<clocks, waiting, clock, timeSent>>

\* The exchange processes a request that left; its answer is on the way.
Answer(t) ==
    /\ call[t].pc = "inFlight" /\ call[t].left /\ call[t].answer = None
    /\ call' = [call EXCEPT ![t].answer = ServerNow]
    /\ UNCHANGED <<clocks, waiting, clock, wire, timeSent>>

\* No connection or no response in time, or one that the status, size, envelope
\* or row checks refuse.  Nothing is retried.
Fail(t) ==
    /\ call[t].pc = "inFlight"
    /\ call' = [call EXCEPT ![t] = Done(call[t].kind, "Failed")]
    /\ UNCHANGED <<clocks, waiting, clock, wire, timeSent>>

\* The caller drops the future at any await.
Cancel(t) ==
    /\ \/ /\ call[t].pc = "timeWait"
          /\ TimePacer!Leave(t)
          /\ UNCHANGED <<requestQueue, lastRequest>>
       \/ /\ call[t].pc = "requestWait"
          /\ RequestPacer!Leave(t)
          /\ UNCHANGED <<timeQueue, lastTime>>
       \/ /\ call[t].pc = "inFlight"
          /\ UNCHANGED waiting
    /\ call' = [call EXCEPT ![t] = Done(call[t].kind, "none")]
    /\ UNCHANGED <<clocks, clock, wire, timeSent>>

------------------------------------------------------------------------------
(* The environment *)

\* Mutant: the HTTP client is built without a total timeout.
TickUntimed ==
    /\ now < MaxTime
    /\ now' = now + 1
    /\ UNCHANGED <<wallShift, wallSteps, waiting, clock, call, wire, timeSent>>

\* A task is suspended at a lock whose slot is due.
SlotPending ==
    \/ timeQueue # << >> /\ TimePacer!SlotDue
    \/ requestQueue # << >> /\ RequestPacer!SlotDue

\* Time passes, but not past the total timeout of a request in flight.  A timer
\* or a task may be late unless Punctual says that none is.
Tick ==
    /\ now < MaxTime
    /\ Punctual => ~SlotPending
    /\ \A t \in InFlight : now - call[t].sent < HTTP_TIMEOUT
    /\ now' = now + 1
    /\ UNCHANGED <<wallShift, wallSteps, waiting, clock, call, wire, timeSent>>

\* The system clock is stepped (NTP, an operator, a suspended machine).
StepWall ==
    /\ wallSteps < MaxWallSteps
    /\ \E d \in WallSteps : wallShift' = wallShift + d
    /\ wallSteps' = wallSteps + 1
    /\ UNCHANGED <<now, waiting, clock, call, wire, timeSent>>

Next ==
    \/ \E t \in Tasks :
        \/ CallSync(t)
        \/ TakeTimeSlot(t)
        \/ FinishSync(t)
        \/ \E kind \in Reads : CallRead(t, kind) \/ RefuseRead(t, kind)
        \/ FinishRead(t)
        \/ SendRequest(t)
        \/ RefuseToSign(t)
        \/ Depart(t)
        \/ Answer(t)
        \/ Fail(t)
        \/ Cancel(t)
    \/ Tick
    \/ StepWall

Spec == Init /\ [][Next]_vars
------------------------------------------------------------------------------
(* Properties *)

\* A queue lists the tasks of a set, each once.
Lists(queue, S) ==
    /\ \A i, j \in DOMAIN queue : queue[i] = queue[j] => i = j
    /\ \A t \in Tasks : t \in S <=> \E i \in DOMAIN queue : queue[i] = t

\* The two locks are held and awaited by exactly the calls that are suspended
\* at them, each once: a dropped future leaves neither its guard nor its place
\* behind, so no later call waits for a task that is gone.
LocksHeldByWaiters ==
    /\ Lists(timeQueue, At("timeWait"))
    /\ Lists(requestQueue, At("requestWait"))

\* The slots of the requests that have not left yet.
SlotsInHand == {call[t].sent : t \in {u \in InFlight : ~call[u].left}}

\* get_rows: whatever the calls do (dropped in the queue or in flight, refused
\* after their slot, timed out), no request leaves but on a slot of its own, at
\* most HTTP_TIMEOUT after it, and the slots are REQUEST_INTERVAL apart.
Limit == INSTANCE RateLimit
    WITH Interval <- REQUEST_INTERVAL, Delay <- HTTP_TIMEOUT,
         last <- lastRequest, permits <- SlotsInHand, beat <- wire
WirePaced == Limit!LimitSpec

\* get_rows: nothing but the pace of the slots and the timeout limits how many
\* requests are under way at once (the guard is dropped before send()), and they
\* do: however many callers there are, no more connections are used than that.
InFlightBounded ==
    Cardinality(InFlight) <= HTTP_TIMEOUT \div REQUEST_INTERVAL + 1

\* How far away the next slot of a limiter is.
CooldownOf(last, interval) ==
    IF last = None \/ now - last >= interval THEN 0 ELSE interval - (now - last)

\* The client moves its calls through the limiters as CallProgress says: no
\* path (refusal, failure, drop) lets a call skip a queue, overtake, or use a
\* slot that is not due, so what CallProgress guarantees holds of the client.
Progress == INSTANCE CallProgress
    WITH place <- [t \in Tasks |-> call[t].pc],
         timeCooldown <- CooldownOf(lastTime, TIME_INTERVAL),
         requestCooldown <- CooldownOf(lastRequest, REQUEST_INTERVAL),
         inFlight <- [t \in Tasks |->
            IF call[t].pc = "inFlight" THEN now - call[t].sent ELSE 0]
CallsImplementProgress == Progress!ProgressSafety

\* The answer of the exchange that a sync holds was given at most a request
\* timeout before the instant the sync counts its age from, also when two syncs
\* overlap and the one that asked first commits last.
SyncSampleRecent ==
    clock # None =>
        /\ clock.server_ms <= clock.at
        /\ clock.at - clock.server_ms <= HTTP_TIMEOUT

\* timestamp(): the time a request is signed with is the exchange's time up to
\* the drift it tolerates and one request timeout, however the local clock was
\* stepped and however long the sync and the request waited for their slots.
SignedTimestampAccurate ==
    \A t \in Tasks :
        call[t].pc = "inFlight" /\ call[t].kind = "private" =>
            Abs(call[t].stamp - call[t].sent) <= MAX_DRIFT + HTTP_TIMEOUT

\* What a sync may have waited at the i-th place of the request queue: one interval
\* for each place it can have come from.
Turns(i) == (Cardinality(Tasks) + 1 - i) * REQUEST_INTERVAL

\* get_rows, from synchronize_clock: "before" is read ahead of the request queue, and
\* ages there by one interval for each place the sync moved up and no more, whoever
\* joins, is refused or dropped meanwhile (punctual timers, a clock not stepped).
SyncWaitsItsTurn ==
    Punctual /\ wallSteps = 0 =>
        \A i \in DOMAIN requestQueue :
            call[requestQueue[i]].kind = "sync" =>
                UnixMs - call[requestQueue[i]].before <= Turns(i)

\* By how much the sync was committed after the local time it attributes to the
\* answer: half of the time between "before" and "after".
Lag == clock.at + wallShift - clock.local_ms

\* synchronize_clock: while the local clock is not stepped, an accepted clock
\* is off by no more than the tolerated skew and the uncertainty of its own
\* measurement, the waiting time in the request queue included.
AcceptedClockAccurate ==
    clock # None => Abs(wallShift) <= CLOCK_MAX_SKEW + Lag

\* observation(): while the local clock is not stepped, a source time is not
\* after the receipt, not later than the moment the exchange produced the data
\* by more than the request timeout (a late source time makes stale data look
\* fresh), nor earlier by more than the skew, each up to the sync's error.
ObservationHonest ==
    [][\A t \in Tasks :
        /\ call[t].pc = "inFlight"
        /\ call'[t].pc = "idle" /\ call'[t].outcome = "observed"
        => /\ call'[t].source <= call'[t].received
           /\ call'[t].source - call[t].answer <= HTTP_TIMEOUT + Lag
           /\ call[t].answer - call'[t].source <= CLOCK_MAX_SKEW + Lag]_vars
------------------------------------------------------------------------------
(* What the documentation says and the code does not keep *)

\* "The endpoint is limited to one call per five seconds per client"
\* (synchronize_clock): two requests to /public/time are made (passed to
\* send()) at least TIME_INTERVAL apart.
TimeEndpointPaced ==
    [][timeSent' # timeSent =>
        (timeSent # None => now - timeSent >= TIME_INTERVAL)]_vars

\* "checks the local clock within five seconds" (synchronize_clock): an exact
\* local clock, that nobody stepped, is not refused for skew.
ExactClockAccepted ==
    \A t \in Tasks :
        /\ call[t].pc = "idle" /\ call[t].kind = "sync"
        /\ wallShift = 0 /\ wallSteps = 0
        => call[t].outcome # "ClockSkew"

\* "Requires ... a recent successful clock check" (account_configuration): with
\* a recent check and a local clock that nobody stepped, a private call is not
\* refused for clock skew.
RecentCheckSuffices ==
    \A t \in Tasks :
        call[t].pc = "idle" /\ call[t].kind = "private" /\ wallSteps = 0
            => call[t].outcome # "ClockSkew"

\* "A recent clock sync is required so later callers can timestamp the
\* observation honestly" (public_instruments): the source time of a returned
\* observation is the time the exchange answered, up to the skew, the drift a
\* signed request may have, and the request timeout.
SourceTimesHonest ==
    [][\A t \in Tasks :
        /\ call[t].pc = "inFlight"
        /\ call'[t].pc = "idle" /\ call'[t].outcome = "observed"
        => Abs(call'[t].source - call[t].answer)
                <= CLOCK_MAX_SKEW + MAX_DRIFT + HTTP_TIMEOUT]_vars
==============================================================================
