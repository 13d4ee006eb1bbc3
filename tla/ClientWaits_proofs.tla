-------------------------- MODULE ClientWaits_proofs --------------------------
(***************************************************************************)
(* How long the calls of a ReadOnlyClient wait when no timer is late, and  *)
(* what follows of its clock check and of the time endpoint, for any       *)
(* number of callers and any intervals.                                    *)
(***************************************************************************)
EXTENDS ReadOnlyClient_proofs, FiniteSetTheorems

------------------------------------------------------------------------------
(* The request queue and what its places cost.                             *)

LEMMA TurnsCount ==
    ASSUME IsFiniteSet(Tasks)
    PROVE  /\ \A i \in Int : Turns(i) \in Int /\ Turns(i) = Turns(i + 1) + REQUEST_INTERVAL
           /\ \A i, j \in Int : i <= j => Turns(j) <= Turns(i)
           /\ \A i \in Int : i <= Cardinality(Tasks) => REQUEST_INTERVAL <= Turns(i)
<1>1. Cardinality(Tasks) \in Nat /\ REQUEST_INTERVAL \in Nat
  BY FS_CardinalityType, ClientAssumption
<1> DEFINE N == Cardinality(Tasks)
<1> HIDE DEF N
<1>2. \A i \in Int : Turns(i) = (N + 1 - i) * REQUEST_INTERVAL
  BY DEF Turns, N
<1>3. N \in Nat
  BY <1>1 DEF N
<1>4. \A m \in Int : /\ m * REQUEST_INTERVAL \in Int
                     /\ (m + 1) * REQUEST_INTERVAL = m * REQUEST_INTERVAL + REQUEST_INTERVAL
  BY <1>1
<1>5. \A m, n \in Int : m <= n => m * REQUEST_INTERVAL <= n * REQUEST_INTERVAL
  BY <1>1
<1>6. ASSUME NEW i \in Int
      PROVE  Turns(i) \in Int /\ Turns(i) = Turns(i + 1) + REQUEST_INTERVAL
  <2>1. N - i \in Int /\ N + 1 - i = (N - i) + 1 /\ N + 1 - (i + 1) = N - i
    BY <1>3
  <2> QED BY <1>1, <1>2, <1>4, <2>1
<1>7. ASSUME NEW i \in Int, NEW j \in Int, i <= j
      PROVE  Turns(j) <= Turns(i)
  <2>1. N + 1 - i \in Int /\ N + 1 - j \in Int /\ N + 1 - j <= N + 1 - i
    BY <1>3, <1>7
  <2> QED BY <1>2, <1>5, <2>1
<1>8. ASSUME NEW i \in Int, i <= N
      PROVE  REQUEST_INTERVAL <= Turns(i)
  <2>1. N + 1 - i \in Int /\ 1 <= N + 1 - i
    BY <1>3, <1>8
  <2>2. 1 * REQUEST_INTERVAL <= (N + 1 - i) * REQUEST_INTERVAL
    BY <1>5, <2>1
  <2> QED BY <1>1, <1>2, <2>2
<1> QED BY <1>6, <1>7, <1>8 DEF N

\* Callers that are listed once are no more than there are.
LEMMA ListLength ==
    ASSUME NEW q \in Seq(Tasks), NEW S, Lists(q, S), IsFiniteSet(Tasks)
    PROVE  Len(q) <= Cardinality(Tasks)
<1> DEFINE n == Len(q)
           D == 1 .. n
<1>1. /\ 1 \in Int /\ n \in Int /\ n \in Nat /\ q \in [D -> Tasks]
      /\ ~ \E i, j \in D : i # j /\ q[i] = q[j]
  BY LenProperties DEF Lists
<1>2. IsFiniteSet(D) /\ Cardinality(D) = IF 1 > n THEN 0 ELSE n - 1 + 1
  BY <1>1, FS_Interval
<1>3. Cardinality(D) = n /\ Cardinality(Tasks) \in Nat
  BY <1>1, <1>2, FS_CardinalityType
<1> HIDE DEF D
<1>4. ~(Cardinality(Tasks) < Cardinality(D))
  BY <1>1, <1>2, FS_PigeonHole
<1> QED BY <1>1, <1>3, <1>4

\* Who is in the request queue waits there, and has a place among the callers.
LEMMA QueuedTasks ==
    ASSUME TypeInv, IsFiniteSet(Tasks)
    PROVE  /\ DOMAIN requestQueue = 1 .. Len(requestQueue)
           /\ Len(requestQueue) \in Nat /\ Len(requestQueue) <= Cardinality(Tasks)
           /\ \A i \in DOMAIN requestQueue :
                /\ requestQueue[i] \in Tasks
                /\ call[requestQueue[i]].pc = "requestWait"
<1>1. /\ DOMAIN requestQueue = 1 .. Len(requestQueue) /\ Len(requestQueue) \in Nat
      /\ \A i \in DOMAIN requestQueue : requestQueue[i] \in Tasks
  BY LenProperties DEF TypeInv, TypeOK
<1>2. Len(requestQueue) <= Cardinality(Tasks)
  BY ListLength DEF TypeInv, TypeOK, LocksHeldByWaiters
<1>3. \A i \in DOMAIN requestQueue : call[requestQueue[i]].pc = "requestWait"
  BY <1>1 DEF TypeInv, LocksHeldByWaiters, Lists, At
<1> QED BY <1>1, <1>2, <1>3

\* The request queue lost tasks or none: who is in it now, at place k, was there, at
\* place old[k], in the same state.
ThinnedBy(old) ==
    /\ \A k \in DOMAIN requestQueue' :
            /\ k \in Int /\ old[k] \in DOMAIN requestQueue /\ k <= old[k]
            /\ call'[requestQueue'[k]] = call[requestQueue[old[k]]]
    /\ \A k, l \in DOMAIN requestQueue' : k < l => old[k] < old[l]

\* The queue stays, and a call outside it changes.
LEMMA ThinnedByNone ==
    ASSUME TypeInv, IsFiniteSet(Tasks), UNCHANGED requestQueue,
           \A u \in Tasks : call[u].pc = "requestWait" => call'[u] = call[u]
    PROVE  ThinnedBy([k \in DOMAIN requestQueue |-> k])
BY QueuedTasks DEF ThinnedBy

LEMMA ThinnedByGrant ==
    ASSUME TypeInv, IsFiniteSet(Tasks), NEW t \in Tasks, NEW x, RequestPacer!Grant(t),
           call' = [call EXCEPT ![t] = x]
    PROVE  ThinnedBy([k \in DOMAIN requestQueue' |-> k + 1])
<1> DEFINE n == Len(requestQueue)
<1>1. /\ requestQueue # << >> /\ t = requestQueue[1] /\ requestQueue' = Tail(requestQueue)
      /\ DOMAIN requestQueue = 1 .. n /\ n \in Nat
  BY QueuedTasks DEF RequestPacer!Grant
<1>2. /\ DOMAIN requestQueue' = 1 .. n - 1
      /\ \A k \in 1 .. n - 1 : requestQueue'[k] = requestQueue[k + 1]
  BY <1>1, HeadTailProperties, LenProperties, EmptySeq DEF TypeInv, TypeOK
<1>3. \A i \in 2 .. n : call'[requestQueue[i]] = call[requestQueue[i]]
  <2>1. \A i \in 2 .. n : requestQueue[i] # t /\ requestQueue[i] \in Tasks
    BY <1>1, QueuedTasks DEF TypeInv, LocksHeldByWaiters, Lists
  <2> QED BY <2>1 DEF TypeInv, TypeOK
<1> QED BY <1>1, <1>2, <1>3 DEF ThinnedBy

LEMMA ThinnedByLeave ==
    ASSUME TypeInv, IsFiniteSet(Tasks), NEW t \in Tasks, NEW x, RequestPacer!Leave(t),
           call' = [call EXCEPT ![t] = x]
    PROVE  \E old : ThinnedBy(old)
<1>1. PICK i \in DOMAIN requestQueue :
          /\ requestQueue[i] = t
          /\ requestQueue' = SubSeq(requestQueue, 1, i - 1)
                                \o SubSeq(requestQueue, i + 1, Len(requestQueue))
  BY DEF RequestPacer!Leave, RequestPacer!Without
<1> DEFINE n == Len(requestQueue)
           old == [k \in 1 .. n - 1 |-> IF k < i THEN k ELSE k + 1]
<1>2. i \in 1 .. n /\ n \in Nat /\ DOMAIN requestQueue = 1 .. n
  BY QueuedTasks
<1>3. /\ DOMAIN requestQueue' = 1 .. n - 1
      /\ \A k \in 1 .. n - 1 : requestQueue'[k] = IF k < i THEN requestQueue[k]
                                                  ELSE requestQueue[k + 1]
  BY <1>1, WithoutPlaces DEF TypeInv, TypeOK
<1>4. /\ \A k \in 1 .. n - 1 :
            /\ old[k] \in DOMAIN requestQueue /\ old[k] # i /\ k <= old[k]
            /\ requestQueue'[k] = requestQueue[old[k]]
      /\ \A k, l \in 1 .. n - 1 : k < l => old[k] < old[l]
  BY <1>2, <1>3
<1> HIDE DEF old
<1>5. \A j \in DOMAIN requestQueue : j # i => call'[requestQueue[j]] = call[requestQueue[j]]
  <2>1. \A j \in DOMAIN requestQueue : j # i => requestQueue[j] # t
    BY <1>1 DEF TypeInv, LocksHeldByWaiters, Lists
  <2> QED BY <2>1, QueuedTasks DEF TypeInv, TypeOK
<1>6. ThinnedBy(old)
  BY <1>3, <1>4, <1>5 DEF ThinnedBy
<1> QED BY <1>6

\* The request queue when a call joined it.
LEMMA JoinPlaces ==
    ASSUME TypeInv, IsFiniteSet(Tasks), NEW t \in Tasks, NEW x,
           call[t].pc # "requestWait", call' = [call EXCEPT ![t] = x],
           requestQueue' = Append(requestQueue, t)
    PROVE  LET n == Len(requestQueue)
           IN  /\ n \in Nat /\ DOMAIN requestQueue = 1 .. n
               /\ DOMAIN requestQueue' = 1 .. n + 1
               /\ \A k \in 1 .. n : call'[requestQueue'[k]] = call[requestQueue[k]]
               /\ call'[requestQueue'[n + 1]] = x
<1> DEFINE n == Len(requestQueue)
<1>1. /\ DOMAIN requestQueue = 1 .. n /\ n \in Nat
      /\ DOMAIN requestQueue' = 1 .. n + 1
      /\ requestQueue'[n + 1] = t
      /\ \A i \in 1 .. n : requestQueue'[i] = requestQueue[i]
  BY QueuedTasks, AppendProperties, LenProperties DEF TypeInv, TypeOK
<1>2. /\ call'[t] = x
      /\ \A i \in 1 .. n : call'[requestQueue[i]] = call[requestQueue[i]]
  BY <1>1, QueuedTasks DEF TypeInv, TypeOK
<1> QED BY <1>1, <1>2

------------------------------------------------------------------------------
(* Waiting in turn.                                                        *)

\* When a sync read "before", on the monotonic clock.
Asked(c) == c.before - wallShift

\* A sync at the i-th place: what it waited until now, and until the next slot can
\* be taken, is within its turns.
InTurn(c, i) ==
    c.kind = "sync" =>
        /\ now - Asked(c) <= Turns(i)
        /\ lastRequest # None => lastRequest + REQUEST_INTERVAL - Asked(c) <= Turns(i)

\* A sync that is sent waited for as many turns as there are callers.
SentInTurn(c) ==
    c.pc = "inFlight" /\ c.kind = "sync" => c.sent - Asked(c) <= Turns(1)

QueueInTurn == \A i \in DOMAIN requestQueue : InTurn(call[requestQueue[i]], i)
FlightsInTurn == \A t \in Tasks : SentInTurn(call[t])

\* What is inductive, as long as the local clock was not stepped and "before"
\* still tells the time.
WaitInv == wallSteps = 0 => QueueInTurn /\ FlightsInTurn

\* What the proofs need to know of the numbers.
LEMMA WaitTypes ==
    ASSUME TypeInv, IsFiniteSet(Tasks)
    PROVE  /\ now \in Int /\ wallShift \in Int /\ None \notin Int
           /\ lastRequest \in Int \cup {None} /\ lastTime \in Int \cup {None}
           /\ REQUEST_INTERVAL \in Int /\ REQUEST_INTERVAL > 0
           /\ TIME_INTERVAL \in Int /\ TIME_INTERVAL >= 0
           /\ \A i \in DOMAIN requestQueue :
                call[requestQueue[i]].kind = "sync" => Asked(call[requestQueue[i]]) \in Int
<1>1. \A i \in DOMAIN requestQueue :
        call[requestQueue[i]].kind = "sync" => call[requestQueue[i]].before \in Int
  BY QueuedTasks, CallFields DEF TypeInv
<1> QED BY <1>1, ClientAssumption DEF TypeInv, TypeOK, Asked

\* Who moves up in the queue, or stays, is still in turn.
LEMMA MovedUp ==
    ASSUME TypeInv, IsFiniteSet(Tasks), QueueInTurn, NEW old, ThinnedBy(old),
           UNCHANGED <<now, wallShift, lastRequest>>
    PROVE  QueueInTurn'
<1> SUFFICES ASSUME NEW k \in DOMAIN requestQueue'
             PROVE  InTurn(call[requestQueue[k]], k)'
  BY DEF QueueInTurn
<1>1. PICK i \in DOMAIN requestQueue :
            k \in Int /\ k <= i /\ call'[requestQueue'[k]] = call[requestQueue[i]]
  BY DEF ThinnedBy
<1>2. Turns(i) <= Turns(k) /\ Turns(i) \in Int /\ Turns(k) \in Int
  <2>1. i \in Int /\ k \in Int
    BY <1>1, QueuedTasks
  <2> QED BY <1>1, <2>1, TurnsCount
<1> DEFINE c == call[requestQueue[i]]
<1>3. InTurn(c, i) /\ (c.kind = "sync" => Asked(c) \in Int)
  BY WaitTypes DEF QueueInTurn
<1> HIDE DEF c
<1>4. InTurn(c, k)
  BY <1>2, <1>3, WaitTypes DEF InTurn
<1>5. call'[requestQueue'[k]] = c
  BY <1>1 DEF c
<1> QED BY <1>4, <1>5 DEF InTurn, Asked, Turns

\* A call outside the request queue changes.
LEMMA QueueKept ==
    ASSUME TypeInv, IsFiniteSet(Tasks), QueueInTurn, NEW t \in Tasks, NEW x,
           call[t].pc # "requestWait", call' = [call EXCEPT ![t] = x],
           UNCHANGED <<now, wallShift, lastRequest, requestQueue>>
    PROVE  QueueInTurn'
<1>1. \A u \in Tasks : call[u].pc = "requestWait" => call'[u] = call[u]
  BY DEF TypeInv, TypeOK
<1> QED BY <1>1, ThinnedByNone, MovedUp

\* Who joins has waited nothing and finds a place for which there are turns.
LEMMA Joined ==
    ASSUME TypeInv, IsFiniteSet(Tasks), QueueInTurn, SlotsApart,
           NEW t \in Tasks, NEW x, call[t].pc # "requestWait",
           x.kind = "sync" => x.before = now + wallShift,
           call' = [call EXCEPT ![t] = x],
           requestQueue' = Append(requestQueue, t),
           Len(requestQueue) + 1 <= Cardinality(Tasks),
           UNCHANGED <<now, wallShift, lastRequest>>
    PROVE  QueueInTurn'
<1> DEFINE n == Len(requestQueue)
<1>1. /\ n \in Nat /\ DOMAIN requestQueue = 1 .. n /\ DOMAIN requestQueue' = 1 .. n + 1
      /\ \A k \in 1 .. n : call'[requestQueue'[k]] = call[requestQueue[k]]
      /\ call'[requestQueue'[n + 1]] = x
  BY JoinPlaces
<1> SUFFICES ASSUME NEW k \in 1 .. n + 1
             PROVE  InTurn(call[requestQueue[k]], k)'
  BY <1>1 DEF QueueInTurn
<1>2. CASE k \in 1 .. n
  <2> DEFINE c == call[requestQueue[k]]
  <2>1. InTurn(c, k) /\ call'[requestQueue'[k]] = c
    BY <1>1, <1>2 DEF QueueInTurn
  <2> HIDE DEF c
  <2> QED BY <2>1 DEF InTurn, Asked, Turns
<1>3. CASE k = n + 1
  <2>1. Turns(k) \in Int /\ REQUEST_INTERVAL <= Turns(k)
    BY <1>1, <1>3, TurnsCount
  <2>2. x.kind = "sync" => Asked(x) = now
    BY WaitTypes DEF Asked
  <2>3. InTurn(x, k)
    BY <2>1, <2>2, WaitTypes DEF InTurn, SlotsApart
  <2>4. call'[requestQueue'[k]] = x
    BY <1>1, <1>3
  <2> QED BY <2>3, <2>4 DEF InTurn, Asked, Turns
<1> QED BY <1>2, <1>3

\* A granted slot costs the tasks behind the head one interval and one place.
LEMMA Granted ==
    ASSUME TypeInv, IsFiniteSet(Tasks), QueueInTurn, NEW t \in Tasks, NEW x,
           RequestPacer!Grant(t), call' = [call EXCEPT ![t] = x],
           UNCHANGED <<now, wallShift>>
    PROVE  QueueInTurn'
<1> SUFFICES ASSUME NEW k \in DOMAIN requestQueue'
             PROVE  InTurn(call[requestQueue[k]], k)'
  BY DEF QueueInTurn
<1> DEFINE c == call[requestQueue[k + 1]]
<1>1. k \in Int /\ k + 1 \in DOMAIN requestQueue /\ call'[requestQueue'[k]] = c
  BY ThinnedByGrant DEF ThinnedBy
<1>2. k \in Int /\ k + 1 \in Int
  BY <1>1
<1>3. InTurn(c, k + 1) /\ (c.kind = "sync" => Asked(c) \in Int)
  BY <1>1, WaitTypes DEF QueueInTurn
<1>4. /\ Turns(k) = Turns(k + 1) + REQUEST_INTERVAL
      /\ Turns(k) \in Int /\ Turns(k + 1) \in Int
  BY <1>2, TurnsCount
<1> HIDE DEF c
<1>5. lastRequest' = now
  BY DEF RequestPacer!Grant
<1>6. c.kind = "sync" => /\ now - Asked(c) <= Turns(k)
                         /\ now + REQUEST_INTERVAL - Asked(c) <= Turns(k)
  BY <1>3, <1>4, WaitTypes DEF InTurn
<1> QED BY <1>1, <1>5, <1>6 DEF InTurn, Asked, Turns

\* Time goes on only while the holder sleeps, for which the turns allow.
LEMMA Slept ==
    ASSUME TypeInv, IsFiniteSet(Tasks), QueueInTurn, Punctual, Tick
    PROVE  QueueInTurn'
<1>1. /\ now' = now + 1 /\ UNCHANGED <<wallShift, lastRequest, requestQueue, call>>
      /\ requestQueue # << >> => lastRequest # None /\ now - lastRequest < REQUEST_INTERVAL
  BY WaitTypes DEF Tick, waiting, SlotPending, RequestPacer!SlotDue
<1> SUFFICES ASSUME NEW k \in DOMAIN requestQueue
             PROVE  InTurn(call[requestQueue[k]], k)'
  BY <1>1 DEF QueueInTurn
<1>2. requestQueue # << >>
  OBVIOUS
<1> DEFINE c == call[requestQueue[k]]
<1>3. InTurn(c, k) /\ (c.kind = "sync" => Asked(c) \in Int) /\ Turns(k) \in Int
  <2>1. k \in Int
    BY QueuedTasks
  <2> QED BY <2>1, TurnsCount, WaitTypes DEF QueueInTurn
<1>4. call'[requestQueue'[k]] = c
  BY <1>1
<1> HIDE DEF c
<1>5. c.kind = "sync" => now + 1 - Asked(c) <= Turns(k)
  BY <1>1, <1>2, <1>3, WaitTypes DEF InTurn
<1>6. c.kind = "sync" => now' - Asked(c) <= Turns(k)
  <2>1. now' = now + 1
    BY <1>1
  <2>2. now \in Int /\ (c.kind = "sync" => Asked(c) \in Int)
    BY <1>3, WaitTypes
  <2> QED BY <1>5, <2>1, <2>2
<1>7. c.kind = "sync" /\ lastRequest' # None
        => lastRequest' + REQUEST_INTERVAL - Asked(c) <= Turns(k)
  BY <1>1, <1>3 DEF InTurn
<1> QED BY <1>1, <1>4, <1>6, <1>7 DEF InTurn, Asked, Turns

------------------------------------------------------------------------------
(* Every step keeps the syncs in turn.                                     *)

LEMMA OnlyStepWallSteps ==
    ASSUME [Next]_vars, ~StepWall
    PROVE  UNCHANGED <<wallShift, wallSteps>>
<1>1. ASSUME NEW t \in Tasks,
             \/ CallSync(t) \/ TakeTimeSlot(t) \/ FinishSync(t) \/ FinishRead(t)
             \/ SendRequest(t) \/ RefuseToSign(t) \/ Depart(t) \/ Answer(t) \/ Fail(t)
             \/ Cancel(t)
      PROVE  UNCHANGED <<wallShift, wallSteps>>
  BY <1>1 DEF CallSync, TakeTimeSlot, FinishSync, FinishRead, SendRequest,
              RefuseToSign, Depart, Answer, Fail, Cancel, clocks
<1>2. ASSUME NEW t \in Tasks, NEW k \in Reads, CallRead(t, k) \/ RefuseRead(t, k)
      PROVE  UNCHANGED <<wallShift, wallSteps>>
  BY <1>2, RefusedWith DEF CallRead, clocks
<1>3. CASE Tick \/ UNCHANGED vars
  BY <1>3 DEF Tick, vars
<1> QED BY <1>1, <1>2, <1>3 DEF Next

\* Steps after which the local clock was still not stepped.
LEMMA NotStepped ==
    ASSUME TypeInv, [Next]_vars, wallSteps' = 0
    PROVE  wallSteps = 0 /\ UNCHANGED wallShift /\ ~StepWall
<1>1. ~StepWall
  BY DEF StepWall, TypeInv, TypeOK
<1> QED BY <1>1, OnlyStepWallSteps

LEMMA OneFlight ==
    ASSUME TypeInv, FlightsInTurn, NEW t \in Tasks, NEW x, SentInTurn(x),
           call' = [call EXCEPT ![t] = x], UNCHANGED wallShift
    PROVE  FlightsInTurn'
<1>1. \A u \in Tasks : SentInTurn(call'[u])
  BY DEF TypeInv, TypeOK, FlightsInTurn
<1> QED BY <1>1 DEF FlightsInTurn, SentInTurn, Asked, Turns

\* A call outside the request queue goes on in no queue and not as a sync in flight.
LEMMA ElsewhereInTurn ==
    ASSUME TypeInv, IsFiniteSet(Tasks), QueueInTurn, FlightsInTurn,
           NEW t \in Tasks, NEW x, call[t].pc # "requestWait",
           x.pc # "inFlight" \/ x.kind # "sync",
           call' = [call EXCEPT ![t] = x],
           UNCHANGED <<now, wallShift, lastRequest, requestQueue>>
    PROVE  QueueInTurn' /\ FlightsInTurn'
<1>1. SentInTurn(x)
  BY DEF SentInTurn
<1> QED BY <1>1, QueueKept, OneFlight

LEMMA JoinedInTurn ==
    ASSUME TypeInv, TypeInv', IsFiniteSet(Tasks), QueueInTurn, FlightsInTurn, SlotsApart,
           NEW t \in Tasks, NEW x, call[t].pc # "requestWait", x.pc = "requestWait",
           x.kind = "sync" => x.before = now + wallShift,
           call' = [call EXCEPT ![t] = x], RequestPacer!Enqueue(t),
           UNCHANGED <<now, wallShift>>
    PROVE  QueueInTurn' /\ FlightsInTurn'
<1>1. SentInTurn(x)
  BY DEF SentInTurn
<1>2. requestQueue' = Append(requestQueue, t) /\ UNCHANGED lastRequest
  BY DEF RequestPacer!Enqueue
<1>3. Len(requestQueue') = Len(requestQueue) + 1
  BY <1>2, AppendProperties DEF TypeInv, TypeOK
<1>4. Len(requestQueue') <= Cardinality(Tasks)
  BY ListLength DEF TypeInv, TypeOK, LocksHeldByWaiters
<1> QED BY <1>1, <1>2, <1>3, <1>4, Joined, OneFlight

LEMMA GrantedInTurn ==
    ASSUME TypeInv, IsFiniteSet(Tasks), QueueInTurn, FlightsInTurn,
           NEW t \in Tasks, NEW x, RequestPacer!Grant(t), SentInTurn(x),
           call' = [call EXCEPT ![t] = x], UNCHANGED <<now, wallShift>>
    PROVE  QueueInTurn' /\ FlightsInTurn'
BY Granted, OneFlight

\* The request of a sync that was in turn leaves in turn.
LEMMA SendInTurn ==
    ASSUME TypeInv, IsFiniteSet(Tasks), QueueInTurn, FlightsInTurn, UNCHANGED wallShift,
           NEW t \in Tasks, SendRequest(t)
    PROVE  QueueInTurn' /\ FlightsInTurn'
<1>1. /\ RequestPacer!Grant(t) /\ call' = [call EXCEPT ![t] = Sent(call[t])]
      /\ UNCHANGED <<now, wallShift>>
  BY DEF SendRequest, clocks
<1>2. SentInTurn(Sent(call[t]))
  <2>1. CASE call[t].kind = "sync"
    <3>1. 1 \in DOMAIN requestQueue /\ t = requestQueue[1]
      BY <1>1, HeadTailProperties, EmptySeq, QueuedTasks
         DEF RequestPacer!Grant, TypeInv, TypeOK
    <3>2. now - Asked(call[t]) <= Turns(1)
      BY <2>1, <3>1 DEF QueueInTurn, InTurn
    <3> QED BY <2>1, <3>2 DEF Sent, SentInTurn, Asked
  <2>2. CASE call[t].kind # "sync"
    BY <2>2, CallFields DEF Sent, SentInTurn, TypeInv, Kinds, Reads
  <2> QED BY <2>1, <2>2
<1> HIDE DEF Sent
<1> QED BY <1>1, <1>2, GrantedInTurn

LEMMA NextInTurn ==
    ASSUME TypeInv, TypeInv', IsFiniteSet(Tasks), Punctual, SlotsApart,
           QueueInTurn, FlightsInTurn,
           [Next]_vars, ~StepWall, UNCHANGED wallShift
    PROVE  QueueInTurn' /\ FlightsInTurn'
<1> DEFINE Goal == QueueInTurn' /\ FlightsInTurn'
<1>1. ASSUME NEW t \in Tasks, CallSync(t) PROVE Goal
  BY <1>1, ElsewhereInTurn DEF CallSync, clocks
<1>2. ASSUME NEW t \in Tasks, TakeTimeSlot(t) PROVE Goal
  <2> DEFINE x == [pc |-> "requestWait", kind |-> "sync", before |-> UnixMs]
  <2>1. /\ x.pc = "requestWait" /\ x.before = now + wallShift
        /\ call' = [call EXCEPT ![t] = x] /\ RequestPacer!Enqueue(t)
        /\ UNCHANGED <<now, wallShift>>
    BY <1>2 DEF TakeTimeSlot, clocks, UnixMs
  <2>2. call[t].pc # "requestWait"
    <3>1. t \in At("timeWait")
      BY <1>2, TailLists
         DEF TakeTimeSlot, TimePacer!Grant, TypeInv, TypeOK, LocksHeldByWaiters
    <3> QED BY <3>1 DEF At
  <2> HIDE DEF x
  <2> QED BY <2>1, <2>2, JoinedInTurn
<1>3. ASSUME NEW t \in Tasks, NEW k \in Reads, CallRead(t, k) PROVE Goal
  <2> DEFINE x == [pc |-> "requestWait", kind |-> k]
  <2>1. /\ x.pc = "requestWait" /\ x.kind # "sync" /\ call[t].pc # "requestWait"
        /\ call' = [call EXCEPT ![t] = x] /\ RequestPacer!Enqueue(t)
        /\ UNCHANGED <<now, wallShift>>
    BY <1>3 DEF CallRead, clocks, Reads
  <2> HIDE DEF x
  <2> QED BY <2>1, JoinedInTurn
<1>4. ASSUME NEW t \in Tasks, NEW k \in Reads, RefuseRead(t, k) PROVE Goal
  <2>1. PICK e \in Errors : call' = [call EXCEPT ![t] = Done(k, e)]
    BY <1>4, RefusedWith
  <2> QED BY <1>4, <2>1, RefusedWith, ElsewhereInTurn DEF Done, clocks, waiting
<1>5. ASSUME NEW t \in Tasks, FinishSync(t) PROVE Goal
  <2>1. PICK e : call' = [call EXCEPT ![t] = Done("sync", e)]
    BY <1>5 DEF FinishSync
  <2> QED BY <1>5, <2>1, ElsewhereInTurn DEF FinishSync, Done, clocks, waiting
<1>6. ASSUME NEW t \in Tasks, FinishRead(t) PROVE Goal
  <2> DEFINE obs == ObservationAt(UnixMs)
             x == IF ClockUsable
                  THEN Observed(call[t].kind, obs.source, obs.received)
                  ELSE Done(call[t].kind, "ClockUnavailable")
  <2>1. x.pc = "idle" /\ call' = [call EXCEPT ![t] = x]
    BY <1>6 DEF FinishRead, Observed, Done
  <2> HIDE DEF x
  <2> QED BY <1>6, <2>1, ElsewhereInTurn DEF FinishRead, clocks, waiting
<1>7. ASSUME NEW t \in Tasks, SendRequest(t) PROVE Goal
  BY <1>7, SendInTurn
<1>8. ASSUME NEW t \in Tasks, RefuseToSign(t) PROVE Goal
  <2>1. PICK e : call' = [call EXCEPT ![t] = Done("private", e)]
    BY <1>8 DEF RefuseToSign
  <2>2. SentInTurn(Done("private", e))
    BY DEF SentInTurn, Done
  <2> QED BY <1>8, <2>1, <2>2, GrantedInTurn DEF RefuseToSign, clocks
<1>9. ASSUME NEW t \in Tasks, Answer(t) PROVE Goal
  <2> DEFINE x == [call[t] EXCEPT !.answer = ServerNow]
  <2>1. call' = [call EXCEPT ![t] = x] /\ UNCHANGED <<now, lastRequest, requestQueue>>
    BY <1>9 DEF Answer, clocks, waiting
  <2>2. /\ x.pc = call[t].pc /\ x.kind = call[t].kind /\ x.sent = call[t].sent
        /\ x.kind = "sync" => x.before = call[t].before
    BY <1>9 DEF Answer, TypeInv, TypeOK, CallState
  <2> HIDE DEF x
  <2>3. SentInTurn(x)
    BY <2>2 DEF SentInTurn, Asked, FlightsInTurn
  <2>4. call[t].pc # "requestWait"
    BY <1>9 DEF Answer
  <2> QED BY <2>1, <2>3, <2>4, QueueKept, OneFlight
<1>10. ASSUME NEW t \in Tasks, Fail(t) PROVE Goal
  BY <1>10, ElsewhereInTurn DEF Fail, Done, clocks, waiting
<1>11. ASSUME NEW t \in Tasks, Cancel(t) PROVE Goal
  <2> DEFINE x == Done(call[t].kind, "none")
  <2>1. call' = [call EXCEPT ![t] = x] /\ UNCHANGED <<now, wallShift>>
    BY <1>11 DEF Cancel, clocks
  <2>2. x.pc = "idle" /\ SentInTurn(x)
    BY DEF Done, SentInTurn
  <2> HIDE DEF x
  <2>3. CASE RequestPacer!Leave(t)
    <3>1. QueueInTurn'
      BY <2>1, <2>3, ThinnedByLeave, MovedUp DEF RequestPacer!Leave
    <3> QED BY <2>1, <2>2, <3>1, OneFlight
  <2>4. CASE /\ call[t].pc # "requestWait" /\ UNCHANGED <<requestQueue, lastRequest>>
    BY <2>1, <2>2, <2>4, ElsewhereInTurn
  <2> QED BY <1>11, <2>3, <2>4 DEF Cancel, waiting
<1>12. ASSUME Tick PROVE Goal
  <2>1. FlightsInTurn'
    BY <1>12 DEF Tick, FlightsInTurn, SentInTurn, Asked, Turns
  <2> QED BY <1>12, <2>1, Slept
<1>13. ASSUME UNCHANGED vars PROVE Goal
  BY <1>13 DEF vars, QueueInTurn, InTurn, FlightsInTurn, SentInTurn, Asked, Turns
<1>14. ASSUME NEW t \in Tasks, Depart(t) PROVE Goal
  <2> DEFINE x == [call[t] EXCEPT !.left = TRUE]
  <2>1. call' = [call EXCEPT ![t] = x] /\ UNCHANGED <<now, lastRequest, requestQueue>>
    BY <1>14 DEF Depart, clocks, waiting
  <2>2. /\ x.pc = call[t].pc /\ x.kind = call[t].kind /\ x.sent = call[t].sent
        /\ x.kind = "sync" => x.before = call[t].before
    BY <1>14 DEF Depart, TypeInv, TypeOK, CallState
  <2> HIDE DEF x
  <2>3. SentInTurn(x)
    BY <2>2 DEF SentInTurn, Asked, FlightsInTurn
  <2>4. call[t].pc # "requestWait"
    BY <1>14 DEF Depart
  <2> QED BY <2>1, <2>3, <2>4, QueueKept, OneFlight
<1>15. Goal
  BY <1>1, <1>2, <1>3, <1>4, <1>5, <1>6, <1>7, <1>8, <1>9, <1>10, <1>11, <1>12, <1>13,
     <1>14 DEF Next
<1> QED BY <1>15

LEMMA AlwaysInTurn ==
    ASSUME IsFiniteSet(Tasks), Punctual
    PROVE  Spec => [](TypeInv /\ SlotsApart /\ WaitInv)
<1>1. Init => SlotsApart /\ WaitInv
  BY InitLimited DEF Init, Done, WaitInv, QueueInTurn, FlightsInTurn, SentInTurn
<1>2. TypeInv /\ TypeInv' /\ SlotsApart /\ WaitInv /\ [Next]_vars => WaitInv'
  BY NotStepped, NextInTurn DEF WaitInv
<1> QED BY <1>1, <1>2, InitTyped, NextTyped, InitLimited, NextLimited, PTL DEF Spec

\* get_rows, from synchronize_clock: for any number of callers a sync waits, after
\* it read "before", for no more than its turns: what the measurement of the clock
\* can be off by because of the request queue does not grow with what other calls do.
THEOREM SyncsInTurn == ASSUME IsFiniteSet(Tasks) PROVE Spec => []SyncWaitsItsTurn
<1>1. CASE Punctual
  <2>1. TypeInv /\ WaitInv => SyncWaitsItsTurn
    <3> SUFFICES ASSUME TypeInv, WaitInv, wallSteps = 0, NEW i \in DOMAIN requestQueue,
                        call[requestQueue[i]].kind = "sync"
                 PROVE  UnixMs - call[requestQueue[i]].before <= Turns(i)
      BY DEF SyncWaitsItsTurn
    <3> DEFINE c == call[requestQueue[i]]
    <3>1. c.before \in Int /\ now \in Int /\ wallShift \in Int
      BY QueuedTasks, CallFields, WaitTypes DEF TypeInv
    <3>2. now - Asked(c) <= Turns(i)
      BY DEF WaitInv, QueueInTurn, InTurn
    <3> HIDE DEF c
    <3>3. UnixMs - c.before = now - Asked(c)
      BY <3>1 DEF UnixMs, Asked
    <3> QED BY <3>2, <3>3 DEF c
  <2> QED BY <1>1, <2>1, AlwaysInTurn, PTL
<1>2. CASE ~Punctual
  <2>1. SyncWaitsItsTurn
    BY <1>2 DEF SyncWaitsItsTurn
  <2> QED BY <2>1, PTL
<1> QED BY <1>1, <1>2

------------------------------------------------------------------------------
(* What the turns mean for the measurement of the clock.                   *)

\* What the time from "before" to "after" can come to: the turns in the request
\* queue and the timeout of the request.
MeasureTime == Turns(1) + HTTP_TIMEOUT

LEMMA MeasureTimeInt == ASSUME IsFiniteSet(Tasks) PROVE MeasureTime \in Int
<1>1. Turns(1) \in Int
  BY TurnsCount
<1> QED BY <1>1, ClientAssumption DEF MeasureTime

\* The middle of a measurement, to the half unit.
LEMMA MidpointHalf ==
    ASSUME NEW before \in Int, NEW after \in Int, before <= after
    PROVE  /\ Midpoint(before, after) \in Int
           /\ 2 * (Midpoint(before, after) - before) <= after - before
           /\ 2 * (after - Midpoint(before, after)) <= after - before + 1
<1> DEFINE half == (after - before) \div 2
<1>1. after - before \in Nat
  OBVIOUS
<1>2. half \in Int /\ 2 * half <= after - before /\ after - before <= 2 * half + 1
  BY <1>1
<1>3. Midpoint(before, after) = before + half
  BY <1>1 DEF Midpoint, HalfOf
<1> HIDE DEF half
<1> QED BY <1>2, <1>3

\* What FinishSync finds while the local clock was not stepped.
LEMMA SyncMeasurement ==
    ASSUME TypeInv, TimeInv, MeasureInv, FlightsInTurn, IsFiniteSet(Tasks),
           NEW t \in Tasks, FinishSync(t)
    PROVE  LET c == call[t]
               midpoint == Midpoint(c.before, UnixMs)
           IN  /\ midpoint \in Int /\ c.answer \in Int
               /\ 2 * (UnixMs - midpoint) <= MeasureTime + 1
               /\ 2 * Abs(c.answer + wallShift - midpoint) <= MeasureTime + 1
<1> DEFINE c == call[t]
           after == UnixMs
           midpoint == Midpoint(c.before, after)
<1>1. /\ c.before \in Int /\ c.sent \in Int /\ c.answer \in Int
      /\ now \in Int /\ wallShift \in Int
      /\ c.before - wallShift <= c.sent /\ c.sent <= c.answer /\ c.answer <= now
      /\ now - c.sent <= HTTP_TIMEOUT /\ c.sent - (c.before - wallShift) <= Turns(1)
  BY CallFields DEF FinishSync, TypeInv, TypeOK, TimeInv, FlightTimed, MeasureInv,
                    SyncMeasured, FlightsInTurn, SentInTurn, Asked
<1>2. after = now + wallShift
  BY DEF UnixMs
<1>3. Turns(1) \in Int /\ HTTP_TIMEOUT \in Int
  BY TurnsCount, ClientAssumption
<1> HIDE DEF c, after
<1>4. after \in Int /\ c.before <= after /\ after - c.before <= MeasureTime
  BY <1>1, <1>2, <1>3 DEF MeasureTime
<1>5. /\ midpoint \in Int
      /\ 2 * (midpoint - c.before) <= after - c.before
      /\ 2 * (after - midpoint) <= after - c.before + 1
  BY <1>1, <1>4, MidpointHalf
<1> HIDE DEF midpoint
<1>6. MeasureTime \in Int
  BY MeasureTimeInt
<1>7. 2 * (after - midpoint) <= MeasureTime + 1
  BY <1>1, <1>4, <1>5, <1>6
<1>8. /\ c.answer + wallShift - midpoint <= after - midpoint
      /\ midpoint - (c.answer + wallShift) <= midpoint - c.before
  BY <1>1, <1>2, <1>4, <1>5
<1>9. 2 * Abs(c.answer + wallShift - midpoint) <= MeasureTime + 1
  BY <1>1, <1>4, <1>5, <1>6, <1>7, <1>8 DEF Abs
<1> QED BY <1>1, <1>5, <1>7, <1>9 DEF c, after, midpoint

------------------------------------------------------------------------------
(* The clock a client accepts and the clock it refuses, without late       *)
(* timers and while the local clock is not stepped.                        *)

\* synchronize_clock answered OkxReadError::ClockSkew.
RefusedSync(c) == c.pc = "idle" /\ c.kind = "sync" /\ c.outcome = "ClockSkew"

\* An accepted sync was committed half of MeasureTime after the local time it holds.
SyncQuick == clock # None => 2 * Lag <= MeasureTime + 1

\* A sync is only refused if the local clock is off: by more than is tolerated, up to
\* half of what the measurement can have taken.
SkewReal ==
    \A t \in Tasks : RefusedSync(call[t]) =>
        2 * Abs(wallShift) + MeasureTime > 2 * CLOCK_MAX_SKEW

CheckInv == wallSteps = 0 => MeasureInv /\ SyncQuick /\ SkewReal

\* Nothing but FinishSync writes the clock or refuses it.
LEMMA OnlyFinishSyncJudges ==
    ASSUME TypeInv, [Next]_vars, \A u \in Tasks : ~FinishSync(u)
    PROVE  /\ UNCHANGED clock
           /\ \A t \in Tasks : RefusedSync(call'[t]) => RefusedSync(call[t])
<1> DEFINE Goal == /\ UNCHANGED clock
                   /\ \A t \in Tasks : RefusedSync(call'[t]) => RefusedSync(call[t])
<1>1. ASSUME NEW u \in Tasks, NEW x, call' = [call EXCEPT ![u] = x],
             ~RefusedSync(x), UNCHANGED clock
      PROVE  Goal
  BY <1>1 DEF TypeInv, TypeOK
<1>2. ASSUME NEW u \in Tasks, CallSync(u) PROVE Goal
  BY <1>1, <1>2 DEF CallSync, RefusedSync
<1>3. ASSUME NEW u \in Tasks, TakeTimeSlot(u) PROVE Goal
  BY <1>1, <1>3 DEF TakeTimeSlot, RefusedSync
<1>4. ASSUME NEW u \in Tasks, NEW k \in Reads, CallRead(u, k) PROVE Goal
  BY <1>1, <1>4 DEF CallRead, RefusedSync
<1>5. ASSUME NEW u \in Tasks, NEW k \in Reads, RefuseRead(u, k) PROVE Goal
  <2>1. PICK e \in Errors : call' = [call EXCEPT ![u] = Done(k, e)]
    BY <1>5, RefusedWith
  <2>2. ~RefusedSync(Done(k, e)) /\ UNCHANGED clock
    BY <1>5, RefusedWith DEF RefusedSync, Done, Reads
  <2> QED BY <1>1, <2>1, <2>2
<1>6. ASSUME NEW u \in Tasks, Fail(u) PROVE Goal
  BY <1>1, <1>6 DEF Fail, RefusedSync, Done
<1>7. ASSUME NEW u \in Tasks, Cancel(u) PROVE Goal
  BY <1>1, <1>7 DEF Cancel, RefusedSync, Done
<1>8. ASSUME NEW u \in Tasks, RefuseToSign(u) PROVE Goal
  <2>1. PICK e : call' = [call EXCEPT ![u] = Done("private", e)]
    BY <1>8 DEF RefuseToSign
  <2> QED BY <1>1, <1>8, <2>1 DEF RefuseToSign, RefusedSync, Done
<1>9. ASSUME NEW u \in Tasks, SendRequest(u) PROVE Goal
  <2>1. Sent(call[u]).pc = "inFlight" /\ call' = [call EXCEPT ![u] = Sent(call[u])]
    BY <1>9, CallFields DEF SendRequest, Sent, TypeInv, Kinds, Reads
  <2> QED BY <1>1, <1>9, <2>1 DEF SendRequest, RefusedSync
<1>10. ASSUME NEW u \in Tasks, Answer(u) PROVE Goal
  <2> DEFINE x == [call[u] EXCEPT !.answer = ServerNow]
  <2>1. x.pc = "inFlight" /\ call' = [call EXCEPT ![u] = x]
    BY <1>10 DEF Answer, TypeInv, TypeOK, CallState
  <2> HIDE DEF x
  <2> QED BY <1>1, <1>10, <2>1 DEF Answer, RefusedSync
<1>11. ASSUME NEW u \in Tasks, FinishRead(u) PROVE Goal
  <2> DEFINE obs == ObservationAt(UnixMs)
             x == IF ClockUsable
                  THEN Observed(call[u].kind, obs.source, obs.received)
                  ELSE Done(call[u].kind, "ClockUnavailable")
  <2>1. x.outcome # "ClockSkew" /\ call' = [call EXCEPT ![u] = x]
    BY <1>11 DEF FinishRead, Observed, Done
  <2> HIDE DEF x
  <2> QED BY <1>1, <1>11, <2>1 DEF FinishRead, RefusedSync
<1>12. ASSUME Tick \/ StepWall \/ UNCHANGED vars PROVE Goal
  BY <1>12 DEF Tick, StepWall, vars
<1>13. ASSUME NEW u \in Tasks, Depart(u) PROVE Goal
  <2> DEFINE x == [call[u] EXCEPT !.left = TRUE]
  <2>1. x.pc = "inFlight" /\ call' = [call EXCEPT ![u] = x]
    BY <1>13 DEF Depart, TypeInv, TypeOK, CallState
  <2> HIDE DEF x
  <2> QED BY <1>1, <1>13, <2>1 DEF Depart, RefusedSync
<1>14. Goal
  BY <1>2, <1>3, <1>4, <1>5, <1>6, <1>7, <1>8, <1>9, <1>10, <1>11, <1>12, <1>13 DEF Next
<1> QED BY <1>14

\* A sync that ends is committed or refused for what it measured.
LEMMA FinishSyncChecked ==
    ASSUME TypeInv, TimeInv, MeasureInv, SyncQuick, SkewReal, FlightsInTurn,
           IsFiniteSet(Tasks), UNCHANGED wallShift, NEW t \in Tasks, FinishSync(t)
    PROVE  SyncQuick' /\ SkewReal'
<1> DEFINE c == call[t]
           midpoint == Midpoint(c.before, UnixMs)
           skewed == Abs(c.answer - midpoint) > CLOCK_MAX_SKEW
           x == Done("sync", IF skewed THEN "ClockSkew" ELSE "synchronized")
<1>1. /\ midpoint \in Int /\ c.answer \in Int
      /\ 2 * (UnixMs - midpoint) <= MeasureTime + 1
      /\ 2 * Abs(c.answer + wallShift - midpoint) <= MeasureTime + 1
  BY SyncMeasurement
<1>2. /\ call' = [call EXCEPT ![t] = x]
      /\ clock' = IF skewed THEN clock
                  ELSE [at |-> now, server_ms |-> c.answer, local_ms |-> midpoint]
  BY DEF FinishSync
<1>3. RefusedSync(x) => skewed
  BY DEF RefusedSync, Done
<1> HIDE DEF x, c, midpoint
<1>4. /\ MeasureTime \in Int /\ wallShift \in Int /\ now \in Int /\ UnixMs = now + wallShift
      /\ CLOCK_MAX_SKEW \in Int
  BY MeasureTimeInt, ClientAssumption DEF TypeInv, TypeOK, UnixMs
<1>5. SyncQuick'
  <2>1. CASE skewed
    BY <1>2, <2>1 DEF SyncQuick, Lag, MeasureTime, Turns
  <2>2. CASE ~skewed
    <3>1. Lag' = now + wallShift - midpoint
      BY <1>2, <2>2 DEF Lag
    <3>2. 2 * (now + wallShift - midpoint) <= MeasureTime + 1
      BY <1>1, <1>4
    <3> QED BY <3>1, <3>2 DEF SyncQuick, MeasureTime, Turns
  <2> QED BY <2>1, <2>2
<1>6. skewed => 2 * Abs(wallShift) + MeasureTime > 2 * CLOCK_MAX_SKEW
  BY <1>1, <1>4 DEF Abs
<1>7. SkewReal'
  <2>1. \A u \in Tasks : RefusedSync(call'[u]) =>
            2 * Abs(wallShift) + MeasureTime > 2 * CLOCK_MAX_SKEW
    BY <1>2, <1>3, <1>6 DEF SkewReal, TypeInv, TypeOK
  <2> QED BY <2>1 DEF SkewReal, RefusedSync, Abs, MeasureTime, Turns
<1> QED BY <1>5, <1>7

LEMMA NextChecked ==
    ASSUME TypeInv, TimeInv, WaitInv, CheckInv, [Next]_vars, IsFiniteSet(Tasks)
    PROVE  CheckInv'
<1> SUFFICES ASSUME wallSteps' = 0
             PROVE  MeasureInv' /\ SyncQuick' /\ SkewReal'
  BY DEF CheckInv
<1>1. UNCHANGED wallShift /\ MeasureInv /\ SyncQuick /\ SkewReal /\ FlightsInTurn
  BY NotStepped DEF CheckInv, WaitInv
<1>2. MeasureInv'
  BY <1>1, NextMeasured
<1>3. CASE \E t \in Tasks : FinishSync(t)
  BY <1>1, <1>2, <1>3, FinishSyncChecked
<1>4. CASE ~ \E t \in Tasks : FinishSync(t)
  <2>1. /\ UNCHANGED clock
        /\ \A t \in Tasks : RefusedSync(call'[t]) => RefusedSync(call[t])
    BY <1>4, OnlyFinishSyncJudges
  <2>2. SyncQuick'
    BY <1>1, <2>1 DEF SyncQuick, Lag, MeasureTime, Turns
  <2>3. \A t \in Tasks : RefusedSync(call'[t]) =>
            2 * Abs(wallShift) + MeasureTime > 2 * CLOCK_MAX_SKEW
    BY <1>1, <2>1 DEF SkewReal
  <2>4. SkewReal'
    BY <1>1, <2>3 DEF SkewReal, RefusedSync, Abs, MeasureTime, Turns
  <2> QED BY <1>2, <2>2, <2>4
<1> QED BY <1>3, <1>4

LEMMA AlwaysChecked ==
    ASSUME IsFiniteSet(Tasks), Punctual
    PROVE  Spec => [](TypeInv /\ TimeInv /\ CheckInv)
<1>1. Init => CheckInv
  BY DEF Init, Done, CheckInv, MeasureInv, SyncMeasured, ClockMeasured, SyncQuick,
         SkewReal, RefusedSync
<1>2. TypeInv /\ TimeInv /\ WaitInv /\ CheckInv /\ [Next]_vars => CheckInv'
  BY NextChecked
<1> QED BY <1>1, <1>2, AlwaysInTurn, AlwaysTimed, PTL DEF Spec

\* synchronize_clock: with punctual timers a sync is refused for skew only if the
\* local clock really is off, by more than CLOCK_MAX_SKEW less half of what the
\* measurement can take (a turn for every caller and the request timeout).
THEOREM SkewRefusalsReal ==
    ASSUME IsFiniteSet(Tasks), Punctual
    PROVE  Spec => [](wallSteps = 0 => SkewReal)
<1>1. CheckInv => (wallSteps = 0 => SkewReal)
  BY DEF CheckInv
<1> QED BY <1>1, AlwaysChecked, PTL

\* synchronize_clock: what its comment says, that an exact clock is not refused, is
\* true of a punctual client with so few callers that a measurement takes no longer
\* than twice CLOCK_MAX_SKEW (ten, with the intervals of the source).
THEOREM ExactClockPasses ==
    ASSUME IsFiniteSet(Tasks), Punctual, MeasureTime <= 2 * CLOCK_MAX_SKEW
    PROVE  Spec => []ExactClockAccepted
<1>1. TypeInv /\ CheckInv => ExactClockAccepted
  <2> SUFFICES ASSUME CheckInv, NEW t \in Tasks, wallShift = 0, wallSteps = 0,
                      RefusedSync(call[t])
               PROVE  FALSE
    BY DEF ExactClockAccepted, RefusedSync
  <2>1. 2 * Abs(wallShift) + MeasureTime > 2 * CLOCK_MAX_SKEW /\ Abs(wallShift) = 0
    BY DEF CheckInv, SkewReal, Abs
  <2> QED BY <2>1, MeasureTimeInt, ClientAssumption
<1> QED BY <1>1, AlwaysChecked, PTL

\* synchronize_clock: with punctual timers a client that holds a sync has a local
\* clock that is off by no more than CLOCK_MAX_SKEW and half of what a measurement
\* can take, whoever else uses the client.
THEOREM AcceptedClockClose ==
    ASSUME IsFiniteSet(Tasks), Punctual
    PROVE  Spec => [](wallSteps = 0 /\ clock # None =>
                        2 * Abs(wallShift) <= 2 * CLOCK_MAX_SKEW + MeasureTime + 1)
<1>1. TypeInv /\ CheckInv =>
        (wallSteps = 0 /\ clock # None =>
            2 * Abs(wallShift) <= 2 * CLOCK_MAX_SKEW + MeasureTime + 1)
  <2> SUFFICES ASSUME TypeInv, CheckInv, wallSteps = 0, clock # None
               PROVE  2 * Abs(wallShift) <= 2 * CLOCK_MAX_SKEW + MeasureTime + 1
    OBVIOUS
  <2>1. Abs(wallShift) <= CLOCK_MAX_SKEW + Lag /\ 2 * Lag <= MeasureTime + 1
    BY DEF CheckInv, MeasureInv, ClockMeasured, SyncQuick
  <2>2. Abs(wallShift) \in Int /\ Lag \in Int /\ MeasureTime \in Int
    BY MeasureTimeInt, ClockTypes DEF TypeInv, TypeOK, Abs, Lag
  <2> QED BY <2>1, <2>2, ClientAssumption
<1> QED BY <1>1, AlwaysChecked, PTL

\* A returned source time comes from a sync.
LEMMA ReadSynced ==
    ASSUME TypeInv, NEW t \in Tasks, FinishRead(t), call'[t].outcome = "observed"
    PROVE  /\ clock # None /\ Lag \in Int
           /\ call'[t].source \in Int /\ call[t].answer \in Int
<1> DEFINE obs == ObservationAt(UnixMs)
           x == IF ClockUsable
                THEN Observed(call[t].kind, obs.source, obs.received)
                ELSE Done(call[t].kind, "ClockUnavailable")
<1>1. call'[t] = x
  BY DEF FinishRead, TypeInv, TypeOK
<1> HIDE DEF obs
<1>2. ClockUsable /\ call'[t].source = obs.source
  BY <1>1 DEF Done, Observed
<1>3. /\ clock # None /\ Lag \in Int /\ wallShift \in Int /\ now \in Int
      /\ clock.server_ms \in Int /\ clock.local_ms \in Int
  BY <1>2, ClockTypes DEF ClockUsable, TypeInv, TypeOK, Lag
<1>4. obs.source \in Int
  BY <1>3 DEF obs, ObservationAt, UnixMs, Offset
<1>5. call[t].answer \in Int
  BY CallFields DEF FinishRead, TypeInv
<1> QED BY <1>2, <1>3, <1>4, <1>5

\* observation(): with punctual timers and a local clock that nobody steps, a source
\* time is at most the request timeout after the exchange's answer and at most the
\* tolerated skew before it, each up to half of what a measurement can take.
THEOREM SourceTimesClose ==
    ASSUME IsFiniteSet(Tasks), Punctual
    PROVE  Spec => [][\A t \in Tasks :
                /\ call[t].pc = "inFlight" /\ wallSteps = 0
                /\ call'[t].pc = "idle" /\ call'[t].outcome = "observed"
                => /\ 2 * (call'[t].source - call[t].answer)
                        <= 2 * HTTP_TIMEOUT + MeasureTime + 1
                   /\ 2 * (call[t].answer - call'[t].source)
                        <= 2 * CLOCK_MAX_SKEW + MeasureTime + 1]_vars
<1> DEFINE Close == \A t \in Tasks :
                /\ call[t].pc = "inFlight" /\ wallSteps = 0
                /\ call'[t].pc = "idle" /\ call'[t].outcome = "observed"
                => /\ 2 * (call'[t].source - call[t].answer)
                        <= 2 * HTTP_TIMEOUT + MeasureTime + 1
                   /\ 2 * (call[t].answer - call'[t].source)
                        <= 2 * CLOCK_MAX_SKEW + MeasureTime + 1
<1>1. TypeInv /\ TimeInv /\ CheckInv /\ [Next]_vars => [Close]_vars
  <2> SUFFICES ASSUME TypeInv, TimeInv, CheckInv, [Next]_vars, NEW t \in Tasks,
                      call[t].pc = "inFlight", wallSteps = 0,
                      call'[t].pc = "idle", call'[t].outcome = "observed"
               PROVE  /\ 2 * (call'[t].source - call[t].answer)
                            <= 2 * HTTP_TIMEOUT + MeasureTime + 1
                      /\ 2 * (call[t].answer - call'[t].source)
                            <= 2 * CLOCK_MAX_SKEW + MeasureTime + 1
    OBVIOUS
  <2>1. MeasureInv /\ SyncQuick
    BY DEF CheckInv
  <2>2. FinishRead(t)
    BY OnlyReadsObserve
  <2>3. /\ call'[t].source - call[t].answer <= HTTP_TIMEOUT + Lag
        /\ call[t].answer - call'[t].source <= CLOCK_MAX_SKEW + Lag
    BY <2>1, <2>2, ReadHonest
  <2> QED
    <3>1. /\ clock # None /\ Lag \in Int
          /\ call'[t].source \in Int /\ call[t].answer \in Int
      BY <2>2, ReadSynced
    <3> QED BY <2>1, <2>3, <3>1, MeasureTimeInt, ClientAssumption DEF SyncQuick
<1> QED BY <1>1, AlwaysChecked, PTL DEF Spec

\* timestamp(): while the local clock is not stepped, a private request is refused
\* for the drift of a usable clock only if half of the time the sync took is more
\* than MAX_DRIFT; a sync that was quick is good until it is too old.  No timer need
\* be punctual for this.
THEOREM QuickSyncSuffices ==
    Spec => [][\A t \in Tasks :
                RefuseToSign(t) /\ ClockUsable /\ wallSteps = 0 => Lag > MAX_DRIFT]_vars
<1> DEFINE Measured == wallSteps = 0 => MeasureInv
           Refused == \A t \in Tasks :
                RefuseToSign(t) /\ ClockUsable /\ wallSteps = 0 => Lag > MAX_DRIFT
<1>1. Init => Measured
  BY DEF Init, Done, MeasureInv, SyncMeasured, ClockMeasured
<1>2. TypeInv /\ TimeInv /\ Measured /\ [Next]_vars => Measured'
  BY NotStepped, NextMeasured
<1>3. TypeInv /\ Measured => Refused
  <2> SUFFICES ASSUME TypeInv, MeasureInv, NEW t \in Tasks, RefuseToSign(t), ClockUsable
               PROVE  Lag > MAX_DRIFT
    OBVIOUS
  <2>1. /\ now \in Int /\ wallShift \in Int
        /\ clock.at \in Int /\ clock.local_ms \in Int /\ 0 <= Lag
    BY ClockTypes DEF TypeInv, TypeOK, MeasureInv, ClockMeasured, ClockUsable
  <2>2. Abs(UnixMs - clock.local_ms - (now - clock.at)) > MAX_DRIFT
    BY DEF RefuseToSign, Drifted
  <2>3. UnixMs - clock.local_ms - (now - clock.at) = Lag
    BY <2>1 DEF UnixMs, Lag
  <2> QED BY <2>1, <2>2, <2>3 DEF Abs
<1> QED BY <1>1, <1>2, <1>3, AlwaysTimed, PTL DEF Spec

------------------------------------------------------------------------------
(* The time endpoint: its slots are TIME_INTERVAL apart, and the request   *)
(* queue, where the syncs then wait, brings the requests no nearer than    *)
(* the turns.                                                              *)

SyncAt(i) == call[requestQueue[i]].kind = "sync"
AskedAt(i) == Asked(call[requestQueue[i]])

\* The syncs in the request queue asked a time interval apart, in its order, and
\* each at a time slot.
QueueApart ==
    /\ lastTime # None => lastTime <= now
    /\ \A i \in DOMAIN requestQueue :
            SyncAt(i) => lastTime # None /\ AskedAt(i) <= lastTime
    /\ \A i, j \in DOMAIN requestQueue :
            i < j /\ SyncAt(i) /\ SyncAt(j) => AskedAt(i) + TIME_INTERVAL <= AskedAt(j)

\* The last request to the time endpoint was made within its turns.
SentApart ==
    timeSent # None =>
        /\ lastTime # None /\ timeSent <= lastTime + Turns(1)
        /\ \A i \in DOMAIN requestQueue :
                SyncAt(i) => timeSent + TIME_INTERVAL <= AskedAt(i) + Turns(1)

ApartInv == wallSteps = 0 => QueueApart /\ SentApart

LEMMA ApartTypes ==
    ASSUME TypeInv, IsFiniteSet(Tasks)
    PROVE  /\ now \in Int /\ None \notin Int /\ Turns(1) \in Int
           /\ lastTime \in Int \cup {None} /\ timeSent \in Int \cup {None}
           /\ TIME_INTERVAL \in Int /\ TIME_INTERVAL >= 0
           /\ \A i \in DOMAIN requestQueue :
                i \in Int /\ (SyncAt(i) => AskedAt(i) \in Int)
<1>1. Turns(1) \in Int
  BY TurnsCount
<1>2. timeSent \in Int \cup {None}
  BY DEF TypeInv, TypeOK
<1>3. \A i \in DOMAIN requestQueue : i \in Int /\ (SyncAt(i) => AskedAt(i) \in Int)
  BY WaitTypes, QueuedTasks DEF SyncAt, AskedAt
<1> QED BY <1>1, <1>2, <1>3, WaitTypes

LEMMA Thinned ==
    ASSUME TypeInv, IsFiniteSet(Tasks), QueueApart, NEW old, ThinnedBy(old),
           now' \in {now, now + 1}, UNCHANGED <<wallShift, lastTime>>
    PROVE  /\ QueueApart'
           /\ SentApart /\ UNCHANGED timeSent => SentApart'
<1> DEFINE q == requestQueue
<1>1. \A k \in DOMAIN q' : /\ old[k] \in DOMAIN q
                           /\ SyncAt(k)' = SyncAt(old[k])
                           /\ AskedAt(k)' = AskedAt(old[k])
  BY DEF ThinnedBy, SyncAt, AskedAt, Asked
<1>2. \A k, l \in DOMAIN q' : k < l => old[k] < old[l]
  BY DEF ThinnedBy
<1>3. /\ lastTime # None => lastTime' <= now'
      /\ \A k \in DOMAIN q' : SyncAt(k)' => lastTime # None /\ AskedAt(k)' <= lastTime
      /\ \A k, l \in DOMAIN q' :
            k < l /\ SyncAt(k)' /\ SyncAt(l)' => AskedAt(k)' + TIME_INTERVAL <= AskedAt(l)'
  <2>1. lastTime # None => lastTime' <= now'
    BY ApartTypes DEF QueueApart
  <2> QED BY <1>1, <1>2, <2>1 DEF QueueApart
<1>4. QueueApart'
  BY <1>3 DEF QueueApart
<1>5. ASSUME SentApart, UNCHANGED timeSent PROVE SentApart'
  <2>1. timeSent # None => \A k \in DOMAIN q' :
            SyncAt(k)' => timeSent + TIME_INTERVAL <= AskedAt(k)' + Turns(1)
    BY <1>1, <1>5 DEF SentApart
  <2> QED BY <1>5, <2>1 DEF SentApart, Turns
<1> QED BY <1>4, <1>5

\* A sync joins at its time slot, or a read joins.
LEMMA JoinApart ==
    ASSUME TypeInv, IsFiniteSet(Tasks), QueueApart, SentApart,
           NEW t \in Tasks, NEW x, call[t].pc # "requestWait",
           call' = [call EXCEPT ![t] = x],
           requestQueue' = Append(requestQueue, t),
           x.kind = "sync" => /\ x.before = now + wallShift /\ lastTime' = now
                              /\ lastTime # None => now - lastTime >= TIME_INTERVAL,
           x.kind # "sync" => lastTime' = lastTime,
           UNCHANGED <<now, wallShift, timeSent>>
    PROVE  QueueApart' /\ SentApart'
<1>1. PICK n \in Nat :
        /\ DOMAIN requestQueue = 1 .. n /\ DOMAIN requestQueue' = 1 .. n + 1
        /\ \A k \in 1 .. n : call'[requestQueue'[k]] = call[requestQueue[k]]
        /\ call'[requestQueue'[n + 1]] = x
  BY JoinPlaces
<1>2. /\ \A k \in 1 .. n : SyncAt(k)' <=> SyncAt(k)
      /\ \A k \in 1 .. n : AskedAt(k)' = AskedAt(k)
      /\ SyncAt(n + 1)' => x.kind = "sync" /\ AskedAt(n + 1)' = now
  <2>1. \A k \in 1 .. n : SyncAt(k)' <=> SyncAt(k)
    BY <1>1 DEF SyncAt
  <2>2. \A k \in 1 .. n : AskedAt(k)' = AskedAt(k)
    BY <1>1 DEF AskedAt, Asked
  <2>3. SyncAt(n + 1)' => x.kind = "sync"
    BY <1>1 DEF SyncAt
  <2>4. AskedAt(n + 1)' = x.before - wallShift
    BY <1>1 DEF AskedAt, Asked
  <2> QED BY <2>1, <2>2, <2>3, <2>4, WaitTypes
<1>3. lastTime' # None => lastTime' <= now'
  BY <1>1, ApartTypes DEF QueueApart
<1>4. ASSUME NEW k \in 1 .. n + 1, SyncAt(k)'
      PROVE  lastTime' # None /\ AskedAt(k)' <= lastTime'
  <2>1. CASE k \in 1 .. n
    BY <1>1, <1>2, <1>4, <2>1, ApartTypes DEF QueueApart
  <2>2. CASE k = n + 1
    BY <1>2, <1>4, <2>2, ApartTypes
  <2> QED BY <2>1, <2>2
<1>5. ASSUME NEW k \in 1 .. n + 1, NEW l \in 1 .. n + 1, k < l, SyncAt(k)', SyncAt(l)'
      PROVE  AskedAt(k)' + TIME_INTERVAL <= AskedAt(l)'
  <2>1. k \in 1 .. n
    BY <1>1, <1>5
  <2>2. CASE l \in 1 .. n
    BY <1>1, <1>2, <1>5, <2>1, <2>2 DEF QueueApart
  <2>3. CASE l = n + 1
    BY <1>1, <1>2, <1>5, <2>1, <2>3, ApartTypes DEF QueueApart
  <2> QED BY <2>2, <2>3
<1>6. QueueApart'
  BY <1>1, <1>3, <1>4, <1>5 DEF QueueApart
<1>7. ASSUME timeSent # None
      PROVE  /\ lastTime' # None /\ timeSent <= lastTime' + Turns(1)
             /\ \A k \in 1 .. n + 1 : SyncAt(k)' =>
                    timeSent + TIME_INTERVAL <= AskedAt(k)' + Turns(1)
  <2>1. lastTime # None /\ timeSent <= lastTime + Turns(1) /\ lastTime <= now
    BY <1>7 DEF SentApart, QueueApart
  <2>2. lastTime' # None /\ timeSent <= lastTime' + Turns(1)
    BY <1>7, <2>1, ApartTypes
  <2>3. ASSUME NEW k \in 1 .. n + 1, SyncAt(k)'
        PROVE  timeSent + TIME_INTERVAL <= AskedAt(k)' + Turns(1)
    <3>1. CASE k \in 1 .. n
      BY <1>1, <1>2, <1>7, <2>3, <3>1 DEF SentApart
    <3>2. CASE k = n + 1
      BY <1>2, <1>7, <2>1, <2>3, <3>2, ApartTypes
    <3> QED BY <3>1, <3>2
  <2> QED BY <2>2, <2>3
<1>8. SentApart'
  BY <1>1, <1>7 DEF SentApart, Turns
<1> QED BY <1>6, <1>8

\* The request to the time endpoint that is made now is as far from the last one as
\* the intervals of their slots, up to its own turns, and the next will be.
LEMMA SendApart ==
    ASSUME TypeInv, IsFiniteSet(Tasks), QueueInTurn, QueueApart, SentApart,
           UNCHANGED wallShift, NEW t \in Tasks, SendRequest(t), call[t].kind = "sync"
    PROVE  /\ timeSent # None => now - timeSent >= TIME_INTERVAL - Turns(1)
           /\ SentApart'
<1>1. /\ RequestPacer!Grant(t) /\ call' = [call EXCEPT ![t] = Sent(call[t])]
      /\ timeSent' = now /\ UNCHANGED <<now, lastTime>>
  BY DEF SendRequest, clocks
<1>2. 1 \in DOMAIN requestQueue /\ t = requestQueue[1]
  BY <1>1, HeadTailProperties, EmptySeq, QueuedTasks
     DEF RequestPacer!Grant, TypeInv, TypeOK
<1> DEFINE a == AskedAt(1)
<1>3. SyncAt(1) /\ now - a <= Turns(1)
  BY <1>2 DEF SyncAt, AskedAt, QueueInTurn, InTurn
<1>4. /\ a \in Int /\ lastTime # None /\ a <= lastTime /\ lastTime <= now
      /\ timeSent # None => timeSent + TIME_INTERVAL <= a + Turns(1)
  BY <1>2, <1>3, ApartTypes DEF QueueApart, SentApart
<1> HIDE DEF a
<1>5. timeSent # None => now - timeSent >= TIME_INTERVAL - Turns(1)
  BY <1>4, ApartTypes
<1>6. ASSUME NEW k \in DOMAIN requestQueue', SyncAt(k)'
      PROVE  now + TIME_INTERVAL <= AskedAt(k)' + Turns(1)
  <2>1. /\ k \in Int /\ k + 1 \in DOMAIN requestQueue /\ k <= k + 1
        /\ call'[requestQueue'[k]] = call[requestQueue[k + 1]]
        /\ 1 <= k
    <3>1. /\ k \in Int /\ k + 1 \in DOMAIN requestQueue
          /\ call'[requestQueue'[k]] = call[requestQueue[k + 1]]
      BY <1>1, ThinnedByGrant DEF ThinnedBy
    <3>2. 1 <= k
      BY <1>1, HeadTailProperties, LenProperties
         DEF RequestPacer!Grant, TypeInv, TypeOK
    <3> QED BY <3>1, <3>2
  <2>2. SyncAt(k + 1) /\ AskedAt(k)' = AskedAt(k + 1)
    BY <1>6, <2>1 DEF SyncAt, AskedAt, Asked
  <2>3. a + TIME_INTERVAL <= AskedAt(k + 1) /\ AskedAt(k + 1) \in Int
    <3>1. 1 < k + 1
      BY <2>1
    <3> QED BY <1>2, <1>3, <2>1, <2>2, <3>1, ApartTypes DEF QueueApart, a
  <2> QED BY <1>3, <1>4, <2>2, <2>3, ApartTypes
<1>7. lastTime' # None /\ now <= lastTime' + Turns(1)
  BY <1>1, <1>3, <1>4, ApartTypes
<1>8. SentApart'
  BY <1>1, <1>6, <1>7 DEF SentApart, Turns
<1> QED BY <1>5, <1>8

\* What a step that lets nobody join does to the queue and to the time endpoint.
LEMMA OthersThin ==
    ASSUME TypeInv, IsFiniteSet(Tasks), [Next]_vars, ~StepWall,
           \A t \in Tasks : ~TakeTimeSlot(t) /\ \A k \in Reads : ~CallRead(t, k)
    PROVE  /\ \E old : ThinnedBy(old)
           /\ now' \in {now, now + 1} /\ UNCHANGED lastTime
           /\ \/ UNCHANGED timeSent
              \/ \E t \in Tasks : SendRequest(t) /\ call[t].kind = "sync"
<1> DEFINE Thins == \E old : ThinnedBy(old)
           Rest == /\ now' \in {now, now + 1} /\ UNCHANGED lastTime
                   /\ \/ UNCHANGED timeSent
                      \/ \E t \in Tasks : SendRequest(t) /\ call[t].kind = "sync"
<1>1. ASSUME UNCHANGED requestQueue,
             \A u \in Tasks : call[u].pc = "requestWait" => call'[u] = call[u]
      PROVE  Thins
  BY <1>1, ThinnedByNone
<1>2. ASSUME NEW t \in Tasks, call[t].pc # "requestWait", UNCHANGED requestQueue,
             \A u \in Tasks \ {t} : call'[u] = call[u]
      PROVE  Thins
  BY <1>1, <1>2
<1>3. ASSUME NEW t \in Tasks,
             \/ CallSync(t) \/ FinishSync(t) \/ FinishRead(t)
             \/ Depart(t) \/ Answer(t) \/ Fail(t)
             \/ \E k \in Reads : RefuseRead(t, k)
      PROVE  Thins /\ Rest
  <2>1. /\ call[t].pc # "requestWait" /\ UNCHANGED <<requestQueue, now, lastTime, timeSent>>
        /\ \A u \in Tasks \ {t} : call'[u] = call[u]
    BY <1>3 DEF CallSync, FinishSync, FinishRead, Depart, Answer, Fail, RefuseRead,
                TimePacer!Enqueue, waiting, clocks, TypeInv, TypeOK
  <2> QED BY <1>2, <2>1
<1>4. ASSUME NEW t \in Tasks, SendRequest(t) \/ RefuseToSign(t)
      PROVE  Thins /\ Rest
  <2>1. PICK x : RequestPacer!Grant(t) /\ call' = [call EXCEPT ![t] = x]
    BY <1>4 DEF SendRequest, RefuseToSign
  <2>2. Rest
    BY <1>4 DEF SendRequest, RefuseToSign, clocks
  <2> QED BY <2>1, <2>2, ThinnedByGrant
<1>5. ASSUME NEW t \in Tasks, Cancel(t)
      PROVE  Thins /\ Rest
  <2>1. PICK x : call' = [call EXCEPT ![t] = x]
    BY <1>5 DEF Cancel
  <2>2. ASSUME RequestPacer!Leave(t) PROVE Thins
    BY <2>1, <2>2, ThinnedByLeave
  <2>3. ASSUME call[t].pc # "requestWait", UNCHANGED requestQueue PROVE Thins
    BY <1>2, <2>1, <2>3 DEF TypeInv, TypeOK
  <2>4. Rest
    BY <1>5, CancelTyped DEF Cancel, clocks
  <2> QED BY <1>5, <2>2, <2>3, <2>4 DEF Cancel, waiting
<1>6. ASSUME Tick \/ UNCHANGED vars
      PROVE  Thins /\ Rest
  BY <1>1, <1>6 DEF Tick, waiting, vars
<1>7. Thins /\ Rest
  BY <1>3, <1>4, <1>5, <1>6 DEF Next
<1> QED BY <1>7

LEMMA NextApart ==
    ASSUME TypeInv, IsFiniteSet(Tasks), WaitInv, ApartInv, [Next]_vars, wallSteps' = 0
    PROVE  /\ QueueApart' /\ SentApart'
           /\ timeSent' # timeSent /\ timeSent # None =>
                now - timeSent >= TIME_INTERVAL - Turns(1)
<1>1. /\ wallSteps = 0 /\ UNCHANGED wallShift /\ ~StepWall
      /\ QueueInTurn /\ QueueApart /\ SentApart
  BY NotStepped DEF WaitInv, ApartInv
<1>2. ASSUME NEW t \in Tasks, TakeTimeSlot(t)
      PROVE  QueueApart' /\ SentApart' /\ UNCHANGED timeSent
  <2> DEFINE x == [pc |-> "requestWait", kind |-> "sync", before |-> UnixMs]
  <2>1. /\ x.kind = "sync" /\ x.before = now + wallShift
        /\ call' = [call EXCEPT ![t] = x] /\ requestQueue' = Append(requestQueue, t)
        /\ lastTime' = now /\ (lastTime # None => now - lastTime >= TIME_INTERVAL)
        /\ UNCHANGED <<now, timeSent>>
    BY <1>2 DEF TakeTimeSlot, TimePacer!Grant, TimePacer!SlotDue, RequestPacer!Enqueue,
                clocks, UnixMs
  <2>2. call[t].pc # "requestWait"
    <3>1. t \in At("timeWait")
      BY <1>2, TailLists
         DEF TakeTimeSlot, TimePacer!Grant, TypeInv, TypeOK, LocksHeldByWaiters
    <3> QED BY <3>1 DEF At
  <2> HIDE DEF x
  <2> QED BY <1>1, <2>1, <2>2, JoinApart
<1>3. ASSUME NEW t \in Tasks, NEW k \in Reads, CallRead(t, k)
      PROVE  QueueApart' /\ SentApart' /\ UNCHANGED timeSent
  <2> DEFINE x == [pc |-> "requestWait", kind |-> k]
  <2>1. /\ x.kind # "sync" /\ call[t].pc # "requestWait"
        /\ call' = [call EXCEPT ![t] = x] /\ requestQueue' = Append(requestQueue, t)
        /\ UNCHANGED <<now, lastTime, timeSent>>
    BY <1>3 DEF CallRead, RequestPacer!Enqueue, clocks, Reads
  <2> HIDE DEF x
  <2> QED BY <1>1, <2>1, JoinApart
<1>4. CASE \A t \in Tasks : ~TakeTimeSlot(t) /\ \A k \in Reads : ~CallRead(t, k)
  <2>1. PICK old : ThinnedBy(old)
    BY <1>1, <1>4, OthersThin
  <2>2. /\ now' \in {now, now + 1} /\ UNCHANGED lastTime
        /\ \/ UNCHANGED timeSent
           \/ \E t \in Tasks : SendRequest(t) /\ call[t].kind = "sync"
    BY <1>1, <1>4, OthersThin
  <2>3. QueueApart' /\ (UNCHANGED timeSent => SentApart')
    BY <1>1, <2>1, <2>2, Thinned
  <2>4. CASE UNCHANGED timeSent
    BY <2>3, <2>4
  <2>5. CASE \E t \in Tasks : SendRequest(t) /\ call[t].kind = "sync"
    BY <1>1, <2>3, <2>5, SendApart
  <2> QED BY <2>2, <2>4, <2>5
<1> QED BY <1>2, <1>3, <1>4

\* The requests to /public/time are made TIME_INTERVAL apart but for the turns of
\* the request queue.
TimeEndpointNearlyPaced ==
    [][timeSent' # timeSent /\ wallSteps = 0 =>
        (timeSent # None => now - timeSent >= TIME_INTERVAL - Turns(1))]_vars

\* synchronize_clock and get_rows: the comment "limited to one call per five seconds
\* per client" is true of a punctual client up to the wait in the request queue,
\* which comes after the slot: two requests are never made (passed to send()) nearer
\* than TIME_INTERVAL less one REQUEST_INTERVAL for each caller.
THEOREM TimeEndpointSpaced ==
    ASSUME IsFiniteSet(Tasks), Punctual
    PROVE  Spec => TimeEndpointNearlyPaced
<1> DEFINE Near == timeSent' # timeSent /\ wallSteps = 0 =>
            (timeSent # None => now - timeSent >= TIME_INTERVAL - Turns(1))
<1>1. Init => ApartInv
  BY DEF Init, ApartInv, QueueApart, SentApart
<1>2. TypeInv /\ WaitInv /\ ApartInv /\ [Next]_vars => ApartInv'
  BY NextApart DEF ApartInv
<1>3. TypeInv /\ WaitInv /\ ApartInv /\ [Next]_vars => [Near]_vars
  <2> SUFFICES ASSUME TypeInv, WaitInv, ApartInv, [Next]_vars,
                      timeSent' # timeSent, wallSteps = 0
               PROVE  Near
    BY DEF vars
  <2>1. CASE StepWall
    BY <2>1 DEF StepWall
  <2>2. CASE ~StepWall
    BY <2>2, OnlyStepWallSteps, NextApart
  <2> QED BY <2>1, <2>2
<1> QED BY <1>1, <1>2, <1>3, AlwaysInTurn, PTL DEF Spec, TimeEndpointNearlyPaced

------------------------------------------------------------------------------
(* What is proved of CallProgress, for the client that implements it.      *)

Calls == INSTANCE CallProgress_proofs
    WITH place <- [t \in Tasks |-> call[t].pc],
         timeCooldown <- CooldownOf(lastTime, TIME_INTERVAL),
         requestCooldown <- CooldownOf(lastRequest, REQUEST_INTERVAL),
         inFlight <- [t \in Tasks |->
            IF call[t].pc = "inFlight" THEN now - call[t].sent ELSE 0]

LEMMA SameNext ==
    [Progress!ProgressNext]_(Progress!progressVars)
        => [Calls!ProgressNext]_(Calls!progressVars)
  BY DEF Progress!ProgressNext, Progress!StartSync, Progress!StartRead,
         Progress!ToRequests, Progress!TakeSlot, Progress!End, Progress!Drop,
         Progress!TimePasses, Progress!Go, Progress!Holds, Progress!Waits,
         Progress!Without, Progress!Less, Progress!progressVars,
         Calls!ProgressNext, Calls!StartSync, Calls!StartRead, Calls!ToRequests,
         Calls!TakeSlot, Calls!End, Calls!Drop, Calls!TimePasses, Calls!Go,
         Calls!Holds, Calls!Waits, Calls!Without, Calls!Less, Calls!progressVars

\* get_rows and synchronize_clock, with their instants, refusals, timeouts and dropped
\* futures: what is left of the interval of a lock and the intervals of those before a
\* caller in its queue never add up to more than they did, timers late or not.
THEOREM CallersMoveUp == Spec => Progress!WaitOnlyShrinks
<1>1. Calls!Intervals
  BY ClientAssumption DEF Calls!Intervals
<1>2. Calls!ProgressSafety => Calls!WaitOnlyShrinks
  BY <1>1, Calls!WaitsShrink
<1>3. Progress!ProgressInit => Calls!ProgressInit
  BY DEF Progress!ProgressInit, Calls!ProgressInit
<1>4. CallsImplementProgress => Calls!ProgressSafety
  BY <1>3, SameNext, PTL
     DEF CallsImplementProgress, Progress!ProgressSafety, Calls!ProgressSafety
<1> DEFINE OfProgress ==
                /\ Progress!NoLonger(timeQueue, CooldownOf(lastTime, TIME_INTERVAL),
                        timeQueue', CooldownOf(lastTime, TIME_INTERVAL)', TIME_INTERVAL)
                /\ Progress!NoLonger(requestQueue,
                        CooldownOf(lastRequest, REQUEST_INTERVAL), requestQueue',
                        CooldownOf(lastRequest, REQUEST_INTERVAL)', REQUEST_INTERVAL)
           OfCalls ==
                /\ Calls!NoLonger(timeQueue, CooldownOf(lastTime, TIME_INTERVAL),
                        timeQueue', CooldownOf(lastTime, TIME_INTERVAL)', TIME_INTERVAL)
                /\ Calls!NoLonger(requestQueue,
                        CooldownOf(lastRequest, REQUEST_INTERVAL), requestQueue',
                        CooldownOf(lastRequest, REQUEST_INTERVAL)', REQUEST_INTERVAL)
<1>5. [OfCalls]_(Calls!progressVars) => [OfProgress]_(Progress!progressVars)
  BY DEF Progress!NoLonger, Progress!Wait, Calls!NoLonger, Calls!Wait,
         Progress!progressVars, Calls!progressVars
<1> QED
  BY <1>2, <1>4, <1>5, ProgressImplemented, PTL
     DEF Progress!WaitOnlyShrinks, Calls!WaitOnlyShrinks

==============================================================================
