-------------------------- MODULE Telemetry_proofs --------------------------
(***************************************************************************)
(* Theorems about the threads of a process over its Health and its         *)
(* Registry, for any threads, reasons, keys and limit: shutdown sticks,     *)
(* that Health implements ProcessLifecycle, that no increment is lost and  *)
(* that a snapshot of the counts is of a moment.                           *)
(***************************************************************************)
EXTENDS Telemetry, FiniteSetTheorems, TLAPS

------------------------------------------------------------------------------
(* Health.                                                                 *)

\* Who is in stop() cleared live before; after a stop() returned live is clear,
\* the reason is Shutdown, and nobody under the mutex believes otherwise.
HealthInv ==
    /\ HealthTypeOK
    /\ \A t \in Threads :
            thread[t].at \in {"lock", "held", "loaded"} /\ thread[t].op = "stop"
                => ~live
    /\ \A t \in Threads :
            thread[t].at = "loaded" /\ thread[t].op = "stop" => ~thread[t].seen
    /\ stopReturned =>
            /\ ~live /\ reason = Shutdown
            /\ \A t \in Threads : thread[t].at = "loaded" => ~thread[t].seen

\* What a thread's state has, by its place.
LEMMA ThreadFields ==
    ASSUME HealthTypeOK, NEW t \in Threads
    PROVE  /\ thread[t] \in ThreadState
           /\ thread[t].at \in {"idle", "returned", "lock", "held", "loaded", "read"}
           /\ thread[t].at = "loaded" =>
                /\ thread[t].op \in {"pause", "mark_ready", "stop"}
                /\ thread[t].arg \in Reasons \cup {Shutdown}
                /\ thread[t].seen \in BOOLEAN
           /\ thread[t].at = "held" /\ thread[t].op # "snapshot" =>
                /\ thread[t].op \in {"pause", "mark_ready", "stop"}
                /\ thread[t].arg \in Reasons \cup {Shutdown}
           /\ thread[t].at = "held" /\ thread[t].op = "snapshot" =>
                thread[t].late \in BOOLEAN
           /\ thread[t].at = "read" =>
                /\ thread[t].late \in BOOLEAN
                /\ thread[t].reason \in Options
<1>1. thread[t] \in ThreadState
  BY DEF HealthTypeOK
<1> QED BY <1>1 DEF ThreadState, Idle, Shown

LEMMA HealthInitInv == HealthInit => HealthInv
<1> SUFFICES ASSUME HealthInit PROVE HealthInv
  OBVIOUS
<1>1. [at |-> "idle"] \in ThreadState
  BY DEF ThreadState, Idle
<1>2. /\ thread \in [Threads -> ThreadState]
      /\ \A t \in Threads : thread[t].at = "idle"
  BY <1>1 DEF HealthInit
<1>3. \A t \in Threads : lock # t
  BY HealthAssumption DEF HealthInit
<1>4. HealthTypeOK
  BY <1>2, <1>3, HealthAssumption DEF HealthInit, HealthTypeOK, Options
<1> QED BY <1>2, <1>4 DEF HealthInit, HealthInv

\* A thread moves to another state: the others stay where they are.
LEMMA ThreadMoves ==
    ASSUME HealthTypeOK, NEW t \in Threads, NEW s \in ThreadState, Goes(t, s)
    PROVE  /\ thread' \in [Threads -> ThreadState]
           /\ \A u \in Threads : thread'[u] = IF u = t THEN s ELSE thread[u]
BY DEF HealthTypeOK, Goes

\* A call begins: no thread gets the mutex, or leaves it.
LEMMA CallKeeps ==
    ASSUME HealthInv, NEW t \in Threads, NEW s \in ThreadState,
           Resting(t), Goes(t, s), s.at = "lock", s.op = "stop" => ~live',
           live' = live \/ live' = FALSE, UNCHANGED <<reason, lock, stopReturned>>
    PROVE  HealthInv'
<1> USE DEF HealthInv
<1>1. /\ thread' \in [Threads -> ThreadState]
      /\ \A u \in Threads : thread'[u] = IF u = t THEN s ELSE thread[u]
  BY ThreadMoves
<1>2. thread[t].at \in {"idle", "returned"}
  BY DEF Resting
<1>3. HealthTypeOK'
  <2>1. \A u \in Threads : thread'[u].at \in {"held", "loaded"} <=> lock' = u
    BY <1>1, <1>2 DEF HealthTypeOK
  <2> QED BY <1>1, <2>1 DEF HealthTypeOK
<1>4. \A u \in Threads :
            thread'[u].at \in {"lock", "held", "loaded"} /\ thread'[u].op = "stop"
                => ~live'
  BY <1>1
<1>5. \A u \in Threads :
            thread'[u].at = "loaded" =>
                /\ thread[u].at = "loaded"
                /\ thread'[u] = thread[u]
  BY <1>1
<1> QED BY <1>3, <1>4, <1>5

LEMMA LockKeeps ==
    ASSUME HealthInv, NEW t \in Threads, Lock(t)
    PROVE  HealthInv'
<1> USE DEF HealthInv
<1> DEFINE s == [thread[t] EXCEPT !.at = "held"]
<1>1. /\ thread[t] \in ThreadState /\ thread[t].at = "lock"
      /\ Goes(t, s)
      /\ lock = None /\ lock' = t /\ UNCHANGED <<live, reason, stopReturned>>
  BY ThreadFields DEF Lock, Goes
<1>2. s \in ThreadState /\ s.at = "held" /\ s.op = thread[t].op
  BY <1>1 DEF ThreadState, Idle, Shown
<1> HIDE DEF s
<1>3. /\ thread' \in [Threads -> ThreadState]
      /\ \A u \in Threads : thread'[u] = IF u = t THEN s ELSE thread[u]
  BY <1>1, <1>2, ThreadMoves
<1>4. \A u \in Threads : ~(thread[u].at \in {"held", "loaded"})
  BY <1>1, HealthAssumption DEF HealthTypeOK
<1>5. \A u \in Threads : thread'[u].at \in {"held", "loaded"} <=> lock' = u
  BY <1>1, <1>2, <1>3, <1>4
<1>6. HealthTypeOK'
  BY <1>1, <1>3, <1>5 DEF HealthTypeOK
<1> QED BY <1>1, <1>2, <1>3, <1>4, <1>6

LEMMA LoadKeeps ==
    ASSUME HealthInv, NEW t \in Threads, LoadLive(t)
    PROVE  HealthInv'
<1> USE DEF HealthInv
<1> DEFINE s == [at |-> "loaded", op |-> thread[t].op, arg |-> thread[t].arg,
                 seen |-> live]
<1>1. /\ thread[t].at = "held" /\ thread[t].op # "snapshot" /\ Goes(t, s)
      /\ UNCHANGED <<live, reason, lock, stopReturned>>
  BY DEF LoadLive
<1>2. /\ s \in ThreadState /\ s.at = "loaded" /\ s.op = thread[t].op
      /\ s.seen = live /\ live \in BOOLEAN
  BY <1>1, ThreadFields DEF ThreadState, HealthTypeOK
<1> HIDE DEF s
<1>3. /\ thread' \in [Threads -> ThreadState]
      /\ \A u \in Threads : thread'[u] = IF u = t THEN s ELSE thread[u]
  BY <1>1, <1>2, ThreadMoves
<1>4. \A u \in Threads : thread'[u].at \in {"held", "loaded"} <=> lock' = u
  BY <1>1, <1>2, <1>3 DEF HealthTypeOK
<1>5. HealthTypeOK'
  BY <1>1, <1>3, <1>4 DEF HealthTypeOK
<1>6. s.op = "stop" => ~live
  BY <1>1, <1>2
<1> QED BY <1>1, <1>2, <1>3, <1>5, <1>6

LEMMA WriteKeeps ==
    ASSUME HealthInv, NEW t \in Threads, Write(t)
    PROVE  HealthInv'
<1> USE DEF HealthInv
<1> DEFINE s == [at |-> "idle"]
<1>1. /\ thread[t].at = "loaded" /\ Goes(t, s) /\ s.at = "idle"
      /\ s \in ThreadState
      /\ reason' = NewReason(thread[t]) /\ lock' = None /\ live' = live
      /\ stopReturned' = (stopReturned \/ thread[t].op = "stop")
  BY DEF Write, ThreadState, Idle
<1>2. /\ thread' \in [Threads -> ThreadState]
      /\ \A u \in Threads : thread'[u] = IF u = t THEN s ELSE thread[u]
  BY <1>1, ThreadMoves
<1>3. /\ thread[t].op \in {"pause", "mark_ready", "stop"}
      /\ thread[t].arg \in Reasons \cup {Shutdown}
      /\ thread[t].seen \in BOOLEAN /\ reason \in Options
      /\ stopReturned \in BOOLEAN
  BY <1>1, ThreadFields DEF HealthTypeOK
<1>4. reason' \in Options
  BY <1>1, <1>3 DEF NewReason, Options
<1>5. \A u \in Threads : u # t => ~(thread[u].at \in {"held", "loaded"})
  BY <1>1 DEF HealthTypeOK
<1>6. \A u \in Threads : ~(thread'[u].at \in {"held", "loaded"})
  BY <1>1, <1>2, <1>5
<1>7. HealthTypeOK'
  BY <1>1, <1>2, <1>3, <1>4, <1>6, HealthAssumption DEF HealthTypeOK
<1>8. ~thread[t].seen /\ thread[t].op # "mark_ready" => reason' = Shutdown
  BY <1>1 DEF NewReason
<1>9. ~thread[t].seen /\ thread[t].op = "mark_ready" => reason' = reason
  BY <1>1 DEF NewReason
<1>10. stopReturned' => ~live' /\ reason' = Shutdown
  <2>1. CASE stopReturned
    BY <1>1, <1>8, <1>9, <2>1
  <2>2. CASE thread[t].op = "stop"
    BY <1>1, <1>8, <2>2
  <2> QED BY <1>1, <2>1, <2>2
<1>11. \A u \in Threads :
            thread'[u].at \in {"lock", "held", "loaded"} /\ thread'[u].op = "stop"
                => ~live'
  BY <1>1, <1>2
<1> QED BY <1>6, <1>7, <1>10, <1>11

LEMMA ReadKeeps ==
    ASSUME HealthInv, NEW t \in Threads, ReadReason(t)
    PROVE  HealthInv'
<1> USE DEF HealthInv
<1> DEFINE s == [at |-> "read", op |-> "snapshot", late |-> thread[t].late,
                 reason |-> reason]
<1>1. /\ thread[t].at = "held" /\ thread[t].op = "snapshot" /\ Goes(t, s)
      /\ lock' = None /\ UNCHANGED <<live, reason, stopReturned>>
  BY DEF ReadReason
<1>2. s \in ThreadState /\ s.at = "read"
  BY <1>1, ThreadFields DEF ThreadState, HealthTypeOK
<1> HIDE DEF s
<1>3. /\ thread' \in [Threads -> ThreadState]
      /\ \A u \in Threads : thread'[u] = IF u = t THEN s ELSE thread[u]
  BY <1>1, <1>2, ThreadMoves
<1>4. \A u \in Threads : ~(thread'[u].at \in {"held", "loaded"})
  BY <1>1, <1>2, <1>3 DEF HealthTypeOK
<1>5. HealthTypeOK'
  BY <1>1, <1>3, <1>4, HealthAssumption DEF HealthTypeOK
<1> QED BY <1>1, <1>2, <1>3, <1>4, <1>5

LEMMA ReturnKeeps ==
    ASSUME HealthInv, NEW t \in Threads, ReturnSnapshot(t)
    PROVE  HealthInv'
<1> USE DEF HealthInv
<1> DEFINE s == [at |-> "returned", shown |-> ShownTo(thread[t])]
<1>1. /\ thread[t].at = "read" /\ Goes(t, s)
      /\ UNCHANGED <<live, reason, lock, stopReturned>>
  BY DEF ReturnSnapshot
<1>2. s \in ThreadState /\ s.at = "returned"
  <2>1. ShownTo(thread[t]) \in Snapshots
    BY <1>1, ThreadFields DEF ShownTo, Snapshots, HealthTypeOK
  <2> QED BY <2>1 DEF ThreadState, Shown
<1> HIDE DEF s
<1>3. /\ thread' \in [Threads -> ThreadState]
      /\ \A u \in Threads : thread'[u] = IF u = t THEN s ELSE thread[u]
  BY <1>1, <1>2, ThreadMoves
<1>4. \A u \in Threads : thread'[u].at \in {"held", "loaded"} <=> lock' = u
  BY <1>1, <1>2, <1>3 DEF HealthTypeOK
<1>5. HealthTypeOK'
  BY <1>1, <1>3, <1>4 DEF HealthTypeOK
<1> QED BY <1>1, <1>2, <1>3, <1>5

LEMMA HealthNextInv == HealthInv /\ [HealthNext]_healthVars => HealthInv'
<1> SUFFICES ASSUME HealthInv, [HealthNext]_healthVars PROVE HealthInv'
  OBVIOUS
<1>1. ASSUME NEW t \in Threads, NEW r \in Reasons \cup {Shutdown}, CallPause(t, r)
      PROVE  HealthInv'
  <2> DEFINE s == [at |-> "lock", op |-> "pause", arg |-> r]
  <2>1. s \in ThreadState /\ s.at = "lock" /\ s.op # "stop"
    BY DEF ThreadState
  <2> QED BY <1>1, <2>1, CallKeeps DEF CallPause
<1>2. ASSUME NEW t \in Threads, CallMarkReady(t) PROVE HealthInv'
  <2> DEFINE s == [at |-> "lock", op |-> "mark_ready", arg |-> Shutdown]
  <2>1. s \in ThreadState /\ s.at = "lock" /\ s.op # "stop"
    BY DEF ThreadState
  <2> QED BY <1>2, <2>1, CallKeeps DEF CallMarkReady
<1>3. ASSUME NEW t \in Threads, CallStop(t) PROVE HealthInv'
  <2> DEFINE s == [at |-> "lock", op |-> "stop", arg |-> Shutdown]
  <2>1. s \in ThreadState /\ s.at = "lock"
    BY DEF ThreadState
  <2> QED BY <1>3, <2>1, CallKeeps DEF CallStop
<1>4. ASSUME NEW t \in Threads, CallSnapshot(t) PROVE HealthInv'
  <2> DEFINE s == [at |-> "lock", op |-> "snapshot", late |-> stopReturned]
  <2>1. s \in ThreadState /\ s.at = "lock" /\ s.op # "stop"
    BY DEF ThreadState, HealthInv, HealthTypeOK
  <2> QED BY <1>4, <2>1, CallKeeps DEF CallSnapshot
<1>5. CASE UNCHANGED healthVars
  BY <1>5 DEF healthVars, HealthInv, HealthTypeOK
<1> QED BY <1>1, <1>2, <1>3, <1>4, <1>5, LockKeeps, LoadKeeps, WriteKeeps,
           ReadKeeps, ReturnKeeps DEF HealthNext

LEMMA HealthAlways == HealthSafety => []HealthInv
BY HealthInitInv, HealthNextInv, PTL DEF HealthSafety

\* Every variable keeps its type, and the mutex admits one thread at a time.
THEOREM HealthTyped == HealthSafety => []HealthTypeOK
BY HealthAlways, PTL DEF HealthInv

\* stop(): once it has returned, no pause or mark_ready, under way or later,
\* changes what it set.
THEOREM ShutdownSticks == HealthSafety => []StopSticks
<1>1. HealthInv => StopSticks
  BY DEF HealthInv, StopSticks
<1> QED BY <1>1, HealthAlways, PTL

\* A step that puts nobody, and takes nobody, between its load of live and its
\* write, having seen live set.
LEMMA UnderWayStays ==
    ASSUME HealthInv, NEW t \in Threads, NEW s \in ThreadState, Goes(t, s),
           s.at = "loaded" => ~s.seen,
           thread[t].at = "loaded" => ~thread[t].seen,
           live' = live
    PROVE  VerdictUnderWay' = VerdictUnderWay
<1>1. \A u \in Threads : thread'[u] = IF u = t THEN s ELSE thread[u]
  BY ThreadMoves DEF HealthInv
<1>2. \A u \in Threads :
            (thread'[u].at = "loaded" /\ thread'[u].seen)
                <=> (thread[u].at = "loaded" /\ thread[u].seen)
  BY <1>1
<1> QED BY <1>2 DEF VerdictUnderWay

\* A call begins, the mutex is taken, or a snapshot goes on.
LEMMA QuietHealth ==
    ASSUME HealthInv, NEW t \in Threads,
           \/ \E r \in Reasons \cup {Shutdown} : CallPause(t, r)
           \/ CallMarkReady(t) \/ CallSnapshot(t) \/ Lock(t)
           \/ ReadReason(t) \/ ReturnSnapshot(t)
    PROVE  UNCHANGED <<live, reason>> /\ VerdictUnderWay' = VerdictUnderWay
<1> DEFINE Aside == /\ UNCHANGED <<live, reason>> /\ thread[t].at # "loaded"
                    /\ thread'[t].at # "loaded"
                    /\ \A u \in Threads : u # t => thread'[u] = thread[u]
<1>1. Aside
  <2>1. thread \in [Threads -> ThreadState] /\ thread[t] \in ThreadState
    BY DEF HealthInv, HealthTypeOK
  <2>2. ASSUME NEW r \in Reasons \cup {Shutdown}, CallPause(t, r) PROVE Aside
    BY <2>1, <2>2 DEF CallPause, Resting, Goes
  <2>3. ASSUME CallMarkReady(t) \/ CallSnapshot(t) PROVE Aside
    BY <2>1, <2>3 DEF CallMarkReady, CallSnapshot, Resting, Goes
  <2>4. ASSUME Lock(t) PROVE Aside
    <3> DEFINE s == [thread[t] EXCEPT !.at = "held"]
    <3>1. s.at = "held"
      BY <2>1, <2>4 DEF Lock, ThreadState, Idle, Shown
    <3>2. thread' = [thread EXCEPT ![t] = s] /\ thread[t].at = "lock"
          /\ UNCHANGED <<live, reason>>
      BY <2>4 DEF Lock
    <3> HIDE DEF s
    <3> QED BY <2>1, <3>1, <3>2
  <2>5. ASSUME ReadReason(t) \/ ReturnSnapshot(t) PROVE Aside
    BY <2>1, <2>5 DEF ReadReason, ReturnSnapshot, Goes
  <2> HIDE DEF Aside
  <2> QED BY <2>2, <2>3, <2>4, <2>5
<1>2. \A u \in Threads :
            (thread'[u].at = "loaded" /\ thread'[u].seen)
                <=> (thread[u].at = "loaded" /\ thread[u].seen)
  BY <1>1
<1> QED BY <1>1, <1>2 DEF VerdictUnderWay

\* Health implements ProcessLifecycle.  The step that matters is Write once live
\* is clear: only the holder of the mutex is between its load and its write, so
\* at most one verdict is late, and once it is written, or if the holder saw live
\* clear, what is written is Shutdown.
THEOREM LifecycleImplemented == HealthSafety => ImplementsLifecycle
<1>1. HealthInit => Lifecycle!LifecycleInit
  BY HealthAssumption DEF HealthInit, Lifecycle!LifecycleInit, VerdictUnderWay
<1>2. HealthInv /\ [HealthNext]_healthVars
        => [Lifecycle!LifecycleNext]_(Lifecycle!lifecycleVars)
  <2> SUFFICES ASSUME HealthInv, [HealthNext]_healthVars
               PROVE  Lifecycle!LifecycleNext \/ UNCHANGED Lifecycle!lifecycleVars
    OBVIOUS
  <2> USE DEF Lifecycle!lifecycleVars
  <2>1. live \in BOOLEAN /\ reason \in Options /\ VerdictUnderWay \in BOOLEAN
    BY DEF HealthInv, HealthTypeOK, VerdictUnderWay
  <2>2. ASSUME NEW t \in Threads, CallStop(t)
        PROVE  Lifecycle!Stop \/ UNCHANGED Lifecycle!lifecycleVars
    <3>1. CASE live
      <4>1. live' = FALSE /\ reason' = reason /\ VerdictUnderWay' \in BOOLEAN
        BY <2>2 DEF CallStop, VerdictUnderWay
      <4>2. ~VerdictUnderWay
        BY <3>1 DEF VerdictUnderWay
      <4> QED BY <2>1, <3>1, <4>1, <4>2 DEF Lifecycle!Stop
    <3>2. CASE ~live
      <4> DEFINE s == [at |-> "lock", op |-> "stop", arg |-> Shutdown]
      <4>1. s \in ThreadState /\ s.at = "lock" /\ Goes(t, s) /\ thread[t].at # "loaded"
            /\ live' = live /\ reason' = reason
        BY <2>1, <2>2, <3>2 DEF CallStop, ThreadState, Resting
      <4> HIDE DEF s
      <4> QED BY <4>1, UnderWayStays
    <3> QED BY <3>1, <3>2
  <2>3. ASSUME NEW t \in Threads, LoadLive(t) PROVE UNCHANGED Lifecycle!lifecycleVars
    <3> DEFINE s == [at |-> "loaded", op |-> thread[t].op, arg |-> thread[t].arg,
                     seen |-> live]
    <3>1. /\ thread[t].at = "held" /\ thread[t].op # "snapshot" /\ Goes(t, s)
          /\ live' = live /\ reason' = reason
      BY <2>3 DEF LoadLive
    <3>2. s \in ThreadState /\ s.seen = live
      BY <2>1, <3>1, ThreadFields DEF ThreadState, HealthInv
    <3> HIDE DEF s
    <3>3. CASE live
      BY <3>1, <3>3 DEF VerdictUnderWay
    <3>4. CASE ~live
      BY <3>1, <3>2, <3>4, UnderWayStays
    <3> QED BY <3>3, <3>4
  <2>4. ASSUME NEW t \in Threads, Write(t)
        PROVE  Lifecycle!LifecycleNext \/ UNCHANGED Lifecycle!lifecycleVars
    <3>1. /\ live' = live /\ thread[t].at = "loaded"
          /\ reason' = NewReason(thread[t]) /\ thread' = [thread EXCEPT ![t] = [at |-> "idle"]]
      BY <2>4 DEF Write, Goes
    <3>2. reason' \in Options
      <4>1. thread[t].arg \in Reasons \cup {Shutdown}
        BY <3>1, ThreadFields DEF HealthInv
      <4> QED BY <2>1, <3>1, <4>1 DEF NewReason, Options
    <3>3. \A u \in Threads : thread[u].at = "loaded" => u = t
      BY <3>1 DEF HealthInv, HealthTypeOK
    <3>4. VerdictUnderWay' = FALSE
      <4>1. \A u \in Threads : thread'[u].at # "loaded"
        BY <3>1, <3>3 DEF HealthInv, HealthTypeOK
      <4> QED BY <4>1 DEF VerdictUnderWay
    <3>5. CASE live
      <4>1. ~VerdictUnderWay
        BY <3>5 DEF VerdictUnderWay
      <4>2. VerdictUnderWay' = VerdictUnderWay
        BY <2>1, <3>4, <4>1
      <4> QED BY <3>1, <3>2, <3>5, <4>2
              DEF Lifecycle!LifecycleNext, Lifecycle!GiveVerdict
    <3>6. CASE ~live /\ thread[t].seen
      <4>1. VerdictUnderWay = TRUE
        BY <3>1, <3>6 DEF VerdictUnderWay
      <4> QED BY <3>1, <3>2, <3>4, <3>6, <4>1
              DEF Lifecycle!LifecycleNext, Lifecycle!GiveLateVerdict
    <3>7. CASE ~live /\ ~thread[t].seen
      <4>1. ~VerdictUnderWay
        BY <3>3, <3>7 DEF VerdictUnderWay
      <4>2. VerdictUnderWay' = VerdictUnderWay
        BY <2>1, <3>4, <4>1
      <4>3. reason' = Shutdown \/ reason' = reason
        BY <3>1, <3>7 DEF NewReason
      <4> QED BY <3>1, <3>7, <4>1, <4>2, <4>3
              DEF Lifecycle!LifecycleNext, Lifecycle!ShowShutdown
    <3> QED BY <3>5, <3>6, <3>7
  <2>5. ASSUME NEW t \in Threads,
               \/ \E r \in Reasons \cup {Shutdown} : CallPause(t, r)
               \/ CallMarkReady(t) \/ CallSnapshot(t) \/ Lock(t)
               \/ ReadReason(t) \/ ReturnSnapshot(t)
        PROVE  UNCHANGED Lifecycle!lifecycleVars
    BY <2>5, QuietHealth
  <2>6. CASE UNCHANGED healthVars
    BY <2>6 DEF healthVars, VerdictUnderWay
  <2> QED BY <2>2, <2>3, <2>4, <2>5, <2>6 DEF HealthNext, Lifecycle!LifecycleNext
<1> QED BY <1>1, <1>2, HealthAlways, PTL
        DEF ImplementsLifecycle, Lifecycle!LifecycleSpec, HealthSafety

\* A snapshot that is marked late began after a stop() had returned, so what
\* it reads of either half is the shutdown.
LateInv ==
    /\ \A t \in Threads :
            /\ thread[t].at \in {"lock", "held", "read"} /\ thread[t].op = "snapshot"
               /\ thread[t].late => stopReturned
            /\ thread[t].at = "read" /\ thread[t].late => thread[t].reason = Shutdown
    /\ LateSnapshots

LEMMA LateMove ==
    ASSUME HealthInv, LateInv, NEW t \in Threads, NEW s, Goes(t, s),
           stopReturned => stopReturned',
           s.at \in {"lock", "held", "read"} /\ s.op = "snapshot" /\ s.late => stopReturned,
           s.at = "read" /\ s.late => s.reason = Shutdown,
           s.at = "returned" /\ s.shown.late =>
                ~s.shown.live /\ ~s.shown.ready /\ s.shown.reason = Shutdown
    PROVE  LateInv'
<1>1. \A u \in Threads : thread'[u] = IF u = t THEN s ELSE thread[u]
  BY DEF Goes, HealthInv, HealthTypeOK
<1> QED BY <1>1 DEF LateInv, LateSnapshots

LEMMA LateNextInv == HealthInv /\ LateInv /\ [HealthNext]_healthVars => LateInv'
<1> SUFFICES ASSUME HealthInv, LateInv, [HealthNext]_healthVars PROVE LateInv'
  OBVIOUS
<1> USE DEF HealthInv
<1>1. ASSUME NEW t \in Threads, NEW r \in Reasons \cup {Shutdown},
             CallPause(t, r) \/ CallMarkReady(t) \/ CallStop(t)
      PROVE  LateInv'
  BY <1>1, LateMove DEF CallPause, CallMarkReady, CallStop
<1>2. ASSUME NEW t \in Threads, CallSnapshot(t) PROVE LateInv'
  BY <1>2, LateMove DEF CallSnapshot
<1>3. ASSUME NEW t \in Threads, Lock(t) PROVE LateInv'
  <2> DEFINE s == [thread[t] EXCEPT !.at = "held"]
  <2>1. thread[t] \in ThreadState /\ thread[t].at = "lock"
    BY <1>3, ThreadFields DEF Lock
  <2>2. /\ s.at = "held" /\ s.op = thread[t].op
        /\ s.op = "snapshot" => s.late = thread[t].late
    BY <2>1 DEF ThreadState, Idle, Shown
  <2>3. Goes(t, s) /\ stopReturned' = stopReturned
    BY <1>3 DEF Lock, Goes
  <2> HIDE DEF s
  <2>4. s.op = "snapshot" /\ s.late => stopReturned
    BY <2>1, <2>2 DEF LateInv
  <2> QED BY <2>2, <2>3, <2>4, LateMove
<1>4. ASSUME NEW t \in Threads, LoadLive(t) \/ Write(t) PROVE LateInv'
  <2>1. CASE LoadLive(t)
    BY <2>1, LateMove DEF LoadLive
  <2>2. CASE Write(t)
    <3>1. stopReturned => stopReturned'
      BY <2>2 DEF Write
    <3> QED BY <2>2, <3>1, LateMove DEF Write
  <2> QED BY <1>4, <2>1, <2>2
<1>5. ASSUME NEW t \in Threads, ReadReason(t) PROVE LateInv'
  <2> DEFINE s == [at |-> "read", op |-> "snapshot", late |-> thread[t].late,
                   reason |-> reason]
  <2>1. thread[t].late => stopReturned /\ reason = Shutdown
    BY <1>5 DEF ReadReason, LateInv
  <2>2. Goes(t, s) /\ stopReturned' = stopReturned
    BY <1>5 DEF ReadReason
  <2>3. s.at = "read" /\ (s.late => stopReturned /\ s.reason = Shutdown)
    BY <2>1
  <2> HIDE DEF s
  <2> QED BY <2>2, <2>3, LateMove
<1>6. ASSUME NEW t \in Threads, ReturnSnapshot(t) PROVE LateInv'
  <2>1. thread[t] \in ThreadState /\ thread[t].at = "read"
    BY <1>6, ThreadFields DEF ReturnSnapshot
  <2>2. thread[t].op = "snapshot"
    BY <2>1 DEF ThreadState, Idle, Shown
  <2>3. thread[t].late => ~live /\ thread[t].reason = Shutdown
    BY <2>1, <2>2 DEF LateInv
  <2> DEFINE s == [at |-> "returned", shown |-> ShownTo(thread[t])]
  <2>4. Goes(t, s) /\ stopReturned' = stopReturned
    BY <1>6 DEF ReturnSnapshot
  <2>5. s.at = "returned" /\ (s.shown.late =>
            ~s.shown.live /\ ~s.shown.ready /\ s.shown.reason = Shutdown)
    BY <2>3 DEF ShownTo
  <2> HIDE DEF s
  <2> QED BY <2>4, <2>5, LateMove
<1>7. CASE UNCHANGED healthVars
  BY <1>7 DEF healthVars, LateInv, LateSnapshots
<1> QED BY <1>1, <1>2, <1>3, <1>4, <1>5, <1>6, <1>7 DEF HealthNext

\* snapshot(): called after a stop() has returned it says so in all its parts,
\* though it reads them one after the other.
THEOREM LateSnapshotsShowShutdown == HealthSafety => []LateSnapshots
<1>1. HealthInit => LateInv
  BY DEF HealthInit, LateInv, LateSnapshots
<1>2. LateInv => LateSnapshots
  BY DEF LateInv
<1> QED BY <1>1, <1>2, LateNextInv, HealthAlways, PTL DEF HealthSafety

------------------------------------------------------------------------------
(* Metrics.                                                                *)

\* The threads inside increment(k).
Pending(k) == {t \in Threads : /\ user[t].at \in {"waiting", "holding", "read"}
                               /\ user[t].op = "increment"
                               /\ user[t].key = k}

AtMost(a, b) == \A k \in MetricKeys : a[k] <= b[k]

\* What was begun has ended or is pending.
Accounted ==
    \A k \in MetricKeys :
        IsFiniteSet(Pending(k)) /\ begun[k] = ended[k] + Cardinality(Pending(k))

\* Who read a count, or copied some, holds the guard, so they are still the
\* counts; who waits for a snapshot has called it before now and copied nothing;
\* what was shown is a thing of the past.
UsersCurrent ==
    \A t \in Threads :
        /\ user[t].at = "read" => user[t].seen = values[user[t].key]
        /\ user[t].at \in {"waiting", "holding"} /\ user[t].op = "snapshot"
                => /\ AtMost(user[t].since, ended)
                   /\ user[t].at = "waiting" => DOMAIN user[t].copied = {}
                   /\ \A k \in DOMAIN user[t].copied : user[t].copied[k] = values[k]
        /\ user[t].at = "shown" => AtMost(user[t].shown, values)

MetricsInv ==
    MetricsTypeOK /\ CountsExact /\ Accounted /\ UsersCurrent /\ SnapshotsOfAMoment

LEMMA UserFields ==
    ASSUME MetricsTypeOK, NEW t \in Threads
    PROVE  /\ user[t] \in Users
           /\ user[t].at \in {"resting", "waiting", "holding", "read", "shown"}
           /\ user[t].at \in {"waiting", "holding"} => user[t].op \in {"increment", "snapshot"}
           /\ user[t].at \in {"waiting", "holding"} /\ user[t].op = "increment"
                => user[t].key \in MetricKeys
           /\ user[t].at = "read" =>
                /\ user[t].op = "increment" /\ user[t].key \in MetricKeys
                /\ user[t].seen \in 0..MAX
           /\ user[t].at \in {"waiting", "holding"} /\ user[t].op = "snapshot"
                => user[t].since \in Increments /\ user[t].copied \in Partial
           /\ user[t].at = "shown" =>
                /\ user[t].shown \in Counts
                /\ user[t].since \in Increments /\ user[t].until \in Increments
<1>1. user[t] \in Users
  BY DEF MetricsTypeOK
<1> QED BY <1>1 DEF Users

LEMMA UserBecomes ==
    ASSUME MetricsTypeOK, NEW t \in Threads, NEW s \in Users, Becomes(t, s)
    PROVE  /\ user' \in [Threads -> Users]
           /\ \A u \in Threads : user'[u] = IF u = t THEN s ELSE user[u]
BY DEF MetricsTypeOK, Becomes

\* Capping respects order, and raising a capped count is capping a raised one.
LEMMA CappedMonotone ==
    ASSUME NEW m \in Nat, NEW n \in Nat, m <= n
    PROVE  Capped(m) <= Capped(n)
BY MetricsAssumption DEF Capped

LEMMA CappedNext ==
    ASSUME NEW n \in Nat
    PROVE  /\ SaturatingAdd(Capped(n)) = Capped(n + 1)
           /\ Capped(n) \in 0..MAX
           /\ Capped(n) <= Capped(n + 1)
BY MetricsAssumption DEF Capped, SaturatingAdd

\* A thread that is pending on the same key as before does not change Pending.
LEMMA SamePending ==
    ASSUME NEW k \in MetricKeys,
           \A u \in Threads :
              (/\ user'[u].at \in {"waiting", "holding", "read"}
               /\ user'[u].op = "increment" /\ user'[u].key = k)
              <=> (/\ user[u].at \in {"waiting", "holding", "read"}
                   /\ user[u].op = "increment" /\ user[u].key = k)
    PROVE  Pending(k)' = Pending(k)
BY DEF Pending

LEMMA MetricsInitInv == MetricsInit => MetricsInv
<1> SUFFICES ASSUME MetricsInit PROVE MetricsInv
  OBVIOUS
<1> USE DEF MetricsInit
<1>1. \A t \in Threads : user[t].at = "resting" /\ guard # t
  BY MetricsAssumption
<1>2. [at |-> "resting"] \in Users
  BY DEF Users
<1>3. MetricsTypeOK
  BY <1>1, <1>2, MetricsAssumption DEF MetricsTypeOK, Counts, Increments
<1>4. CountsExact
  BY MetricsAssumption DEF CountsExact, Capped
<1>5. Accounted
  <2>1. \A k \in MetricKeys : Pending(k) = {}
    BY <1>1 DEF Pending
  <2> QED BY <2>1, FS_EmptySet DEF Accounted
<1>6. UsersCurrent /\ SnapshotsOfAMoment
  BY <1>1 DEF UsersCurrent, SnapshotsOfAMoment
<1> QED BY <1>3, <1>4, <1>5, <1>6 DEF MetricsInv

LEMMA CallIncrementKeeps ==
    ASSUME MetricsInv, NEW t \in Threads, NEW k \in MetricKeys, CallIncrement(t, k)
    PROVE  MetricsInv'
<1> DEFINE s == [at |-> "waiting", op |-> "increment", key |-> k]
<1>1. /\ Free(t) /\ begun' = [begun EXCEPT ![k] = @ + 1] /\ Becomes(t, s)
      /\ UNCHANGED <<values, guard, ended>>
  BY DEF CallIncrement
<1>2. s \in Users /\ s.at = "waiting" /\ s.op = "increment" /\ s.key = k
  BY DEF Users
<1> HIDE DEF s
<1>3. /\ user' \in [Threads -> Users]
      /\ \A u \in Threads : user'[u] = IF u = t THEN s ELSE user[u]
  BY <1>1, <1>2, UserBecomes DEF MetricsInv
<1>4. MetricsTypeOK /\ user[t].at \in {"resting", "shown"}
  BY <1>1 DEF Free, MetricsInv
<1>5. begun' \in Increments /\ \A j \in MetricKeys : begun[j] <= begun'[j] /\ begun[j] \in Nat
  BY <1>1, <1>4 DEF MetricsTypeOK, Increments
<1>6. MetricsTypeOK'
  BY <1>1, <1>2, <1>3, <1>4, <1>5 DEF MetricsTypeOK
<1>7. CountsExact'
  BY <1>1 DEF MetricsInv, CountsExact
<1>8. Accounted'
  <2> SUFFICES ASSUME NEW j \in MetricKeys
               PROVE  (IsFiniteSet(Pending(j)) /\ begun[j] = ended[j] + Cardinality(Pending(j)))'
    BY DEF Accounted
  <2>1. /\ IsFiniteSet(Pending(j)) /\ begun[j] = ended[j] + Cardinality(Pending(j))
        /\ ended[j] \in Nat /\ Cardinality(Pending(j)) \in Nat
    BY <1>4, FS_CardinalityType DEF MetricsInv, Accounted, MetricsTypeOK, Increments
  <2>2. CASE j = k
    <3>1. Pending(k)' = Pending(k) \cup {t} /\ t \notin Pending(k)
      BY <1>2, <1>3, <1>4 DEF Pending
    <3>2. IsFiniteSet(Pending(k))
      BY <2>1, <2>2
    <3>3. /\ IsFiniteSet(Pending(k) \cup {t})
          /\ Cardinality(Pending(k) \cup {t}) = Cardinality(Pending(k)) + 1
      BY <3>1, <3>2, FS_AddElement
    <3>4. begun'[k] = begun[k] + 1
      BY <1>1, <1>4 DEF MetricsTypeOK, Increments
    <3> QED BY <1>1, <2>1, <2>2, <3>1, <3>3, <3>4
  <2>3. CASE j # k
    <3>1. Pending(j)' = Pending(j)
      BY <1>2, <1>3, <1>4, <2>3, SamePending
    <3>2. begun'[j] = begun[j]
      BY <1>1, <1>4, <2>3 DEF MetricsTypeOK, Increments
    <3> QED BY <1>1, <2>1, <3>1, <3>2
  <2> QED BY <2>2, <2>3
<1>9. UsersCurrent'
  BY <1>1, <1>2, <1>3 DEF MetricsInv, UsersCurrent, AtMost
<1>10. SnapshotsOfAMoment'
  BY <1>2, <1>3 DEF MetricsInv, SnapshotsOfAMoment
<1> QED BY <1>6, <1>7, <1>8, <1>9, <1>10 DEF MetricsInv

\* A step that moves one thread, from no increment to no increment or inside
\* one, and leaves the counters alone.
LEMMA QuietStep ==
    ASSUME MetricsInv, NEW t \in Threads, NEW s \in Users, Becomes(t, s),
           UNCHANGED <<values, begun, ended>>, MetricsTypeOK',
           \A k \in MetricKeys :
              (/\ s.at \in {"waiting", "holding", "read"}
               /\ s.op = "increment" /\ s.key = k)
              <=> (/\ user[t].at \in {"waiting", "holding", "read"}
                   /\ user[t].op = "increment" /\ user[t].key = k),
           s.at = "read" => s.seen = values[s.key],
           s.at \in {"waiting", "holding"} /\ s.op = "snapshot" =>
                /\ AtMost(s.since, ended)
                /\ s.at = "waiting" => DOMAIN s.copied = {}
                /\ \A k \in DOMAIN s.copied : s.copied[k] = values[k],
           s.at = "shown" => /\ s.shown = values /\ s.until = begun
                             /\ AtMost(s.since, ended)
    PROVE  MetricsInv'
<1>1. /\ user' \in [Threads -> Users]
      /\ \A u \in Threads : user'[u] = IF u = t THEN s ELSE user[u]
  BY UserBecomes DEF MetricsInv
<1>2. CountsExact'
  BY DEF MetricsInv, CountsExact
<1>3. Accounted'
  <2> SUFFICES ASSUME NEW k \in MetricKeys
               PROVE  (IsFiniteSet(Pending(k)) /\ begun[k] = ended[k] + Cardinality(Pending(k)))'
    BY DEF Accounted
  <2>1. Pending(k)' = Pending(k)
    BY <1>1, SamePending
  <2> QED BY <2>1 DEF MetricsInv, Accounted
<1>4. values \in Counts /\ begun \in Increments /\ ended \in Increments
  BY DEF MetricsInv, MetricsTypeOK
<1>5. \A k \in MetricKeys : values[k] \in Int
  BY <1>4 DEF Counts
<1>6. UsersCurrent'
  BY <1>1, <1>5 DEF MetricsInv, UsersCurrent, AtMost
<1>7. SnapshotsOfAMoment'
  <2> SUFFICES ASSUME NEW u \in Threads, user'[u].at = "shown"
               PROVE  /\ \A k \in MetricKeys :
                            /\ Capped(user'[u].since[k]) <= user'[u].shown[k]
                            /\ user'[u].shown[k] <= Capped(user'[u].until[k])
                      /\ \A v \in Threads : user'[v].at = "shown" =>
                            \/ AtMost(user'[u].shown, user'[v].shown)
                            \/ AtMost(user'[v].shown, user'[u].shown)
    BY DEF SnapshotsOfAMoment, AtMost, Capped
  <2>1. ASSUME NEW k \in MetricKeys
        PROVE  /\ Capped(user'[u].since[k]) <= user'[u].shown[k]
               /\ user'[u].shown[k] <= Capped(user'[u].until[k])
    <3>1. CASE u # t
      BY <1>1, <3>1 DEF MetricsInv, SnapshotsOfAMoment
    <3>2. CASE u = t
      <4>1. user'[u] = s /\ s.at = "shown"
        BY <1>1, <3>2
      <4>2. s.since \in Increments
        BY <4>1 DEF Users
      <4>3. s.since[k] \in Nat /\ ended[k] \in Nat /\ begun[k] \in Nat /\ s.since[k] <= ended[k]
        BY <1>4, <4>1, <4>2 DEF Increments, AtMost
      <4>4. ended[k] <= begun[k]
        BY <4>3, FS_CardinalityType DEF MetricsInv, Accounted
      <4>5. values[k] = Capped(ended[k])
        BY DEF MetricsInv, CountsExact
      <4>6. Capped(s.since[k]) <= values[k] /\ values[k] <= Capped(begun[k])
        BY <4>3, <4>4, <4>5, CappedMonotone
      <4> QED BY <4>1, <4>6
    <3> QED BY <3>1, <3>2
  <2>2. ASSUME NEW v \in Threads, user'[v].at = "shown"
        PROVE  \/ AtMost(user'[u].shown, user'[v].shown)
               \/ AtMost(user'[v].shown, user'[u].shown)
    <3>1. CASE u # t /\ v # t
      BY <1>1, <2>2, <3>1 DEF MetricsInv, SnapshotsOfAMoment, AtMost
    <3>2. CASE u = t
      <4>1. user'[u].shown = values
        BY <1>1, <3>2
      <4>2. AtMost(user'[v].shown, values)
        BY <1>1, <1>5, <2>2 DEF MetricsInv, UsersCurrent, AtMost
      <4> QED BY <4>1, <4>2
    <3>3. CASE v = t
      <4>1. user'[v].shown = values
        BY <1>1, <2>2, <3>3
      <4>2. AtMost(user'[u].shown, values)
        BY <1>1, <1>5 DEF MetricsInv, UsersCurrent, AtMost
      <4> QED BY <4>1, <4>2
    <3> QED BY <3>1, <3>2, <3>3
  <2> QED BY <2>1, <2>2
<1> QED BY <1>2, <1>3, <1>6, <1>7 DEF MetricsInv

LEMMA CallSnapshotKeeps ==
    ASSUME MetricsInv, NEW t \in Threads, CallSnapshotOfCounts(t)
    PROVE  MetricsInv'
<1> DEFINE none == [k \in {} |-> 0]
           s == [at |-> "waiting", op |-> "snapshot", since |-> ended, copied |-> none]
<1>1. /\ Free(t) /\ Becomes(t, s) /\ UNCHANGED <<values, guard, begun, ended>>
      /\ MetricsTypeOK
  BY DEF CallSnapshotOfCounts, MetricsInv
<1>2. none \in Partial /\ DOMAIN none = {}
  <2>1. none \in [{} -> 0..MAX]
    OBVIOUS
  <2> QED BY <2>1 DEF Partial
<1> HIDE DEF none
<1>3. /\ s \in Users /\ s.at = "waiting" /\ s.op = "snapshot" /\ s.since = ended
      /\ DOMAIN s.copied = {}
  BY <1>1, <1>2 DEF Users, MetricsTypeOK
<1> HIDE DEF s
<1>4. user[t].at \in {"resting", "shown"}
  BY <1>1 DEF Free
<1>5. MetricsTypeOK'
  BY <1>1, <1>3, <1>4, UserBecomes DEF MetricsTypeOK
<1>6. AtMost(ended, ended)
  BY <1>1 DEF AtMost, MetricsTypeOK, Increments
<1> QED BY <1>1, <1>3, <1>4, <1>5, <1>6, QuietStep

LEMMA AcquireKeeps ==
    ASSUME MetricsInv, NEW t \in Threads, Acquire(t)
    PROVE  MetricsInv'
<1> DEFINE s == [user[t] EXCEPT !.at = "holding"]
<1>1. /\ user[t].at = "waiting" /\ guard = None /\ guard' = t /\ Becomes(t, s)
      /\ UNCHANGED <<values, begun, ended>> /\ MetricsTypeOK
  BY DEF Acquire, Becomes, MetricsInv
<1>2. user[t] \in Users
  BY <1>1, UserFields
<1>3. /\ s \in Users /\ s.at = "holding" /\ s.op = user[t].op
      /\ s.op = "increment" => s.key = user[t].key
      /\ s.op = "snapshot" => s.since = user[t].since /\ s.copied = user[t].copied
  BY <1>1, <1>2 DEF Users
<1> HIDE DEF s
<1>4. \A u \in Threads : user[u].at \notin {"holding", "read"}
  BY <1>1, MetricsAssumption DEF MetricsTypeOK
<1>5. MetricsTypeOK'
  BY <1>1, <1>3, <1>4, UserBecomes DEF MetricsTypeOK
<1>6. s.op = "snapshot" => AtMost(s.since, ended) /\ DOMAIN s.copied = {}
  BY <1>1, <1>3 DEF MetricsInv, UsersCurrent
<1> QED BY <1>1, <1>3, <1>5, <1>6, QuietStep

LEMMA ReadCountKeeps ==
    ASSUME MetricsInv, NEW t \in Threads, ReadCount(t)
    PROVE  MetricsInv'
<1> DEFINE s == [at |-> "read", op |-> "increment", key |-> user[t].key,
                 seen |-> values[user[t].key]]
<1>1. /\ user[t].at = "holding" /\ user[t].op = "increment" /\ Becomes(t, s)
      /\ UNCHANGED <<values, guard, begun, ended>> /\ MetricsTypeOK
  BY DEF ReadCount, MetricsInv
<1>2. user[t].key \in MetricKeys
  BY <1>1, UserFields
<1>3. /\ s \in Users /\ s.at = "read" /\ s.op = "increment" /\ s.key = user[t].key
      /\ s.seen = values[s.key]
  BY <1>1, <1>2 DEF Users, MetricsTypeOK, Counts
<1> HIDE DEF s
<1>4. MetricsTypeOK'
  BY <1>1, <1>3, UserBecomes DEF MetricsTypeOK
<1> QED BY <1>1, <1>3, <1>4, QuietStep

LEMMA CopyCountKeeps ==
    ASSUME MetricsInv, NEW t \in Threads, CopyCount(t)
    PROVE  MetricsInv'
<1>1. /\ user[t].at = "holding" /\ user[t].op = "snapshot"
      /\ UNCHANGED <<values, guard, begun, ended>> /\ MetricsTypeOK
  BY DEF CopyCount, MetricsInv
<1>2. PICK k \in MetricKeys : Becomes(t, Copied(user[t], k))
  BY DEF CopyCount
<1> DEFINE more == [j \in DOMAIN user[t].copied \cup {k} |->
                        IF j = k THEN values[k] ELSE user[t].copied[j]]
           s == [user[t] EXCEPT !.copied = more]
<1>3. Becomes(t, s)
  BY <1>2 DEF Copied
<1>4. user[t] \in Users /\ user[t].copied \in Partial /\ values[k] \in 0..MAX
  BY <1>1, UserFields DEF MetricsTypeOK, Counts
<1>5. more \in Partial
  <2>1. PICK S \in SUBSET MetricKeys : user[t].copied \in [S -> 0..MAX]
    BY <1>4 DEF Partial
  <2>2. more \in [S \cup {k} -> 0..MAX] /\ S \cup {k} \in SUBSET MetricKeys
    BY <1>4, <2>1
  <2> QED BY <2>2 DEF Partial
<1>6. \A j \in DOMAIN more : more[j] = values[j]
  BY <1>1 DEF MetricsInv, UsersCurrent
<1> HIDE DEF more
<1>7. /\ s \in Users /\ s.at = "holding" /\ s.op = "snapshot"
      /\ s.since = user[t].since /\ s.copied = more
  BY <1>1, <1>4, <1>5 DEF Users
<1> HIDE DEF s
<1>8. MetricsTypeOK'
  BY <1>1, <1>3, <1>7, UserBecomes DEF MetricsTypeOK
<1>9. AtMost(s.since, ended)
  BY <1>1, <1>7 DEF MetricsInv, UsersCurrent
<1> QED BY <1>1, <1>3, <1>6, <1>7, <1>8, <1>9, QuietStep

\* What a snapshot returns are the counts of the moment it returns: its copies
\* are current, and it has one of every counter.
LEMMA ReturnCountsKeeps ==
    ASSUME MetricsInv, NEW t \in Threads, ReturnCounts(t)
    PROVE  MetricsInv'
<1> DEFINE s == [at |-> "shown", shown |-> user[t].copied, since |-> user[t].since,
                 until |-> begun]
<1>1. /\ user[t].at = "holding" /\ user[t].op = "snapshot" /\ Becomes(t, s)
      /\ DOMAIN user[t].copied = MetricKeys
      /\ guard' = None /\ UNCHANGED <<values, begun, ended>> /\ MetricsTypeOK
  BY DEF ReturnCounts, MetricsInv
<1>2. user[t].since \in Increments /\ user[t].copied \in Partial
  BY <1>1, UserFields
<1>3. user[t].copied = values
  <2>1. user[t].copied \in [MetricKeys -> 0..MAX]
    BY <1>1, <1>2 DEF Partial
  <2>2. \A k \in MetricKeys : user[t].copied[k] = values[k]
    BY <1>1 DEF MetricsInv, UsersCurrent
  <2> QED BY <1>1, <2>1, <2>2 DEF MetricsTypeOK, Counts
<1>4. /\ s \in Users /\ s.at = "shown" /\ s.shown = values /\ s.until = begun
      /\ s.since = user[t].since
  BY <1>1, <1>2, <1>3 DEF Users, MetricsTypeOK
<1> HIDE DEF s
<1>5. \A u \in Threads : user[u].at \in {"holding", "read"} <=> u = t
  BY <1>1 DEF MetricsTypeOK
<1>6. MetricsTypeOK'
  BY <1>1, <1>4, <1>5, UserBecomes, MetricsAssumption DEF MetricsTypeOK
<1>7. AtMost(s.since, ended)
  BY <1>1, <1>4 DEF MetricsInv, UsersCurrent
<1> QED BY <1>1, <1>4, <1>6, <1>7, QuietStep

LEMMA WriteCountKeeps ==
    ASSUME MetricsInv, NEW t \in Threads, WriteCount(t)
    PROVE  MetricsInv'
<1> PICK k : k = user[t].key
  OBVIOUS
<1> DEFINE s == [at |-> "resting"]
<1>1. /\ user[t].at = "read" /\ values' = [values EXCEPT ![k] = SaturatingAdd(user[t].seen)]
      /\ ended' = [ended EXCEPT ![k] = @ + 1] /\ guard' = None
      /\ Becomes(t, s) /\ begun' = begun /\ MetricsTypeOK
  BY DEF WriteCount, MetricsInv
<1>2. s \in Users /\ s.at = "resting"
  BY DEF Users
<1>3. k \in MetricKeys /\ k = user[t].key /\ user[t].op = "increment"
  BY <1>1, UserFields
<1>4. /\ user' \in [Threads -> Users]
      /\ \A u \in Threads : user'[u] = IF u = t THEN s ELSE user[u]
  BY <1>1, <1>2, UserBecomes
<1> HIDE DEF s
<1>5. ended \in Increments /\ begun \in Increments /\ values \in Counts
  BY <1>1 DEF MetricsTypeOK
<1>6. ended' \in Increments /\ ended'[k] = ended[k] + 1 /\ ended[k] \in Nat
      /\ \A j \in MetricKeys : j # k => ended'[j] = ended[j]
  BY <1>1, <1>3, <1>5 DEF Increments
<1>7. values[k] = Capped(ended[k]) /\ user[t].seen = values[k]
  BY <1>1, <1>3 DEF MetricsInv, CountsExact, UsersCurrent
<1>8. /\ SaturatingAdd(values[k]) = Capped(ended[k] + 1)
      /\ Capped(ended[k] + 1) \in 0..MAX
      /\ values[k] <= Capped(ended[k] + 1)
  BY <1>6, <1>7, CappedNext
<1>9. /\ values' \in Counts /\ values'[k] = Capped(ended'[k])
      /\ \A j \in MetricKeys : j # k => values'[j] = values[j]
  BY <1>1, <1>3, <1>5, <1>6, <1>7, <1>8 DEF Counts
<1>10. AtMost(values, values') /\ AtMost(ended, ended')
  BY <1>5, <1>6, <1>8, <1>9 DEF AtMost, Counts, Increments
<1>11. \A u \in Threads : user[u].at \in {"holding", "read"} <=> u = t
  BY <1>1 DEF MetricsTypeOK
<1>12. MetricsTypeOK'
  BY <1>1, <1>2, <1>4, <1>5, <1>6, <1>9, <1>11, MetricsAssumption DEF MetricsTypeOK
<1>13. CountsExact'
  BY <1>6, <1>9 DEF MetricsInv, CountsExact, Capped
<1>14. Accounted'
  <2> SUFFICES ASSUME NEW j \in MetricKeys
               PROVE  (IsFiniteSet(Pending(j)) /\ begun[j] = ended[j] + Cardinality(Pending(j)))'
    BY DEF Accounted
  <2>1. /\ IsFiniteSet(Pending(j)) /\ begun[j] = ended[j] + Cardinality(Pending(j))
        /\ Cardinality(Pending(j)) \in Nat
    BY FS_CardinalityType DEF MetricsInv, Accounted
  <2>2. CASE j = k
    <3>1. t \in Pending(k) /\ Pending(k)' = Pending(k) \ {t}
      BY <1>1, <1>2, <1>3, <1>4 DEF Pending
    <3>2. IsFiniteSet(Pending(k))
      BY <2>1, <2>2
    <3>3. /\ IsFiniteSet(Pending(k) \ {t})
          /\ Cardinality(Pending(k) \ {t}) = Cardinality(Pending(k)) - 1
      BY <3>1, <3>2, FS_RemoveElement
    <3> QED BY <1>1, <1>6, <2>1, <2>2, <3>1, <3>3
  <2>3. CASE j # k
    <3>1. Pending(j)' = Pending(j)
      BY <1>1, <1>2, <1>3, <1>4, <2>3, SamePending
    <3> QED BY <1>1, <1>6, <2>1, <2>3, <3>1
  <2> QED BY <2>2, <2>3
<1>15. UsersCurrent'
  <2> SUFFICES ASSUME NEW u \in Threads
               PROVE  /\ user'[u].at = "read" => user'[u].seen = values'[user'[u].key]
                      /\ user'[u].at \in {"waiting", "holding"} /\ user'[u].op = "snapshot"
                            => /\ AtMost(user'[u].since, ended')
                               /\ user'[u].at = "waiting" => DOMAIN user'[u].copied = {}
                               /\ \A j \in DOMAIN user'[u].copied :
                                        user'[u].copied[j] = values'[j]
                      /\ user'[u].at = "shown" => AtMost(user'[u].shown, values')
    BY DEF UsersCurrent, AtMost
  <2>1. CASE u = t
    BY <1>2, <1>4, <2>1
  <2>2. CASE u # t
    <3>1. user'[u] = user[u] /\ user[u].at \notin {"holding", "read"}
      BY <1>4, <1>11, <2>2
    <3>2. user[u].at \in {"waiting", "holding"} /\ user[u].op = "snapshot"
            => /\ AtMost(user[u].since, ended) /\ user[u].since \in Increments
               /\ user[u].at = "waiting" /\ DOMAIN user[u].copied = {}
      BY <1>1, <3>1, UserFields DEF MetricsInv, UsersCurrent
    <3>3. user[u].at = "shown" => AtMost(user[u].shown, values) /\ user[u].shown \in Counts
      BY <1>1, UserFields DEF MetricsInv, UsersCurrent
    <3> QED BY <1>5, <1>6, <1>9, <1>10, <3>1, <3>2, <3>3 DEF AtMost, Counts, Increments
  <2> QED BY <2>1, <2>2
<1>16. SnapshotsOfAMoment'
  BY <1>2, <1>4 DEF MetricsInv, SnapshotsOfAMoment
<1> QED BY <1>12, <1>13, <1>14, <1>15, <1>16 DEF MetricsInv

LEMMA MetricsNextInv ==
    MetricsInv /\ [MetricsNext]_metricsVars => MetricsInv'
<1> SUFFICES ASSUME MetricsInv, [MetricsNext]_metricsVars PROVE MetricsInv'
  OBVIOUS
<1>1. CASE UNCHANGED metricsVars
  BY <1>1 DEF metricsVars, MetricsInv, MetricsTypeOK, CountsExact, Accounted, Pending,
              UsersCurrent, AtMost, SnapshotsOfAMoment
<1>2. CASE MetricsNext
  <2>1. PICK t \in Threads :
            \/ \E k \in MetricKeys : CallIncrement(t, k)
            \/ CallSnapshotOfCounts(t)
            \/ Acquire(t) \/ ReadCount(t) \/ WriteCount(t)
            \/ CopyCount(t) \/ ReturnCounts(t)
    BY <1>2 DEF MetricsNext
  <2>2. CASE \E k \in MetricKeys : CallIncrement(t, k)
    BY <2>2, CallIncrementKeeps
  <2>3. CASE CallSnapshotOfCounts(t)
    BY <2>3, CallSnapshotKeeps
  <2>4. CASE Acquire(t)
    BY <2>4, AcquireKeeps
  <2>5. CASE ReadCount(t)
    BY <2>5, ReadCountKeeps
  <2>6. CASE WriteCount(t)
    BY <2>6, WriteCountKeeps
  <2>7. CASE CopyCount(t)
    BY <2>7, CopyCountKeeps
  <2>8. CASE ReturnCounts(t)
    BY <2>8, ReturnCountsKeeps
  <2> QED BY <2>1, <2>2, <2>3, <2>4, <2>5, <2>6, <2>7, <2>8
<1> QED BY <1>1, <1>2

\* The registry keeps its invariant in every behaviour.
THEOREM MetricsInvariant == MetricsSpec => []MetricsInv
<1> QED BY MetricsInitInv, MetricsNextInv, PTL DEF MetricsSpec

\* Types, and the guard is where the mutex says.
THEOREM MetricsTyped == MetricsSpec => []MetricsTypeOK
<1>1. MetricsInv => MetricsTypeOK
  BY DEF MetricsInv
<1> QED BY <1>1, MetricsInvariant, PTL

\* increment() loses nothing, counts nothing twice, and saturates.
THEOREM NoIncrementLost == MetricsSpec => []CountsExact
<1>1. MetricsInv => CountsExact
  BY DEF MetricsInv
<1> QED BY <1>1, MetricsInvariant, PTL

\* snapshot() is linearizable, though it copies the counters one after the
\* other: it has all that ended before it and nothing that began after it, and
\* snapshots agree on an order.
THEOREM SnapshotsLinear == MetricsSpec => []SnapshotsOfAMoment
<1>1. MetricsInv => SnapshotsOfAMoment
  BY DEF MetricsInv
<1> QED BY <1>1, MetricsInvariant, PTL

------------------------------------------------------------------------------
(* The two together.                                                       *)

\* The threads of a Telemetry run use its Health and its Registry as those modules
\* say, so that what is proved of each holds of the run.
THEOREM PartsAsAlone == TelemetrySpec => HealthSafety /\ MetricsSpec
<1>1. TelemetryInit => HealthInit /\ MetricsInit
  BY DEF TelemetryInit
<1>2. [TelemetryNext]_telemetryVars => [HealthNext]_healthVars
  BY DEF TelemetryNext, UseHealth, UseRegistry, telemetryVars
<1>3. [TelemetryNext]_telemetryVars => [MetricsNext]_metricsVars
  BY DEF TelemetryNext, UseHealth, UseRegistry, telemetryVars
<1> QED BY <1>1, <1>2, <1>3, PTL DEF TelemetrySpec, HealthSafety, MetricsSpec
==============================================================================
