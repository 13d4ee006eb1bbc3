-------------------------------- MODULE Health --------------------------------
(***************************************************************************)
(* telemetry::Health shared by the threads of one process: an atomic       *)
(* "live" and a mutex over the reason the process is not ready.  A step is *)
(* one access to one of the two (or the call, or the return), so that all  *)
(* interleavings of pause, mark_ready, stop and snapshot are there.  In    *)
(* particular stop() clears "live" outside the mutex, and snapshot() loads *)
(* "live" after it released the mutex (the guard is a temporary).          *)
(*                                                                         *)
(* Accesses to "live" are interleaved one by one: it is a single flag that *)
(* is only ever cleared, with Release stores and Acquire loads.            *)
(***************************************************************************)
EXTENDS ProcessThreads

CONSTANT Reasons    \* the reasons pause() may be given

Shutdown == "Shutdown"

ASSUME HealthAssumption ==
    /\ "DependencyUnavailable" \in Reasons
    /\ None \notin Threads
    /\ None \notin Reasons \cup {Shutdown}

VARIABLES
    live,           \* the AtomicBool
    reason,         \* the Option<Reason> under the mutex
    lock,           \* the thread that holds the mutex, or None
    thread,         \* per thread: where its call stands
    stopReturned    \* history: some stop() has returned

healthVars == <<live, reason, lock, thread, stopReturned>>

Options == Reasons \cup {Shutdown, None}

Snapshots == [live : BOOLEAN, ready : BOOLEAN, reason : Options, late : BOOLEAN]

\* The states of a thread.  "late" is history: the snapshot was called after
\* some stop() had returned.
Idle == [at : {"idle"}]
Shown == [at : {"returned"}, shown : Snapshots]
ThreadState ==
         Idle \cup Shown
    \cup [at : {"lock", "held"}, op : {"pause", "mark_ready", "stop"},
          arg : Reasons \cup {Shutdown}]
    \cup [at : {"loaded"}, op : {"pause", "mark_ready", "stop"},
          arg : Reasons \cup {Shutdown}, seen : BOOLEAN]
    \cup [at : {"lock", "held"}, op : {"snapshot"}, late : BOOLEAN]
    \cup [at : {"read"}, op : {"snapshot"}, late : BOOLEAN, reason : Options]

\* Types, and the guard is where the mutex says.
HealthTypeOK ==
    /\ live \in BOOLEAN
    /\ reason \in Options
    /\ lock \in Threads \cup {None}
    /\ thread \in [Threads -> ThreadState]
    /\ \A t \in Threads : thread[t].at \in {"held", "loaded"} <=> lock = t
    /\ stopReturned \in BOOLEAN

Resting(t) == thread[t].at \in {"idle", "returned"}

Goes(t, state) == thread' = [thread EXCEPT ![t] = state]

\* Health::default()
HealthInit ==
    /\ live = TRUE
    /\ reason = "DependencyUnavailable"
    /\ lock = None
    /\ thread = [t \in Threads |-> [at |-> "idle"]]
    /\ stopReturned = FALSE

CallPause(t, r) ==
    /\ Resting(t)
    /\ Goes(t, [at |-> "lock", op |-> "pause", arg |-> r])
    /\ UNCHANGED <<live, reason, lock, stopReturned>>

CallMarkReady(t) ==
    /\ Resting(t)
    /\ Goes(t, [at |-> "lock", op |-> "mark_ready", arg |-> Shutdown])
    /\ UNCHANGED <<live, reason, lock, stopReturned>>

\* stop() clears live at once and goes on as pause(Shutdown).
CallStop(t) ==
    /\ Resting(t)
    /\ live' = FALSE
    /\ Goes(t, [at |-> "lock", op |-> "stop", arg |-> Shutdown])
    /\ UNCHANGED <<reason, lock, stopReturned>>

CallSnapshot(t) ==
    /\ Resting(t)
    /\ Goes(t, [at |-> "lock", op |-> "snapshot", late |-> stopReturned])
    /\ UNCHANGED <<live, reason, lock, stopReturned>>

\* Mutant: the mutex excludes nobody.
LockShared(t) ==
    /\ thread[t].at = "lock"
    /\ lock' = t
    /\ thread' = [thread EXCEPT ![t].at = "held"]
    /\ UNCHANGED <<live, reason, stopReturned>>

Lock(t) ==
    /\ thread[t].at = "lock"
    /\ lock = None
    /\ lock' = t
    /\ thread' = [thread EXCEPT ![t].at = "held"]
    /\ UNCHANGED <<live, reason, stopReturned>>

\* Mutant: live is loaded, and the reason written, without the mutex.
LoadLiveUnlocked(t) ==
    /\ thread[t].at \in {"lock", "held"} /\ thread[t].op # "snapshot"
    /\ Goes(t, [at |-> "loaded", op |-> thread[t].op, arg |-> thread[t].arg,
                seen |-> live])
    /\ UNCHANGED <<live, reason, lock, stopReturned>>

\* pause, mark_ready and stop load live under the mutex.
LoadLive(t) ==
    /\ thread[t].at = "held" /\ thread[t].op # "snapshot"
    /\ Goes(t, [at |-> "loaded", op |-> thread[t].op, arg |-> thread[t].arg,
                seen |-> live])
    /\ UNCHANGED <<live, reason, lock, stopReturned>>

\* Mutant: mark_ready does not look at live.
NewReasonUnchecked(c) ==
    IF c.op = "mark_ready" THEN None
    ELSE IF c.seen THEN c.arg ELSE Shutdown

\* What a setter makes of the reason, given the live it saw.
NewReason(c) ==
    IF c.op = "mark_ready" THEN IF c.seen THEN None ELSE reason
    ELSE IF c.seen THEN c.arg ELSE Shutdown

\* The reason is written, the guard dropped, and the call returns.
Write(t) ==
    /\ thread[t].at = "loaded"
    /\ reason' = NewReason(thread[t])
    /\ lock' = None
    /\ stopReturned' = (stopReturned \/ thread[t].op = "stop")
    /\ Goes(t, [at |-> "idle"])
    /\ UNCHANGED live

\* snapshot() copies the reason and drops the guard ...
ReadReason(t) ==
    /\ thread[t].at = "held" /\ thread[t].op = "snapshot"
    /\ Goes(t, [at |-> "read", op |-> "snapshot", late |-> thread[t].late,
                reason |-> reason])
    /\ lock' = None
    /\ UNCHANGED <<live, reason, stopReturned>>

\* Mutant: the reason is not reported once the process is not live.
ShownWithoutReason(c) ==
    [live |-> live, ready |-> live /\ c.reason = None,
     reason |-> IF live THEN c.reason ELSE None, late |-> c.late]

\* The snapshot made of the reason read before and the live loaded now.
ShownTo(c) ==
    [live |-> live, ready |-> live /\ c.reason = None, reason |-> c.reason,
     late |-> c.late]

\* ... and only then loads live and returns.
ReturnSnapshot(t) ==
    /\ thread[t].at = "read"
    /\ Goes(t, [at |-> "returned", shown |-> ShownTo(thread[t])])
    /\ UNCHANGED <<live, reason, lock, stopReturned>>

Step(t) == LoadLive(t) \/ Write(t) \/ ReadReason(t) \/ ReturnSnapshot(t)

HealthNext ==
    \E t \in Threads :
        \/ \E r \in Reasons \cup {Shutdown} : CallPause(t, r)
        \/ CallMarkReady(t) \/ CallStop(t) \/ CallSnapshot(t)
        \/ Lock(t) \/ LoadLive(t) \/ Write(t)
        \/ ReadReason(t) \/ ReturnSnapshot(t)

HealthSafety == HealthInit /\ [][HealthNext]_healthVars

\* A thread inside a call is scheduled again, and the mutex does not starve it.
HealthFairness ==
    \A t \in Threads :
        /\ SF_healthVars(Lock(t))
        /\ WF_healthVars(Step(t))

HealthSpec == HealthSafety /\ HealthFairness

------------------------------------------------------------------------------
(* Properties *)

\* After a stop() has returned, no mark_ready or pause that was under way, and
\* none that comes later, takes the shutdown back.
StopSticks == stopReturned => ~live /\ reason = Shutdown

\* A snapshot called after a stop() has returned says so.
LateSnapshots ==
    \A t \in Threads :
        thread[t].at = "returned" /\ thread[t].shown.late =>
            /\ ~thread[t].shown.live /\ ~thread[t].shown.ready
            /\ thread[t].shown.reason = Shutdown

\* A setter that saw the process live before stop() cleared it is about to write.
VerdictUnderWay ==
    ~live /\ \E t \in Threads : thread[t].at = "loaded" /\ thread[t].seen

\* Health is a ProcessLifecycle: after stop() has cleared live, the one setter
\* that holds the mutex and saw it set may still write its verdict (mark_ready()
\* between its load and its write); whatever is written then is Shutdown, and no
\* pause or mark_ready replaces it.
Lifecycle == INSTANCE ProcessLifecycle
    WITH Verdicts <- Options, Initial <- "DependencyUnavailable",
         running <- live, late <- VerdictUnderWay
ImplementsLifecycle == Lifecycle!LifecycleSpec

\* Once stop() has cleared live, the reason becomes Shutdown for good, whatever
\* the other threads do meanwhile.
ShutdownShows == ~live ~> [](reason = Shutdown)

\* "Reads a consistent diagnostic snapshot" (snapshot): a process that is shown
\* as not live is shown with the reason Shutdown, the only one it can have.
SnapshotConsistent ==
    \A t \in Threads :
        thread[t].at = "returned" /\ ~thread[t].shown.live =>
            thread[t].shown.reason = Shutdown
==============================================================================
