-------------------------------- MODULE Pacer --------------------------------
(***************************************************************************)
(* One AsyncMutex<Option<Instant>> used as a rate limiter:                 *)
(*                                                                         *)
(*    let mut last = self.last_request.lock().await;                       *)
(*    if let Some(previous) = *last {                                      *)
(*        tokio::time::sleep(INTERVAL.saturating_sub(previous.elapsed()))  *)
(*            .await;                                                      *)
(*    }                                                                    *)
(*    *last = Some(Instant::now());                                        *)
(*    drop(last);                                                          *)
(*                                                                         *)
(* The mutex is tokio's, which hands the lock over in the order of the     *)
(* lock() calls: "queue" is that order, and its head is the task that      *)
(* holds the lock and sleeps.  A future that is dropped anywhere in this   *)
(* block leaves the queue and, if it was the holder, drops its guard       *)
(* without writing *last.  The timer never fires early; it may fire late.  *)
(***************************************************************************)
EXTENDS Integers, Sequences

CONSTANTS
    Interval,   \* REQUEST_INTERVAL or TIME_INTERVAL
    None        \* Option::None

VARIABLES
    now,        \* the monotonic clock (Instant::now())
    queue,      \* tasks in the order they called lock(); the head holds it
    last        \* the protected Option<Instant>

\* Mutant: the lock goes to the last that came, not to the first.
EnqueueUnfairly(t) ==
    /\ queue' = IF queue = << >> THEN <<t>> ELSE <<Head(queue), t>> \o Tail(queue)
    /\ UNCHANGED last

\* lock() is called: the task takes its place behind those already there.
Enqueue(t) ==
    /\ queue' = Append(queue, t)
    /\ UNCHANGED last

\* Mutant: the sleep is one unit short.
SlotDueEarly == last # None => now - last >= Interval - 1

\* The sleep of the holder is over (there is none before the first slot).
SlotDue == last # None => now - last >= Interval

\* The holder stamps its slot and drops the guard.
Grant(t) ==
    /\ queue # << >>
    /\ t = Head(queue)
    /\ SlotDue
    /\ queue' = Tail(queue)
    /\ last' = now

\* Mutant: a dropped future keeps its guard or its place.
LeaveNothing(t) ==
    /\ \E i \in DOMAIN queue : queue[i] = t
    /\ UNCHANGED <<queue, last>>

\* The queue without its i-th task.
Without(i) == SubSeq(queue, 1, i - 1) \o SubSeq(queue, i + 1, Len(queue))

\* The future is dropped while it waits for the lock or sleeps under it.
Leave(t) ==
    /\ \E i \in DOMAIN queue : queue[i] = t /\ queue' = Without(i)
    /\ UNCHANGED last
==============================================================================
