---------------------------- MODULE CallProgress ----------------------------
(***************************************************************************)
(* How the calls of one ReadOnlyClient get through its two rate limiters,  *)
(* with no contents: an abstraction of ReadOnlyClient that keeps timers as *)
(* the time they still have to run, so that time need not be bounded and   *)
(* "every call returns" can be asked of behaviours of any length.          *)
(* ReadOnlyClient is shown to implement its safety part.                   *)
(***************************************************************************)
EXTENDS Integers, Sequences

CONSTANTS
    Tasks,              \* concurrent callers
    REQUEST_INTERVAL,   \* least distance of two requests
    TIME_INTERVAL,      \* least distance of two time slots
    HTTP_TIMEOUT        \* the total timeout of a request

VARIABLES
    place,              \* where each task is suspended
    timeQueue,          \* waiting for the time slot, in the order of lock()
    requestQueue,       \* waiting for a request slot, in the order of lock()
    timeCooldown,       \* how long the next time slot is still away
    requestCooldown,    \* how long the next request slot is still away
    inFlight            \* per task: how long its request is under way, or 0

progressVars == <<place, timeQueue, requestQueue, timeCooldown,
                  requestCooldown, inFlight>>

Places == {"idle", "timeWait", "requestWait", "inFlight"}

ProgressTypeOK ==
    /\ place \in [Tasks -> Places]
    /\ timeQueue \in Seq(Tasks)
    /\ requestQueue \in Seq(Tasks)
    /\ timeCooldown \in 0 .. TIME_INTERVAL
    /\ requestCooldown \in 0 .. REQUEST_INTERVAL
    /\ inFlight \in [Tasks -> 0 .. HTTP_TIMEOUT]

ProgressInit ==
    /\ place = [t \in Tasks |-> "idle"]
    /\ timeQueue = << >> /\ timeCooldown = 0
    /\ requestQueue = << >> /\ requestCooldown = 0
    /\ inFlight = [t \in Tasks |-> 0]

Go(t, p) == place' = [place EXCEPT ![t] = p]

\* synchronize_clock is called.
StartSync(t) ==
    /\ place[t] = "idle"
    /\ Go(t, "timeWait")
    /\ timeQueue' = Append(timeQueue, t)
    /\ UNCHANGED <<requestQueue, timeCooldown, requestCooldown, inFlight>>

\* A read is called and passes require_clock().
StartRead(t) ==
    /\ place[t] = "idle"
    /\ Go(t, "requestWait")
    /\ requestQueue' = Append(requestQueue, t)
    /\ UNCHANGED <<timeQueue, timeCooldown, requestCooldown, inFlight>>

\* The task is in the queue.
Waits(queue, t) == \E i \in DOMAIN queue : queue[i] = t

\* Mutant: the lock goes to any waiter.
HoldsUnfairly(queue, t) == Waits(queue, t)

\* The lock goes to the waiters in the order they came.
Holds(queue, t) == queue # << >> /\ Head(queue) = t

\* The queue without a task; the others keep their order.
Without(queue, t) ==
    IF Waits(queue, t)
    THEN LET i == CHOOSE j \in DOMAIN queue : queue[j] = t
         IN  SubSeq(queue, 1, i - 1) \o SubSeq(queue, i + 1, Len(queue))
    ELSE queue

ToRequests(t) ==
    /\ Holds(timeQueue, t)
    /\ timeCooldown = 0
    /\ Go(t, "requestWait")
    /\ timeQueue' = Without(timeQueue, t)
    /\ timeCooldown' = TIME_INTERVAL
    /\ requestQueue' = Append(requestQueue, t)
    /\ UNCHANGED <<requestCooldown, inFlight>>

\* A request slot is taken: the request is sent, or refused by timestamp().
TakeSlot(t) ==
    /\ Holds(requestQueue, t)
    /\ requestCooldown = 0
    /\ Go(t, "inFlight") \/ Go(t, "idle")
    /\ requestQueue' = Without(requestQueue, t)
    /\ requestCooldown' = REQUEST_INTERVAL
    /\ UNCHANGED <<timeQueue, timeCooldown, inFlight>>

\* A response, an error or the timeout ends the request.
End(t) ==
    /\ place[t] = "inFlight"
    /\ Go(t, "idle")
    /\ inFlight' = [inFlight EXCEPT ![t] = 0]
    /\ UNCHANGED <<timeQueue, requestQueue, timeCooldown, requestCooldown>>

\* The future is dropped while it waits for a slot.
Drop(t) ==
    /\ place[t] \in {"timeWait", "requestWait"}
    /\ Go(t, "idle")
    /\ timeQueue' = Without(timeQueue, t)
    /\ requestQueue' = Without(requestQueue, t)
    /\ UNCHANGED <<timeCooldown, requestCooldown, inFlight>>

\* Mutant: the remaining time is not saturated at zero.
LessUnsaturated(n) == n - 1

\* Duration::saturating_sub: what is left of a timer after one unit.
Less(n) == IF n = 0 THEN 0 ELSE n - 1

TimePasses ==
    /\ \A t \in Tasks : place[t] = "inFlight" => inFlight[t] < HTTP_TIMEOUT
    /\ timeCooldown' = Less(timeCooldown)
    /\ requestCooldown' = Less(requestCooldown)
    /\ inFlight' = [t \in Tasks |->
            IF place[t] = "inFlight" THEN inFlight[t] + 1 ELSE 0]
    /\ UNCHANGED <<place, timeQueue, requestQueue>>

ProgressNext ==
    \/ \E t \in Tasks :
        \/ StartSync(t) \/ StartRead(t)
        \/ ToRequests(t) \/ TakeSlot(t)
        \/ End(t) \/ Drop(t)
    \/ TimePasses

ProgressSafety == ProgressInit /\ [][ProgressNext]_progressVars

\* Time goes on; a runtime polls a task whose timer fired or whose lock was
\* handed over; a request ends at its timeout at the latest.
Fairness ==
    /\ WF_progressVars(TimePasses)
    /\ \A t \in Tasks :
        /\ WF_progressVars(ToRequests(t))
        /\ WF_progressVars(TakeSlot(t))
        /\ WF_progressVars(End(t))

ProgressSpec == ProgressSafety /\ Fairness

\* Every call returns (or was dropped by its caller): no order of calls, drops,
\* refusals and timeouts of the others keeps a caller at a lock for ever.
EveryCallReturns == \A t \in Tasks : place[t] # "idle" ~> place[t] = "idle"

\* How long the i-th of a queue still has to wait, at most, if nothing is late.
Wait(cooldown, i, Interval) == cooldown + (i - 1) * Interval

\* Who is in both queues, one after the other, does not wait longer in the second.
NoLonger(queue, cooldown, next, nextCooldown, Interval) ==
    \A i \in DOMAIN queue, j \in DOMAIN next :
        queue[i] = next[j] =>
            Wait(nextCooldown, j, Interval) <= Wait(cooldown, i, Interval)

\* The two limiters: what a call in a queue has before it never grows, whatever is
\* called, dropped, refused or granted meanwhile.  This is the variant that makes
\* every call return.
WaitOnlyShrinks ==
    [][/\ NoLonger(timeQueue, timeCooldown, timeQueue', timeCooldown', TIME_INTERVAL)
       /\ NoLonger(requestQueue, requestCooldown, requestQueue', requestCooldown',
                   REQUEST_INTERVAL)]_progressVars
==============================================================================
