------------------------------- MODULE Metrics -------------------------------
(***************************************************************************)
(* telemetry::metrics::Registry: saturating counters under one mutex,      *)
(* incremented and copied by the threads of a process.  A key that is not  *)
(* in the map counts 0: increment() adds it under the same guard that      *)
(* raises it.  A read and a write of one counter are steps of their own:   *)
(* increment() reads and writes its counter, snapshot() goes through the   *)
(* counters one by one, and only the guard keeps others away meanwhile.    *)
(* The guard is never poisoned: nothing under it panics.                   *)
(***************************************************************************)
EXTENDS ProcessThreads, Integers, Functions

CONSTANTS
    MetricKeys,     \* service, product class, counter and reason
    MAX,            \* u64::MAX
    MaxIncrements   \* bound on the increments of all keys together

ASSUME MetricsAssumption ==
    MAX \in Nat \ {0} /\ MaxIncrements \in Nat /\ None \notin Threads

VARIABLES
    values,         \* the counters
    guard,          \* the thread that holds the mutex, or None
    user,           \* per thread: where its call stands
    begun,          \* history, per key: increments called ...
    ended           \* ... and returned

metricsVars == <<values, guard, user, begun, ended>>

Counts == [MetricKeys -> 0..MAX]
Increments == [MetricKeys -> Nat]

\* "copied" has the counters a snapshot has collected so far.  "since" is
\* history: the increments that had returned when the snapshot was called;
\* "until" those that had been called when it was complete.
Partial == UNION {[S -> 0..MAX] : S \in SUBSET MetricKeys}
Users ==
         [at : {"resting"}]
    \cup [at : {"waiting", "holding"}, op : {"increment"}, key : MetricKeys]
    \cup [at : {"read"}, op : {"increment"}, key : MetricKeys, seen : 0..MAX]
    \cup [at : {"waiting", "holding"}, op : {"snapshot"}, since : Increments,
          copied : Partial]
    \cup [at : {"shown"}, shown : Counts, since : Increments, until : Increments]

MetricsTypeOK ==
    /\ values \in Counts
    /\ guard \in Threads \cup {None}
    /\ user \in [Threads -> Users]
    /\ begun \in Increments /\ ended \in Increments
    /\ \A t \in Threads : user[t].at \in {"holding", "read"} <=> guard = t

\* Registry::default()
MetricsInit ==
    /\ values = [k \in MetricKeys |-> 0]
    /\ guard = None
    /\ user = [t \in Threads |-> [at |-> "resting"]]
    /\ begun = [k \in MetricKeys |-> 0] /\ ended = begun

Free(t) == user[t].at \in {"resting", "shown"}

Becomes(t, state) == user' = [user EXCEPT ![t] = state]

CallIncrement(t, k) ==
    /\ Free(t) /\ SumFunction(begun) < MaxIncrements
    /\ begun' = [begun EXCEPT ![k] = @ + 1]
    /\ Becomes(t, [at |-> "waiting", op |-> "increment", key |-> k])
    /\ UNCHANGED <<values, guard, ended>>

CallSnapshotOfCounts(t) ==
    /\ Free(t)
    /\ Becomes(t, [at |-> "waiting", op |-> "snapshot", since |-> ended,
                   copied |-> [k \in {} |-> 0]])
    /\ UNCHANGED <<values, guard, begun, ended>>

\* Mutant: the mutex excludes nobody.
AcquireShared(t) ==
    /\ user[t].at = "waiting"
    /\ guard' = t
    /\ user' = [user EXCEPT ![t].at = "holding"]
    /\ UNCHANGED <<values, begun, ended>>

Acquire(t) ==
    /\ user[t].at = "waiting" /\ guard = None
    /\ guard' = t
    /\ user' = [user EXCEPT ![t].at = "holding"]
    /\ UNCHANGED <<values, begun, ended>>

\* Mutant: the entry is read before the lock is taken.
ReadCountEarly(t) ==
    /\ user[t].at \in {"waiting", "holding"} /\ user[t].op = "increment"
    /\ Becomes(t, [at |-> "read", op |-> "increment", key |-> user[t].key,
                   seen |-> values[user[t].key]])
    /\ UNCHANGED <<values, guard, begun, ended>>

\* entry(key).or_default()
ReadCount(t) ==
    /\ user[t].at = "holding" /\ user[t].op = "increment"
    /\ Becomes(t, [at |-> "read", op |-> "increment", key |-> user[t].key,
                   seen |-> values[user[t].key]])
    /\ UNCHANGED <<values, guard, begun, ended>>

SaturatingAdd(n) == IF n = MAX THEN MAX ELSE n + 1

\* The count is written, the guard dropped, and increment() returns.
WriteCount(t) ==
    /\ user[t].at = "read"
    /\ values' = [values EXCEPT ![user[t].key] = SaturatingAdd(user[t].seen)]
    /\ guard' = None
    /\ ended' = [ended EXCEPT ![user[t].key] = @ + 1]
    /\ Becomes(t, [at |-> "resting"])
    /\ UNCHANGED begun

Copied(c, k) == [c EXCEPT !.copied =
                    [j \in DOMAIN @ \cup {k} |-> IF j = k THEN values[k] ELSE @[j]]]

\* Mutant: snapshot() locks the mutex for each counter anew.
CopyCountRelocking(t) ==
    /\ user[t].at = "holding" /\ user[t].op = "snapshot"
    /\ \E k \in MetricKeys \ DOMAIN user[t].copied :
        IF MetricKeys = DOMAIN user[t].copied \cup {k}
        THEN Becomes(t, Copied(user[t], k)) /\ UNCHANGED guard
        ELSE Becomes(t, [Copied(user[t], k) EXCEPT !.at = "waiting"]) /\ guard' = None
    /\ UNCHANGED <<values, begun, ended>>

\* iter().map(...): one counter more is copied, the guard kept.
CopyCount(t) ==
    /\ user[t].at = "holding" /\ user[t].op = "snapshot"
    /\ \E k \in MetricKeys \ DOMAIN user[t].copied : Becomes(t, Copied(user[t], k))
    /\ UNCHANGED <<values, guard, begun, ended>>

\* collect() is done, the guard dropped, and snapshot() returns.
ReturnCounts(t) ==
    /\ user[t].at = "holding" /\ user[t].op = "snapshot"
    /\ DOMAIN user[t].copied = MetricKeys
    /\ Becomes(t, [at |-> "shown", shown |-> user[t].copied, since |-> user[t].since,
                   until |-> begun])
    /\ guard' = None
    /\ UNCHANGED <<values, begun, ended>>

MetricsNext ==
    \E t \in Threads :
        \/ \E k \in MetricKeys : CallIncrement(t, k)
        \/ CallSnapshotOfCounts(t)
        \/ Acquire(t) \/ ReadCount(t) \/ WriteCount(t)
        \/ CopyCount(t) \/ ReturnCounts(t)

MetricsSpec == MetricsInit /\ [][MetricsNext]_metricsVars

-----------------------------------------------------------------------------
(* Properties *)

Capped(n) == IF n < MAX THEN n ELSE MAX

\* No increment is lost, none counts twice, and a counter stays at its limit
\* once there ("Saturates at u64::MAX"), whatever threads increment it together.
CountsExact == \A k \in MetricKeys : values[k] = Capped(ended[k])

\* A snapshot is of a point in time ("a point-in-time diagnostic snapshot"): it
\* has every increment that returned before it was called and none that was
\* called after it was complete, and of any two snapshots one is the earlier in
\* all counters.
SnapshotsOfAMoment ==
    \A t \in Threads : user[t].at = "shown" =>
        /\ \A k \in MetricKeys :
                /\ Capped(user[t].since[k]) <= user[t].shown[k]
                /\ user[t].shown[k] <= Capped(user[t].until[k])
        /\ \A u \in Threads : user[u].at = "shown" =>
                \/ \A k \in MetricKeys : user[t].shown[k] <= user[u].shown[k]
                \/ \A k \in MetricKeys : user[u].shown[k] <= user[t].shown[k]
==============================================================================
