------------------------------ MODULE RateLimit ------------------------------
(***************************************************************************)
(* What a rate limit promises to the server: slots are at least Interval   *)
(* apart, a slot permits one emission, and a permit is used within Delay of *)
(* its slot or lapses.  So any L units of time see no more emissions than  *)
(* slots fit into L + Delay, though two emissions may be closer than their *)
(* slots.  Nothing is said of who emits, of queues or of connections:      *)
(* ReadOnlyClient is shown to implement this module for the requests that  *)
(* leave it (README of okx-client, "Calls are conservatively serialized at *)
(* 500 ms intervals").                                                     *)
(***************************************************************************)
EXTENDS Integers

CONSTANTS
    Interval,   \* the least distance of two slots
    Delay,      \* how long a permit may be used
    None        \* the value of "last" before the first slot

VARIABLES
    now,        \* monotonic time
    last,       \* when the last slot was, or None
    permits,    \* the slots whose permit is neither used nor lapsed
    beat        \* alternates at each emission

limitVars == <<now, last, permits, beat>>

LimitInit ==
    /\ now = 0
    /\ last = None
    /\ permits = {}
    /\ beat = 0

\* A slot; its permit may be refused at once.
Slot ==
    /\ last # None => now - last >= Interval
    /\ last' = now
    /\ permits' \in {permits, permits \cup {now}}
    /\ UNCHANGED <<now, beat>>

\* One permit, one emission.
Emit ==
    /\ \E p \in permits : permits' = permits \ {p}
    /\ beat' = 1 - beat
    /\ UNCHANGED <<now, last>>

Lapse ==
    /\ \E p \in permits : permits' = permits \ {p}
    /\ UNCHANGED <<now, last, beat>>

Pass ==
    /\ now' > now
    /\ \A p \in permits : now' - p <= Delay
    /\ UNCHANGED <<last, permits, beat>>

LimitNext == Slot \/ Emit \/ Lapse \/ Pass

LimitSpec == LimitInit /\ [][LimitNext]_limitVars
==============================================================================
