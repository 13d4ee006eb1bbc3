--------------------------- MODULE ProcessLifecycle ---------------------------
(***************************************************************************)
(* What telemetry's Health promises to whoever watches a process, with     *)
(* calls that take no time: while the process runs its reason is what the  *)
(* last verdict said; stopping is for good ("cannot become live again      *)
(* after shutdown", crates/telemetry/README.md), and after it the reason   *)
(* can only become Shutdown and stay.  What concurrency adds is one late   *)
(* verdict: a caller that looked while the process ran may still write     *)
(* after it stopped, once and before the shutdown is written, never over   *)
(* it.                                                                     *)
(***************************************************************************)
CONSTANTS
    Verdicts,   \* the reasons not to be ready, and that of being ready
    Initial,    \* the first of them
    Shutdown    \* the last

VARIABLES
    running,    \* not stopped
    reason,     \* the verdict that stands
    late        \* a verdict from before the stop is still to come

lifecycleVars == <<running, reason, late>>

LifecycleInit == running = TRUE /\ reason = Initial /\ late = FALSE

GiveVerdict ==
    /\ running
    /\ reason' \in Verdicts
    /\ UNCHANGED <<running, late>>

\* Whoever watches cannot tell whether a verdict was on its way.
Stop ==
    /\ running
    /\ running' = FALSE
    /\ late' \in BOOLEAN
    /\ UNCHANGED reason

GiveLateVerdict ==
    /\ ~running /\ late
    /\ reason' \in Verdicts
    /\ late' = FALSE
    /\ UNCHANGED running

ShowShutdown ==
    /\ ~running /\ ~late
    /\ reason' = Shutdown
    /\ UNCHANGED <<running, late>>

LifecycleNext == GiveVerdict \/ Stop \/ GiveLateVerdict \/ ShowShutdown

LifecycleSpec == LifecycleInit /\ [][LifecycleNext]_lifecycleVars
==============================================================================
