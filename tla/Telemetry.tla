------------------------------ MODULE Telemetry ------------------------------
(***************************************************************************)
(* The threads of a process over its Health and its Registry.  The two     *)
(* share nothing, no call to one is made inside a call to the other, and   *)
(* no property relates them: an instance uses one of them, "used", which   *)
(* is chosen at the start (a bound: all pairs of states would be the       *)
(* product of the two).                                                    *)
(***************************************************************************)
EXTENDS Health, Metrics

VARIABLE used

telemetryVars == <<healthVars, metricsVars, used>>

TelemetryInit ==
    /\ HealthInit /\ MetricsInit
    /\ used \in {"Health", "Registry"}

UseHealth == used = "Health" /\ HealthNext /\ UNCHANGED <<metricsVars, used>>
UseRegistry == used = "Registry" /\ MetricsNext /\ UNCHANGED <<healthVars, used>>

TelemetryNext == UseHealth \/ UseRegistry

\* A thread inside a call of Health goes on (see Health).
TelemetrySpec == TelemetryInit /\ [][TelemetryNext]_telemetryVars /\ HealthFairness
==============================================================================
