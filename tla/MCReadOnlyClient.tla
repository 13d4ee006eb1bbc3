-------------------------- MODULE MCReadOnlyClient --------------------------
(* Instances of ReadOnlyClient small enough for TLC. *)
EXTENDS ReadOnlyClient, TLC

CallersAlike == Permutations(Tasks)

\* The local clock starts right, at the tolerated skew, or just beyond it.
StableShifts == {-2, 0, 1}
NoSteps == {}

\* A right clock that is stepped forward by little more than the drift tolerance,
\* or back by more than a signed time may be off.
RightClock == {0}
StepsBothWays == {-4, 2}

==============================================================================
