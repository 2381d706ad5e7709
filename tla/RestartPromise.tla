----------------------------- MODULE RestartPromise -----------------------------
(* What the restart authority promises the rest of the product, with no budget,   *)
(* no stages and no history: the application is told to stop by one restart at a  *)
(* time, at most MaxRestarts times inside a rolling window, and every restart     *)
(* that was begun comes to an end. RestartLifecycle implements it.                *)
EXTENDS Integers, Sequences, FiniteSets

CONSTANTS MaxRestarts, WindowMs, Horizon

VARIABLES
    clock,      \* the instant
    stops,      \* when the application was told to stop, oldest first
    executing   \* whether a restart is between its stop and its outcome

vars == <<clock, stops, executing>>

TypeOK ==
    /\ clock \in Nat
    /\ stops \in Seq(Nat)
    /\ executing \in BOOLEAN

\* The stops of a window that ends at t.
StopsWithin(t) == {i \in DOMAIN stops : stops[i] >= t - WindowMs}

Init ==
    /\ clock = 0
    /\ stops = <<>>
    /\ executing = FALSE

Stop ==
    /\ ~executing
    /\ Cardinality(StopsWithin(clock)) < MaxRestarts
    /\ stops' = Append(stops, clock)
    /\ executing' = TRUE
    /\ UNCHANGED clock

End ==
    /\ executing
    /\ executing' = FALSE
    /\ UNCHANGED <<clock, stops>>

Tick ==
    /\ clock < Horizon
    /\ clock' = clock + 1
    /\ UNCHANGED <<stops, executing>>

Next == Stop \/ End \/ Tick

Spec == Init /\ [][Next]_vars

FairSpec == Spec /\ WF_vars(End)

\* A trailing window never holds more than MaxRestarts stops of the application.
StopsBounded == Cardinality(StopsWithin(clock)) <= MaxRestarts

================================================================================
