---------------------------- MODULE RestartLifecycle ----------------------------
(* One restart from request to readiness: createRestartLifecycle() of             *)
(* app/plugins/restart-supervisor/lifecycle.cjs, over the budget it spends.       *)
(*                                                                                *)
(* `stage` is where run() is suspended: every await of the code is a stage, every *)
(* action is what one turn of the event loop does between two awaits. Between     *)
(* them the clock moves, a person cancels, and a person resets the budget.        *)
EXTENDS RestartBudget

CONSTANTS
    BoundaryTimeoutMs,   \* lifecycle.boundaryTimeoutMs
    ReadinessTimeoutMs,  \* readiness.timeoutMs
    ReadinessAttempts,   \* readiness.maxAttempts
    RequiredGates,       \* readiness.required
    ProbedGates,         \* the gates this deployment has a probe for
    Horizon,             \* bound of the model: the last instant of the clock
    MaxResets            \* bound of the model: how often a person resets the budget

\* READINESS_GATES, in order.
Gates == <<"process", "runtime", "network", "plugins", "continuity">>

ASSUME LifecycleAssumption ==
    /\ BoundaryTimeoutMs \in Nat
    /\ ReadinessTimeoutMs \in Nat
    /\ ReadinessAttempts \in Nat
    /\ RequiredGates \subseteq {Gates[i] : i \in 1..5}
    /\ ProbedGates \subseteq {Gates[i] : i \in 1..5}
    /\ Horizon \in Nat
    /\ MaxResets \in Nat

VARIABLES
    stage,         \* the await run() is suspended in; "idle" when `active` is null
    startedAt,     \* at.startedAt of the run in flight
    relaunchedAt,  \* at.relaunchedAt of the run in flight
    gate,          \* the readiness gate being probed
    attempt,       \* the probes of that gate so far
    withdrawn,     \* auxiliary: cancel() has answered ok for the run in flight
    stops,         \* auxiliary: the instants at which the application was told to stop
    resets         \* auxiliary: the resets so far

runVars == <<stage, startedAt, relaunchedAt, gate, attempt>>
ghostVars == <<withdrawn, stops, resets>>
vars == <<clock, budgetVars, runVars, ghostVars>>

\* Before the stop nothing was done to the application; after it the run is post-mortem.
BeforeStop == {"continuity", "boundary", "polling", "aborting"}
AfterStop == {"stopping", "forcing", "relaunching", "readiness", "recovery"}
Stages == {"idle"} \cup BeforeStop \cup AfterStop

TypeOK ==
    /\ BudgetTypeOK
    /\ stage \in Stages
    /\ startedAt \in Nat
    /\ relaunchedAt \in Nat
    /\ gate \in 1..5
    /\ attempt \in 0..ReadinessAttempts
    /\ withdrawn \in BOOLEAN
    /\ stops \in Seq(Nat)
    /\ resets \in 0..MaxResets

Init ==
    /\ BudgetInit
    /\ stage = "idle"
    /\ startedAt = 0
    /\ relaunchedAt = 0
    /\ gate = 1
    /\ attempt = 0
    /\ withdrawn = FALSE
    /\ stops = <<>>
    /\ resets = 0

--------------------------------------------------------------------------------
GoTo(from, to) == stage = from /\ stage' = to

\* run()'s return: `active` is cleared in the same turn as the outcome is recorded.
Finish(ok, counted) ==
    /\ stage' = "idle"
    /\ withdrawn' = FALSE
    /\ Record(ok, counted)
    /\ UNCHANGED <<clock, startedAt, relaunchedAt, gate, attempt, stops, resets>>

\* A request the budget accepts, while no run is in flight. The last conjunct is
\* the model's bound: a run accepted near the horizon could not reach its deadline.
Request ==
    /\ GoTo("idle", "continuity")
    /\ \E mode \in RequestableModes : Accept(mode)
    /\ startedAt' = clock
    /\ clock + BoundaryTimeoutMs <= Horizon
    /\ UNCHANGED <<clock, relaunchedAt, gate, attempt, ghostVars>>

\* beforeRestart answers yes, or threw: call() turns that into a value and run() goes on.
ContinuityNotified ==
    /\ GoTo("continuity", "boundary")
    /\ UNCHANGED <<clock, budgetVars, startedAt, relaunchedAt, gate, attempt, ghostVars>>

\* beforeRestart answers no: nothing is spent.
ContinuityRefuses ==
    /\ stage = "continuity"
    /\ Finish(FALSE, FALSE)

SlipBoundaryPoll ==
    /\ GoTo("boundary", "polling")
    /\ UNCHANGED <<clock, budgetVars, startedAt, relaunchedAt, gate, attempt, ghostVars>>

\* The head of the boundary loop, and the pendingWork() it awaits.
BoundaryPoll ==
    /\ GoTo("boundary", "polling")
    /\ clock < startedAt + BoundaryTimeoutMs
    /\ UNCHANGED <<clock, budgetVars, startedAt, relaunchedAt, gate, attempt, ghostVars>>

BoundaryBusy ==
    /\ GoTo("polling", "boundary")
    /\ UNCHANGED <<clock, budgetVars, startedAt, relaunchedAt, gate, attempt, ghostVars>>

\* The boundary is clear, or the continuity layer cannot say: the stop is issued.
BeginStop ==
    /\ GoTo("polling", "stopping")
    /\ stops' = Append(stops, clock)
    /\ UNCHANGED <<clock, budgetVars, startedAt, relaunchedAt, gate, attempt,
                   withdrawn, resets>>

\* UNSAFE_BOUNDARY: the request is dropped before afterRestart(aborted) is awaited.
BoundaryTimesOut ==
    /\ GoTo("boundary", "aborting")
    /\ clock >= startedAt + BoundaryTimeoutMs
    /\ CancelPending
    /\ UNCHANGED <<clock, startedAt, relaunchedAt, gate, attempt, ghostVars>>

Aborted ==
    /\ stage = "aborting"
    /\ Finish(FALSE, FALSE)

StopsGracefully ==
    /\ GoTo("stopping", "relaunching")
    /\ UNCHANGED <<clock, budgetVars, startedAt, relaunchedAt, gate, attempt, ghostVars>>

GracefulStopFails ==
    /\ GoTo("stopping", "forcing")
    /\ UNCHANGED <<clock, budgetVars, startedAt, relaunchedAt, gate, attempt, ghostVars>>

StopsForced ==
    /\ GoTo("forcing", "relaunching")
    /\ UNCHANGED <<clock, budgetVars, startedAt, relaunchedAt, gate, attempt, ghostVars>>

\* The application could not be stopped at all: it is still there.
ForcedStopFails ==
    /\ stage = "forcing"
    /\ Finish(FALSE, TRUE)

LaunchFails ==
    /\ stage = "relaunching"
    /\ Finish(FALSE, TRUE)

Launches ==
    /\ GoTo("relaunching", "readiness")
    /\ relaunchedAt' = clock
    /\ gate' = 1
    /\ attempt' = 0
    /\ UNCHANGED <<clock, budgetVars, startedAt, ghostVars>>

--------------------------------------------------------------------------------
(* waitForReadiness: the gates in order, one shared deadline.                    *)

SlipMayProbe == clock < relaunchedAt + ReadinessTimeoutMs

MayProbe == attempt < ReadinessAttempts /\ clock < relaunchedAt + ReadinessTimeoutMs

NextGate ==
    /\ stage' = IF gate = Len(Gates) THEN "recovery" ELSE "readiness"
    /\ gate' = IF gate = Len(Gates) THEN gate ELSE gate + 1
    /\ attempt' = 0
    /\ UNCHANGED <<clock, budgetVars, startedAt, relaunchedAt, ghostVars>>

GateUnprobed ==
    /\ stage = "readiness"
    /\ Gates[gate] \notin ProbedGates
    /\ NextGate

GateUp ==
    /\ stage = "readiness"
    /\ Gates[gate] \in ProbedGates
    /\ MayProbe
    /\ NextGate

GateNotYetUp ==
    /\ GoTo("readiness", "readiness")
    /\ Gates[gate] \in ProbedGates
    /\ MayProbe
    /\ attempt' = attempt + 1
    /\ UNCHANGED <<clock, budgetVars, startedAt, relaunchedAt, gate, ghostVars>>

SlipGateSteppedOver ==
    /\ stage = "readiness"
    /\ Gates[gate] \in ProbedGates \ RequiredGates
    /\ attempt >= ReadinessAttempts
    /\ NextGate

\* A gate that never came up is stepped over unless it is required.
GateSteppedOver ==
    /\ stage = "readiness"
    /\ Gates[gate] \in ProbedGates \ RequiredGates
    /\ ~MayProbe
    /\ NextGate

ReadinessFails ==
    /\ stage = "readiness"
    /\ Gates[gate] \in ProbedGates \cap RequiredGates
    /\ ~MayProbe
    /\ Finish(FALSE, TRUE)

\* afterRestart has answered, whatever it answered: the restart is a success.
Recovered ==
    /\ stage = "recovery"
    /\ Finish(TRUE, TRUE)

--------------------------------------------------------------------------------
(* What happens beside the run.                                                  *)

\* cancel(): it clears the pending request and answers ok before the stop.
Cancel ==
    /\ stage # "idle"
    /\ CancelPending
    /\ withdrawn' = (withdrawn \/ stage \in BeforeStop)
    /\ UNCHANGED <<clock, runVars, stops, resets>>

\* resetRestartBudget(): a person may call it at any time.
ResetBudget ==
    /\ resets < MaxResets
    /\ Reset
    /\ resets' = resets + 1
    /\ UNCHANGED <<clock, runVars, withdrawn, stops>>

Tick ==
    /\ clock < Horizon
    /\ clock' = clock + 1
    /\ UNCHANGED <<budgetVars, runVars, ghostVars>>

\* One turn of run(): each is the answer to the await the stage names.
Run ==
    \/ ContinuityNotified \/ ContinuityRefuses
    \/ BoundaryPoll \/ BoundaryBusy \/ BoundaryTimesOut \/ Aborted
    \/ BeginStop \/ StopsGracefully \/ GracefulStopFails \/ StopsForced \/ ForcedStopFails
    \/ LaunchFails \/ Launches
    \/ GateUnprobed \/ GateUp \/ GateNotYetUp \/ GateSteppedOver \/ ReadinessFails
    \/ Recovered

Next == Request \/ Run \/ Cancel \/ ResetBudget \/ Tick

Spec == Init /\ [][Next]_vars

\* The hooks answer and time passes; nobody is obliged to request, cancel or reset.
FairSpec == Spec /\ WF_vars(Run) /\ WF_vars(Tick)

--------------------------------------------------------------------------------
(* Correctness.                                                                  *)

\* A trailing window never holds more counted attempts than the budget, and while
\* a run is in flight there is always room left to charge it.
WindowBound ==
    LET used == Cardinality(WithinWindow(history, clock))
    IN  /\ used <= MaxRestarts
        /\ stage # "idle" => used < MaxRestarts

\* A streak that reached the threshold is never left without safe mode: the ladder
\* is derived at the end of every run and no interleaved reset can miss it.
LoopIsCaught ==
    SafeModeOnLoop /\ consecutiveFailures >= SafeModeAt => safeMode

\* A pending request always has a run that will clear it. An orphan would make
\* evaluate() refuse every later restart with RESTART_ALREADY_PENDING.
NoOrphanPending == pending # Never => stage # "idle"

\* Between two runs the budget is settled: neither a streak without its safe mode nor a
\* request without its run is left by any order of outcomes, refusals and resets.
BudgetIsSettled == LoopIsCaught /\ NoOrphanPending

\* The application is stopped only once the backoff of the streak has elapsed since
\* the last counted attempt, and never in safe mode.
StopIsEarned ==
    [][BeginStop => ~safeMode /\ ~CoolingDown]_vars

\* Every accepted request comes to an end: no refusal, timeout, cancellation or
\* reset leaves `active` set.
RunEnds == stage # "idle" ~> stage = "idle"

\* The lifecycle implements the promise of RestartPromise.tla: restarts are executed
\* one at a time and the window bounds the stops themselves, although the code counts
\* outcomes, admits a run long before it stops anything, and may be reset or
\* cancelled in between.
Promise == INSTANCE RestartPromise WITH executing <- stage \in AfterStop
KeepsPromise == Promise!Spec
KeepsPromiseFairly == Promise!FairSpec

\* Claimed at lifecycle.cjs:371: a cancel before the stop prevents the restart.
CancelPreventsStop == [][BeginStop => ~withdrawn]_vars

================================================================================
