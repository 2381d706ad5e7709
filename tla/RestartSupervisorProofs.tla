------------------------ MODULE RestartSupervisorProofs ------------------------
(* Proofs about RestartLifecycle for every budget, ladder, gate set and horizon, and *)
(* about RestartLock for every set of supervisors, ttl and crash count.              *)
EXTENDS RestartLifecycle, RestartLock, FiniteSetTheorems, SequenceTheorems, TLAPS

--------------------------------------------------------------------------------
(* What the operators of the budget return, keep and bound.                      *)

\* A window of a finite history is finite: its cardinality is a number.
LEMMA WindowFinite ==
  ASSUME NEW h \in Seq(Entry), NEW t \in Int
  PROVE  /\ IsFiniteSet(WithinWindow(h, t))
         /\ Cardinality(WithinWindow(h, t)) \in Nat
         /\ IsFiniteSet(Failures(h, t))
         /\ Cardinality(Failures(h, t)) \in Nat
<1>1. /\ WithinWindow(h, t) \in SUBSET (1 .. Len(h))
      /\ Failures(h, t) \in SUBSET (1 .. Len(h))
  BY DEF WithinWindow, Failures
<1>2. IsFiniteSet(1 .. Len(h))
  BY FS_Interval
<1>3. IsFiniteSet(WithinWindow(h, t)) /\ IsFiniteSet(Failures(h, t))
  BY <1>1, <1>2, FS_Subset
<1> QED
  BY <1>3, FS_CardinalityType

\* One more entry adds at most itself to a window, and nothing when it is not counted.
LEMMA AppendCharges ==
  ASSUME NEW h \in Seq(Entry), NEW e \in Entry, NEW t \in Int
  PROVE  Cardinality(WithinWindow(Append(h, e), t))
           <= Cardinality(WithinWindow(h, t)) + (IF e.counted THEN 1 ELSE 0)
<1> DEFINE old == WithinWindow(h, t)
           new == WithinWindow(Append(h, e), t)
<1>1. IsFiniteSet(old) /\ Cardinality(old) \in Nat
  BY WindowFinite
<1>2. CASE e.counted
  <2> DEFINE more == old \cup {Len(h) + 1}
  <2>1. new \in SUBSET more
    BY DEF WithinWindow
  <2>2. /\ IsFiniteSet(more)
        /\ Cardinality(more) = IF Len(h) + 1 \in old THEN Cardinality(old)
                               ELSE Cardinality(old) + 1
    <3> HIDE DEF old
    <3> QED
      BY <1>1, FS_AddElement, Zenon
  <2> HIDE DEF new, old, more
  <2>3. Cardinality(new) <= Cardinality(more)
    BY <2>1, <2>2, FS_Subset
  <2>4. Cardinality(new) <= Cardinality(old) + 1
    BY <1>1, <2>2, <2>3, <2>1, FS_Subset, FS_CardinalityType
  <2> QED
    BY <1>2, <2>4 DEF new, old
<1>3. CASE ~e.counted
  <2>1. new \in SUBSET old
    BY <1>3 DEF WithinWindow
  <2>2. Cardinality(new) <= Cardinality(old)
    BY <1>1, <2>1, FS_Subset
  <2> QED
    BY <1>1, <1>3, <2>2
<1> QED
  BY <1>2, <1>3

\* Evicting the oldest entry never makes a window fuller.
LEMMA TailReleases ==
  ASSUME NEW h \in Seq(Entry), h # <<>>, NEW t \in Int
  PROVE  Cardinality(WithinWindow(Tail(h), t)) <= Cardinality(WithinWindow(h, t))
<1> DEFINE old == WithinWindow(h, t)
           new == WithinWindow(Tail(h), t)
           f == [i \in new |-> i + 1]
<1>1. IsFiniteSet(old)
  BY WindowFinite
<1>2. \A i \in new : i \in Int /\ i + 1 \in old
  BY DEF WithinWindow
<1>3. f \in [new -> old]
  BY <1>2
<1>4. IsInjective(f)
  BY <1>2 DEF IsInjective
<1>5. f \in Injection(new, old)
  BY <1>3, <1>4 DEF Injection
<1> HIDE DEF new, old, f
<1> QED
  BY <1>1, <1>5, FS_Injection DEF new, old

\* A push stays a history and charges a window with at most the pushed entry.
LEMMA PushCharges ==
  ASSUME history \in Seq(Entry), NEW e \in Entry, NEW t \in Int
  PROVE  /\ Push(e) \in Seq(Entry)
         /\ Cardinality(WithinWindow(Push(e), t))
              <= Cardinality(WithinWindow(history, t)) + (IF e.counted THEN 1 ELSE 0)
<1> DEFINE h == Append(history, e)
<1>1. h \in Seq(Entry) /\ h # <<>> /\ Tail(h) \in Seq(Entry)
  <2>1. h \in Seq(Entry) /\ h # <<>>
    BY AppendProperties
  <2> QED
    BY <2>1, HeadTailProperties
<1>2. Cardinality(WithinWindow(h, t))
        <= Cardinality(WithinWindow(history, t)) + (IF e.counted THEN 1 ELSE 0)
  BY AppendCharges
<1>3. Cardinality(WithinWindow(Tail(h), t)) <= Cardinality(WithinWindow(h, t))
  BY <1>1, TailReleases
<1>4. /\ Cardinality(WithinWindow(Tail(h), t)) \in Nat
      /\ Cardinality(WithinWindow(h, t)) \in Nat
      /\ Cardinality(WithinWindow(history, t)) \in Nat
  BY <1>1, WindowFinite
<1>5. Push(e) = h \/ Push(e) = Tail(h)
  BY DEF Push
<1> HIDE DEF h
<1>6. CASE Push(e) = h
  BY <1>1, <1>2, <1>6
<1>7. CASE Push(e) = Tail(h)
  BY <1>1, <1>2, <1>3, <1>4, <1>7
<1> QED
  BY <1>5, <1>6, <1>7

\* Time only takes attempts out of the window.
LEMMA TimeReleases ==
  ASSUME NEW h \in Seq(Entry), NEW t \in Int, BudgetAssumption
  PROVE  Cardinality(WithinWindow(h, t + 1)) <= Cardinality(WithinWindow(h, t))
<1>1. \A i \in DOMAIN h : h[i].at \in Nat
  <2>1. \A i \in DOMAIN h : h[i] \in Entry
    OBVIOUS
  <2> QED
    BY <2>1 DEF Entry
<1>2. WithinWindow(h, t + 1) \in SUBSET WithinWindow(h, t)
  BY <1>1 DEF WithinWindow, BudgetAssumption
<1>3. IsFiniteSet(WithinWindow(h, t))
  BY WindowFinite
<1> QED
  BY <1>2, <1>3, FS_Subset

\* The backoff is a number, so an instant past the cooldown stays past it.
LEMMA BackoffIsNumber ==
  ASSUME BudgetAssumption, BudgetTypeOK
  PROVE  BackoffFor \in Int
<1>1. 2 ^ consecutiveFailures \in Int
  BY SMT DEF BudgetTypeOK
<1>2. BackoffMs * 2 ^ consecutiveFailures \in Int
  BY <1>1 DEF BudgetAssumption
<1> QED
  BY <1>2 DEF BackoffFor, Larger, Smaller, BudgetAssumption

\* The end of a run keeps the types, and an attempt that counted takes one place.
LEMMA RecordCharges ==
  ASSUME BudgetTypeOK, NEW ok \in BOOLEAN, NEW counted \in BOOLEAN,
         Record(ok, counted), clock' = clock
  PROVE  /\ BudgetTypeOK'
         /\ Cardinality(WithinWindow(history', clock))
              <= Cardinality(WithinWindow(history, clock)) + (IF counted THEN 1 ELSE 0)
<1> DEFINE e == [at |-> clock, ok |-> ok, counted |-> counted]
<1>1. e \in Entry /\ e.counted = counted
  BY DEF BudgetTypeOK, Entry
<1>2. history' = Push(e)
  BY DEF Record
<1>3. /\ Push(e) \in Seq(Entry)
      /\ Cardinality(WithinWindow(Push(e), clock))
           <= Cardinality(WithinWindow(history, clock)) + (IF counted THEN 1 ELSE 0)
  BY <1>1, PushCharges DEF BudgetTypeOK
<1> HIDE DEF e
<1>4. /\ lastRestartAt' \in Nat \cup {Never}
      /\ consecutiveFailures' \in Nat
      /\ pending' \in Nat \cup {Never}
  BY DEF Record, BudgetTypeOK
<1>5. safeMode' \in BOOLEAN /\ degraded' \in BOOLEAN
  BY DEF Record, BudgetTypeOK, LoopDetected
<1> QED
  BY <1>2, <1>3, <1>4, <1>5 DEF BudgetTypeOK

\* A reset keeps the types and charges no window: its marker is not counted.
LEMMA ResetCharges ==
  ASSUME BudgetTypeOK, Reset, clock' = clock
  PROVE  /\ BudgetTypeOK'
         /\ Cardinality(WithinWindow(history', clock))
              <= Cardinality(WithinWindow(history, clock))
<1> DEFINE e == [at |-> clock, ok |-> TRUE, counted |-> FALSE]
<1>1. e \in Entry /\ ~e.counted
  BY DEF BudgetTypeOK, Entry
<1>2. history' = history \/ history' = Push(e)
  BY DEF Reset
<1>3. /\ Push(e) \in Seq(Entry)
      /\ Cardinality(WithinWindow(Push(e), clock))
           <= Cardinality(WithinWindow(history, clock)) + 0
  BY <1>1, PushCharges DEF BudgetTypeOK
<1>4. Cardinality(WithinWindow(history, clock)) \in Nat
  <2>1. history \in Seq(Entry) /\ clock \in Int
    BY DEF BudgetTypeOK
  <2> QED
    BY <2>1, WindowFinite
<1> HIDE DEF e
<1>5. /\ history' \in Seq(Entry)
      /\ Cardinality(WithinWindow(history', clock))
           <= Cardinality(WithinWindow(history, clock))
  BY <1>2, <1>3, <1>4 DEF BudgetTypeOK
<1> QED
  BY <1>5 DEF Reset, BudgetTypeOK

--------------------------------------------------------------------------------
(* What a turn of run() can do to the budget.                                    *)

\* A turn of run() ends the run, or drops its request, or leaves the budget alone,
\* and no turn goes back from the stop to before it.
LEMMA TurnKinds ==
  ASSUME Run
  PROVE  /\ stage # "idle"
         /\ \/ \E ok, counted \in BOOLEAN : Finish(ok, counted)
            \/ /\ CancelPending \/ UNCHANGED budgetVars
               /\ clock' = clock
               /\ stage' # "idle"
               /\ stage' \in BeforeStop => stage \in BeforeStop
<1> USE DEF GoTo, BeforeStop
<1>1. CASE ContinuityRefuses \/ Aborted \/ ForcedStopFails \/ LaunchFails
             \/ ReadinessFails \/ Recovered
  BY <1>1 DEF ContinuityRefuses, Aborted, ForcedStopFails, LaunchFails, ReadinessFails,
              Recovered
<1>2. CASE ContinuityNotified \/ BoundaryPoll \/ BoundaryBusy \/ BeginStop
  BY <1>2 DEF ContinuityNotified, BoundaryPoll, BoundaryBusy, BeginStop
<1>3. CASE BoundaryTimesOut
  BY <1>3 DEF BoundaryTimesOut
<1>4. CASE StopsGracefully \/ GracefulStopFails \/ StopsForced \/ Launches
  BY <1>4 DEF StopsGracefully, GracefulStopFails, StopsForced, Launches
<1>5. CASE GateUnprobed \/ GateUp \/ GateNotYetUp \/ GateSteppedOver
  BY <1>5 DEF GateUnprobed, GateUp, GateNotYetUp, GateSteppedOver, NextGate
<1> QED
  BY <1>1, <1>2, <1>3, <1>4, <1>5 DEF Run

--------------------------------------------------------------------------------
(* The invariants.                                                               *)

\* Every variable keeps its type, whatever the hooks answer and whenever a person
\* cancels or resets: index.cjs and companion.cjs read these fields unchecked.
THEOREM TypeCorrect == Spec => []TypeOK
<1> USE BudgetAssumption, LifecycleAssumption
<1>1. Init => TypeOK
  <2> SUFFICES ASSUME Init
               PROVE  TypeOK
    OBVIOUS
  <2>1. BudgetTypeOK
    <3>1. history \in Seq(Entry)
      BY EmptySeq DEF Init, BudgetInit
    <3> QED
      BY <3>1 DEF Init, BudgetInit, BudgetTypeOK
  <2>2. 0 \in 0 .. MaxResets /\ 0 \in 0 .. ReadinessAttempts
    BY DEF LifecycleAssumption
  <2>3. stops \in Seq(Nat) /\ gate \in 1..5 /\ stage \in Stages
    BY DEF Init, Stages
  <2> QED
    BY <2>1, <2>2, <2>3 DEF Init, TypeOK
<1>2. TypeOK /\ [Next]_vars => TypeOK'
  <2> SUFFICES ASSUME TypeOK, [Next]_vars
               PROVE  TypeOK'
    OBVIOUS
  <2> USE DEF TypeOK, Stages, BeforeStop, AfterStop, GoTo
  <2>1. CASE Request
    BY <2>1 DEF Request, Accept, BudgetTypeOK, ghostVars
  <2>2. ASSUME NEW ok \in BOOLEAN, NEW counted \in BOOLEAN, Finish(ok, counted)
        PROVE  TypeOK'
    <3>1. BudgetTypeOK'
      BY <2>2, RecordCharges DEF Finish
    <3> QED
      BY <2>2, <3>1 DEF Finish
  <2>3. CASE ContinuityRefuses \/ Aborted \/ ForcedStopFails \/ LaunchFails
               \/ ReadinessFails \/ Recovered
    BY <2>2, <2>3 DEF ContinuityRefuses, Aborted, ForcedStopFails, LaunchFails,
                      ReadinessFails, Recovered
  <2>4. CASE ContinuityNotified \/ BoundaryPoll \/ BoundaryBusy \/ BoundaryTimesOut
    BY <2>4 DEF ContinuityNotified, BoundaryPoll, BoundaryBusy, BoundaryTimesOut,
                CancelPending, budgetVars, ghostVars, BudgetTypeOK
  <2>5. CASE BeginStop
    <3>1. stops' \in Seq(Nat)
      BY <2>5 DEF BeginStop, BudgetTypeOK
    <3> QED
      BY <2>5, <3>1 DEF BeginStop, budgetVars, BudgetTypeOK
  <2>6. CASE StopsGracefully \/ GracefulStopFails \/ StopsForced \/ Launches
    BY <2>6 DEF StopsGracefully, GracefulStopFails, StopsForced, Launches,
                budgetVars, ghostVars, BudgetTypeOK
  <2>7. CASE GateUnprobed \/ GateUp \/ GateSteppedOver
    <3>1. NextGate
      BY <2>7 DEF GateUnprobed, GateUp, GateSteppedOver
    <3>2. gate' \in 1..5
      BY <3>1 DEF NextGate, Gates
    <3> QED
      BY <3>1, <3>2 DEF NextGate, budgetVars, ghostVars, BudgetTypeOK
  <2>8. CASE GateNotYetUp
    BY <2>8 DEF GateNotYetUp, MayProbe, budgetVars, ghostVars, BudgetTypeOK
  <2>9. CASE Cancel
    BY <2>9 DEF Cancel, CancelPending, runVars, BudgetTypeOK
  <2>10. CASE ResetBudget
    <3>1. BudgetTypeOK'
      BY <2>10, ResetCharges DEF ResetBudget
    <3> QED
      BY <2>10, <3>1 DEF ResetBudget, runVars
  <2>11. CASE Tick
    BY <2>11 DEF Tick, budgetVars, runVars, ghostVars, BudgetTypeOK
  <2>12. CASE UNCHANGED vars
    BY <2>12 DEF vars, budgetVars, runVars, ghostVars, BudgetTypeOK
  <2> QED
    BY <2>1, <2>3, <2>4, <2>5, <2>6, <2>7, <2>8, <2>9, <2>10, <2>11, <2>12
       DEF Next, Run
<1> QED
  BY <1>1, <1>2, PTL DEF Spec

\* A step keeps the window within the budget, and room for the run in flight.
LEMMA WindowStep ==
  ASSUME TypeOK, TypeOK', WindowBound, [Next]_vars
  PROVE  WindowBound'
<1> DEFINE used == Cardinality(WithinWindow(history, clock))
           after == Cardinality(WithinWindow(history', clock'))
<1>1. used \in Nat /\ after \in Nat /\ MaxRestarts \in Nat \ {0}
  <2>1. history \in Seq(Entry) /\ clock \in Int /\ history' \in Seq(Entry) /\ clock' \in Int
    BY DEF TypeOK, BudgetTypeOK
  <2> QED
    BY <2>1, WindowFinite, BudgetAssumption DEF BudgetAssumption
<1>2. /\ used <= MaxRestarts
      /\ stage # "idle" => used < MaxRestarts
  BY DEF WindowBound
<1>3. SUFFICES /\ after <= MaxRestarts
               /\ stage' # "idle" => after < MaxRestarts
  BY DEF WindowBound, WithinWindow
<1>4. CASE Request
  <2>1. used < MaxRestarts /\ history' = history /\ clock' = clock
    BY <1>1, <1>4 DEF Request, Accept, MayRestart, BudgetExhausted
  <2> QED
    BY <1>1, <2>1
<1>5. ASSUME NEW ok \in BOOLEAN, NEW counted \in BOOLEAN, Finish(ok, counted),
             stage # "idle"
      PROVE  after <= MaxRestarts /\ stage' = "idle"
  <2>1. clock' = clock /\ stage' = "idle" /\ Record(ok, counted)
    BY <1>5 DEF Finish
  <2>2. after <= used + (IF counted THEN 1 ELSE 0)
    BY <1>5, <2>1, RecordCharges DEF TypeOK
  <2> HIDE DEF used, after
  <2> QED
    BY <1>1, <1>2, <1>5, <2>1, <2>2
<1>6. CASE Run
  <2>1. CASE \E ok, counted \in BOOLEAN : Finish(ok, counted)
    BY <1>5, <1>6, <2>1, TurnKinds
  <2>2. CASE /\ CancelPending \/ UNCHANGED budgetVars
             /\ clock' = clock
    <3>1. after = used
      BY <2>2 DEF CancelPending, budgetVars
    <3> HIDE DEF used, after
    <3> QED
      BY <1>1, <1>2, <1>6, <3>1, TurnKinds
  <2> QED
    BY <1>6, <2>1, <2>2, TurnKinds
<1>7. CASE ResetBudget
  <2>1. clock' = clock /\ stage' = stage /\ Reset
    BY <1>7 DEF ResetBudget, runVars
  <2>2. after <= used
    BY <2>1, ResetCharges DEF TypeOK
  <2> HIDE DEF used, after
  <2> QED
    BY <1>1, <1>2, <2>1, <2>2
<1>8. CASE Tick
  <2>1. clock' = clock + 1 /\ history' = history /\ stage' = stage
    BY <1>8 DEF Tick, budgetVars, runVars
  <2>2. after <= used
    BY <2>1, TimeReleases, BudgetAssumption DEF TypeOK, BudgetTypeOK
  <2> HIDE DEF used, after
  <2> QED
    BY <1>1, <1>2, <2>1, <2>2
<1>9. CASE Cancel \/ UNCHANGED vars
  <2>1. clock' = clock /\ history' = history /\ stage' = stage
    BY <1>9 DEF Cancel, CancelPending, runVars, vars, budgetVars
  <2> QED
    BY <1>2, <2>1
<1> QED
  BY <1>4, <1>6, <1>7, <1>8, <1>9 DEF Next

\* For every budget and history cap: the window of counted attempts never outgrows
\* maxRestarts, although attempts are charged when they end, not when admitted.
THEOREM WindowHolds == Spec => []WindowBound
<1>1. Init => WindowBound
  <2> SUFFICES ASSUME Init
               PROVE  WindowBound
    OBVIOUS
  <2>1. WithinWindow(history, clock) = {}
    BY DEF Init, BudgetInit, WithinWindow
  <2>2. Cardinality(WithinWindow(history, clock)) = 0
    BY <2>1, FS_EmptySet
  <2> QED
    BY <2>2, BudgetAssumption DEF WindowBound, BudgetAssumption
<1>2. TypeOK /\ TypeOK' /\ WindowBound /\ [Next]_vars => WindowBound'
  BY WindowStep
<1> QED
  BY <1>1, <1>2, TypeCorrect, PTL DEF Spec

\* Every pending request has a run that will clear it.
THEOREM NoOrphans == Spec => []NoOrphanPending
<1>1. Init => NoOrphanPending
  BY DEF Init, BudgetInit, NoOrphanPending
<1>2. NoOrphanPending /\ [Next]_vars => NoOrphanPending'
  <2> SUFFICES ASSUME NoOrphanPending, [Next]_vars
               PROVE  NoOrphanPending'
    OBVIOUS
  <2> USE DEF NoOrphanPending
  <2>1. CASE Request
    BY <2>1 DEF Request, GoTo
  <2>2. CASE Run
    BY <2>2, TurnKinds DEF Finish, Record
  <2>3. CASE Cancel \/ ResetBudget
    BY <2>3 DEF Cancel, CancelPending, ResetBudget, Reset
  <2>4. CASE Tick \/ UNCHANGED vars
    BY <2>4 DEF Tick, vars, budgetVars, runVars
  <2> QED
    BY <2>1, <2>2, <2>3, <2>4 DEF Next
<1> QED
  BY <1>1, <1>2, PTL DEF Spec

\* A streak at the threshold puts safe mode in force, at the end of the very run that
\* reached it; a reset takes both away together.
THEOREM LoopsAreCaught == Spec => []LoopIsCaught
<1>1. Init => LoopIsCaught
  BY BudgetAssumption DEF Init, BudgetInit, LoopIsCaught, BudgetAssumption
<1>2. TypeOK /\ TypeOK' /\ LoopIsCaught /\ [Next]_vars => LoopIsCaught'
  <2> SUFFICES ASSUME TypeOK, TypeOK', LoopIsCaught, [Next]_vars
               PROVE  LoopIsCaught'
    OBVIOUS
  <2>1. ASSUME NEW ok \in BOOLEAN, NEW counted \in BOOLEAN, Finish(ok, counted)
        PROVE  LoopIsCaught'
    <3>1. SUFFICES ASSUME SafeModeOnLoop, consecutiveFailures' >= SafeModeAt
                   PROVE  LoopDetected(history', consecutiveFailures')
      BY <2>1 DEF Finish, Record, LoopIsCaught
    <3>2. Cardinality(Failures(history', clock)) \in Nat
      <4>1. history' \in Seq(Entry) /\ clock \in Int
        BY DEF TypeOK, BudgetTypeOK
      <4> QED
        BY <4>1, WindowFinite
    <3> QED
      BY <3>1, <3>2, BudgetAssumption
         DEF LoopDetected, Signal, Larger, TypeOK, BudgetTypeOK, BudgetAssumption
  <2>2. CASE UNCHANGED <<safeMode, consecutiveFailures>>
    BY <2>2 DEF LoopIsCaught
  <2>3. CASE Request
    BY <2>2, <2>3 DEF Request, Accept
  <2>4. CASE Run
    BY <2>1, <2>2, <2>4, TurnKinds DEF CancelPending, budgetVars
  <2>5. CASE Cancel \/ Tick \/ UNCHANGED vars
    BY <2>2, <2>5 DEF Cancel, CancelPending, Tick, vars, budgetVars
  <2>6. CASE ResetBudget
    BY <2>6, BudgetAssumption DEF ResetBudget, Reset, LoopIsCaught, BudgetAssumption
  <2> QED
    BY <2>3, <2>4, <2>5, <2>6 DEF Next
<1> QED
  BY <1>1, <1>2, TypeCorrect, PTL DEF Spec

\* Between two runs the budget is settled, whatever order they and the resets came in.
THEOREM BudgetIsKept == Spec => []BudgetIsSettled
<1>1. LoopIsCaught /\ NoOrphanPending => BudgetIsSettled
  BY DEF BudgetIsSettled
<1> QED
  BY <1>1, LoopsAreCaught, NoOrphans, PTL

\* What keeps a stop earned: a run that has not stopped the application yet still has
\* what admitted it. Time only ends a cooldown, a reset only lifts what held it back.
Earned == stage \in BeforeStop => ~safeMode /\ ~CoolingDown

LEMMA EarnedStep ==
  ASSUME TypeOK, Earned, [Next]_vars
  PROVE  Earned'
<1>1. CASE Request
  BY <1>1 DEF Request, Accept, MayRestart, CoolingDown, BackoffFor, Earned
<1>2. CASE UNCHANGED <<clock, lastRestartAt, consecutiveFailures, safeMode>>
           /\ (stage' \in BeforeStop => stage \in BeforeStop)
  BY <1>2 DEF Earned, CoolingDown, BackoffFor
<1>3. CASE Run
  <2>1. CASE \E ok, counted \in BOOLEAN : Finish(ok, counted)
    BY <2>1 DEF Finish, Earned, BeforeStop
  <2> QED
    BY <1>2, <1>3, <2>1, TurnKinds DEF CancelPending, budgetVars
<1>4. CASE Cancel \/ UNCHANGED vars
  BY <1>2, <1>4 DEF Cancel, CancelPending, runVars, vars, budgetVars
<1>5. CASE ResetBudget
  BY <1>5 DEF ResetBudget, Reset, Earned, CoolingDown
<1>6. CASE Tick
  <2>1. BackoffFor \in Int /\ BackoffFor' = BackoffFor
    BY <1>6, BackoffIsNumber, BudgetAssumption DEF TypeOK, Tick, budgetVars, BackoffFor
  <2>2. /\ clock' = clock + 1 /\ lastRestartAt' = lastRestartAt
        /\ safeMode' = safeMode /\ stage' = stage
    BY <1>6 DEF Tick, budgetVars, runVars
  <2>3. clock \in Int /\ lastRestartAt \in Int
    BY DEF TypeOK, BudgetTypeOK, Never
  <2>4. CoolingDown' => CoolingDown
    BY <2>1, <2>2, <2>3 DEF CoolingDown
  <2> QED
    BY <2>2, <2>4 DEF Earned
<1> QED
  BY <1>1, <1>3, <1>4, <1>5, <1>6 DEF Next

\* The application is stopped only outside safe mode and past the backoff of the
\* streak, although the run waited for its hooks since the budget admitted it.
THEOREM StopsAreEarned == Spec => StopIsEarned
<1>1. Init => Earned
  BY DEF Init, Earned, BeforeStop
<1>2. TypeOK /\ Earned /\ [Next]_vars => Earned'
  BY EarnedStep
<1>3. Earned /\ [Next]_vars => [BeginStop => ~safeMode /\ ~CoolingDown]_vars
  BY DEF BeginStop, GoTo, Earned, BeforeStop
<1> QED
  BY <1>1, <1>2, <1>3, TypeCorrect, PTL DEF Spec, StopIsEarned

--------------------------------------------------------------------------------
(* The lifecycle implements RestartPromise, while the history has room.          *)

\* The cap of the history evicts nothing by the next push.
HistoryHasRoom == Len(history) < MaxEntries

\* The stops whose restart has ended.
Past == Len(stops) - (IF stage \in AfterStop THEN 1 ELSE 0)

\* Each of them has a counted entry of its own, which is no older.
StopsAreCharged ==
    /\ \A i \in DOMAIN stops : stops[i] <= clock
    /\ stage \in AfterStop => Len(stops) > 0
    /\ \E f \in [1..Past -> DOMAIN history] :
           /\ \A i, j \in 1..Past : f[i] = f[j] => i = j
           /\ \A i \in 1..Past : history[f[i]].counted /\ history[f[i]].at >= stops[i]

\* What ends a run: before the stop nothing is charged, after it every outcome is.
LEMMA OutcomeKinds ==
  ASSUME Run
  PROVE  \/ stage \in AfterStop /\ \E ok \in BOOLEAN : Finish(ok, TRUE)
         \/ stage \in BeforeStop /\ Finish(FALSE, FALSE)
         \/ BeginStop
         \/ /\ UNCHANGED <<clock, history, stops>>
            /\ (stage \in BeforeStop /\ stage' \in BeforeStop) \/ (stage \in AfterStop /\ stage' \in AfterStop)
<1> USE DEF GoTo, BeforeStop, AfterStop
<1>1. CASE ContinuityRefuses \/ Aborted
  BY <1>1 DEF ContinuityRefuses, Aborted
<1>2. CASE ForcedStopFails \/ LaunchFails \/ ReadinessFails \/ Recovered
  BY <1>2 DEF ForcedStopFails, LaunchFails, ReadinessFails, Recovered
<1>3. CASE ContinuityNotified \/ BoundaryPoll \/ BoundaryBusy
  BY <1>3 DEF ContinuityNotified, BoundaryPoll, BoundaryBusy, budgetVars, ghostVars
<1>6. CASE BoundaryTimesOut
  BY <1>6 DEF BoundaryTimesOut, CancelPending, ghostVars
<1>4. CASE StopsGracefully \/ GracefulStopFails \/ StopsForced \/ Launches
  BY <1>4 DEF StopsGracefully, GracefulStopFails, StopsForced, Launches, budgetVars, ghostVars
<1>5. CASE GateUnprobed \/ GateUp \/ GateNotYetUp \/ GateSteppedOver
  BY <1>5 DEF GateUnprobed, GateUp, GateNotYetUp, GateSteppedOver, NextGate, budgetVars, ghostVars
<1> QED
  BY <1>1, <1>2, <1>3, <1>4, <1>5, <1>6 DEF Run

\* More history, or a later instant, charges the same stops.
LEMMA ChargesStay ==
  ASSUME TypeOK, TypeOK', StopsAreCharged, stops' = stops, clock <= clock',
         stage' \in AfterStop <=> stage \in AfterStop,
         history' = history \/ \E e \in Entry : history' = Append(history, e)
  PROVE  StopsAreCharged'
<1>1. Past' = Past /\ Past \in Int /\ history \in Seq(Entry) /\ stops \in Seq(Nat) /\ clock \in Nat /\ clock' \in Nat
  BY DEF Past, TypeOK, BudgetTypeOK
<1>2. PICK f \in [1..Past -> DOMAIN history] :
           /\ \A i, j \in 1..Past : f[i] = f[j] => i = j
           /\ \A i \in 1..Past : history[f[i]].counted /\ history[f[i]].at >= stops[i]
  BY DEF StopsAreCharged
<1>3. DOMAIN history \subseteq DOMAIN history' /\ \A i \in DOMAIN history : history'[i] = history[i]
  <2>1. CASE history' = history
    BY <2>1
  <2>2. ASSUME NEW e \in Entry, history' = Append(history, e)
        PROVE  DOMAIN history \subseteq DOMAIN history' /\ \A i \in DOMAIN history : history'[i] = history[i]
    BY <1>1, <2>2
  <2> QED
    BY <2>1, <2>2
<1>4. f \in [1..Past -> DOMAIN history']
  BY <1>2, <1>3
<1>5. \A i \in 1..Past : history'[f[i]].counted /\ history'[f[i]].at >= stops[i]
  BY <1>2, <1>3
<1>6. \A i \in DOMAIN stops : stops[i] <= clock'
  BY <1>1 DEF StopsAreCharged
<1> QED
  BY <1>1, <1>2, <1>4, <1>5, <1>6 DEF StopsAreCharged

\* A push onto a history that has room appends.
LEMMA PushAppends ==
  ASSUME TypeOK, HistoryHasRoom, NEW e \in Entry
  PROVE  Push(e) = Append(history, e)
BY BudgetAssumption DEF Push, HistoryHasRoom, TypeOK, BudgetTypeOK, BudgetAssumption

\* The outcome of a restart charges its stop.
LEMMA OutcomeCharges ==
  ASSUME TypeOK, TypeOK', StopsAreCharged, HistoryHasRoom, stage \in AfterStop,
         NEW ok \in BOOLEAN, Finish(ok, TRUE)
  PROVE  StopsAreCharged'
<1> DEFINE e == [at |-> clock, ok |-> ok, counted |-> TRUE]
           n == Len(stops)
<1>1. /\ history \in Seq(Entry) /\ stops \in Seq(Nat) /\ clock \in Nat /\ e \in Entry
      /\ n \in Nat /\ n > 0 /\ Past = n - 1
  BY DEF TypeOK, BudgetTypeOK, Entry, StopsAreCharged, Past
<1>2. stops' = stops /\ clock' = clock /\ stage' = "idle" /\ history' = Append(history, e)
  <2>1. Push(e) = Append(history, e)
    BY <1>1, PushAppends
  <2> QED
    BY <2>1 DEF Finish, Record
<1>3. Past' = n
  BY <1>1, <1>2 DEF Past, AfterStop
<1>4. PICK f \in [1..Past -> DOMAIN history] :
           /\ \A i, j \in 1..Past : f[i] = f[j] => i = j
           /\ \A i \in 1..Past : history[f[i]].counted /\ history[f[i]].at >= stops[i]
  BY DEF StopsAreCharged
<1> DEFINE m == Len(history) + 1
           g == [i \in 1..n |-> IF i = n THEN m ELSE f[i]]
<1>5. /\ m \notin DOMAIN history /\ m \in DOMAIN history' /\ history'[m] = e
      /\ DOMAIN history \subseteq DOMAIN history' /\ \A i \in DOMAIN history : history'[i] = history[i]
  BY <1>1, <1>2
<1>6. \A i \in 1..n : i = n \/ (i \in 1..Past /\ f[i] \in DOMAIN history)
  BY <1>1, <1>4
<1>7. g \in [1..n -> DOMAIN history']
  BY <1>5, <1>6
<1>8. \A i, j \in 1..n : g[i] = g[j] => i = j
  BY <1>4, <1>5, <1>6
<1>9. \A i \in DOMAIN stops : stops[i] <= clock
  BY DEF StopsAreCharged
<1>10. \A i \in 1..n : history'[g[i]].counted /\ history'[g[i]].at >= stops[i]
  <2> SUFFICES ASSUME NEW i \in 1..n PROVE history'[g[i]].counted /\ history'[g[i]].at >= stops[i]
    OBVIOUS
  <2>1. CASE i = n
    <3>1. g[i] = m /\ stops[i] <= clock /\ stops[i] \in Nat
      BY <1>1, <1>9, <2>1
    <3> QED
      BY <1>1, <1>5, <3>1
  <2>2. CASE i # n
    <3>1. g[i] = f[i] /\ i \in 1..Past /\ f[i] \in DOMAIN history
      BY <1>6, <2>2
    <3> QED
      BY <1>4, <1>5, <3>1
  <2> QED
    BY <2>1, <2>2
<1> HIDE DEF e, n, m, g
<1> QED
  BY <1>1, <1>2, <1>3, <1>7, <1>8, <1>9, <1>10 DEF StopsAreCharged, AfterStop

LEMMA ChargeStep ==
  ASSUME TypeOK, TypeOK', StopsAreCharged, HistoryHasRoom, [Next]_vars
  PROVE  StopsAreCharged'
<1>1. clock \in Nat /\ history \in Seq(Entry) /\ stops \in Seq(Nat)
  BY DEF TypeOK, BudgetTypeOK
<1>2. CASE Request \/ Cancel \/ Tick \/ UNCHANGED vars
  <2>1. /\ stops' = stops /\ history' = history /\ clock <= clock'
        /\ (stage' \in AfterStop <=> stage \in AfterStop)
    BY <1>1, <1>2 DEF Request, Accept, Cancel, CancelPending, Tick, vars, budgetVars, runVars, ghostVars,
       GoTo, AfterStop
  <2> QED
    BY <2>1, ChargesStay
<1>3. CASE ResetBudget
  <2> DEFINE e == [at |-> clock, ok |-> TRUE, counted |-> FALSE]
  <2>1. e \in Entry /\ Push(e) = Append(history, e)
    BY <1>1, PushAppends DEF Entry
  <2>2. history' = history \/ history' = Append(history, e)
    BY <1>3, <2>1 DEF ResetBudget, Reset
  <2>3. stops' = stops /\ clock' = clock /\ stage' = stage
    BY <1>3 DEF ResetBudget, runVars
  <2> HIDE DEF e
  <2> QED
    BY <1>1, <2>1, <2>2, <2>3, ChargesStay
<1>4. CASE Run
  <2>1. CASE stage \in AfterStop /\ \E ok \in BOOLEAN : Finish(ok, TRUE)
    BY <2>1, OutcomeCharges
  <2>2. CASE stage \in BeforeStop /\ Finish(FALSE, FALSE)
    <3> DEFINE e == [at |-> clock, ok |-> FALSE, counted |-> FALSE]
    <3>1. e \in Entry /\ Push(e) = Append(history, e)
      BY <1>1, PushAppends DEF Entry
    <3>2. stops' = stops /\ clock' = clock /\ history' = Append(history, e)
          /\ (stage' \in AfterStop <=> stage \in AfterStop)
      BY <2>2, <3>1 DEF Finish, Record, BeforeStop, AfterStop
    <3> HIDE DEF e
    <3> QED
      BY <1>1, <3>1, <3>2, ChargesStay
  <2>3. CASE BeginStop
    <3>1. /\ stops' = Append(stops, clock) /\ clock' = clock /\ history' = history
          /\ stage \notin AfterStop /\ stage' \in AfterStop
      BY <2>3 DEF BeginStop, GoTo, AfterStop, budgetVars
    <3>2. /\ Len(stops') = Len(stops) + 1 /\ Len(stops) \in Nat /\ Past = Len(stops) /\ Past' = Len(stops)
          /\ \A i \in DOMAIN stops' : stops'[i] = IF i = Len(stops) + 1 THEN clock ELSE stops[i]
          /\ \A i \in DOMAIN stops' : i = Len(stops) + 1 \/ i \in DOMAIN stops
          /\ \A i \in 1..Past : stops'[i] = stops[i]
      BY <1>1, <3>1 DEF Past
    <3>3. \A i \in DOMAIN stops' : stops'[i] <= clock'
      BY <1>1, <3>1, <3>2 DEF StopsAreCharged
    <3> QED
      BY <3>1, <3>2, <3>3 DEF StopsAreCharged
  <2>4. CASE /\ UNCHANGED <<clock, history, stops>>
             /\ (stage \in BeforeStop /\ stage' \in BeforeStop) \/ (stage \in AfterStop /\ stage' \in AfterStop)
    <3>1. stage' \in AfterStop <=> stage \in AfterStop
      BY <2>4 DEF BeforeStop, AfterStop
    <3> QED
      BY <1>1, <2>4, <3>1, ChargesStay
  <2> QED
    BY <1>4, <2>1, <2>2, <2>3, <2>4, OutcomeKinds
<1> QED
  BY <1>2, <1>3, <1>4 DEF Next

\* The stops of a window are no more than the counted entries of it.
LEMMA StopsWithinCharged ==
  ASSUME TypeOK, StopsAreCharged, stage \notin AfterStop
  PROVE  /\ Cardinality(Promise!StopsWithin(clock)) <= Cardinality(WithinWindow(history, clock))
         /\ Cardinality(Promise!StopsWithin(clock)) \in Nat
<1> DEFINE S == Promise!StopsWithin(clock)
           W == WithinWindow(history, clock)
<1>1. history \in Seq(Entry) /\ stops \in Seq(Nat) /\ clock \in Nat /\ WindowMs \in Nat /\ Past = Len(stops)
  BY BudgetAssumption DEF TypeOK, BudgetTypeOK, BudgetAssumption, Past
<1>2. PICK f \in [1..Past -> DOMAIN history] :
           /\ \A i, j \in 1..Past : f[i] = f[j] => i = j
           /\ \A i \in 1..Past : history[f[i]].counted /\ history[f[i]].at >= stops[i]
  BY DEF StopsAreCharged
<1>3. IsFiniteSet(W) /\ Cardinality(W) \in Nat
  <2>1. clock \in Int
    BY <1>1
  <2> QED
    BY <1>1, <2>1, WindowFinite
<1>4. S \subseteq 1..Past /\ \A i \in S : stops[i] >= clock - WindowMs /\ stops[i] \in Nat
  BY <1>1 DEF Promise!StopsWithin
<1>5. \A i \in DOMAIN history : history[i].at \in Nat
  <2>1. \A i \in DOMAIN history : history[i] \in Entry
    BY <1>1
  <2> QED
    BY <2>1 DEF Entry
<1>6. \A i \in S : f[i] \in W
  BY <1>1, <1>2, <1>4, <1>5 DEF WithinWindow
<1> DEFINE g == [i \in S |-> f[i]]
<1>7. g \in Injection(S, W)
  <2>1. g \in [S -> W]
    BY <1>6
  <2>2. IsInjective(g)
    BY <1>2, <1>4 DEF IsInjective
  <2> QED
    BY <2>1, <2>2 DEF Injection
<1> HIDE DEF S, W, g
<1>8. IsFiniteSet(S) /\ Cardinality(S) <= Cardinality(W)
  BY <1>3, <1>7, FS_Injection
<1> QED
  BY <1>8, FS_CardinalityType DEF S, W

\* RestartPromise counts with its own instance of FiniteSets.
LEMMA CardinalityAgrees == \A S : Promise!Cardinality(S) = Cardinality(S)
BY DEF Promise!Cardinality, Cardinality, Promise!IsFiniteSet, IsFiniteSet

\* Every turn of the lifecycle is a step of the promise or changes nothing it speaks of.
LEMMA PromiseStep ==
  ASSUME TypeOK, WindowBound, StopsAreCharged, [Next]_vars
  PROVE  [Promise!Next]_(Promise!vars)
<1> USE DEF Promise!Next, Promise!vars
<1>1. CASE Tick
  BY <1>1 DEF Tick, Promise!Tick, runVars, ghostVars
<1>2. CASE Request \/ Cancel \/ ResetBudget \/ UNCHANGED vars
  BY <1>2 DEF Request, Cancel, ResetBudget, GoTo, AfterStop, vars, runVars, ghostVars
<1>3. CASE Run
  <2>1. CASE stage \in AfterStop /\ \E ok \in BOOLEAN : Finish(ok, TRUE)
    BY <2>1 DEF Finish, AfterStop, Promise!End
  <2>2. CASE stage \in BeforeStop /\ Finish(FALSE, FALSE)
    BY <2>2 DEF Finish, BeforeStop, AfterStop
  <2>3. CASE BeginStop
    <3>1. stage \notin AfterStop /\ stage # "idle" /\ stage' \in AfterStop /\ stops' = Append(stops, clock) /\ clock' = clock
      BY <2>3 DEF BeginStop, GoTo, AfterStop
    <3>2. Cardinality(WithinWindow(history, clock)) < MaxRestarts
      BY <3>1 DEF WindowBound
    <3>3. Cardinality(WithinWindow(history, clock)) \in Nat /\ MaxRestarts \in Nat
      <4>1. history \in Seq(Entry) /\ clock \in Int
        BY DEF TypeOK, BudgetTypeOK
      <4> QED
        BY <4>1, WindowFinite, BudgetAssumption DEF BudgetAssumption
    <3>4. Cardinality(Promise!StopsWithin(clock)) < MaxRestarts
      BY <3>1, <3>2, <3>3, StopsWithinCharged
    <3> QED
      BY <3>1, <3>4, CardinalityAgrees DEF Promise!Stop
  <2>4. CASE /\ UNCHANGED <<clock, history, stops>>
             /\ (stage \in BeforeStop /\ stage' \in BeforeStop) \/ (stage \in AfterStop /\ stage' \in AfterStop)
    BY <2>4 DEF BeforeStop, AfterStop
  <2> QED
    BY <1>3, <2>1, <2>2, <2>3, <2>4, OutcomeKinds
<1> QED
  BY <1>1, <1>2, <1>3 DEF Next

\* For every budget: the lifecycle implements the rate limit RestartPromise states, as
\* long as the cap of the history evicts no entry, although the code counts outcomes,
\* admits a run long before it stops anything, and may be reset or cancelled meanwhile.
THEOREM PromiseIsKept == Spec /\ []HistoryHasRoom => KeepsPromise
<1>1. Init => Promise!Init /\ StopsAreCharged
  <2> SUFFICES ASSUME Init PROVE Promise!Init /\ StopsAreCharged
    OBVIOUS
  <2>1. /\ stops = <<>> /\ clock = 0 /\ stage = "idle"
    BY DEF Init, BudgetInit
  <2>2. Past = 0 /\ DOMAIN stops = {} /\ stage \notin AfterStop
    BY <2>1 DEF Past, AfterStop
  <2>3. [i \in 1..0 |-> 1] \in [1..Past -> DOMAIN history]
    BY <2>2
  <2>4. \A i \in 1..Past : FALSE
    BY <2>2
  <2>5. StopsAreCharged
    BY <2>2, <2>3, <2>4 DEF StopsAreCharged
  <2> QED
    BY <2>1, <2>2, <2>5 DEF Promise!Init
<1>2. TypeOK /\ TypeOK' /\ StopsAreCharged /\ HistoryHasRoom /\ [Next]_vars => StopsAreCharged'
  BY ChargeStep
<1>3. TypeOK /\ WindowBound /\ StopsAreCharged /\ [Next]_vars => [Promise!Next]_(Promise!vars)
  BY PromiseStep
<1> QED
  BY <1>1, <1>2, <1>3, TypeCorrect, WindowHolds, PTL DEF Spec, KeepsPromise, Promise!Spec

\* The stops of a window are finitely many.
LEMMA StopsFinite ==
  ASSUME Promise!TypeOK
  PROVE  IsFiniteSet(Promise!StopsWithin(clock)) /\ Cardinality(Promise!StopsWithin(clock)) \in Nat
<1>1. Promise!StopsWithin(clock) \in SUBSET (1 .. Len(stops)) /\ IsFiniteSet(1 .. Len(stops))
  BY FS_Interval DEF Promise!StopsWithin, Promise!TypeOK
<1>2. IsFiniteSet(Promise!StopsWithin(clock))
  BY <1>1, FS_Subset
<1> QED
  BY <1>2, FS_CardinalityType

\* The promise is an invariant of itself: no window that ends now holds more than
\* maxRestarts stops.
LEMMA PromiseHolds == Promise!Spec => [](Promise!TypeOK /\ Promise!StopsBounded)
<1> DEFINE Inv == Promise!TypeOK /\ Promise!StopsBounded
<1>1. Promise!Init => Inv
  <2> SUFFICES ASSUME Promise!Init
               PROVE  Inv
    OBVIOUS
  <2>1. Promise!TypeOK
    BY EmptySeq DEF Promise!Init, Promise!TypeOK
  <2>2. Promise!StopsWithin(clock) = {}
    BY DEF Promise!Init, Promise!StopsWithin
  <2> QED
    BY <2>1, <2>2, FS_EmptySet, BudgetAssumption, CardinalityAgrees DEF Promise!StopsBounded, BudgetAssumption
<1>2. Inv /\ [Promise!Next]_(Promise!vars) => Inv'
  <2> SUFFICES ASSUME Inv, [Promise!Next]_(Promise!vars)
               PROVE  Inv'
    OBVIOUS
  <2> DEFINE W == Promise!StopsWithin(clock)
  <2>1. stops \in Seq(Nat) /\ clock \in Nat /\ (stage \in AfterStop) \in BOOLEAN
    BY DEF Promise!TypeOK
  <2>2. IsFiniteSet(W) /\ Cardinality(W) \in Nat /\ Cardinality(W) <= MaxRestarts /\ MaxRestarts \in Nat
    BY StopsFinite, CardinalityAgrees, BudgetAssumption DEF Promise!StopsBounded, BudgetAssumption
  <2>3. CASE Promise!Stop
    <3>1. Promise!TypeOK'
      BY <2>1, <2>3, AppendProperties DEF Promise!Stop, Promise!TypeOK
    <3>2. Promise!StopsWithin(clock)' \in SUBSET (W \cup {Len(stops) + 1})
      BY <2>1, <2>3 DEF Promise!Stop, Promise!StopsWithin
    <3>3. Cardinality(W) < MaxRestarts
      BY <2>3, CardinalityAgrees DEF Promise!Stop
    <3> HIDE DEF W
    <3> DEFINE more == W \cup {Len(stops) + 1}
    <3>4. /\ IsFiniteSet(more)
          /\ Cardinality(more) = IF Len(stops) + 1 \in W THEN Cardinality(W)
                                 ELSE Cardinality(W) + 1
      BY <2>2, FS_AddElement, Zenon
    <3>5. /\ Cardinality(Promise!StopsWithin(clock)') <= Cardinality(more)
          /\ Cardinality(Promise!StopsWithin(clock)') \in Nat
      BY <3>2, <3>4, FS_Subset, FS_CardinalityType
    <3> HIDE DEF more
    <3>6. Cardinality(Promise!StopsWithin(clock)') <= MaxRestarts
      BY <2>2, <3>3, <3>4, <3>5
    <3> QED
      BY <3>1, <3>6, CardinalityAgrees DEF Promise!StopsBounded
  <2>4. CASE Promise!Tick
    <3>1. Promise!TypeOK'
      BY <2>1, <2>4 DEF Promise!Tick, Promise!TypeOK
    <3>2. Promise!StopsWithin(clock)' \in SUBSET W
      <4>1. /\ clock' >= clock /\ stops' = stops /\ clock' \in Nat /\ WindowMs \in Nat
            /\ \A i \in DOMAIN stops : stops[i] \in Nat
        BY <2>1, <2>4, BudgetAssumption DEF Promise!Tick, BudgetAssumption
      <4> QED
        BY <2>1, <4>1 DEF Promise!StopsWithin
    <3> HIDE DEF W
    <3>3. /\ Cardinality(Promise!StopsWithin(clock)') <= Cardinality(W)
          /\ Cardinality(Promise!StopsWithin(clock)') \in Nat
      BY <2>2, <3>2, FS_Subset, FS_CardinalityType
    <3>4. Cardinality(Promise!StopsWithin(clock)') <= MaxRestarts
      BY <2>2, <3>3
    <3> QED
      BY <3>1, <3>4, CardinalityAgrees DEF Promise!StopsBounded
  <2>5. CASE Promise!End \/ UNCHANGED Promise!vars
    BY <2>1, <2>2, <2>5 DEF Promise!End, Promise!vars, Promise!TypeOK, Promise!StopsBounded, Promise!StopsWithin
  <2> QED
    BY <2>3, <2>4, <2>5 DEF Promise!Next
<1> QED
  BY <1>1, <1>2, PTL DEF Promise!Spec

\* For every budget: a trailing window never holds more than maxRestarts stops of the
\* application, although nothing in the code counts them, as long as the cap of the
\* history evicts no entry.
THEOREM StopsAreFew == Spec /\ []HistoryHasRoom => []Promise!StopsBounded
BY PromiseIsKept, PromiseHolds, PTL DEF KeepsPromise


--------------------------------------------------------------------------------
(* The lock of the two executors.                                                *)

\* A process that read the file free, and nothing newer, knows that nobody executes.
ReaderKnows ==
    clean => \A p \in Supervisors : pc[p] = "claiming" /\ p \notin stirred => Executing = {}

\* Only living processes are between two operations.
DeadAreIdle == \A p \in Supervisors : ~alive[p] => pc[p] = "idle"

LockInv == LockTypeOK /\ DeadAreIdle /\ ExecutorOwnsFile /\ ReaderKnows

\* The types hold whoever dies and however old a claim grows: readJson's answer is
\* used without further checks.
LEMMA LockTypeStep == ASSUME LockAssumption, LockTypeOK, [LockNext]_lockVars PROVE LockTypeOK'
<1> USE DEF LockTypeOK, Places, Moves
<1>1. CASE Ages
  <2>1. lock.age + 1 \in 0 .. Ttl /\ lock.pid \in Supervisors
    BY <1>1 DEF Ages, Claims, LockAssumption
  <2>2. lock' = [pid |-> lock.pid, age |-> lock.age + 1]
    BY <1>1 DEF Ages, Claims
  <2> QED
    BY <1>1, <2>1, <2>2 DEF Ages, Claims
<1>2. ASSUME NEW p \in Supervisors, Ask(p) \/ LookFirst(p) \/ ClaimRead(p)
                                    \/ ClaimRefused(p) \/ ReleaseRead(p)
      PROVE  LockTypeOK'
  BY <1>2 DEF Ask, LookFirst, ClaimRead, ClaimRefused, ReleaseRead
<1>3. ASSUME NEW p \in Supervisors, ClaimWrite(p)
      PROVE  LockTypeOK'
  <2>1. lock' \in Claims
    BY <1>3 DEF ClaimWrite, Claims, LockAssumption
  <2> QED
    BY <1>3, <2>1 DEF ClaimWrite, Stir
<1>4. ASSUME NEW p \in Supervisors, ReleaseRemove(p)
      PROVE  LockTypeOK'
  BY <1>4 DEF ReleaseRemove, Stir, Claims
<1>5. ASSUME NEW p \in Supervisors, Crash(p) \/ PidReused(p)
      PROVE  LockTypeOK'
  <2>1. crashes' \in 0 .. MaxCrashes
    BY <1>5 DEF Crash, PidReused, LockAssumption
  <2> QED
    BY <1>5, <2>1 DEF Crash, PidReused
<1>6. CASE UNCHANGED lockVars
  BY <1>6 DEF lockVars
<1> QED
  BY <1>1, <1>2, <1>3, <1>4, <1>5, <1>6 DEF LockNext, Proceed

\* The inductive step: what an executor owns and what a reader knows survive any
\* interleaving of file operations, deaths, reused pids and time.
LEMMA LockStep ==
  ASSUME LockAssumption, LockInv, [LockNext]_lockVars
  PROVE  LockInv'
<1>1. LockTypeOK'
  BY LockTypeStep DEF LockInv
<1> USE DEF LockInv, LockTypeOK, DeadAreIdle, ExecutorOwnsFile, ReaderKnows, Executing
<1>2. CASE Ages
  <2>1. lock.age \in 0 .. Ttl /\ lock.pid \in Supervisors /\ lock' # NoLock
        /\ lock'.pid = lock.pid /\ lock'.age = lock.age + 1
    BY <1>2 DEF Ages, Claims, NoLock, LockAssumption
  <2>2. pc' = pc /\ alive' = alive /\ stirred' = stirred
        /\ (clean' => clean /\ ~(lock.age + 1 = Ttl /\ lock.pid \in Executing))
    BY <1>2, <2>1 DEF Ages
  <2>3. ExecutorOwnsFile'
    <3> SUFFICES ASSUME clean', NEW p \in Executing
                 PROVE  lock' # NoLock /\ lock'.pid = p /\ lock'.age < Ttl /\ alive'[p]
      BY <2>2
    <3>1. lock.pid = p /\ lock.age < Ttl /\ alive[p] /\ lock.age + 1 # Ttl
      BY <2>2
    <3> QED
      BY <2>1, <2>2, <3>1 DEF LockAssumption
  <2>4. DeadAreIdle' /\ ReaderKnows'
    BY <2>2
  <2> QED
    BY <1>1, <2>3, <2>4
<1>3. ASSUME NEW p \in Supervisors, Ask(p) \/ LookFirst(p) \/ ClaimRefused(p)
      PROVE  LockInv'
  BY <1>1, <1>3 DEF Ask, LookFirst, ClaimRefused, Moves
<1>4. ASSUME NEW p \in Supervisors, ClaimRead(p)
      PROVE  LockInv'
  BY <1>1, <1>4 DEF ClaimRead, Moves, Held
<1>5. ASSUME NEW p \in Supervisors, ClaimWrite(p)
      PROVE  LockInv'
  <2>1. lock' # NoLock /\ lock'.pid = p /\ lock'.age = 0 /\ 0 < Ttl
    BY <1>5 DEF ClaimWrite, NoLock, LockAssumption
  <2> QED
    BY <1>1, <1>5, <2>1 DEF ClaimWrite, Moves, Stir
<1>6. ASSUME NEW p \in Supervisors, ReleaseRead(p)
      PROVE  LockInv'
  BY <1>1, <1>6 DEF ReleaseRead, Moves
<1>7. ASSUME NEW p \in Supervisors, ReleaseRemove(p)
      PROVE  LockInv'
  BY <1>1, <1>7 DEF ReleaseRemove, Moves, Stir
<1>8. ASSUME NEW p \in Supervisors, Crash(p)
      PROVE  LockInv'
  BY <1>1, <1>8 DEF Crash
<1>9. ASSUME NEW p \in Supervisors, PidReused(p)
      PROVE  LockInv'
  BY <1>1, <1>9 DEF PidReused
<1>10. CASE UNCHANGED lockVars
  BY <1>10 DEF lockVars
<1> QED
  BY <1>2, <1>3, <1>4, <1>5, <1>6, <1>7, <1>8, <1>9, <1>10 DEF LockNext, Proceed

\* The invariant of the lock, for any number of supervisors, deaths and reused pids.
THEOREM LockInvariant == LockSpec => []LockInv
<1>1. LockInit => LockInv
  BY LockAssumption
     DEF LockInit, LockInv, LockTypeOK, Claims, Places, DeadAreIdle, ExecutorOwnsFile,
         ReaderKnows, Executing, LockAssumption
<1>2. LockInv /\ [LockNext]_lockVars => LockInv'
  BY LockStep, LockAssumption
<1> QED
  BY <1>1, <1>2, PTL DEF LockSpec

\* For any number of supervisors, deaths and reused pids: as long as no two claims
\* overlapped and no restart outlived its claim, one supervisor executes, and it owns
\* the file it will release.
THEOREM OneAtATime == LockSpec => [](CleanMeansOne /\ ExecutorOwnsFile)
<1>1. LockInv => CleanMeansOne /\ ExecutorOwnsFile
  BY DEF LockInv, ExecutorOwnsFile, CleanMeansOne, OneExecutor
<1> QED
  BY <1>1, LockInvariant, PTL

\* Every variable keeps its type, for any number of supervisors and deaths.
THEOREM LockTypeCorrect == LockSpec => []LockTypeOK
<1>1. LockInv => LockTypeOK
  BY DEF LockInv
<1> QED
  BY <1>1, LockInvariant, PTL

\* Whoever executes a restart still owns an unexpired claim of the file it will release.
THEOREM ExecutorsOwn == LockSpec => []ExecutorOwnsFile
<1>1. LockInv => ExecutorOwnsFile
  BY DEF LockInv
<1> QED
  BY <1>1, LockInvariant, PTL

================================================================================
