------------------------------ MODULE RestartBudget ------------------------------
(* The restart budget of app/plugins/restart-supervisor/budget.cjs: how many     *)
(* restarts a rolling window may hold, how long the next attempt must wait, and   *)
(* the crash-loop ladder NORMAL -> DEGRADED -> SAFE_MODE.                         *)
(*                                                                                *)
(* The budget has no timer and no caller of its own: the lifecycle composes its   *)
(* operations (RestartLifecycle.tla), and `clock` is the injected `now()`.        *)
EXTENDS Integers, Sequences, FiniteSets

CONSTANTS
    MaxRestarts,     \* budget.maxRestarts: counted restarts a window may hold
    WindowMs,        \* budget.windowMs, in ticks of the model's clock
    CooldownMs,      \* budget.cooldownMs: the floor between two restarts
    BackoffMs,       \* budget.backoffMs: the first backoff
    BackoffMaxMs,    \* budget.backoffMaxMs: where the doubling stops
    DegradedAt,      \* crashLoop.degradedAt
    SafeModeAt,      \* crashLoop.safeModeAt
    SafeModeOnLoop,  \* crashLoop.safeModeOnLoop
    ResetOnSuccess,  \* budget.resetOnSuccess
    MaxEntries       \* history.maxEntries

ASSUME BudgetAssumption ==
    /\ MaxRestarts \in Nat \ {0}
    /\ WindowMs \in Nat
    /\ CooldownMs \in Nat
    /\ BackoffMs \in Nat
    /\ BackoffMaxMs \in Nat
    /\ DegradedAt \in Nat
    /\ SafeModeAt \in Nat \ {0}
    /\ SafeModeOnLoop \in BOOLEAN
    /\ ResetOnSuccess \in BOOLEAN
    /\ MaxEntries \in Nat

VARIABLES
    clock,                \* now()
    history,              \* every attempt, oldest first, at most MaxEntries of them
    lastRestartAt,        \* when the last counted attempt ended, or Never
    consecutiveFailures,  \* the streak the backoff doubles over
    safeMode,             \* whether safe mode is in force
    degraded,             \* whether restarts are reported as a problem
    pending               \* when the accepted request was made, or Never

budgetVars == <<history, lastRestartAt, consecutiveFailures, safeMode, degraded, pending>>

\* `null` in the code: no instant of the clock.
Never == -1

RequestableModes == {"graceful", "application", "emergency"}

Entry == [at : Nat, ok : BOOLEAN, counted : BOOLEAN]

Larger(a, b) == IF a >= b THEN a ELSE b
Smaller(a, b) == IF a <= b THEN a ELSE b

BudgetTypeOK ==
    /\ clock \in Nat
    /\ history \in Seq(Entry)
    /\ lastRestartAt \in Nat \cup {Never}
    /\ consecutiveFailures \in Nat
    /\ safeMode \in BOOLEAN
    /\ degraded \in BOOLEAN
    /\ pending \in Nat \cup {Never}

BudgetInit ==
    /\ clock = 0
    /\ history = <<>>
    /\ lastRestartAt = Never
    /\ consecutiveFailures = 0
    /\ safeMode = FALSE
    /\ degraded = FALSE
    /\ pending = Never

--------------------------------------------------------------------------------
(* What the budget computes.                                                     *)

(* An operator named Slip... is a plausible bug of the definition that follows    *)
(* it; no specification uses one. They are what the properties are tried against. *)

SlipWithinWindow(h, t) == {i \in DOMAIN h : h[i].ok /\ h[i].at >= t - WindowMs}

\* The attempts of h that count against a window ending at t.
WithinWindow(h, t) == {i \in DOMAIN h : h[i].counted /\ h[i].at >= t - WindowMs}

Failures(h, t) == {i \in WithinWindow(h, t) : ~h[i].ok}

\* The wait after the last counted attempt: doubled per failure, capped, floored.
BackoffFor ==
    Larger(Smaller(BackoffMs * 2 ^ consecutiveFailures, BackoffMaxMs), CooldownMs)

SlipBudgetExhausted == Cardinality(WithinWindow(history, clock)) > MaxRestarts

BudgetExhausted == Cardinality(WithinWindow(history, clock)) >= MaxRestarts

CoolingDown == lastRestartAt # Never /\ clock < lastRestartAt + BackoffFor

SlipMayRestart(mode) ==
    ~safeMode /\ mode \in RequestableModes /\ pending = Never /\ ~BudgetExhausted

\* evaluate() answers ok; each conjunct is one of its refusals, in its order.
MayRestart(mode) ==
    /\ ~safeMode
    /\ mode \in RequestableModes
    /\ pending = Never
    /\ ~BudgetExhausted
    /\ ~CoolingDown

\* history.push followed by capHistory: one push can only evict the oldest entry.
Push(e) ==
    LET h == Append(history, e)
    IN  IF Len(h) > MaxEntries THEN Tail(h) ELSE h

\* What the ladder is derived from: the failures of the window and the streak together.
Signal(h, streak) == Larger(Cardinality(Failures(h, clock)), streak)

SlipLoopDetected(h, streak) ==
    SafeModeOnLoop /\ Cardinality(Failures(h, clock)) >= SafeModeAt

LoopDetected(h, streak) == SafeModeOnLoop /\ Signal(h, streak) >= SafeModeAt

--------------------------------------------------------------------------------
(* The operations that change the budget.                                        *)

Accept(mode) ==
    /\ MayRestart(mode)
    /\ pending' = clock
    /\ UNCHANGED <<history, lastRestartAt, consecutiveFailures, safeMode, degraded>>

\* record() and the refreshLadder() that run()'s finally calls in the same turn.
Record(ok, counted) ==
    LET h == Push([at |-> clock, ok |-> ok, counted |-> counted])
        streak == IF ~ok THEN consecutiveFailures + 1
                  ELSE IF ResetOnSuccess THEN 0 ELSE consecutiveFailures
    IN  /\ history' = h
        /\ lastRestartAt' = IF counted THEN clock ELSE lastRestartAt
        /\ consecutiveFailures' = streak
        /\ safeMode' = (safeMode \/ LoopDetected(h, streak))
        /\ degraded' = (LoopDetected(h, streak) \/ Signal(h, streak) >= DegradedAt)
        /\ pending' = Never

CancelPending ==
    /\ pending' = Never
    /\ UNCHANGED <<history, lastRestartAt, consecutiveFailures, safeMode, degraded>>

\* The human escape hatch. The entries stay, with a marker when there were any.
Reset ==
    /\ history' = IF history = <<>> THEN history
                  ELSE Push([at |-> clock, ok |-> TRUE, counted |-> FALSE])
    /\ consecutiveFailures' = 0
    /\ degraded' = FALSE
    /\ safeMode' = FALSE
    /\ lastRestartAt' = Never
    /\ pending' = Never

================================================================================
