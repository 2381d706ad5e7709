--------------------------- MODULE RebootCoordinator ---------------------------
(* A restart of the machine that a person schedules: the plans on disk (plan.cjs, *)
(* store.cjs), the passes that execute what is due, the resumption after the      *)
(* machine came back and the person's edits (coordinator.cjs and the reboot:      *)
(* handlers of desktop-main.cjs), over the operating system of platform.cjs.      *)
(*                                                                                *)
(* The application is one event loop: a pass runs until it waits for a target's   *)
(* answer, and another pass, the resumption or a person comes in only while every *)
(* actor waits. The process and the machine can go down between any two steps.    *)
EXTENDS Integers, Sequences

CONSTANTS
    MaxVersions,  \* bound of the model: how many plans and edited plans there are
    MaxStarts,    \* bound of the model: how often the application is started
    Passes,       \* bound of the model: the passes that can be in progress at once
    Kinds,        \* bound of the model: what the plans are made for
    Parks         \* the targets whose adapter has a park()

Targets == {"worker", "episode"}

ASSUME RebootAssumption ==
    /\ MaxVersions \in Nat /\ MaxStarts \in Nat
    /\ Passes # {} /\ Passes \cap {"boot", "cancel"} = {}
    /\ Kinds \subseteq Targets \cup {"none"} /\ Parks \subseteq Targets

VARIABLES
    plan,      \* every version of every plan, in the order they were made
    listed,    \* the versions on the list, one of each plan, ordered by its id
    pc,        \* what each actor does or waits for
    unseen,    \* what a pass has still to look at
    held,      \* the version each actor is at, 0 for none
    task,      \* what each target's status says
    intent,    \* reboot-resume.json: the version it was written for, 0 for none
    armed,     \* the one-shot entry that starts the application at the next login
    shutdown,  \* the version whose restart the system has accepted, 0 for none
    up,        \* the application runs
    starts,    \* how often the application was started
    clean      \* auxiliary: the intent was never touched while a restart was accepted

planVars == <<plan, listed>>
passVars == <<pc, unseen, held>>
osVars == <<armed, shutdown>>
lifeVars == <<up, starts>>
rebootVars == <<planVars, passVars, task, intent, osVars, lifeVars, clean>>

Versions == 1..Len(plan)
Actors == Passes \cup {"boot", "cancel"}
Moving == {"run", "intent", "arm", "shutdown", "mark", "start"}
Waiting == {"idle", "parking", "unparking", "resuming"}
PlanRecords == [id : 1..MaxVersions, target : Kinds, 
          state : {"pending", "waiting-boundary", "executing", "failed"}]

RebootTypeOK ==
    /\ plan \in Seq(PlanRecords) /\ Len(plan) <= MaxVersions
    /\ listed \subseteq Versions
    /\ \A o, p \in listed : plan[o].id = plan[p].id => o = p
    /\ pc \in [Actors -> Moving \cup Waiting]
    /\ unseen \in [Passes -> SUBSET Versions]
    /\ held \in [Actors -> 0..Len(plan)]
    /\ \A t \in Passes : pc[t] = "idle" <=> held[t] = 0
    /\ task \in [Targets -> {"idle", "busy", "between", "asked", "parked"}]
    /\ intent \in 0..Len(plan)
    /\ armed \in BOOLEAN
    /\ shutdown \in 0..Len(plan)
    /\ up \in BOOLEAN /\ starts \in 0..MaxStarts
    /\ clean \in BOOLEAN

AtRest == [a \in Actors |-> "idle"]

RebootInit ==
    /\ plan = <<>> /\ listed = {}
    /\ pc = AtRest /\ unseen = [t \in Passes |-> {}] /\ held = [a \in Actors |-> 0]
    /\ task = [k \in Targets |-> "idle"]
    /\ intent = 0 /\ armed = FALSE /\ shutdown = 0
    /\ up = FALSE /\ starts = 0
    /\ clean = TRUE

\* The event loop is free.
Quiet == up /\ \A a \in Actors : pc[a] \in Waiting

Goes(a, place) == pc' = [pc EXCEPT ![a] = place]

--------------------------------------------------------------------------------
(* The store.                                                                    *)

SamePlan(o, p) == plan[o].id = plan[p].id

\* What a state change, a removal and a completion find: by the plan's id, whichever
\* version of it is listed.
Marked(o, state) ==
    [p \in Versions |->
        IF SamePlan(o, p) /\ p \in listed THEN [plan[p] EXCEPT !.state = state] ELSE plan[p]]

New(id, target) == [id |-> id, target |-> target, state |-> "pending"]

Add ==
    /\ Quiet
    /\ Len(plan) < MaxVersions
    /\ \E k \in Kinds : plan' = Append(plan, New(Len(plan) + 1, k))
    /\ listed' = listed \cup {Len(plan) + 1}
    /\ UNCHANGED <<passVars, task, intent, osVars, lifeVars, clean>>

SlipUpdate ==
    /\ Quiet
    /\ Len(plan) < MaxVersions
    /\ \E o \in listed, k \in Kinds :
        /\ plan[o].state \in {"pending", "waiting-boundary"}
        /\ plan' = Append(plan, New(plan[o].id, k))
        /\ listed' = listed \cup {Len(plan) + 1}
    /\ UNCHANGED <<passVars, task, intent, osVars, lifeVars, clean>>

\* reboot:update puts a new version in the place of the old one, which passes and a
\* cancellation in progress keep.
Update ==
    /\ Quiet
    /\ Len(plan) < MaxVersions
    /\ \E o \in listed, k \in Kinds :
        /\ plan[o].state \in {"pending", "waiting-boundary"}
        /\ plan' = Append(plan, New(plan[o].id, k))
        /\ listed' = (listed \ {o}) \cup {Len(plan) + 1}
    /\ UNCHANGED <<passVars, task, intent, osVars, lifeVars, clean>>

\* reboot:remove, of any plan, also one whose restart was accepted.
Remove ==
    /\ Quiet
    /\ \E o \in listed : listed' = listed \ {o}
    /\ UNCHANGED <<plan, passVars, task, intent, osVars, lifeVars, clean>>

--------------------------------------------------------------------------------
(* The targets, as the application's event loop hears of them.                   *)

\* Work starts, a stage begins or ends, the work ends, a worker's pause is granted at
\* its checkpoint, a person continues what was parked.
Moves == {<<"idle", "busy">>, <<"busy", "between">>, <<"between", "busy">>, <<"busy", "idle">>,
          <<"between", "idle">>, <<"asked", "parked">>, <<"asked", "idle">>, <<"parked", "busy">>}

Work ==
    /\ Quiet
    /\ \E k \in Kinds \cap Targets, s \in {"idle", "busy", "between", "parked"} :
        /\ <<task[k], s>> \in Moves
        /\ task' = [task EXCEPT ![k] = s]
    /\ UNCHANGED <<planVars, passVars, intent, osVars, lifeVars, clean>>

\* boundaryOf(): not in a stage, or not in a phase that cannot be stopped.
AtBoundary(o) == plan[o].target \in Targets => task[plan[o].target] \notin {"busy", "asked"}

\* An adapter's resume(): the target goes on, or it does not.
Resumes(o) ==
    \/ UNCHANGED task
    \/ plan[o].target \in Targets /\ task' = [task EXCEPT ![plan[o].target] = "busy"]

--------------------------------------------------------------------------------
(* A pass over the plans.                                                        *)

At(t, place) == up /\ pc[t] = place

\* The first of the plans that a pass has left.
Takes(t, left) ==
    \E o \in left :
        /\ \A p \in left : plan[o].id <= plan[p].id
        /\ held' = [held EXCEPT ![t] = o]
        /\ unseen' = [unseen EXCEPT ![t] = left \ {o}]

\* The loop goes on to the next plan, or the pass is over.
Onward(t) ==
    /\ IF unseen[t] = {} THEN Goes(t, "idle") /\ held' = [held EXCEPT ![t] = 0] /\ UNCHANGED unseen
       ELSE Goes(t, "run") /\ Takes(t, unseen[t])

\* The five-second ticker, which does not ask whether the last pass is over.
BeginPass(t) ==
    /\ Quiet
    /\ pc[t] = "idle"
    /\ Goes(t, "run")
    /\ Takes(t, listed)
    /\ UNCHANGED <<planVars, task, intent, osVars, lifeVars, clean>>

\* Its restart was issued already, or it is not due: the moment is one of the wall
\* clock, and may have come when a pass looks, or not.
Skip(t) ==
    /\ At(t, "run")
    /\ Onward(t)
    /\ UNCHANGED <<planVars, task, intent, osVars, lifeVars, clean>>

Due(t) ==
    At(t, "run") /\ plan[held[t]].state # "executing"

Parkable(o) == plan[o].target \in Parks
BoundaryFirst(o) == plan[o].target = "episode"

\* A plan that waits already, or a target that is only asked at a boundary, at none.
HoldsBack(t) ==
    LET o == held[t] IN
    /\ Due(t)
    /\ Parkable(o) /\ ~AtBoundary(o)
    /\ plan[o].state = "waiting-boundary" \/ BoundaryFirst(o)
    /\ plan' = Marked(o, "waiting-boundary")
    /\ Onward(t)
    /\ UNCHANGED <<listed, task, intent, osVars, lifeVars, clean>>

\* Passes were so far apart that the wait is over: each one begins it anew.
WaitTimesOut(t) ==
    LET o == held[t] IN
    /\ Due(t)
    /\ Parkable(o) /\ ~AtBoundary(o) /\ plan[o].state = "waiting-boundary"
    /\ plan' = Marked(o, "failed")
    /\ Onward(t)
    /\ UNCHANGED <<listed, task, intent, osVars, lifeVars, clean>>

\* adapter.park() is called: a worker in a stage is asked, one that is between two is
\* paused; an episode is cancelled.
AskToPark(t) ==
    LET o == held[t]
        k == plan[o].target
    IN
    /\ Due(t)
    /\ Parkable(o) /\ plan[o].state # "waiting-boundary"
    /\ BoundaryFirst(o) => AtBoundary(o)
    /\ task' = [task EXCEPT ![k] = CASE @ = "busy" -> "asked" [] @ = "between" -> "parked" [] OTHER -> @]
    /\ Goes(t, "parking")
    /\ UNCHANGED <<planVars, unseen, held, intent, osVars, lifeVars, clean>>

ParkIsPending(t) ==
    LET o == held[t] IN
    /\ Quiet /\ At(t, "parking")
    /\ ~AtBoundary(o)
    /\ plan' = Marked(o, "waiting-boundary")
    /\ Onward(t)
    /\ UNCHANGED <<listed, task, intent, osVars, lifeVars, clean>>

ParkRefused(t) ==
    /\ Quiet /\ At(t, "parking")
    /\ plan' = Marked(held[t], "failed")
    /\ Onward(t)
    /\ UNCHANGED <<listed, task, intent, osVars, lifeVars, clean>>

SlipParked(t) ==
    LET o == held[t] IN
    /\ \/ Due(t) /\ (Parkable(o) => plan[o].state = "waiting-boundary")
       \/ Quiet /\ At(t, "parking") /\ AtBoundary(o)
    /\ Goes(t, "intent")
    /\ UNCHANGED <<planVars, unseen, held, task, intent, osVars, lifeVars, clean>>

\* Nothing to park, no way to park it, or it is parked; or at a boundary by the time
\* this pass looks.
Parked(t) ==
    LET o == held[t] IN
    /\ \/ Due(t) /\ (Parkable(o) => plan[o].state = "waiting-boundary" /\ AtBoundary(o))
       \/ Quiet /\ At(t, "parking") /\ AtBoundary(o)
    /\ Goes(t, "intent")
    /\ UNCHANGED <<planVars, unseen, held, task, intent, osVars, lifeVars, clean>>

\* A plan that continues a task after the restart.
Carries(o) == plan[o].target \in Targets

--------------------------------------------------------------------------------
(* execute(): the intent, the entry, the machine.                                *)

WriteIntent(t) ==
    LET o == held[t] IN
    /\ At(t, "intent")
    /\ intent' = IF Carries(o) THEN o ELSE intent
    /\ clean' = (clean /\ shutdown = 0)
    /\ Goes(t, IF Carries(o) THEN "arm" ELSE "shutdown")
    /\ UNCHANGED <<planVars, unseen, held, task, osVars, lifeVars>>

Arm(t) ==
    /\ At(t, "arm")
    /\ armed' = TRUE
    /\ Goes(t, "shutdown")
    /\ UNCHANGED <<planVars, unseen, held, task, intent, shutdown, lifeVars, clean>>

\* The plan has failed and its target, parked or not, is asked to go on.
Undo(t) ==
    /\ plan' = Marked(held[t], "failed")
    /\ IF Carries(held[t]) THEN Goes(t, "unparking") /\ UNCHANGED <<unseen, held>> ELSE Onward(t)

ArmFails(t) ==
    /\ At(t, "arm")
    /\ intent' = 0
    /\ Undo(t)
    /\ UNCHANGED <<listed, task, osVars, lifeVars, clean>>

\* The system accepts one restart at a time.
Shutdown(t) ==
    /\ At(t, "shutdown")
    /\ shutdown = 0
    /\ shutdown' = held[t]
    /\ Goes(t, "mark")
    /\ UNCHANGED <<planVars, unseen, held, task, intent, armed, lifeVars, clean>>

ShutdownFails(t) ==
    /\ At(t, "shutdown")
    /\ IF Carries(held[t]) THEN intent' = 0 /\ armed' = FALSE ELSE UNCHANGED <<intent, armed>>
    /\ Undo(t)
    /\ UNCHANGED <<listed, task, shutdown, lifeVars, clean>>

Mark(t) ==
    /\ At(t, "mark")
    /\ plan' = Marked(held[t], "executing")
    /\ Onward(t)
    /\ UNCHANGED <<listed, task, intent, osVars, lifeVars, clean>>

Unparked(t) ==
    /\ Quiet /\ At(t, "unparking")
    /\ Resumes(held[t])
    /\ Onward(t)
    /\ UNCHANGED <<planVars, intent, osVars, lifeVars, clean>>

--------------------------------------------------------------------------------
(* cancel().                                                                     *)

\* `shutdown /a` takes back whatever restart was accepted.
Abort(o) ==
    /\ shutdown # 0
    /\ shutdown' = 0 /\ intent' = 0 /\ armed' = FALSE
    /\ IF Carries(o) THEN Goes("cancel", "unparking") /\ held' = [held EXCEPT !["cancel"] = o] /\ UNCHANGED listed
       ELSE listed' = listed \ {o} /\ UNCHANGED <<pc, held>>

SlipCancel ==
    /\ Quiet
    /\ pc["cancel"] = "idle"
    /\ \E o \in listed : intent' = 0 /\ armed' = FALSE /\ listed' = listed \ {o}
    /\ UNCHANGED <<plan, passVars, task, shutdown, lifeVars, clean>>

Cancel ==
    /\ Quiet
    /\ pc["cancel"] = "idle"
    /\ \E o \in listed :
        \/ plan[o].state = "executing" /\ Abort(o)
        \/ listed' = listed \ {o} /\ UNCHANGED <<pc, held, intent, osVars>>
    /\ UNCHANGED <<plan, unseen, task, lifeVars, clean>>

CancelEnds ==
    /\ Quiet
    /\ pc["cancel"] = "unparking"
    /\ Resumes(held["cancel"])
    /\ listed' = {p \in listed : ~SamePlan(held["cancel"], p)}
    /\ Goes("cancel", "idle") /\ held' = [held EXCEPT !["cancel"] = 0]
    /\ UNCHANGED <<plan, unseen, intent, osVars, lifeVars, clean>>

--------------------------------------------------------------------------------
(* The application and the machine come and go.                                  *)

AllEnd == pc' = AtRest /\ unseen' = [t \in Passes |-> {}] /\ held' = [a \in Actors |-> 0]

\* The entry or a person starts it. The ticker begins with a pass at once; the
\* resumption is deferred behind it.
StartApp ==
    /\ ~up
    /\ starts < MaxStarts
    /\ up' = TRUE /\ starts' = starts + 1
    /\ IF listed = {} THEN pc' = [AtRest EXCEPT !["boot"] = "start"] /\ UNCHANGED <<unseen, held>>
       ELSE \E t \in Passes :
                pc' = [AtRest EXCEPT !["boot"] = "start", ![t] = "run"] /\ Takes(t, listed)
    /\ UNCHANGED <<planVars, task, intent, osVars, clean>>

\* A crash or a quit: what waits for the application to answer is over.
Exit ==
    /\ up
    /\ up' = FALSE
    /\ task' = [k \in Targets |-> "idle"]
    /\ AllEnd
    /\ UNCHANGED <<planVars, intent, osVars, starts, clean>>

MachineRestarts ==
    /\ shutdown # 0
    /\ shutdown' = 0
    /\ up' = FALSE
    /\ task' = [k \in Targets |-> "idle"]
    /\ AllEnd
    /\ UNCHANGED <<planVars, intent, armed, starts, clean>>

Executing == {o \in listed : plan[o].state = "executing"}

SlipNothingToResume ==
    /\ At("boot", "start") /\ \A t \in Passes : pc[t] \in Waiting
    /\ intent = 0
    /\ Goes("boot", "idle")
    /\ UNCHANGED <<planVars, unseen, held, task, intent, osVars, lifeVars, clean>>

\* resumeOnStartup() runs when the first pass waits or is over.
NothingToResume ==
    /\ At("boot", "start") /\ \A t \in Passes : pc[t] \in Waiting
    /\ intent = 0
    /\ listed' = listed \ Executing
    /\ Goes("boot", "idle")
    /\ UNCHANGED <<plan, unseen, held, task, intent, osVars, lifeVars, clean>>

ReadIntent ==
    /\ At("boot", "start") /\ \A t \in Passes : pc[t] \in Waiting
    /\ intent # 0
    /\ held' = [held EXCEPT !["boot"] = intent]
    /\ Goes("boot", "resuming")
    /\ UNCHANGED <<planVars, unseen, task, intent, osVars, lifeVars, clean>>

\* The target answered: whatever intent and entry there are by now are removed, and
\* every plan that is executing by now is done.
Resumed ==
    /\ Quiet
    /\ pc["boot"] = "resuming"
    /\ Resumes(held["boot"])
    /\ intent' = 0 /\ armed' = FALSE
    /\ clean' = (clean /\ shutdown = 0)
    /\ listed' = {p \in listed \ Executing : ~SamePlan(held["boot"], p)}
    /\ Goes("boot", "idle") /\ held' = [held EXCEPT !["boot"] = 0]
    /\ UNCHANGED <<plan, unseen, shutdown, lifeVars>>

--------------------------------------------------------------------------------
PassProceeds(t) ==
    \/ Skip(t) \/ HoldsBack(t) \/ WaitTimesOut(t) \/ AskToPark(t)
    \/ ParkIsPending(t) \/ ParkRefused(t) \/ Parked(t)
    \/ WriteIntent(t) \/ Arm(t) \/ ArmFails(t) \/ Shutdown(t) \/ ShutdownFails(t) \/ Mark(t)
    \/ Unparked(t)

BootProceeds == NothingToResume \/ ReadIntent \/ Resumed

RebootNext ==
    \/ Add \/ Update \/ Remove \/ Work
    \/ \E t \in Passes : BeginPass(t) \/ PassProceeds(t)
    \/ Cancel \/ CancelEnds
    \/ StartApp \/ Exit \/ MachineRestarts \/ BootProceeds

RebootSpec == RebootInit /\ [][RebootNext]_rebootVars

--------------------------------------------------------------------------------
(* Correctness.                                                                  *)

\* A restart of the machine that was accepted for a plan with a task always finds the
\* intent and the entry in place, wherever a crash, an edit, a removal or a refusal
\* falls, unless a second plan was executed or an intent resumed while it was pending.
CleanTaskIsCarried ==
    clean /\ shutdown # 0 /\ Carries(shutdown) => intent = shutdown /\ armed

\* A plan that is shown as executing, once the application has come up, is one whose
\* restart is pending, or is being cancelled.
ExecutingIsPending ==
    \A o \in Executing :
        up /\ pc["boot"] = "idle" =>
            \/ held["cancel"] = o
            \/ shutdown # 0 /\ SamePlan(shutdown, o)

\* coordinator.cjs:6: a restart that exists to continue a task is asked of the system
\* only when that task is at a point where it can be stopped.
NeverOverATask ==
    [][\A t \in Passes : Shutdown(t) => AtBoundary(held[t])]_rebootVars

\* An intent is acted on or withdrawn: none is left when the application is up, nothing
\* is in progress and no restart is pending, whatever failed and whoever went down.
NoIntentIsLeft ==
    up /\ (\A a \in Actors : pc[a] = "idle") /\ shutdown = 0 => intent = 0

\* Nothing of a restart that failed, was cancelled or is over stays behind: neither a plan
\* shown as executing nor an intent that nobody will act on.
NothingIsLeft == ExecutingIsPending /\ NoIntentIsLeft

================================================================================
