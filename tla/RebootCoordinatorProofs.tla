------------------------ MODULE RebootCoordinatorProofs ------------------------
(* Why the intent and the entry are in place whenever a restart is pending: a     *)
(* pass reaches the restart only through both, and while it does nobody else runs *)
(* who could take them away again.                                                *)
EXTENDS RebootCoordinator, TLAPS

Places == Moving \cup Waiting

\* The part of the type that the argument needs.
Typed ==
    /\ plan \in Seq(PlanRecords)
    /\ listed \subseteq Versions
    /\ pc \in [Actors -> Places]
    /\ unseen \in [Passes -> SUBSET Versions]
    /\ held \in [Actors -> 0..Len(plan)]
    /\ \A t \in Passes : pc[t] # "idle" => held[t] # 0
    /\ intent \in 0..Len(plan) /\ shutdown \in 0..Len(plan)
    /\ armed \in BOOLEAN /\ clean \in BOOLEAN

\* The event loop runs one pass at a time.
OnePassRuns == \A t, u \in Passes : pc[t] \in Moving /\ pc[u] \in Moving => t = u

\* On its way to the restart, a pass has left the intent, and then the entry, behind.
OnCourse ==
    \A t \in Passes :
        /\ clean /\ pc[t] \in {"arm", "shutdown"} => shutdown = 0
        /\ pc[t] = "arm" => intent = held[t]
        /\ pc[t] = "shutdown" /\ Carries(held[t]) => intent = held[t] /\ armed

IInv == Typed /\ OnePassRuns /\ OnCourse /\ CleanTaskIsCarried

\* A plan keeps its target, whatever becomes of its state and however many follow it.
Stable ==
    /\ plan' \in Seq(PlanRecords) /\ Len(plan') >= Len(plan)
    /\ \A o \in Versions : plan'[o].target = plan[o].target

\* What a pass leaves of the other actors.
OthersStay(t) ==
    /\ unseen' \in [Passes -> SUBSET Versions]
    /\ held' \in [Actors -> 0..Len(plan)]
    /\ held'[t] # 0
    /\ \A u \in Passes \ {t} : held'[u] = held[u]

LEMMA StateChange ==
    ASSUME Typed, NEW o \in 0..Len(plan),
           NEW state \in {"pending", "waiting-boundary", "executing", "failed"},
           plan' = Marked(o, state)
    PROVE Stable /\ Len(plan') = Len(plan)
<1>1. /\ plan \in Seq(PlanRecords) /\ Len(plan) \in Nat
      /\ \A p \in Versions : plan[p] \in PlanRecords
  BY DEF Typed, Versions
<1>2. \A p \in Versions : [plan[p] EXCEPT !.state = state] \in PlanRecords
  BY <1>1 DEF PlanRecords
<1>3. plan' \in [Versions -> PlanRecords]
  BY <1>1, <1>2 DEF Marked
<1>4. plan' \in Seq(PlanRecords) /\ Len(plan') = Len(plan)
  BY <1>1, <1>3 DEF Versions
<1>5. \A p \in Versions : plan'[p].target = plan[p].target
  BY <1>1 DEF Marked, PlanRecords
<1> QED
  BY <1>1, <1>4, <1>5 DEF Stable

LEMMA NewVersion ==
    ASSUME Typed, NEW r \in PlanRecords, plan' = Append(plan, r)
    PROVE Stable /\ Len(plan') = Len(plan) + 1
BY DEF Typed, Stable, Versions

\* A pass that has plans left takes one of them.
LEMMA PassTakes ==
    ASSUME Typed, NEW t \in Passes, NEW left \in SUBSET Versions, Takes(t, left)
    PROVE OthersStay(t)
<1>1. PICK o \in left : /\ held' = [held EXCEPT ![t] = o]
                        /\ unseen' = [unseen EXCEPT ![t] = left \ {o}]
  BY DEF Takes
<1> QED
  BY <1>1 DEF Typed, OthersStay, Actors, Versions

\* A pass moves, to a place where it is not about to ask for a restart. Only a pass
\* that was about to may have taken the intent and the entry back.
LEMMA PassMove ==
    ASSUME RebootAssumption, IInv, NEW t \in Passes,
           NEW place \in Places \ {"arm", "shutdown"},
           pc' = [pc EXCEPT ![t] = place],
           place \in Moving => pc[t] \in Moving \/ Quiet,
           Stable, Len(plan') = Len(plan), UNCHANGED <<listed, shutdown, clean>>,
           OthersStay(t) \/ (place = "idle" /\ held' = [held EXCEPT ![t] = 0] /\ UNCHANGED unseen),
           UNCHANGED <<intent, armed>> \/
               (pc[t] \in {"arm", "shutdown"} /\ intent' = 0 /\ armed' \in BOOLEAN)
    PROVE IInv'
<1>1. t \in Actors /\ Versions' = Versions
  BY DEF Actors, Versions
<1>0. place \in Places /\ place # "arm" /\ place # "shutdown"
  OBVIOUS
<1>2. pc'[t] = place /\ \A u \in Passes \ {t} : pc'[u] = pc[u]
  BY <1>1 DEF IInv, Typed, Actors
<1>3. /\ held' \in [Actors -> 0..Len(plan)] /\ unseen' \in [Passes -> SUBSET Versions]
      /\ \A u \in Passes \ {t} : held'[u] = held[u]
      /\ place # "idle" => held'[t] # 0
  BY <1>1 DEF IInv, Typed, OthersStay, Actors
<1>4. Typed'
  <2>1. /\ plan' \in Seq(PlanRecords) /\ listed' \subseteq Versions' /\ shutdown' \in 0..Len(plan')
        /\ clean' \in BOOLEAN
    BY <1>1 DEF IInv, Typed, Stable
  <2>2. intent' \in 0..Len(plan') /\ armed' \in BOOLEAN
    BY DEF IInv, Typed
  <2>3. pc' \in [Actors -> Places]
    BY <1>0 DEF IInv, Typed
  <2>4. \A u \in Passes : pc'[u] # "idle" => held'[u] # 0
    BY <1>2, <1>3 DEF IInv, Typed
  <2> QED
    BY <1>1, <1>3, <2>1, <2>2, <2>3, <2>4 DEF Typed
<1>5. OnePassRuns'
  BY <1>2 DEF IInv, OnePassRuns, Quiet, Moving, Waiting, Actors
<1>6. \A u \in Passes : pc'[u] \in {"arm", "shutdown"} => u # t /\ pc[u] = pc'[u] /\ held'[u] = held[u]
  BY <1>0, <1>2, <1>3
<1>7. \A o \in 1..Len(plan) : Carries(o)' = Carries(o)
  BY DEF Carries, Stable, Versions
<1>8. ASSUME NEW u \in Passes, pc'[u] \in {"arm", "shutdown"}
      PROVE UNCHANGED <<intent, armed>> /\ held[u] \in 1..Len(plan)
  <2>1. pc[t] \notin {"arm", "shutdown"}
    BY <1>6, <1>8 DEF IInv, OnePassRuns, Moving
  <2>2. held[u] \in 0..Len(plan) /\ held[u] # 0
    BY <1>6, <1>8 DEF IInv, Typed, Actors
  <2> QED
    BY <2>1, <2>2
<1>9. OnCourse'
  <2> SUFFICES ASSUME NEW u \in Passes, pc'[u] \in {"arm", "shutdown"}
               PROVE /\ clean' => shutdown' = 0
                     /\ pc'[u] = "arm" => intent' = held'[u]
                     /\ pc'[u] = "shutdown" /\ Carries(held[u])' => intent' = held'[u] /\ armed'
    BY <1>6 DEF OnCourse, Carries
  <2>1. Carries(held[u])' = Carries(held[u])
    BY <1>6, <1>7, <1>8 DEF Carries
  <2> QED
    BY <1>6, <1>8, <2>1 DEF IInv, OnCourse
<1>10. CleanTaskIsCarried'
  <2> SUFFICES ASSUME clean, shutdown # 0, Carries(shutdown)'
               PROVE intent' = shutdown /\ armed'
    BY DEF CleanTaskIsCarried, Carries
  <2>1. shutdown \in 1..Len(plan)
    BY DEF IInv, Typed
  <2>2. intent = shutdown /\ armed
    BY <1>7, <2>1 DEF IInv, CleanTaskIsCarried, Carries
  <2>3. pc[t] \notin {"arm", "shutdown"}
    BY DEF IInv, OnCourse
  <2> QED
    BY <2>2, <2>3
<1> QED
  BY <1>4, <1>5, <1>9, <1>10 DEF IInv

\* Onward is such a move, whatever became of the plans' states.
LEMMA OnwardMove ==
    ASSUME RebootAssumption, IInv, NEW t \in Passes, Onward(t),
           pc[t] \in Moving \/ Quiet,
           Stable, Len(plan') = Len(plan), UNCHANGED <<listed, shutdown, clean>>,
           UNCHANGED <<intent, armed>> \/
               (pc[t] \in {"arm", "shutdown"} /\ intent' = 0 /\ armed' \in BOOLEAN)
    PROVE IInv'
<1>1. CASE unseen[t] = {}
  <2>1. /\ pc' = [pc EXCEPT ![t] = "idle"]
        /\ held' = [held EXCEPT ![t] = 0] /\ UNCHANGED unseen
    BY <1>1 DEF Onward, Goes
  <2> QED
    BY <2>1, PassMove DEF Places, Moving, Waiting
<1>2. CASE unseen[t] # {}
  <2>1. pc' = [pc EXCEPT ![t] = "run"] /\ Takes(t, unseen[t])
    BY <1>2 DEF Onward, Goes
  <2>2. unseen[t] \in SUBSET Versions
    BY DEF IInv, Typed
  <2>3. OthersStay(t)
    BY <2>1, <2>2, PassTakes DEF IInv
  <2> QED
    BY <2>1, <2>3, PassMove DEF Places, Moving, Waiting
<1> QED
  BY <1>1, <1>2

\* A pass that stays with its plan and changes none.
LEMMA StayMove ==
    ASSUME RebootAssumption, IInv, NEW t \in Passes, pc[t] # "idle",
           NEW place \in Places \ {"arm", "shutdown"}, Goes(t, place),
           pc[t] \in Moving \/ Quiet,
           Stable, Len(plan') = Len(plan), UNCHANGED <<listed, unseen, held, shutdown, clean>>,
           UNCHANGED <<intent, armed>> \/
               (pc[t] \in {"arm", "shutdown"} /\ intent' = 0 /\ armed' \in BOOLEAN)
    PROVE IInv'
<1>1. OthersStay(t)
  BY DEF IInv, Typed, OthersStay
<1>2. pc' = [pc EXCEPT ![t] = place]
  BY DEF Goes
<1> QED
  BY <1>1, <1>2, PassMove

LEMMA SameIsStable == ASSUME Typed, UNCHANGED plan PROVE Stable /\ Len(plan') = Len(plan)
BY DEF Typed, Stable

LEMMA HeldIsVersion == ASSUME IInv, NEW t \in Passes PROVE held[t] \in 0..Len(plan)
BY DEF IInv, Typed, Actors

\* The steps of a pass up to execute(), and after the restart was accepted.
LEMMA LookSteps ==
    ASSUME RebootAssumption, IInv, NEW t \in Passes,
           \/ BeginPass(t) \/ Skip(t) \/ HoldsBack(t) \/ WaitTimesOut(t) \/ AskToPark(t)
           \/ ParkIsPending(t) \/ ParkRefused(t) \/ Parked(t) \/ Mark(t) \/ Unparked(t)
    PROVE IInv'
<1> USE HeldIsVersion, SameIsStable, StateChange
<1>1. CASE BeginPass(t)
  <2>1. /\ pc' = [pc EXCEPT ![t] = "run"] /\ Takes(t, listed) /\ Quiet
        /\ UNCHANGED <<plan, listed, intent, armed, shutdown, clean>>
    BY <1>1 DEF BeginPass, Goes, planVars, osVars
  <2>2. OthersStay(t)
    BY <2>1, PassTakes DEF IInv, Typed
  <2> QED
    BY <2>1, <2>2, PassMove DEF IInv, Places, Moving, Waiting
<1>2. CASE Skip(t) \/ Unparked(t)
  <2>1. /\ Onward(t) /\ (pc[t] \in Moving \/ Quiet)
        /\ UNCHANGED <<plan, listed, intent, armed, shutdown, clean>>
    BY <1>2 DEF Skip, Unparked, At, planVars, osVars, Moving
  <2> QED
    BY <2>1, OnwardMove DEF IInv
<1>3. CASE HoldsBack(t) \/ ParkIsPending(t)
  <2>1. /\ Onward(t) /\ (pc[t] \in Moving \/ Quiet)
        /\ plan' = Marked(held[t], "waiting-boundary")
        /\ UNCHANGED <<listed, intent, armed, shutdown, clean>>
    BY <1>3 DEF HoldsBack, ParkIsPending, Due, At, osVars, Moving
  <2> QED
    BY <2>1, OnwardMove DEF IInv
<1>4. CASE WaitTimesOut(t) \/ ParkRefused(t)
  <2>1. /\ Onward(t) /\ (pc[t] \in Moving \/ Quiet)
        /\ plan' = Marked(held[t], "failed")
        /\ UNCHANGED <<listed, intent, armed, shutdown, clean>>
    BY <1>4 DEF WaitTimesOut, ParkRefused, Due, At, osVars, Moving
  <2> QED
    BY <2>1, OnwardMove DEF IInv
<1>5. CASE Mark(t)
  <2>1. /\ Onward(t) /\ pc[t] \in Moving
        /\ plan' = Marked(held[t], "executing")
        /\ UNCHANGED <<listed, intent, armed, shutdown, clean>>
    BY <1>5 DEF Mark, At, osVars, Moving
  <2> QED
    BY <2>1, OnwardMove DEF IInv
<1>6. CASE AskToPark(t) \/ Parked(t)
  <2>1. /\ Goes(t, "parking") \/ Goes(t, "intent")
        /\ pc[t] # "idle" /\ (pc[t] \in Moving \/ Quiet)
        /\ UNCHANGED <<plan, listed, unseen, held, intent, armed, shutdown, clean>>
    BY <1>6 DEF AskToPark, Parked, Due, At, planVars, osVars, Moving
  <2> QED
    BY <2>1, StayMove DEF IInv, Places, Moving, Waiting
<1> QED
  BY <1>1, <1>2, <1>3, <1>4, <1>5, <1>6

\* execute(), up to the restart: the pass runs, so that no other one is on this way.
LEMMA ExecuteSteps ==
    ASSUME RebootAssumption, IInv, NEW t \in Passes, NEW from \in {"intent", "arm", "shutdown"},
           pc[t] = from,
           \/ from = "intent" /\ WriteIntent(t)
           \/ from = "arm" /\ Arm(t)
           \/ from = "shutdown" /\ Shutdown(t)
    PROVE IInv'
<1>1. /\ t \in Actors /\ from \in Moving
      /\ held[t] \in 1..Len(plan) /\ UNCHANGED <<plan, listed, unseen, held>>
  BY DEF IInv, Typed, Actors, Moving, WriteIntent, Arm, Shutdown, planVars
<1>2. \A u \in Passes \ {t} : pc[u] \notin Moving
  BY <1>1 DEF IInv, OnePassRuns
<1>3. PICK place \in {"arm", "shutdown", "mark"} : pc' = [pc EXCEPT ![t] = place]
  BY DEF WriteIntent, Arm, Shutdown, Goes
<1>4. pc'[t] = place /\ \A u \in Passes \ {t} : pc'[u] = pc[u] /\ pc'[u] \notin Moving
  BY <1>1, <1>2, <1>3 DEF IInv, Typed
<1>5. Typed'
  <2>1. intent' \in 0..Len(plan) /\ shutdown' \in 0..Len(plan) /\ armed' \in BOOLEAN /\ clean' \in BOOLEAN
    BY <1>1 DEF IInv, Typed, WriteIntent, Arm, Shutdown, osVars
  <2>2. pc' \in [Actors -> Places]
    BY <1>1, <1>3 DEF IInv, Typed, Places, Moving
  <2>3. \A u \in Passes : pc'[u] # "idle" => held'[u] # 0
    BY <1>1, <1>4 DEF IInv, Typed
  <2> QED
    BY <1>1, <2>1, <2>2, <2>3 DEF IInv, Typed, Versions
<1>6. OnePassRuns'
  BY <1>4 DEF OnePassRuns
<1>7. \A o : Carries(o)' = Carries(o)
  BY <1>1 DEF Carries
<1>8. CASE WriteIntent(t)
  <2>1. /\ intent' = (IF Carries(held[t]) THEN held[t] ELSE intent)
        /\ clean' = (clean /\ shutdown = 0) /\ UNCHANGED <<armed, shutdown>>
        /\ pc' = [pc EXCEPT ![t] = IF Carries(held[t]) THEN "arm" ELSE "shutdown"]
    BY <1>8 DEF WriteIntent, Goes, osVars
  <2>2. OnCourse' /\ CleanTaskIsCarried'
    BY <1>1, <1>4, <2>1 DEF OnCourse, CleanTaskIsCarried, Carries, Moving, IInv, Typed
  <2> QED
    BY <1>5, <1>6, <2>2 DEF IInv
<1>9. CASE Arm(t)
  <2>1. /\ pc[t] = "arm" /\ armed' /\ UNCHANGED <<intent, shutdown, clean>> /\ pc'[t] = "shutdown"
    BY <1>1, <1>9 DEF Arm, At, Goes, IInv, Typed
  <2>2. OnCourse'
    BY <1>1, <1>4, <2>1 DEF IInv, OnCourse, Carries, Moving
  <2>3. CleanTaskIsCarried'
    BY <1>1, <2>1 DEF IInv, OnCourse, CleanTaskIsCarried
  <2> QED
    BY <1>5, <1>6, <2>2, <2>3 DEF IInv
<1>10. CASE Shutdown(t)
  <2>1. /\ pc[t] = "shutdown" /\ pc'[t] = "mark"
        /\ shutdown' = held[t] /\ UNCHANGED <<intent, armed, clean>>
    BY <1>1, <1>10 DEF Shutdown, At, Goes, IInv, Typed
  <2>2. OnCourse'
    BY <1>4, <2>1 DEF OnCourse, Moving
  <2>3. CleanTaskIsCarried'
    BY <1>1, <2>1 DEF IInv, OnCourse, CleanTaskIsCarried, Carries
  <2> QED
    BY <1>5, <1>6, <2>2, <2>3 DEF IInv
<1> QED
  BY <1>8, <1>9, <1>10

\* A refusal takes the intent back, and can only do so when no restart is pending or
\* the state is not clean.
LEMMA RefusalSteps ==
    ASSUME RebootAssumption, IInv, NEW t \in Passes, ArmFails(t) \/ ShutdownFails(t)
    PROVE IInv'
<1> USE HeldIsVersion, SameIsStable, StateChange
<1>1. /\ pc[t] \in {"arm", "shutdown"} /\ plan' = Marked(held[t], "failed")
      /\ UNCHANGED <<listed, shutdown, clean>>
      /\ UNCHANGED <<intent, armed>> \/ (intent' = 0 /\ armed' \in BOOLEAN)
      /\ (Goes(t, "unparking") /\ UNCHANGED <<unseen, held>>) \/ Onward(t)
  BY DEF ArmFails, ShutdownFails, Undo, At, osVars, IInv, Typed
<1>2. Stable /\ Len(plan') = Len(plan) /\ pc[t] \in Moving /\ pc[t] # "idle"
  BY <1>1 DEF IInv, Moving
<1>3. CASE Onward(t)
  BY <1>1, <1>2, <1>3, OnwardMove
<1>4. CASE Goes(t, "unparking") /\ UNCHANGED <<unseen, held>>
  BY <1>1, <1>2, <1>4, StayMove DEF Places, Moving, Waiting
<1> QED
  BY <1>1, <1>3, <1>4

\* What happens while every pass waits disturbs none of them; it may take the intent
\* back only with the restart, or with the claim to be clean.
LEMMA QuietMove ==
    ASSUME RebootAssumption, IInv, Stable,
           \A t \in Passes : pc[t] \in Waiting /\ pc'[t] = pc[t] /\ held'[t] = held[t],
           pc' \in [Actors -> Places], held' \in [Actors -> 0..Len(plan')], UNCHANGED unseen,
           listed' \in SUBSET Versions',
           \/ UNCHANGED <<intent, armed, shutdown, clean>>
           \/ /\ intent' = 0 /\ armed' = FALSE /\ shutdown' \in {0, shutdown}
              /\ clean' \in BOOLEAN /\ (clean' => shutdown' = 0)
    PROVE IInv'
<1>1. Versions \subseteq Versions' /\ plan \in Seq(PlanRecords) /\ plan' \in Seq(PlanRecords)
  BY DEF IInv, Typed, Stable, Versions
<1>2. Typed'
  <2>1. /\ intent' \in 0..Len(plan') /\ shutdown' \in 0..Len(plan')
        /\ armed' \in BOOLEAN /\ clean' \in BOOLEAN
    <3>1. /\ Len(plan) \in Nat /\ Len(plan') \in Nat /\ Len(plan') >= Len(plan)
          /\ intent \in 0..Len(plan) /\ shutdown \in 0..Len(plan)
          /\ armed \in BOOLEAN /\ clean \in BOOLEAN
      BY <1>1 DEF IInv, Typed, Stable
    <3>2. \A n \in 0..Len(plan) : n \in 0..Len(plan')
      BY <3>1
    <3>3. CASE UNCHANGED <<intent, armed, shutdown, clean>>
      BY <3>1, <3>2, <3>3
    <3>4. CASE /\ intent' = 0 /\ armed' = FALSE /\ shutdown' \in {0, shutdown}
               /\ clean' \in BOOLEAN
      <4>1. intent' \in 0..Len(plan') /\ shutdown' \in 0..Len(plan')
        BY <3>1, <3>2, <3>4
      <4>2. armed' \in BOOLEAN /\ clean' \in BOOLEAN
        BY <3>4
      <4> QED
        BY <4>1, <4>2
    <3> QED
      BY <3>3, <3>4
  <2>2. unseen' \in [Passes -> SUBSET Versions'] /\ \A t \in Passes : pc'[t] # "idle" => held'[t] # 0
    BY <1>1 DEF IInv, Typed
  <2> QED
    BY <1>1, <2>1, <2>2 DEF Typed
<1>3. OnePassRuns' /\ OnCourse'
  BY DEF OnePassRuns, OnCourse, Moving, Waiting
<1>4. CleanTaskIsCarried'
  <2>1. CASE UNCHANGED <<intent, armed, shutdown, clean>>
    <3>1. shutdown # 0 => Carries(shutdown)' = Carries(shutdown)
      BY <2>1 DEF IInv, Typed, Stable, Versions, Carries
    <3> QED
      BY <2>1, <3>1 DEF IInv, CleanTaskIsCarried, Carries
  <2>2. CASE clean' => shutdown' = 0
    BY <2>2 DEF CleanTaskIsCarried
  <2> QED
    BY <2>1, <2>2
<1> QED
  BY <1>2, <1>3, <1>4 DEF IInv

LEMMA QuietSteps ==
    ASSUME RebootAssumption, IInv,
           \/ Add \/ Update \/ Remove \/ Work \/ Cancel \/ CancelEnds
           \/ NothingToResume \/ ReadIntent \/ Resumed
    PROVE IInv'
<1>1. /\ "boot" \in Actors /\ "cancel" \in Actors /\ "boot" \notin Passes /\ "cancel" \notin Passes
      /\ plan \in Seq(PlanRecords) /\ Len(plan) \in Nat /\ listed \in SUBSET Versions
      /\ pc \in [Actors -> Places] /\ held \in [Actors -> 0..Len(plan)]
  BY DEF Actors, IInv, Typed, RebootAssumption
<1>2. \A t \in Passes : pc[t] \in Waiting
  BY <1>1 DEF Add, Update, Remove, Work, Cancel, CancelEnds, NothingToResume, ReadIntent, Resumed,
              Quiet, Actors
<1>3. \A place \in {"idle", "unparking", "resuming"} : place \in Places
  BY DEF Places, Waiting
<1>4. ASSUME UNCHANGED plan PROVE Stable /\ Versions' = Versions
  BY <1>4, SameIsStable DEF IInv, Versions
<1>5. CASE Add \/ Update
  <2>1. PICK id \in 1..MaxVersions, k \in Kinds : plan' = Append(plan, New(id, k))
    <3>1. CASE Add
      BY <1>1, <3>1 DEF Add, RebootAssumption
    <3>2. CASE Update
      <4>1. PICK o \in listed, k \in Kinds : plan' = Append(plan, New(plan[o].id, k))
        BY <3>2 DEF Update
      <4>2. plan[o].id \in 1..MaxVersions
        <5>1. plan[o] \in PlanRecords
          BY <1>1 DEF Versions
        <5> QED
          BY <5>1 DEF PlanRecords
      <4> QED
        BY <4>1, <4>2
    <3> QED
      BY <1>5, <3>1, <3>2
  <2>2. New(id, k) \in PlanRecords
    BY DEF New, PlanRecords
  <2>3. Stable /\ Len(plan') = Len(plan) + 1
    BY <2>1, <2>2, NewVersion DEF IInv
  <2>4. /\ UNCHANGED <<pc, unseen, held, intent, armed, shutdown, clean>>
        /\ listed' \subseteq listed \cup {Len(plan) + 1}
    BY <1>5 DEF Add, Update, passVars, osVars
  <2>5. listed' \in SUBSET Versions' /\ held \in [Actors -> 0..Len(plan')]
    BY <1>1, <2>3, <2>4 DEF Versions
  <2> QED
    BY <1>1, <1>2, <2>3, <2>4, <2>5, QuietMove
<1>6. CASE Remove \/ Work
  <2>1. /\ UNCHANGED <<plan, pc, unseen, held, intent, armed, shutdown, clean>>
        /\ listed' \subseteq listed
    BY <1>6 DEF Remove, Work, planVars, passVars, osVars
  <2> QED
    BY <1>1, <1>2, <1>4, <2>1, QuietMove
<1>7. CASE Cancel
  <2>1. PICK o \in listed :
            \/ Abort(o)
            \/ listed' = listed \ {o} /\ UNCHANGED <<pc, held, intent, osVars>>
    BY <1>7 DEF Cancel
  <2>2. UNCHANGED <<plan, unseen, clean>>
    BY <1>7 DEF Cancel
  <2>3. /\ listed' \subseteq listed
        /\ \/ UNCHANGED <<pc, held>>
           \/ /\ pc' = [pc EXCEPT !["cancel"] = "unparking"]
              /\ held' = [held EXCEPT !["cancel"] = o]
        /\ \/ UNCHANGED <<intent, armed, shutdown>>
           \/ intent' = 0 /\ armed' = FALSE /\ shutdown' = 0
    BY <2>1 DEF Abort, Goes, osVars
  <2>4. /\ pc' \in [Actors -> Places] /\ held' \in [Actors -> 0..Len(plan)]
        /\ \A t \in Passes : pc'[t] = pc[t] /\ held'[t] = held[t]
    <3>1. o \in 0..Len(plan)
      BY <1>1 DEF Versions
    <3>2. CASE UNCHANGED <<pc, held>>
      BY <1>1, <3>2
    <3>3. CASE /\ pc' = [pc EXCEPT !["cancel"] = "unparking"]
               /\ held' = [held EXCEPT !["cancel"] = o]
      <4>1. \A t \in Passes : t \in Actors /\ t # "cancel"
        BY <1>1 DEF Actors
      <4> QED
        BY <1>1, <1>3, <3>1, <3>3, <4>1
    <3> QED
      BY <2>3, <3>2, <3>3
  <2> QED
    BY <1>1, <1>2, <1>4, <2>2, <2>3, <2>4, QuietMove DEF IInv, Typed
<1>8. CASE CancelEnds \/ NothingToResume \/ ReadIntent \/ Resumed
  <2>1. /\ UNCHANGED <<plan, unseen, shutdown>> /\ listed' \subseteq listed
        /\ \/ UNCHANGED <<intent, armed, clean>>
           \/ intent' = 0 /\ armed' = FALSE /\ clean' = (clean /\ shutdown = 0)
    BY <1>8 DEF CancelEnds, NothingToResume, ReadIntent, Resumed, planVars, osVars
  <2>2. PICK a \in {"boot", "cancel"}, place \in {"idle", "resuming"} :
            pc' = [pc EXCEPT ![a] = place]
    BY <1>8 DEF CancelEnds, NothingToResume, ReadIntent, Resumed, Goes
  <2>3. UNCHANGED held \/ \E b \in {"boot", "cancel"}, o \in {0, intent} : held' = [held EXCEPT ![b] = o]
    BY <1>8 DEF CancelEnds, NothingToResume, ReadIntent, Resumed
  <2>4. /\ pc' \in [Actors -> Places] /\ held' \in [Actors -> 0..Len(plan)]
        /\ \A t \in Passes : pc'[t] = pc[t] /\ held'[t] = held[t]
    <3>1. \A t \in Passes : t \in Actors /\ t # a /\ t \notin {"boot", "cancel"}
      BY <1>1 DEF Actors
    <3>2. pc' \in [Actors -> Places] /\ \A t \in Passes : pc'[t] = pc[t]
      BY <1>1, <1>3, <2>2, <3>1
    <3>3. CASE UNCHANGED held
      BY <1>1, <3>2, <3>3
    <3>4. CASE \E b \in {"boot", "cancel"}, o \in {0, intent} : held' = [held EXCEPT ![b] = o]
      <4>1. PICK b \in {"boot", "cancel"}, o \in {0, intent} : held' = [held EXCEPT ![b] = o]
        BY <3>4
      <4>2. o \in 0..Len(plan)
        BY <1>1 DEF IInv, Typed
      <4> QED
        BY <1>1, <3>1, <3>2, <4>1, <4>2
    <3> QED
      BY <2>3, <3>3, <3>4
  <2> QED
    BY <1>1, <1>2, <1>4, <2>1, <2>4, QuietMove DEF IInv, Typed
<1> QED
  BY <1>5, <1>6, <1>7, <1>8

\* The application and the machine go down and come up: nobody is on the way to a
\* restart, and what is on disk and what the system knows stays.
LEMMA LifeSteps ==
    ASSUME RebootAssumption, IInv, StartApp \/ Exit \/ MachineRestarts
    PROVE IInv'
<1>1. /\ UNCHANGED <<plan, listed, intent, armed, clean>>
      /\ shutdown' = shutdown \/ shutdown' = 0
  BY DEF StartApp, Exit, MachineRestarts, planVars, osVars
<1>2. /\ pc' \in [Actors -> Places]
      /\ \A u, w \in Passes : pc'[u] # "idle" /\ pc'[w] # "idle" => u = w
      /\ \A u \in Passes : pc'[u] \in {"idle", "run"} /\ (pc'[u] # "idle" => held'[u] # 0)
      /\ unseen' \in [Passes -> SUBSET Versions] /\ held' \in [Actors -> 0..Len(plan)]
  <2>0. /\ \A u \in Passes : u \in Actors /\ u # "boot"
        /\ AtRest \in [Actors -> Places] /\ \A a \in Actors : AtRest[a] = "idle"
        /\ "run" \in Places /\ "start" \in Places /\ "boot" \in Actors
        /\ Len(plan) \in Nat /\ listed \in SUBSET Versions
        /\ unseen \in [Passes -> SUBSET Versions] /\ held \in [Actors -> 0..Len(plan)]
    BY DEF RebootAssumption, Actors, AtRest, Places, Moving, Waiting, IInv, Typed
  <2>1. CASE AllEnd
    BY <2>0, <2>1 DEF AllEnd
  <2>2. CASE pc' = [AtRest EXCEPT !["boot"] = "start"] /\ UNCHANGED <<unseen, held>>
    BY <2>0, <2>2
  <2>3. CASE \E t \in Passes :
                pc' = [AtRest EXCEPT !["boot"] = "start", ![t] = "run"] /\ Takes(t, listed)
    <3>1. PICK t \in Passes :
              pc' = [AtRest EXCEPT !["boot"] = "start", ![t] = "run"] /\ Takes(t, listed)
      BY <2>3
    <3>2. OthersStay(t)
      BY <2>0, <3>1, PassTakes DEF IInv
    <3>3. \A u \in Passes : pc'[u] = IF u = t THEN "run" ELSE "idle"
      BY <2>0, <3>1
    <3> QED
      BY <2>0, <3>1, <3>2, <3>3 DEF OthersStay
  <2> QED
    BY <2>1, <2>2, <2>3 DEF StartApp, Exit, MachineRestarts
<1>3. Typed'
  BY <1>1, <1>2 DEF IInv, Typed, Versions
<1>4. OnePassRuns' /\ OnCourse'
  BY <1>2 DEF OnePassRuns, OnCourse, Moving
<1>5. CleanTaskIsCarried'
  BY <1>1 DEF IInv, CleanTaskIsCarried, Carries
<1> QED
  BY <1>3, <1>4, <1>5 DEF IInv

\* The inductive invariant: one pass runs at a time, and what it has left behind on its
\* way to the restart is still there.
THEOREM Invariance == ASSUME RebootAssumption PROVE RebootSpec => []IInv
<1>1. RebootInit => IInv
  <2> SUFFICES ASSUME RebootInit PROVE IInv
    OBVIOUS
  <2>1. Typed
    <3>1. plan \in Seq(PlanRecords) /\ Len(plan) = 0
      BY DEF RebootInit
    <3>2. /\ AtRest \in [Actors -> Places]
          /\ \A t \in Passes : AtRest[t] = "idle"
      BY DEF AtRest, Places, Waiting, Actors
    <3>3. /\ unseen \in [Passes -> SUBSET Versions] /\ held \in [Actors -> 0..0]
          /\ listed \subseteq Versions
      BY DEF RebootInit
    <3>4. armed \in BOOLEAN /\ clean \in BOOLEAN
      BY DEF RebootInit
    <3>5. intent \in 0..Len(plan) /\ shutdown \in 0..Len(plan) /\ pc = AtRest
      BY <3>1 DEF RebootInit
    <3> QED
      BY <3>1, <3>2, <3>3, <3>4, <3>5 DEF Typed
  <2>2. \A t \in Passes : pc[t] = "idle"
    BY DEF RebootInit, AtRest, Actors
  <2>3. OnePassRuns /\ OnCourse /\ CleanTaskIsCarried
    BY <2>2 DEF RebootInit, OnePassRuns, OnCourse, CleanTaskIsCarried, Moving
  <2> QED
    BY <2>1, <2>3 DEF IInv
<1>2. IInv /\ [RebootNext]_rebootVars => IInv'
  <2> SUFFICES ASSUME IInv, [RebootNext]_rebootVars PROVE IInv'
    OBVIOUS
  <2>1. CASE Add \/ Update \/ Remove \/ Work \/ Cancel \/ CancelEnds \/ BootProceeds
    BY <2>1, QuietSteps DEF BootProceeds
  <2>2. CASE \E t \in Passes : BeginPass(t) \/ PassProceeds(t)
    <3>1. PICK t \in Passes : BeginPass(t) \/ PassProceeds(t)
      BY <2>2
    <3>2. CASE ArmFails(t) \/ ShutdownFails(t)
      BY <3>2, RefusalSteps
    <3>3. CASE WriteIntent(t)
      BY <3>3, ExecuteSteps DEF WriteIntent, At
    <3>4. CASE Arm(t)
      BY <3>4, ExecuteSteps DEF Arm, At
    <3>5. CASE Shutdown(t)
      BY <3>5, ExecuteSteps DEF Shutdown, At
    <3> QED
      BY <3>1, <3>2, <3>3, <3>4, <3>5, LookSteps DEF PassProceeds
  <2>3. CASE StartApp \/ Exit \/ MachineRestarts
    BY <2>3, LifeSteps
  <2>4. CASE UNCHANGED rebootVars
    BY <2>4 DEF rebootVars, planVars, passVars, osVars, lifeVars, IInv, Typed, OnePassRuns, OnCourse,
                CleanTaskIsCarried, Carries, Versions
  <2> QED
    BY <2>1, <2>2, <2>3, <2>4 DEF RebootNext
<1> QED
  BY <1>1, <1>2, PTL DEF RebootSpec

\* For every number of plans, versions, passes and starts, and whatever the targets can:
\* wherever a crash, an edit, a removal or a refusal falls, a restart that was accepted
\* for a plan with a task finds the intent and the entry in place, unless a second plan
\* was executed or an intent resumed while it was pending.
THEOREM TaskIsCarried == ASSUME RebootAssumption PROVE RebootSpec => []CleanTaskIsCarried
<1>1. IInv => CleanTaskIsCarried
  BY DEF IInv
<1> QED
  BY <1>1, Invariance, PTL

-------------------------------------------------------------------------------
(* The other invariants rest on IInv and on what the steps do to an actor.       *)

\* A pass step: one pass moves, and the two other actors and their versions stay.
Moved(t) ==
    /\ pc' \in [Actors -> Places] /\ held' \in [Actors -> 0..Len(plan)]
    /\ \A a \in Actors \ {t} : pc'[a] = pc[a] /\ held'[a] = held[a]
    /\ pc'[t] \in {"idle", "start"} => held'[t] = 0

\* What the loop leaves behind when it goes on.
LEMMA OnwardMoved ==
    ASSUME RebootAssumption, IInv, NEW t \in Passes, Onward(t)
    PROVE Moved(t) /\ pc'[t] \in {"idle", "run"}
<1>0. /\ t \in Actors /\ pc \in [Actors -> Places] /\ held \in [Actors -> 0..Len(plan)]
      /\ unseen[t] \subseteq Versions /\ 0 \in 0..Len(plan) /\ Versions \subseteq 0..Len(plan)
  BY DEF IInv, Typed, Actors, Versions
<1>1. CASE unseen[t] = {}
  <2>1. pc' = [pc EXCEPT ![t] = "idle"] /\ held' = [held EXCEPT ![t] = 0]
    BY <1>1 DEF Onward, Goes
  <2> QED
    BY <1>0, <2>1 DEF Moved, Places, Waiting
<1>2. CASE unseen[t] # {}
  <2>1. PICK o \in unseen[t] : pc' = [pc EXCEPT ![t] = "run"] /\ held' = [held EXCEPT ![t] = o]
    BY <1>2 DEF Onward, Goes, Takes
  <2> QED
    BY <1>0, <2>1 DEF Moved, Places, Moving
<1> QED
  BY <1>1, <1>2

\* Every step of a pass is such a move.
LEMMA PassMoved ==
    ASSUME RebootAssumption, IInv, NEW t \in Passes, BeginPass(t) \/ PassProceeds(t)
    PROVE (Moved(t) /\ pc[t] # pc'[t]) \/ Onward(t)
<1>0. /\ t \in Actors /\ pc \in [Actors -> Places] /\ held \in [Actors -> 0..Len(plan)]
      /\ listed \subseteq Versions /\ Versions \subseteq 0..Len(plan)
  BY DEF IInv, Typed, Actors, Versions
<1>1. CASE BeginPass(t)
  <2>1. PICK o \in listed : pc' = [pc EXCEPT ![t] = "run"] /\ held' = [held EXCEPT ![t] = o]
    BY <1>1 DEF BeginPass, Goes, Takes
  <2>2. pc[t] = "idle"
    BY <1>1 DEF BeginPass
  <2> QED
    BY <1>0, <2>1, <2>2 DEF Moved, Places, Moving
<1>2. CASE PassProceeds(t) /\ ~Onward(t)
  <2>1. PICK place \in (Moving \cup Waiting) \ {"idle", "start"} :
            pc' = [pc EXCEPT ![t] = place] /\ held' = held /\ pc[t] # place
    BY <1>2 DEF PassProceeds, Skip, HoldsBack, WaitTimesOut, AskToPark, ParkIsPending, ParkRefused,
                Parked, WriteIntent, Arm, ArmFails, Shutdown, ShutdownFails, Mark, Unparked, Undo,
                Goes, At, Due, Moving, Waiting
  <2> QED
    BY <1>0, <2>1 DEF Moved, Places
<1> QED
  BY <1>1, <1>2

-------------------------------------------------------------------------------
(* Types and names.                                                             *)

States == {"idle", "busy", "between", "asked", "parked"}

\* What the type invariant says beyond Typed.
Rest ==
    /\ Len(plan) <= MaxVersions
    /\ task \in [Targets -> States]
    /\ up \in BOOLEAN /\ starts \in 0..MaxStarts
    /\ \A a \in Actors : pc[a] \in {"idle", "start"} => held[a] = 0
    /\ ~up => \A a \in Actors : pc[a] = "idle"

\* A plan has the number of its first version, and one version of it is listed.
Named ==
    /\ \A o \in Versions : plan[o].id <= o
    /\ \A o, p \in listed : SamePlan(o, p) => o = p

\* What becomes of the plans in one step: states change, one is added, or one version
\* takes the place of another.
PlansChange ==
    \/ UNCHANGED plan /\ listed' \subseteq listed
    \/ /\ \E o \in 0..Len(plan), state \in {"waiting-boundary", "executing", "failed"} :
              plan' = Marked(o, state)
       /\ UNCHANGED listed
    \/ /\ Len(plan) < MaxVersions
       /\ \/ /\ \E k \in Kinds : plan' = Append(plan, New(Len(plan) + 1, k))
             /\ listed' = listed \cup {Len(plan) + 1}
          \/ \E o \in listed, k \in Kinds :
              /\ plan' = Append(plan, New(plan[o].id, k))
              /\ listed' = (listed \ {o}) \cup {Len(plan) + 1}

LEMMA PlanSteps == ASSUME IInv, [RebootNext]_rebootVars PROVE PlansChange
<1>1. CASE \E t \in Passes : BeginPass(t) \/ PassProceeds(t)
  <2>1. PICK t \in Passes : BeginPass(t) \/ PassProceeds(t)
    BY <1>1
  <2>2. listed' = listed
    BY <2>1 DEF BeginPass, PassProceeds, Skip, HoldsBack, WaitTimesOut, AskToPark, ParkIsPending,
                ParkRefused, Parked, WriteIntent, Arm, ArmFails, Shutdown, ShutdownFails, Mark,
                Unparked, planVars
  <2>3. UNCHANGED plan \/ \E state \in {"waiting-boundary", "executing", "failed"} :
                              plan' = Marked(held[t], state)
    BY <2>1 DEF BeginPass, PassProceeds, Skip, HoldsBack, WaitTimesOut, AskToPark, ParkIsPending,
                ParkRefused, Parked, WriteIntent, Arm, ArmFails, Shutdown, ShutdownFails, Mark,
                Unparked, Undo, planVars
  <2> QED
    BY <2>2, <2>3, HeldIsVersion DEF PlansChange
<1>2. CASE Add \/ Update
  BY <1>2 DEF Add, Update, PlansChange
<1>3. CASE \/ Remove \/ Work \/ Cancel \/ CancelEnds \/ StartApp \/ Exit \/ MachineRestarts
           \/ BootProceeds \/ UNCHANGED rebootVars
  <2>1. plan' = plan
    BY <1>3 DEF Remove, Work, Cancel, CancelEnds, StartApp, Exit, MachineRestarts, BootProceeds,
                NothingToResume, ReadIntent, Resumed, planVars, rebootVars
  <2>2. listed' \subseteq listed
    BY <1>3 DEF Remove, Work, Cancel, Abort, CancelEnds, StartApp, Exit, MachineRestarts, BootProceeds,
                NothingToResume, ReadIntent, Resumed, planVars, rebootVars
  <2> QED
    BY <2>1, <2>2 DEF PlansChange
<1> QED
  BY <1>1, <1>2, <1>3 DEF RebootNext

\* A plan keeps its number and its target.
LEMMA KeepsName ==
    ASSUME RebootAssumption, IInv, PlansChange
    PROVE /\ plan' \in Seq(PlanRecords) /\ Len(plan) \in Nat /\ Len(plan') \in Nat /\ Len(plan) <= Len(plan')
          /\ \A o \in Versions : plan'[o].id = plan[o].id /\ plan'[o].target = plan[o].target
<1>0. plan \in Seq(PlanRecords) /\ Len(plan) \in Nat /\ listed \subseteq Versions
  BY DEF IInv, Typed
<1>1. CASE UNCHANGED plan
  BY <1>0, <1>1
<1>2. CASE \E o \in 0..Len(plan), state \in {"waiting-boundary", "executing", "failed"} :
               plan' = Marked(o, state)
  <2>1. PICK o \in 0..Len(plan), state \in {"waiting-boundary", "executing", "failed"} :
            plan' = Marked(o, state)
    BY <1>2
  <2>2. plan' \in Seq(PlanRecords) /\ Len(plan') = Len(plan)
    BY <2>1, StateChange DEF IInv, Stable
  <2>3. \A p \in Versions : plan[p] \in PlanRecords
    BY <1>0 DEF Versions
  <2>4. \A p \in Versions : plan'[p].id = plan[p].id /\ plan'[p].target = plan[p].target
    BY <2>1, <2>3 DEF Marked, PlanRecords
  <2> QED
    BY <1>0, <2>2, <2>4
<1>3. CASE \E id \in 1..MaxVersions, k \in Kinds : plan' = Append(plan, New(id, k))
  <2>1. PICK id \in 1..MaxVersions, k \in Kinds : plan' = Append(plan, New(id, k))
    BY <1>3
  <2>2. New(id, k) \in PlanRecords
    BY DEF New, PlanRecords
  <2> QED
    BY <1>0, <2>1, <2>2 DEF Versions
<1>4. CASE Len(plan) < MaxVersions /\ \E k \in Kinds : plan' = Append(plan, New(Len(plan) + 1, k))
  <2>1. Len(plan) + 1 \in 1..MaxVersions
    BY <1>0, <1>4 DEF RebootAssumption
  <2> QED
    BY <1>3, <1>4, <2>1
<1>5. CASE \E o \in listed, k \in Kinds : plan' = Append(plan, New(plan[o].id, k))
  <2>1. PICK o \in listed, k \in Kinds : plan' = Append(plan, New(plan[o].id, k))
    BY <1>5
  <2>2. plan[o] \in PlanRecords
    BY <1>0 DEF Versions
  <2>3. plan[o].id \in 1..MaxVersions
    BY <2>2 DEF PlanRecords
  <2> QED
    BY <1>3, <2>1, <2>3
<1> QED
  BY <1>1, <1>2, <1>4, <1>5 DEF PlansChange

LEMMA NamedStep ==
    ASSUME RebootAssumption, IInv, Named, Len(plan) <= MaxVersions, [RebootNext]_rebootVars
    PROVE Named' /\ Len(plan') <= MaxVersions
<1>0. /\ PlansChange /\ plan \in Seq(PlanRecords) /\ Len(plan) \in Nat /\ listed \subseteq Versions
      /\ MaxVersions \in Nat
  BY PlanSteps DEF IInv, Typed, RebootAssumption
<1>1. \A o \in Versions : plan[o] \in PlanRecords /\ plan[o].id \in 1..MaxVersions
  <2>1. \A o \in Versions : plan[o] \in PlanRecords
    BY <1>0 DEF Versions
  <2> QED
    BY <2>1 DEF PlanRecords
<1>2. \A o \in Versions : plan'[o].id = plan[o].id
  BY <1>0, KeepsName
<1>3. CASE Len(plan') = Len(plan) /\ listed' \subseteq listed
  <2>1. Versions' = Versions
    BY <1>3 DEF Versions
  <2> QED
    BY <1>0, <1>2, <1>3, <2>1 DEF Named, SamePlan
<1>4. ASSUME NEW id \in Nat, NEW k \in Kinds, plan' = Append(plan, New(id, k)),
             Len(plan) < MaxVersions, id <= Len(plan) + 1,
             NEW gone \in SUBSET listed, listed' = (listed \ gone) \cup {Len(plan) + 1},
             \A p \in listed \ gone : plan[p].id # id
      PROVE  Named' /\ Len(plan') <= MaxVersions
  <2>1. Len(plan') = Len(plan) + 1 /\ plan'[Len(plan) + 1] = New(id, k)
    BY <1>0, <1>4
  <2>2. plan'[Len(plan) + 1].id = id
    BY <2>1 DEF New
  <2>3. Versions' = Versions \cup {Len(plan) + 1}
    BY <1>0, <2>1 DEF Versions
  <2>4. \A o \in Versions' : plan'[o].id <= o
    BY <1>0, <1>2, <1>4, <2>2, <2>3 DEF Named
  <2>5. \A p \in listed \ gone : plan'[p].id # plan'[Len(plan) + 1].id
    BY <1>0, <1>2, <1>4, <2>2
  <2>6. \A o, p \in listed \ gone : plan'[o].id = plan'[p].id => o = p
    BY <1>0, <1>2 DEF Named, SamePlan
  <2>7. \A o, p \in listed' : plan'[o].id = plan'[p].id => o = p
    BY <1>4, <2>5, <2>6
  <2>8. Len(plan') <= MaxVersions
    BY <1>0, <1>4, <2>1
  <2> QED
    BY <2>4, <2>7, <2>8 DEF Named, SamePlan
<1>5. CASE /\ Len(plan) < MaxVersions
           /\ \E k \in Kinds : plan' = Append(plan, New(Len(plan) + 1, k))
           /\ listed' = listed \cup {Len(plan) + 1}
  <2>1. Len(plan) + 1 \in Nat /\ \A p \in listed : plan[p].id # Len(plan) + 1
    BY <1>0, <1>1 DEF Named, Versions
  <2>2. PICK k \in Kinds : plan' = Append(plan, New(Len(plan) + 1, k))
    BY <1>5
  <2>3. listed' = (listed \ {}) \cup {Len(plan) + 1} /\ Len(plan) + 1 <= Len(plan) + 1
    BY <1>0, <1>5
  <2>4. {} \in SUBSET listed
    OBVIOUS
  <2> QED
    BY <1>4, <1>5, <2>1, <2>2, <2>3, <2>4
<1>6. CASE /\ Len(plan) < MaxVersions
           /\ \E o \in listed, k \in Kinds :
                  /\ plan' = Append(plan, New(plan[o].id, k))
                  /\ listed' = (listed \ {o}) \cup {Len(plan) + 1}
  <2>1. PICK o \in listed, k \in Kinds :
            /\ plan' = Append(plan, New(plan[o].id, k))
            /\ listed' = (listed \ {o}) \cup {Len(plan) + 1}
    BY <1>6
  <2>2. plan[o].id \in Nat /\ plan[o].id <= Len(plan) + 1
    BY <1>0, <1>1 DEF Named, Versions
  <2>3. \A p \in listed \ {o} : plan[p].id # plan[o].id
    BY DEF Named, SamePlan
  <2>4. {o} \in SUBSET listed
    OBVIOUS
  <2> QED
    BY <1>4, <1>6, <2>1, <2>2, <2>3, <2>4
<1>7. ASSUME NEW o \in 0..Len(plan), NEW state \in {"waiting-boundary", "executing", "failed"},
             plan' = Marked(o, state)
      PROVE  Len(plan') = Len(plan)
  BY <1>7, StateChange DEF IInv
<1> QED
  BY <1>0, <1>3, <1>5, <1>6, <1>7 DEF PlansChange

LEMMA RestStep ==
    ASSUME RebootAssumption, IInv, Named, Rest, [RebootNext]_rebootVars
    PROVE Rest'
<1>0. /\ \A t \in Passes : t \in Actors /\ t # "boot" /\ t # "cancel"
      /\ "boot" \in Actors /\ "cancel" \in Actors
      /\ pc \in [Actors -> Places] /\ held \in [Actors -> 0..Len(plan)]
      /\ task \in [Targets -> States]
  BY DEF RebootAssumption, Actors, IInv, Typed, Rest
<1>1. Len(plan') <= MaxVersions
  BY NamedStep DEF Rest
<1>2. task' \in [Targets -> States]
  <2>1. \A o : Resumes(o) => task' \in [Targets -> States]
    BY <1>0 DEF Resumes, States
  <2>2. CASE \E t \in Passes : BeginPass(t) \/ PassProceeds(t)
    <3>1. PICK t \in Passes : BeginPass(t) \/ PassProceeds(t)
      BY <2>2
    <3>2. CASE AskToPark(t)
      <4>1. task' = [task EXCEPT ![plan[held[t]].target] =
                        CASE @ = "busy" -> "asked" [] @ = "between" -> "parked" [] OTHER -> @]
        BY <3>2 DEF AskToPark
      <4>2. \A s \in States : (CASE s = "busy" -> "asked" [] s = "between" -> "parked" [] OTHER -> s) \in States
        BY DEF States
      <4> QED
        BY <1>0, <4>1, <4>2
    <3>3. CASE Unparked(t)
      BY <2>1, <3>3 DEF Unparked
    <3>4. CASE ~AskToPark(t) /\ ~Unparked(t)
      <4>1. task' = task
        BY <3>1, <3>4 DEF BeginPass, PassProceeds, Skip, HoldsBack, WaitTimesOut, ParkIsPending,
                    ParkRefused, Parked, WriteIntent, Arm, ArmFails, Shutdown, ShutdownFails, Mark
      <4> QED
        BY <1>0, <4>1
    <3> QED
      BY <3>2, <3>3, <3>4
  <2>3. CASE CancelEnds \/ Resumed
    BY <2>1, <2>3 DEF CancelEnds, Resumed
  <2>4. CASE \/ Add \/ Update \/ Remove \/ Work \/ Cancel \/ StartApp \/ Exit \/ MachineRestarts
             \/ NothingToResume \/ ReadIntent \/ UNCHANGED rebootVars
    BY <1>0, <2>4 DEF Add, Update, Remove, Work, Cancel, StartApp, Exit, MachineRestarts,
                NothingToResume, ReadIntent, rebootVars, States
  <2> QED
    BY <2>2, <2>3, <2>4 DEF RebootNext, BootProceeds
<1>3. up' \in BOOLEAN /\ starts' \in 0..MaxStarts
  <2>1. CASE StartApp
    <3>1. up' = TRUE /\ starts < MaxStarts /\ starts' = starts + 1
      BY <2>1 DEF StartApp
    <3>2. starts' \in 0..MaxStarts
      BY <3>1 DEF Rest, RebootAssumption
    <3> QED
      BY <3>1, <3>2
  <2>2. CASE Exit \/ MachineRestarts
    BY <2>2 DEF Exit, MachineRestarts, Rest
  <2>3. CASE ~(StartApp \/ Exit \/ MachineRestarts)
    <3>1. UNCHANGED lifeVars
      BY <2>3 DEF RebootNext, rebootVars, Add, Update, Remove, Work, Cancel, CancelEnds, BootProceeds,
            NothingToResume, ReadIntent, Resumed, BeginPass, PassProceeds, Skip, HoldsBack,
            WaitTimesOut, AskToPark, ParkIsPending, ParkRefused, Parked, WriteIntent, Arm, ArmFails,
            Shutdown, ShutdownFails, Mark, Unparked
    <3> QED
      BY <3>1 DEF lifeVars, Rest
  <2> QED
    BY <2>1, <2>2, <2>3
<1>4. \A a \in Actors : pc'[a] \in {"idle", "start"} => held'[a] = 0
  <2>1. CASE \E t \in Passes : BeginPass(t) \/ PassProceeds(t)
    <3>1. PICK t \in Passes : BeginPass(t) \/ PassProceeds(t)
      BY <2>1
    <3>2. Moved(t)
      BY <3>1, PassMoved, OnwardMoved
    <3> QED
      BY <1>0, <3>2 DEF Moved, Rest
  <2>2. CASE Cancel
    <3>1. PICK o \in listed :
              \/ UNCHANGED <<pc, held>>
              \/ pc' = [pc EXCEPT !["cancel"] = "unparking"] /\ held' = [held EXCEPT !["cancel"] = o]
      BY <2>2 DEF Cancel, Abort, Goes
    <3> QED
      BY <1>0, <3>1 DEF Rest
  <2>3. CASE CancelEnds \/ NothingToResume \/ ReadIntent \/ Resumed
    BY <1>0, <2>3 DEF CancelEnds, NothingToResume, ReadIntent, Resumed, Goes, Rest, At
  <2>4. CASE Exit \/ MachineRestarts
    BY <1>0, <2>4 DEF Exit, MachineRestarts, AllEnd
  <2>5. CASE StartApp
    <3>1. \A a \in Actors : held[a] = 0
      BY <2>5 DEF StartApp, Rest
    <3>2. CASE listed = {}
      BY <2>5, <3>1, <3>2 DEF StartApp
    <3>3. CASE listed # {}
      <4>1. PICK t \in Passes, o \in listed :
                pc' = [AtRest EXCEPT !["boot"] = "start", ![t] = "run"] /\ held' = [held EXCEPT ![t] = o]
        BY <2>5, <3>3 DEF StartApp, Takes
      <4> QED
        BY <1>0, <3>1, <4>1 DEF AtRest
    <3> QED
      BY <3>2, <3>3
  <2>6. CASE Add \/ Update \/ Remove \/ Work \/ UNCHANGED rebootVars
    BY <2>6 DEF Add, Update, Remove, Work, rebootVars, passVars, Rest
  <2> QED
    BY <2>1, <2>2, <2>3, <2>4, <2>5, <2>6 DEF RebootNext, BootProceeds
<1>5. ~up' => \A a \in Actors : pc'[a] = "idle"
  <2>1. CASE StartApp
    BY <2>1 DEF StartApp
  <2>2. CASE Exit \/ MachineRestarts
    BY <2>2 DEF Exit, MachineRestarts, AllEnd, AtRest
  <2>3. CASE ~(StartApp \/ Exit \/ MachineRestarts) /\ ~UNCHANGED rebootVars
    <3>1. up /\ up' = up
      BY <2>3 DEF RebootNext, Add, Update, Remove, Work, Cancel, CancelEnds, BootProceeds,
            NothingToResume, ReadIntent, Resumed, BeginPass, PassProceeds, Skip, HoldsBack,
            WaitTimesOut, AskToPark, ParkIsPending, ParkRefused, Parked, WriteIntent, Arm, ArmFails,
            Shutdown, ShutdownFails, Mark, Unparked, Quiet, Due, At, lifeVars
    <3> QED
      BY <3>1
  <2>4. CASE UNCHANGED rebootVars
    BY <2>4 DEF rebootVars, passVars, lifeVars, Rest
  <2> QED
    BY <2>1, <2>2, <2>3, <2>4
<1> QED
  BY <1>1, <1>2, <1>3, <1>4, <1>5 DEF Rest

TypeInv == IInv /\ Named /\ Rest

\* Types and names, together with what IInv says of the order of a pass.
LEMMA TypeInvariant == ASSUME RebootAssumption PROVE RebootSpec => []TypeInv
<1>1. RebootInit => Named /\ Rest
  <2> SUFFICES ASSUME RebootInit PROVE Named /\ Rest
    OBVIOUS
  <2>1. Len(plan) = 0 /\ 0 \in 0..MaxStarts /\ 0 <= MaxVersions /\ Versions = {}
    BY DEF RebootInit, Versions, RebootAssumption
  <2> QED
    BY <2>1 DEF RebootInit, Named, Rest, States, AtRest
<1>2. IInv /\ Named /\ Rest /\ [RebootNext]_rebootVars => Named' /\ Rest'
  BY NamedStep, RestStep DEF Rest
<1> QED
  BY <1>1, <1>2, Invariance, PTL DEF RebootSpec, TypeInv

\* Every variable keeps its type: every version an actor is at, the intent and the
\* pending restart name versions that were made, and one version of a plan is listed.
THEOREM TypeCorrect == ASSUME RebootAssumption PROVE RebootSpec => []RebootTypeOK
<1>1. TypeInv => RebootTypeOK
  <2> SUFFICES ASSUME TypeInv PROVE RebootTypeOK
    OBVIOUS
  <2>1. \A t \in Passes : t \in Actors
    BY DEF Actors
  <2>2. \A t \in Passes : pc[t] = "idle" <=> held[t] = 0
    BY <2>1 DEF TypeInv, IInv, Typed, Rest
  <2>3. \A o, p \in listed : plan[o].id = plan[p].id => o = p
    BY DEF TypeInv, Named, SamePlan
  <2> QED
    BY <2>2, <2>3 DEF TypeInv, IInv, Typed, Rest, States, Places, RebootTypeOK
<1> QED
  BY <1>1, TypeInvariant, PTL

-------------------------------------------------------------------------------
(* What a step of one actor means to the others.                                *)

\* While a pass takes a step, no other pass runs.
LEMMA Alone ==
    ASSUME RebootAssumption, IInv, NEW t \in Passes, BeginPass(t) \/ PassProceeds(t)
    PROVE \A u \in Passes \ {t} : pc[u] \notin Moving
<1>1. pc[t] \in Moving \/ Quiet
  BY DEF BeginPass, PassProceeds, Skip, HoldsBack, WaitTimesOut, AskToPark, ParkIsPending,
         ParkRefused, Parked, WriteIntent, Arm, ArmFails, Shutdown, ShutdownFails, Mark, Unparked,
         Due, At, Moving
<1>2. CASE pc[t] \in Moving
  BY <1>2 DEF IInv, OnePassRuns
<1>3. CASE Quiet
  BY <1>3 DEF Quiet, Moving, Waiting, Actors
<1> QED
  BY <1>1, <1>2, <1>3

\* What is not a pass leaves every pass where it is, or at the start of its work.
LEMMA PassesWait ==
    ASSUME RebootAssumption, IInv,
           \/ Add \/ Update \/ Remove \/ Work \/ Cancel \/ CancelEnds
           \/ StartApp \/ Exit \/ MachineRestarts \/ BootProceeds
    PROVE \A t \in Passes : \/ pc'[t] \in {"idle", "run"}
                            \/ pc[t] \in Waiting /\ pc'[t] = pc[t] /\ held'[t] = held[t]
<1>0. /\ \A t \in Passes : t \in Actors /\ t # "boot" /\ t # "cancel"
      /\ pc \in [Actors -> Places] /\ held \in [Actors -> 0..Len(plan)]
  BY DEF RebootAssumption, Actors, IInv, Typed
<1>1. CASE Add \/ Update \/ Remove \/ Work
  BY <1>0, <1>1 DEF Add, Update, Remove, Work, Quiet, passVars
<1>2. CASE Cancel \/ CancelEnds
  BY <1>0, <1>2 DEF Cancel, Abort, CancelEnds, Quiet, Goes
<1>3. CASE BootProceeds
  BY <1>0, <1>3 DEF BootProceeds, NothingToResume, ReadIntent, Resumed, Quiet, Goes
<1>4. CASE Exit \/ MachineRestarts
  BY <1>0, <1>4 DEF Exit, MachineRestarts, AllEnd, AtRest
<1>5. CASE StartApp
  <2>1. \/ pc' = [AtRest EXCEPT !["boot"] = "start"]
        \/ \E t \in Passes : pc' = [AtRest EXCEPT !["boot"] = "start", ![t] = "run"]
    BY <1>5 DEF StartApp
  <2>2. CASE pc' = [AtRest EXCEPT !["boot"] = "start"]
    BY <1>0, <2>2 DEF AtRest
  <2>3. CASE \E t \in Passes : pc' = [AtRest EXCEPT !["boot"] = "start", ![t] = "run"]
    <3>1. PICK t \in Passes : pc' = [AtRest EXCEPT !["boot"] = "start", ![t] = "run"]
      BY <2>3
    <3> QED
      BY <1>0, <3>1 DEF AtRest
  <2> QED
    BY <2>1, <2>2, <2>3
<1> QED
  BY <1>1, <1>2, <1>3, <1>4, <1>5

-------------------------------------------------------------------------------
(* Why a plan that is shown as executing has a restart pending.                 *)

\* A pass that is about to mark its plan is the one whose restart was accepted.
MarkInv == \A t \in Passes : pc[t] = "mark" => shutdown = held[t] /\ shutdown # 0

LEMMA MarkStep ==
    ASSUME RebootAssumption, TypeInv, MarkInv, [RebootNext]_rebootVars
    PROVE MarkInv'
<1>1. CASE \E t \in Passes : BeginPass(t) \/ PassProceeds(t)
  <2>1. PICK t \in Passes : BeginPass(t) \/ PassProceeds(t)
    BY <1>1
  <2>2. t \in Actors /\ \A u \in Passes \ {t} : u \in Actors /\ pc'[u] = pc[u] /\ pc[u] # "mark"
    BY <2>1, Alone, PassMoved, OnwardMoved DEF TypeInv, Moved, Moving, Actors
  <2>3. CASE pc'[t] # "mark"
    BY <2>2, <2>3 DEF MarkInv
  <2>4. CASE pc'[t] = "mark"
    <3>1. ~Onward(t)
      BY <2>4, OnwardMoved DEF TypeInv
    <3>2. Shutdown(t)
      BY <2>1, <2>2, <2>4, <3>1, PassMoved DEF TypeInv, IInv, Typed, BeginPass, PassProceeds, Skip,
         HoldsBack, WaitTimesOut, AskToPark, ParkIsPending, ParkRefused, Parked, WriteIntent, Arm,
         ArmFails, ShutdownFails, Mark, Unparked, Undo, Goes
    <3>3. shutdown' = held[t] /\ held' = held /\ held[t] # 0
      BY <3>2 DEF Shutdown, At, TypeInv, IInv, Typed
    <3> QED
      BY <2>2, <3>3 DEF MarkInv
  <2> QED
    BY <2>3, <2>4
<1>2. CASE \/ Add \/ Update \/ Remove \/ Work \/ Cancel \/ CancelEnds
           \/ StartApp \/ Exit \/ MachineRestarts \/ BootProceeds
  BY <1>2, PassesWait DEF TypeInv, MarkInv, Waiting
<1>3. CASE UNCHANGED rebootVars
  BY <1>3 DEF rebootVars, passVars, osVars, MarkInv
<1> QED
  BY <1>1, <1>2, <1>3 DEF RebootNext

\* No plan begins to execute, and what those that do rest on stays.
LEMMA ExecutingKept ==
    ASSUME RebootAssumption, TypeInv, ExecutingIsPending, PlansChange,
           Executing' \subseteq Executing, up' => up, pc'["boot"] = pc["boot"],
           held'["cancel"] = held["cancel"], shutdown' = shutdown \/ shutdown = 0
    PROVE ExecutingIsPending'
<1>1. \A o \in Versions : plan'[o].id = plan[o].id
  BY KeepsName DEF TypeInv
<1>2. Executing \subseteq Versions /\ shutdown \in 0..Len(plan)
  BY DEF Executing, TypeInv, IInv, Typed
<1>3. shutdown # 0 => shutdown \in Versions
  BY <1>2 DEF Versions
<1>4. ASSUME NEW o \in Executing', up', pc'["boot"] = "idle"
      PROVE held'["cancel"] = o \/ (shutdown' # 0 /\ SamePlan(shutdown, o)')
  <2>1. o \in Executing /\ up /\ pc["boot"] = "idle"
    BY <1>4
  <2>2. held["cancel"] = o \/ (shutdown # 0 /\ SamePlan(shutdown, o))
    BY <2>1 DEF ExecutingIsPending
  <2>3. CASE shutdown # 0 /\ SamePlan(shutdown, o)
    <3>1. shutdown' = shutdown
      BY <2>3
    <3>2. plan'[shutdown].id = plan'[o].id
      BY <1>1, <1>2, <1>3, <2>1, <2>3 DEF SamePlan
    <3> QED
      BY <2>3, <3>1, <3>2 DEF SamePlan
  <2> QED
    BY <2>2, <2>3
<1> QED
  BY <1>4 DEF ExecutingIsPending

LEMMA ExecutingStep ==
    ASSUME RebootAssumption, TypeInv, MarkInv, ExecutingIsPending, [RebootNext]_rebootVars
    PROVE ExecutingIsPending'
<1>0. /\ PlansChange /\ "boot" \in Actors /\ "cancel" \in Actors
      /\ "boot" \notin Passes /\ "cancel" \notin Passes
      /\ pc \in [Actors -> Places] /\ held \in [Actors -> 0..Len(plan)]
      /\ listed \subseteq Versions /\ plan \in Seq(PlanRecords)
  BY PlanSteps DEF TypeInv, IInv, Typed, RebootAssumption, Actors
<1>1. \A p \in Versions : plan[p] \in PlanRecords
  BY <1>0 DEF Versions
<1>2. CASE \E t \in Passes : BeginPass(t) \/ PassProceeds(t)
  <2>1. PICK t \in Passes : BeginPass(t) \/ PassProceeds(t)
    BY <1>2
  <2>2. pc'["boot"] = pc["boot"] /\ held'["cancel"] = held["cancel"]
    BY <1>0, <2>1, PassMoved, OnwardMoved DEF TypeInv, Moved
  <2>3. up' = up /\ listed' = listed /\ (shutdown' = shutdown \/ shutdown = 0)
    BY <2>1 DEF BeginPass, PassProceeds, Skip, HoldsBack, WaitTimesOut, AskToPark, ParkIsPending,
                ParkRefused, Parked, WriteIntent, Arm, ArmFails, Shutdown, ShutdownFails, Mark,
                Unparked, planVars, lifeVars, osVars
  <2>4. CASE ~Mark(t)
    <3>1. UNCHANGED plan \/ \E state \in {"waiting-boundary", "failed"} : plan' = Marked(held[t], state)
      BY <2>1, <2>4 DEF BeginPass, PassProceeds, Skip, HoldsBack, WaitTimesOut, AskToPark,
                  ParkIsPending, ParkRefused, Parked, WriteIntent, Arm, ArmFails, Shutdown,
                  ShutdownFails, Unparked, Undo, planVars
    <3>2. Executing' \subseteq Executing
      <4>1. CASE UNCHANGED plan
        BY <2>3, <4>1 DEF Executing
      <4>2. CASE \E state \in {"waiting-boundary", "failed"} : plan' = Marked(held[t], state)
        <5>1. \A p \in listed : plan'[p].state = "executing" => plan[p].state = "executing"
          BY <1>0, <1>1, <4>2 DEF Marked, PlanRecords
        <5> QED
          BY <2>3, <5>1 DEF Executing
      <4> QED
        BY <3>1, <4>1, <4>2
    <3> QED
      BY <1>0, <2>2, <2>3, <3>2, ExecutingKept
  <2>5. CASE Mark(t)
    <3>1. plan' = Marked(held[t], "executing") /\ shutdown' = shutdown /\ pc[t] = "mark"
      BY <2>5 DEF Mark, At, osVars
    <3>2. held[t] = shutdown /\ shutdown # 0 /\ shutdown \in 0..Len(plan)
      BY <3>1 DEF MarkInv, TypeInv, IInv, Typed
    <3>3. \A p \in Versions : plan'[p].id = plan[p].id
      BY <1>0, KeepsName DEF TypeInv
    <3>4. shutdown \in Versions
      BY <3>2 DEF Versions
    <3>5. \A o \in Executing' : o \in Executing \/ SamePlan(shutdown, o)
      BY <1>0, <1>1, <2>3, <3>1, <3>2 DEF Executing, Marked, PlanRecords
    <3>6. \A o \in Versions : SamePlan(shutdown, o) => plan'[shutdown'].id = plan'[o].id
      BY <3>1, <3>3, <3>4 DEF SamePlan
    <3>7. Executing' \subseteq Versions
      BY <1>0, <2>3 DEF Executing
    <3> QED
      BY <2>2, <2>3, <3>1, <3>2, <3>5, <3>6, <3>7 DEF ExecutingIsPending, SamePlan
  <2> QED
    BY <2>4, <2>5
<1>3. CASE Add \/ Update
  <2>1. /\ UNCHANGED <<pc, held, shutdown, up>>
        /\ \E id \in 1..MaxVersions, k \in Kinds : plan' = Append(plan, New(id, k))
        /\ listed' \subseteq listed \cup {Len(plan) + 1}
    <3>1. UNCHANGED <<pc, held, shutdown, up>> /\ listed' \subseteq listed \cup {Len(plan) + 1}
      BY <1>3 DEF Add, Update, passVars, osVars, lifeVars
    <3>2. CASE Add
      <4>1. Len(plan) + 1 \in 1..MaxVersions
        BY <1>0, <3>2 DEF Add, RebootAssumption
      <4> QED
        BY <3>1, <3>2, <4>1 DEF Add
    <3>3. CASE Update
      <4>1. \A o \in listed : plan[o].id \in 1..MaxVersions
        BY <1>0, <1>1 DEF PlanRecords
      <4> QED
        BY <3>1, <3>3, <4>1 DEF Update
    <3> QED
      BY <1>3, <3>2, <3>3
  <2>2. PICK id \in 1..MaxVersions, k \in Kinds : plan' = Append(plan, New(id, k))
    BY <2>1
  <2>3. /\ \A o \in Versions : plan'[o] = plan[o]
        /\ plan'[Len(plan) + 1] = New(id, k)
    BY <1>0, <2>2 DEF Versions
  <2>4. plan'[Len(plan) + 1].state = "pending"
    BY <2>3 DEF New
  <2>5. Executing' \subseteq Executing
    BY <1>0, <2>1, <2>3, <2>4 DEF Executing
  <2> QED
    BY <1>0, <2>1, <2>5, ExecutingKept
<1>4. CASE Remove \/ Work \/ UNCHANGED rebootVars
  <2>1. /\ UNCHANGED <<plan, pc, held, shutdown, up>> /\ listed' \subseteq listed
    BY <1>4 DEF Remove, Work, rebootVars, planVars, passVars, osVars, lifeVars
  <2>2. Executing' \subseteq Executing
    BY <2>1 DEF Executing
  <2> QED
    BY <1>0, <2>1, <2>2, ExecutingKept
<1>5. CASE Cancel
  <2>1. /\ pc["cancel"] = "idle" /\ UNCHANGED <<plan, up>>
        /\ \E o \in listed :
            \/ plan[o].state = "executing" /\ Abort(o)
            \/ listed' = listed \ {o} /\ UNCHANGED <<pc, held, shutdown>>
    BY <1>5 DEF Cancel, lifeVars, osVars
  <2>2. PICK o \in listed :
            \/ plan[o].state = "executing" /\ Abort(o)
            \/ listed' = listed \ {o} /\ UNCHANGED <<pc, held, shutdown>>
    BY <2>1
  <2>3. CASE listed' = listed \ {o} /\ UNCHANGED <<pc, held, shutdown>>
    <3>1. Executing' \subseteq Executing
      BY <2>1, <2>3 DEF Executing
    <3> QED
      BY <1>0, <2>1, <2>3, <3>1, ExecutingKept
  <2>4. CASE plan[o].state = "executing" /\ Abort(o)
    <3>1. held["cancel"] = 0
      BY <1>0, <2>1 DEF TypeInv, Rest
    <3>2. ASSUME up, pc["boot"] = "idle", NEW p \in Executing
          PROVE p = o
      <4>1. o \in Executing /\ o # 0 /\ p # 0
        BY <1>0, <2>4 DEF Executing, Versions
      <4>2. shutdown # 0 /\ SamePlan(shutdown, o) /\ SamePlan(shutdown, p)
        BY <3>1, <3>2, <4>1 DEF ExecutingIsPending
      <4> QED
        BY <4>1, <4>2 DEF SamePlan, TypeInv, Named, Executing
    <3>3. /\ \/ held'["cancel"] = o /\ listed' = listed
             \/ listed' = listed \ {o}
          /\ pc'["boot"] = pc["boot"]
      BY <1>0, <2>4 DEF Abort, Goes
    <3> QED
      BY <2>1, <3>2, <3>3 DEF ExecutingIsPending, Executing
  <2> QED
    BY <2>2, <2>3, <2>4
<1>6. CASE CancelEnds
  <2>1. /\ UNCHANGED <<plan, shutdown, up>> /\ pc'["boot"] = pc["boot"]
        /\ listed' = {p \in listed : ~SamePlan(held["cancel"], p)}
    BY <1>0, <1>6 DEF CancelEnds, Goes, osVars, lifeVars
  <2>2. \A o \in Executing' : o \in Executing /\ held["cancel"] # o
    BY <2>1 DEF Executing, SamePlan
  <2> QED
    BY <2>1, <2>2 DEF ExecutingIsPending, SamePlan
<1>7. CASE NothingToResume \/ Resumed
  <2>1. Executing' = {}
    BY <1>7 DEF NothingToResume, Resumed, Executing
  <2> QED
    BY <2>1 DEF ExecutingIsPending
<1>8. CASE ReadIntent \/ StartApp \/ Exit \/ MachineRestarts
  <2>1. pc'["boot"] # "idle" \/ ~up'
    <3>1. CASE ReadIntent
      BY <1>0, <3>1 DEF ReadIntent, Goes
    <3>2. CASE Exit \/ MachineRestarts
      BY <3>2 DEF Exit, MachineRestarts
    <3>3. CASE StartApp
      <4>1. \/ pc' = [AtRest EXCEPT !["boot"] = "start"]
            \/ \E t \in Passes : pc' = [AtRest EXCEPT !["boot"] = "start", ![t] = "run"]
        BY <3>3 DEF StartApp
      <4> QED
        BY <1>0, <4>1 DEF AtRest
    <3> QED
      BY <1>8, <3>1, <3>2, <3>3
  <2> QED
    BY <2>1 DEF ExecutingIsPending
<1> QED
  BY <1>2, <1>3, <1>4, <1>5, <1>6, <1>7, <1>8 DEF RebootNext, BootProceeds

\* A plan that is shown as executing has a restart pending or is being cancelled: marks
\* come only after the acceptance, one restart is accepted at a time, and whatever was
\* executing before a start is off the list when the resumption is over.
THEOREM ExecutingMeansPending == ASSUME RebootAssumption PROVE RebootSpec => []ExecutingIsPending
<1>1. RebootInit => MarkInv /\ ExecutingIsPending
  BY DEF RebootInit, MarkInv, ExecutingIsPending, Executing, AtRest, Actors
<1>2. TypeInv /\ MarkInv /\ ExecutingIsPending /\ [RebootNext]_rebootVars => MarkInv' /\ ExecutingIsPending'
  BY MarkStep, ExecutingStep
<1> QED
  BY <1>1, <1>2, TypeInvariant, PTL DEF RebootSpec

-------------------------------------------------------------------------------
(* Why no intent is left behind.                                                 *)

\* An intent with no restart pending has somebody who acts on it or withdraws it.
IntentIsHeld ==
    up /\ shutdown = 0 /\ intent # 0 =>
        \/ pc["boot"] \in {"start", "resuming"}
        \/ \E t \in Passes : pc[t] \in {"arm", "shutdown"} /\ Carries(held[t])

LEMMA IntentPassStep ==
    ASSUME RebootAssumption, TypeInv, IntentIsHeld,
           NEW t \in Passes, BeginPass(t) \/ PassProceeds(t)
    PROVE IntentIsHeld'
<1> SUFFICES ASSUME up', shutdown' = 0, intent' # 0, pc'["boot"] \notin {"start", "resuming"}
             PROVE \E u \in Passes : pc'[u] \in {"arm", "shutdown"} /\ Carries(held[u])'
  BY DEF IntentIsHeld, Carries
<1>1. pc'["boot"] = pc["boot"] /\ t \in Actors /\ pc \in [Actors -> Places]
  BY PassMoved, OnwardMoved DEF TypeInv, IInv, Typed, Moved, Actors, RebootAssumption
<1>2. up /\ shutdown = 0
  BY DEF BeginPass, PassProceeds, Skip, HoldsBack, WaitTimesOut, AskToPark, ParkIsPending,
         ParkRefused, Parked, WriteIntent, Arm, ArmFails, Shutdown, ShutdownFails, Mark,
         Unparked, lifeVars, osVars, TypeInv, IInv, Typed, At, Quiet
<1>3. CASE WriteIntent(t) /\ Carries(held[t])
  <2>1. pc'[t] = "arm" /\ UNCHANGED <<plan, held>>
    BY <1>1, <1>3 DEF WriteIntent, Goes, planVars
  <2> QED
    BY <1>3, <2>1 DEF Carries
<1>4. CASE ~(WriteIntent(t) /\ Carries(held[t]))
  <2>1. intent # 0
    BY <1>4 DEF BeginPass, PassProceeds, Skip, HoldsBack, WaitTimesOut, AskToPark, ParkIsPending,
                ParkRefused, Parked, WriteIntent, Arm, ArmFails, Shutdown, ShutdownFails, Mark,
                Unparked
  <2>2. PICK u \in Passes : pc[u] \in {"arm", "shutdown"} /\ Carries(held[u])
    BY <1>1, <1>2, <2>1 DEF IntentIsHeld
  <2>3. u = t
    BY <2>2, Alone DEF TypeInv, Moving
  <2>4. Arm(t)
    <3>1. ~Shutdown(t)
      BY <2>2, <2>3 DEF Shutdown, At, TypeInv, IInv, Typed
    <3>2. ~ArmFails(t) /\ ~ShutdownFails(t)
      BY <2>2, <2>3 DEF ArmFails, ShutdownFails
    <3> QED
      BY <2>2, <2>3, <3>1, <3>2 DEF BeginPass, PassProceeds, Skip, HoldsBack, WaitTimesOut,
         AskToPark, ParkIsPending, ParkRefused, Parked, WriteIntent, Mark, Unparked, Due, At
  <2>5. pc'[t] = "shutdown" /\ UNCHANGED <<plan, held>>
    BY <1>1, <2>4 DEF Arm, Goes, planVars
  <2> QED
    BY <2>2, <2>3, <2>5 DEF Carries
<1> QED
  BY <1>3, <1>4

LEMMA IntentStep ==
    ASSUME RebootAssumption, TypeInv, IntentIsHeld, [RebootNext]_rebootVars
    PROVE IntentIsHeld'
<1>0. /\ "boot" \in Actors /\ "cancel" \in Actors
      /\ pc \in [Actors -> Places] /\ held \in [Actors -> 0..Len(plan)]
      /\ \A t \in Passes : t \in Actors /\ t # "boot" /\ t # "cancel"
  BY DEF TypeInv, IInv, Typed, RebootAssumption, Actors
<1>1. CASE \E t \in Passes : BeginPass(t) \/ PassProceeds(t)
  BY <1>1, IntentPassStep
<1>2. CASE Add \/ Update \/ Remove \/ Work \/ CancelEnds
  <2>1. /\ Quiet /\ UNCHANGED <<intent, shutdown, up>> /\ pc'["boot"] = pc["boot"]
    BY <1>0, <1>2 DEF Add, Update, Remove, Work, CancelEnds, Goes, passVars, osVars, lifeVars
  <2>2. \A t \in Passes : pc[t] \notin {"arm", "shutdown"}
    BY <2>1 DEF Quiet, Waiting, Actors
  <2> QED
    BY <2>1, <2>2 DEF IntentIsHeld
<1>3. CASE Cancel
  <2>1. /\ Quiet /\ up' = up /\ pc'["boot"] = pc["boot"]
        /\ intent' = 0 \/ UNCHANGED <<intent, shutdown>>
    BY <1>0, <1>3 DEF Cancel, Abort, Goes, osVars, lifeVars
  <2>2. \A t \in Passes : pc[t] \notin {"arm", "shutdown"}
    BY <2>1 DEF Quiet, Waiting, Actors
  <2> QED
    BY <2>1, <2>2 DEF IntentIsHeld
<1>4. CASE NothingToResume \/ Resumed
  BY <1>4 DEF NothingToResume, Resumed, IntentIsHeld
<1>5. CASE ReadIntent
  BY <1>0, <1>5 DEF ReadIntent, Goes, IntentIsHeld
<1>6. CASE Exit \/ MachineRestarts
  BY <1>6 DEF Exit, MachineRestarts, IntentIsHeld
<1>7. CASE StartApp
  <2>1. \/ pc' = [AtRest EXCEPT !["boot"] = "start"]
        \/ \E t \in Passes : pc' = [AtRest EXCEPT !["boot"] = "start", ![t] = "run"]
    BY <1>7 DEF StartApp
  <2>2. pc'["boot"] = "start"
    BY <1>0, <2>1 DEF AtRest
  <2> QED
    BY <2>2 DEF IntentIsHeld
<1>8. CASE UNCHANGED rebootVars
  BY <1>8 DEF rebootVars, planVars, passVars, osVars, lifeVars, IntentIsHeld, Carries
<1> QED
  BY <1>1, <1>2, <1>3, <1>4, <1>5, <1>6, <1>7, <1>8 DEF RebootNext, BootProceeds

\* An intent is acted on or withdrawn: an application that is up, with nothing in
\* progress and no restart pending, has none on disk.
THEOREM NoIntentStays == ASSUME RebootAssumption PROVE RebootSpec => []NoIntentIsLeft
<1>1. RebootInit => IntentIsHeld
  BY DEF RebootInit, IntentIsHeld
<1>2. TypeInv /\ IntentIsHeld /\ [RebootNext]_rebootVars => IntentIsHeld'
  BY IntentStep
<1>3. IntentIsHeld => NoIntentIsLeft
  BY DEF IntentIsHeld, NoIntentIsLeft, Actors
<1> QED
  BY <1>1, <1>2, <1>3, TypeInvariant, PTL DEF RebootSpec

\* Neither a plan shown as executing nor an intent stays behind.
THEOREM NothingStays == ASSUME RebootAssumption PROVE RebootSpec => []NothingIsLeft
<1>1. ExecutingIsPending /\ NoIntentIsLeft => NothingIsLeft
  BY DEF NothingIsLeft
<1> QED
  BY <1>1, ExecutingMeansPending, NoIntentStays, PTL

-------------------------------------------------------------------------------
(* Why a restart waits for its task, once the targets can be parked.             *)

\* A pass on its way to the restart has its task at a boundary.
Ready == \A t \in Passes : pc[t] \in {"intent", "arm", "shutdown"} => AtBoundary(held[t])

LEMMA ReadyStep ==
    ASSUME RebootAssumption, Targets \subseteq Parks, TypeInv, Ready, [RebootNext]_rebootVars
    PROVE Ready'
<1>1. CASE \E t \in Passes : BeginPass(t) \/ PassProceeds(t)
  <2>1. PICK t \in Passes : BeginPass(t) \/ PassProceeds(t)
    BY <1>1
  <2>2. /\ \A u \in Passes \ {t} : pc'[u] = pc[u] /\ pc[u] \notin {"intent", "arm", "shutdown"}
        /\ t \in Actors /\ pc \in [Actors -> Places]
    BY <2>1, Alone, PassMoved, OnwardMoved DEF TypeInv, IInv, Typed, Moved, Moving, Actors
  <2>3. ASSUME pc'[t] \in {"intent", "arm", "shutdown"} PROVE AtBoundary(held[t])'
    <3>1. ~Onward(t)
      BY <2>3, OnwardMoved DEF TypeInv
    <3>2. Parked(t) \/ WriteIntent(t) \/ Arm(t)
      BY <2>1, <2>2, <2>3, <3>1 DEF BeginPass, PassProceeds, Skip, HoldsBack, WaitTimesOut,
         AskToPark, ParkIsPending, ParkRefused, ArmFails, Shutdown, ShutdownFails, Mark, Unparked,
         Undo, Goes
    <3>3. UNCHANGED <<plan, task, held>>
      BY <3>2 DEF Parked, WriteIntent, Arm, planVars
    <3>4. AtBoundary(held[t])
      <4>1. CASE Parked(t)
        BY <4>1 DEF Parked, Parkable, AtBoundary
      <4>2. CASE WriteIntent(t) \/ Arm(t)
        BY <4>2 DEF WriteIntent, Arm, At, Ready
      <4> QED
        BY <3>2, <4>1, <4>2
    <3> QED
      BY <3>3, <3>4 DEF AtBoundary
  <2> QED
    BY <2>2, <2>3 DEF Ready, AtBoundary
<1>2. CASE \/ Add \/ Update \/ Remove \/ Work \/ Cancel \/ CancelEnds
           \/ StartApp \/ Exit \/ MachineRestarts \/ BootProceeds
  <2>1. \A t \in Passes : pc'[t] \notin {"intent", "arm", "shutdown"}
    BY <1>2, PassesWait DEF TypeInv, Waiting
  <2> QED
    BY <2>1 DEF Ready
<1>3. CASE UNCHANGED rebootVars
  BY <1>3 DEF rebootVars, planVars, passVars, Ready, AtBoundary
<1> QED
  BY <1>1, <1>2, <1>3 DEF RebootNext

\* With targets that can be parked, a restart is asked of the system only when its task
\* is at a point where it can be stopped, whatever overlapped with the wait.
THEOREM TaskIsSafe ==
    ASSUME RebootAssumption, Targets \subseteq Parks PROVE RebootSpec => NeverOverATask
<1>1. RebootInit => Ready
  BY DEF RebootInit, Ready, AtRest, Actors
<1>2. TypeInv /\ Ready /\ [RebootNext]_rebootVars =>
        Ready' /\ [\A t \in Passes : Shutdown(t) => AtBoundary(held[t])]_rebootVars
  <2>1. Ready => \A t \in Passes : Shutdown(t) => AtBoundary(held[t])
    BY DEF Ready, Shutdown, At
  <2> QED
    BY <2>1, ReadyStep
<1> QED
  BY <1>1, <1>2, TypeInvariant, PTL DEF RebootSpec, NeverOverATask

================================================================================
