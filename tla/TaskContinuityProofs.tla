-------------------------- MODULE TaskContinuityProofs --------------------------
(* Why the intent on disk lists what is parked, for every number of restarts and  *)
(* starts of work: between the answer of park() and the end of resume(), nobody    *)
(* parks and nobody writes the intent.                                            *)
EXTENDS TaskContinuity, TLAPS

\* What the types rest on: an episode is only settled when it ran before, and only a
\* resume() in progress has something left to look at.
Course ==
    /\ phase = "settling" => Episode \in before
    /\ phase # "resuming" => todo = {}

\* From park() to the end of resume(), the intent is what park() wrote.
IntentIsParks ==
    file /\ phase \in {"boundary", "aborting", "stopping", "down", "ready"}
      => intent.parked = parked

IInv == TypeOK /\ Course /\ IntentIsParks

LEMMA WorkTypes ==
    ASSUME TypeOK, NEW t \in Targets, NEW from, NEW to \in WorkStates, Becomes(t, from, to)
    PROVE work' \in [Targets -> WorkStates]
BY DEF TypeOK, Becomes

\* Work starts, ends and settles on its own.
LEMMA WorkSteps ==
    ASSUME ContinuityAssumption, IInv,
           Settle \/ Retire \/ \E t \in Targets : Start(t) \/ Finish(t)
    PROVE IInv'
<1>1. work' \in [Targets -> WorkStates]
  BY WorkTypes DEF IInv, Settle, Retire, Start, Finish, WorkStates, Targets
<1>2. UNCHANGED <<phase, parkVars, intent, todo, reportVars, outcome, restarts>>
  BY DEF Settle, Retire, Start, Finish, countVars
<1>3. starts' \in 0..MaxStarts
  BY DEF IInv, TypeOK, Settle, Retire, Start, Finish, countVars, ContinuityAssumption
<1>4. TypeOK'
  BY <1>1, <1>2, <1>3 DEF IInv, TypeOK, parkVars, reportVars
<1>5. Course' /\ IntentIsParks'
  BY <1>2 DEF IInv, Course, IntentIsParks, parkVars
<1> QED
  BY <1>4, <1>5 DEF IInv

\* park(), from the state it looks at to the intent it leaves behind.
LEMMA ParkSteps ==
    ASSUME ContinuityAssumption, IInv,
           \/ BeginRestart \/ ParkWorker \/ CancelEpisode \/ EpisodeSettled \/ EpisodeRefuses
           \/ EpisodeNotRunning \/ Park
    PROVE IInv'
<1>1. CASE BeginRestart
  <2>1. restarts' \in 0..MaxRestarts
    <3>1. restarts \in 0..MaxRestarts /\ restarts < MaxRestarts /\ restarts' = restarts + 1
      BY <1>1 DEF BeginRestart, IInv, TypeOK
    <3>2. MaxRestarts \in Nat
      BY DEF ContinuityAssumption
    <3> QED
      BY <3>1, <3>2
  <2>2. before' \subseteq Targets
    BY <1>1 DEF BeginRestart
  <2>0. /\ parked' = {} /\ pending' = {} /\ refused' = {} /\ file' = FALSE /\ outcome' = "none"
        /\ phase' = "parking worker" /\ UNCHANGED <<work, intent, todo, reportVars, starts>>
    BY <1>1 DEF BeginRestart, GoTo
  <2>3. TypeOK'
    BY <2>0, <2>1, <2>2 DEF IInv, TypeOK, Phases, reportVars
  <2>4. Course' /\ IntentIsParks'
    BY <1>1 DEF BeginRestart, GoTo, IInv, Course, IntentIsParks
  <2> QED
    BY <2>3, <2>4 DEF IInv
<1>2. CASE ParkWorker
  <2>1. work' \in [Targets -> WorkStates]
    BY <1>2 DEF ParkWorker, IInv, TypeOK, WorkStates, Targets
  <2>2. pending' \subseteq before /\ refused' \subseteq before
    BY <1>2 DEF ParkWorker, IInv, TypeOK
  <2> QED
    BY <1>2, <2>1, <2>2 DEF ParkWorker, GoTo, IInv, TypeOK, Course, IntentIsParks, Phases,
                            reportVars, countVars
<1>3. CASE CancelEpisode
  <2>1. work' \in [Targets -> WorkStates]
    BY <1>3 DEF CancelEpisode, IInv, TypeOK, WorkStates, Targets
  <2> QED
    BY <1>3, <2>1 DEF CancelEpisode, GoTo, IInv, TypeOK, Course, IntentIsParks, Phases, parkVars,
                      reportVars, countVars
<1>4. CASE EpisodeSettled
  BY <1>4 DEF EpisodeSettled, GoTo, IInv, TypeOK, Course, IntentIsParks, Phases, reportVars, countVars
<1>5. CASE EpisodeRefuses
  BY <1>5 DEF EpisodeRefuses, GoTo, IInv, TypeOK, Course, IntentIsParks, Phases, reportVars, countVars
<1>6. CASE EpisodeNotRunning
  BY <1>6 DEF EpisodeNotRunning, GoTo, IInv, TypeOK, Course, IntentIsParks, Phases, parkVars,
              reportVars, countVars
<1>7. CASE Park
  <2>1. intent' \in Intents /\ file' \in BOOLEAN /\ (file' => intent'.parked = parked)
    <3>1. before \subseteq Targets /\ parked \subseteq Targets /\ intent \in Intents
      BY DEF IInv, TypeOK
    <3>2. CASE file' = TRUE /\ intent' = [targets |-> before, parked |-> parked, exists |-> TRUE]
      BY <3>1, <3>2 DEF Intents
    <3>3. CASE file' = FALSE /\ UNCHANGED intent
      BY <3>1, <3>3
    <3> QED
      BY <1>7, <3>2, <3>3 DEF Park
  <2>2. phase' \in {"boundary", "up"} /\ phase = "writing"
        /\ outcome' \in {"none", "ok", "refused", "aborted", "failed"}
    BY <1>7 DEF Park, IInv, TypeOK
  <2>3. todo' = {}
    BY <1>7, <2>2 DEF Park, IInv, Course
  <2> QED
    BY <1>7, <2>1, <2>2, <2>3 DEF Park, IInv, TypeOK, Course, IntentIsParks, Phases, reportVars,
                                  countVars
<1> QED
  BY <1>1, <1>2, <1>3, <1>4, <1>5, <1>6, <1>7

\* The boundary, the stop and the launch touch neither what is parked nor the intent.
LEMMA StopSteps ==
    ASSUME ContinuityAssumption, IInv,
           BoundaryClear \/ BoundaryTimesOut \/ Stop \/ StopFails \/ Ready \/ NotReady
    PROVE IInv'
<1>1. work' \in [Targets -> WorkStates]
  BY DEF BoundaryClear, BoundaryTimesOut, Stop, StopFails, Ready, NotReady, IInv, TypeOK, WorkStates
<1>2. /\ UNCHANGED <<parkVars, intent, todo, reportVars, countVars>>
      /\ phase \in {"boundary", "stopping", "down"}
      /\ phase' \in {"stopping", "aborting", "down", "up", "ready"}
      /\ outcome' \in {outcome, "ok", "aborted", "failed"}
  BY DEF BoundaryClear, BoundaryTimesOut, Stop, StopFails, Ready, NotReady, GoTo
<1> QED
  BY <1>1, <1>2 DEF IInv, TypeOK, Course, IntentIsParks, Phases, parkVars, reportVars, countVars

\* resume() works through the targets of the intent it found, and clears it at its end.
LEMMA ResumeSteps ==
    ASSUME ContinuityAssumption, IInv,
           \/ NothingToResume \/ VerificationFails \/ BeginResume \/ EndResume
           \/ \E t \in Targets : FoundComplete(t) \/ Resumed(t) \/ ResumeFails(t)
    PROVE IInv'
<1>1. CASE NothingToResume \/ VerificationFails
  BY <1>1 DEF NothingToResume, VerificationFails, IInv, TypeOK, Course, IntentIsParks, Phases,
              parkVars, countVars
<1>2. CASE BeginResume
  BY <1>2 DEF BeginResume, IInv, TypeOK, Course, IntentIsParks, Phases, parkVars, countVars
<1>3. CASE EndResume
  <2>1. /\ intent' = NoIntent /\ NoIntent \in Intents /\ phase' = "up" /\ todo' = {}
        /\ UNCHANGED <<work, parkVars, reportVars, outcome, countVars>>
    BY <1>3 DEF EndResume, GoTo, IInv, TypeOK, Intents, NoIntent
  <2>2. TypeOK'
    BY <2>1 DEF IInv, TypeOK, Phases, parkVars, reportVars, countVars
  <2>3. Course' /\ IntentIsParks'
    BY <2>1 DEF Course, IntentIsParks
  <2> QED
    BY <2>2, <2>3 DEF IInv
<1>4. ASSUME NEW t \in Targets, FoundComplete(t) \/ Resumed(t) \/ ResumeFails(t) PROVE IInv'
  <2>1. /\ phase = "resuming" /\ phase' = "resuming"
        /\ todo' = todo \ {t} /\ t \in todo
        /\ complete' \subseteq complete \cup {t} /\ failures' \subseteq failures \cup {t}
        /\ UNCHANGED <<parkVars, intent, retained, outcome, countVars>>
    BY <1>4 DEF FoundComplete, Resumed, ResumeFails, GoTo, reportVars
  <2>2. work' \in [Targets -> WorkStates]
    BY <1>4 DEF FoundComplete, Resumed, ResumeFails, IInv, TypeOK, WorkStates
  <2>3. todo' \subseteq intent'.targets /\ complete' \subseteq Targets /\ failures' \subseteq Targets
    BY <2>1 DEF IInv, TypeOK
  <2>4. TypeOK'
    BY <2>1, <2>2, <2>3 DEF IInv, TypeOK, parkVars, countVars
  <2>5. Course' /\ IntentIsParks'
    BY <2>1 DEF Course, IntentIsParks
  <2> QED
    BY <2>4, <2>5 DEF IInv
<1> QED
  BY <1>1, <1>2, <1>3, <1>4

\* The inductive invariant holds, whatever is started, finished or cut short meanwhile.
THEOREM Invariance == ASSUME ContinuityAssumption PROVE Spec => []IInv
<1>1. Init => IInv
  <2> SUFFICES ASSUME Init PROVE IInv
    OBVIOUS
  <2>1. restarts \in 0..MaxRestarts /\ starts \in 0..MaxStarts
    BY DEF Init, ContinuityAssumption
  <2>2. intent \in Intents /\ work \in [Targets -> WorkStates]
    BY DEF Init, Intents, NoIntent, WorkStates
  <2>3. TypeOK
    BY <2>1, <2>2 DEF Init, TypeOK, Phases
  <2>4. Course /\ IntentIsParks
    BY DEF Init, Course, IntentIsParks
  <2> QED
    BY <2>3, <2>4 DEF IInv
<1>2. IInv /\ [Next]_vars => IInv'
  <2> SUFFICES ASSUME IInv, [Next]_vars PROVE IInv'
    OBVIOUS
  <2>1. CASE UNCHANGED vars
    BY <2>1 DEF vars, parkVars, reportVars, countVars, IInv, TypeOK, Course, IntentIsParks
  <2>2. CASE Next
    BY <2>2, WorkSteps, ParkSteps, StopSteps, ResumeSteps DEF Next, Hooks
  <2> QED
    BY <2>1, <2>2
<1> QED
  BY <1>1, <1>2, PTL DEF Spec

\* Every variable keeps its type; in particular a resume only ever looks at targets that
\* its intent lists, and park() only answers for targets that ran before.
THEOREM TypeCorrect == ASSUME ContinuityAssumption PROVE Spec => []TypeOK
<1>1. IInv => TypeOK
  BY DEF IInv
<1> QED
  BY <1>1, Invariance, PTL

\* For every number of restarts: what is parked when the process leaves is listed by the
\* intent that its successor reads, if park() said that it was written.
THEOREM ParkedStaysRecorded == ASSUME ContinuityAssumption PROVE Spec => []ParkedIsRecorded
<1>1. IInv => ParkedIsRecorded
  BY DEF IInv, IntentIsParks, ParkedIsRecorded
<1> QED
  BY <1>1, Invariance, PTL
================================================================================
