----------------------------- MODULE TaskContinuity -----------------------------
(* What a restart does to work in flight: park, remember, wait, stop, resume.     *)
(* createTaskContinuity() of app/core/task-continuity.cjs over the two targets of *)
(* app/reboot/targets.cjs, driven in the order of run() in the restart            *)
(* supervisor's lifecycle.cjs (whose budget and readiness gates RestartLifecycle  *)
(* models; here the gates are one answer).                                        *)
(*                                                                                *)
(* A target is a program of its own: it starts, ends and stops while run() and    *)
(* the hooks are suspended. Every await of park(), resume() and run() is a phase. *)
EXTENDS Integers, FiniteSets

CONSTANTS
    MaxRestarts,   \* bound of the model: how many restarts are begun
    MaxStarts      \* bound of the model: how often work is started

ASSUME ContinuityAssumption == MaxRestarts \in Nat /\ MaxStarts \in Nat

VARIABLES
    work,       \* what became of each target's work
    phase,      \* the await run() is suspended in; "up" between two restarts
    before,     \* park(): the targets whose status said running when it began
    parked,     \* park(): the targets that suspended
    pending,    \* park(): the targets that were asked to suspend
    refused,    \* park(): the targets that would not
    file,       \* park(): the intent was written, its answer names the file
    intent,     \* resume-intent.json
    todo,       \* resume(): the recorded targets it has still to look at
    complete,   \* resume(): the last report's alreadyComplete
    failures,   \* resume(): the last report's failures
    retained,   \* resume(): the intent was kept because verification failed
    outcome,    \* how the last restart ended
    restarts, starts

parkVars == <<before, parked, pending, refused, file>>
reportVars == <<complete, failures, retained>>
countVars == <<restarts, starts>>
vars == <<work, phase, parkVars, intent, todo, reportVars, outcome, countVars>>

Worker == "sub-worker"
Episode == "engineering"
Targets == {Worker, Episode}

\* A worker's pool is alive while it is running, paused or finished; it is absent
\* otherwise. An episode that was cancelled is stopping, then parked at a checkpoint.
WorkStates == {"absent", "running", "paused", "stopping", "parked", "finished", "cut"}
Phases == {"up", "parking worker", "parking episode", "settling", "writing", "boundary",
           "aborting", "stopping", "down", "ready", "resuming"}

NoIntent == [targets |-> {}, parked |-> {}, exists |-> FALSE]
Intents == [targets : SUBSET Targets, parked : SUBSET Targets, exists : BOOLEAN]

TypeOK ==
    /\ work \in [Targets -> WorkStates]
    /\ phase \in Phases
    /\ before \subseteq Targets
    /\ parked \subseteq before
    /\ pending \subseteq before
    /\ refused \subseteq before
    /\ file \in BOOLEAN
    /\ intent \in Intents
    /\ todo \subseteq intent.targets
    /\ complete \subseteq Targets
    /\ failures \subseteq Targets
    /\ retained \in BOOLEAN
    /\ outcome \in {"none", "ok", "refused", "aborted", "failed"}
    /\ restarts \in 0..MaxRestarts
    /\ starts \in 0..MaxStarts

Init ==
    /\ work = [t \in Targets |-> "absent"]
    /\ phase = "up"
    /\ before = {} /\ parked = {} /\ pending = {} /\ refused = {} /\ file = FALSE
    /\ intent = NoIntent
    /\ todo = {}
    /\ complete = {} /\ failures = {} /\ retained = FALSE
    /\ outcome = "none"
    /\ restarts = 0 /\ starts = 0

--------------------------------------------------------------------------------
(* The targets.                                                                  *)

\* status().running: the worker's is that its pool is alive, at work or not.
Running(t) ==
    IF t = Worker THEN work[t] \in {"running", "paused", "finished"}
    ELSE work[t] \in {"running", "stopping"}

Unfinished(t) == work[t] \in {"running", "paused", "stopping", "parked", "cut"}

GoTo(from, to) == phase = from /\ phase' = to

Becomes(t, from, to) == work[t] \in from /\ work' = [work EXCEPT ![t] = to]

\* A person starts work; nothing in the continuity layer stops accepting it.
Start(t) ==
    /\ phase # "down"
    /\ starts < MaxStarts
    /\ Becomes(t, {"absent", "finished"}, "running")
    /\ starts' = starts + 1
    /\ UNCHANGED <<phase, parkVars, intent, todo, reportVars, outcome, restarts>>

Finish(t) ==
    /\ Becomes(t, {"running"}, "finished")
    /\ UNCHANGED <<phase, parkVars, intent, todo, reportVars, outcome, countVars>>

\* An idle pool retires its workers.
Retire ==
    /\ Becomes(Worker, {"finished"}, "absent")
    /\ UNCHANGED <<phase, parkVars, intent, todo, reportVars, outcome, countVars>>

\* A cancelled episode reaches a checkpoint it can be resumed from, or its end.
Settle ==
    /\ Becomes(Episode, {"stopping"}, "parked") \/ Becomes(Episode, {"stopping"}, "finished")
    /\ UNCHANGED <<phase, parkVars, intent, todo, reportVars, outcome, countVars>>

--------------------------------------------------------------------------------
(* beforeRestart: park().                                                        *)

SlipBeginRestart ==
    /\ GoTo("up", "parking worker")
    /\ restarts < MaxRestarts
    /\ restarts' = restarts + 1
    /\ before' = {t \in Targets : Running(t)}
    /\ outcome' = "none"
    /\ UNCHANGED <<work, parked, pending, refused, file, intent, todo, reportVars, starts>>

BeginRestart ==
    /\ GoTo("up", "parking worker")
    /\ restarts < MaxRestarts
    /\ restarts' = restarts + 1
    /\ before' = {t \in Targets : Running(t)}
    /\ parked' = {} /\ pending' = {} /\ refused' = {} /\ file' = FALSE
    /\ outcome' = "none"
    /\ UNCHANGED <<work, intent, todo, reportVars, starts>>

\* pause() only asks, and says so: PAUSING, whatever the pool was doing.
ParkWorker ==
    /\ GoTo("parking worker", "parking episode")
    /\ \/ /\ Worker \in before /\ Running(Worker)
          /\ pending' = pending \cup {Worker}
          /\ work' = [work EXCEPT ![Worker] = IF @ = "running" THEN "paused" ELSE @]
          /\ UNCHANGED refused
       \/ /\ Worker \in before /\ ~Running(Worker)
          /\ refused' = refused \cup {Worker}
          /\ UNCHANGED <<pending, work>>
       \/ Worker \notin before /\ UNCHANGED <<pending, refused, work>>
    /\ UNCHANGED <<before, parked, file, intent, todo, reportVars, outcome, countVars>>

\* cancel({preserveForResume}) of a running episode, and the settled() it awaits.
CancelEpisode ==
    /\ GoTo("parking episode", "settling")
    /\ Episode \in before
    /\ IF work[Episode] = "running" THEN work' = [work EXCEPT ![Episode] = "stopping"]
       ELSE UNCHANGED work
    /\ UNCHANGED <<parkVars, intent, todo, reportVars, outcome, countVars>>

EpisodeSettled ==
    /\ GoTo("settling", "writing")
    /\ ~Running(Episode)
    /\ parked' = parked \cup {Episode}
    /\ UNCHANGED <<work, before, pending, refused, file, intent, todo, reportVars, outcome, countVars>>

\* cancel answered no, or the episode's promise was rejected.
EpisodeRefuses ==
    /\ GoTo("settling", "writing")
    /\ refused' = refused \cup {Episode}
    /\ UNCHANGED <<work, before, parked, pending, file, intent, todo, reportVars, outcome, countVars>>

EpisodeNotRunning ==
    /\ GoTo("parking episode", "writing")
    /\ Episode \notin before
    /\ UNCHANGED <<work, parkVars, intent, todo, reportVars, outcome, countVars>>

SlipPark ==
    /\ phase = "writing"
    /\ intent' = [targets |-> before, parked |-> parked \cap pending, exists |-> TRUE]
    /\ file' = TRUE
    /\ phase' = IF refused = {} THEN "boundary" ELSE "up"
    /\ outcome' = IF refused = {} THEN outcome ELSE "refused"
    /\ UNCHANGED <<work, before, parked, pending, refused, todo, reportVars, countVars>>

\* The end of park(): the intent replaces whatever was on disk, or could not be
\* written, which the answer does not depend on. A refusal ends the restart.
Park ==
    /\ phase = "writing"
    /\ \/ file' = TRUE /\ intent' = [targets |-> before, parked |-> parked, exists |-> TRUE]
       \/ file' = FALSE /\ UNCHANGED intent
    /\ phase' = IF refused = {} THEN "boundary" ELSE "up"
    /\ outcome' = IF refused = {} THEN outcome ELSE "refused"
    /\ UNCHANGED <<work, before, parked, pending, refused, todo, reportVars, countVars>>

--------------------------------------------------------------------------------
(* The boundary and the stop.                                                    *)

\* pendingWork(): no target says running. (No shipped target reports a checkpoint
\* nearby or an uninterruptible operation.)
BoundaryClear ==
    /\ GoTo("boundary", "stopping")
    /\ \A t \in Targets : ~Running(t)
    /\ UNCHANGED <<work, parkVars, intent, todo, reportVars, outcome, countVars>>

SlipBoundaryTimesOut ==
    /\ GoTo("boundary", "up")
    /\ \E t \in Targets : Running(t)
    /\ outcome' = "aborted"
    /\ UNCHANGED <<work, parkVars, intent, todo, reportVars, countVars>>

BoundaryTimesOut ==
    /\ GoTo("boundary", "aborting")
    /\ \E t \in Targets : Running(t)
    /\ outcome' = "aborted"
    /\ UNCHANGED <<work, parkVars, intent, todo, reportVars, countVars>>

\* The application leaves, and takes with it whatever still runs.
Stop ==
    /\ GoTo("stopping", "down")
    /\ work' = [t \in Targets |-> IF Running(t) /\ Unfinished(t) THEN "cut"
                                  ELSE IF work[t] = "finished" THEN "absent" ELSE work[t]]
    /\ UNCHANGED <<parkVars, intent, todo, reportVars, outcome, countVars>>

\* Neither stop worked: the application is up, and continuity is not told.
StopFails ==
    /\ GoTo("stopping", "up")
    /\ outcome' = "failed"
    /\ UNCHANGED <<work, parkVars, intent, todo, reportVars, countVars>>

Ready ==
    /\ GoTo("down", "ready")
    /\ outcome' = "ok"
    /\ UNCHANGED <<work, parkVars, intent, todo, reportVars, countVars>>

\* The launch failed or the gates never opened; somebody starts the application later.
NotReady ==
    /\ GoTo("down", "up")
    /\ outcome' = "failed"
    /\ UNCHANGED <<work, parkVars, intent, todo, reportVars, countVars>>

--------------------------------------------------------------------------------
(* afterRestart: resume().                                                       *)

NothingToResume ==
    /\ phase \in {"ready", "aborting"} /\ phase' = "up"
    /\ ~intent.exists
    /\ complete' = {} /\ failures' = {} /\ retained' = FALSE
    /\ UNCHANGED <<work, parkVars, intent, todo, outcome, countVars>>

\* The recorded state does not check out: nothing is resumed and the intent is kept.
VerificationFails ==
    /\ phase \in {"ready", "aborting"} /\ phase' = "up"
    /\ intent.exists /\ intent.parked # {}
    /\ complete' = {} /\ failures' = {} /\ retained' = TRUE
    /\ UNCHANGED <<work, parkVars, intent, todo, outcome, countVars>>

BeginResume ==
    /\ phase \in {"ready", "aborting"} /\ phase' = "resuming"
    /\ intent.exists
    /\ todo' = intent.targets
    /\ complete' = {} /\ failures' = {} /\ retained' = FALSE
    /\ UNCHANGED <<work, parkVars, intent, outcome, countVars>>

\* A recorded target that is not in intent.parked is taken to have finished.
FoundComplete(t) ==
    /\ GoTo("resuming", "resuming")
    /\ t \in todo \ intent.parked
    /\ complete' = complete \cup {t}
    /\ todo' = todo \ {t}
    /\ UNCHANGED <<work, parkVars, intent, failures, retained, outcome, countVars>>

\* The episode continues from its checkpoint, or had nothing left to continue.
Resumed(t) ==
    /\ GoTo("resuming", "resuming")
    /\ t \in todo \cap intent.parked
    /\ work' = [work EXCEPT ![t] = IF @ = "parked" THEN "running" ELSE @]
    /\ todo' = todo \ {t}
    /\ UNCHANGED <<parkVars, intent, reportVars, outcome, countVars>>

ResumeFails(t) ==
    /\ GoTo("resuming", "resuming")
    /\ t \in todo \cap intent.parked
    /\ failures' = failures \cup {t}
    /\ todo' = todo \ {t}
    /\ UNCHANGED <<work, parkVars, intent, complete, retained, outcome, countVars>>

SlipEndResume ==
    /\ GoTo("resuming", "up")
    /\ todo = {} /\ failures = {}
    /\ intent' = NoIntent
    /\ UNCHANGED <<work, parkVars, todo, reportVars, outcome, countVars>>

\* The report is kept and the intent cleared, whatever failed.
EndResume ==
    /\ GoTo("resuming", "up")
    /\ todo = {}
    /\ intent' = NoIntent
    /\ UNCHANGED <<work, parkVars, todo, reportVars, outcome, countVars>>

--------------------------------------------------------------------------------
Hooks ==
    \/ ParkWorker \/ CancelEpisode \/ EpisodeSettled \/ EpisodeRefuses \/ EpisodeNotRunning
    \/ Park \/ BoundaryClear \/ BoundaryTimesOut
    \/ Stop \/ StopFails \/ Ready \/ NotReady
    \/ NothingToResume \/ VerificationFails \/ BeginResume \/ EndResume
    \/ \E t \in Targets : FoundComplete(t) \/ Resumed(t) \/ ResumeFails(t)

Next == BeginRestart \/ Hooks \/ Settle \/ Retire \/ \E t \in Targets : Start(t) \/ Finish(t)

Spec == Init /\ [][Next]_vars

\* The hooks answer, the boundary has a deadline, a cancelled episode stops.
FairSpec == Spec /\ WF_vars(Hooks) /\ WF_vars(Settle)

--------------------------------------------------------------------------------
(* Correctness.                                                                  *)

\* From park()'s answer to the resume, a target that is parked is listed by the intent
\* on disk whenever park() said it had been written: the process that parked it will
\* not be there to remember.
ParkedIsRecorded ==
    file /\ phase \in {"boundary", "aborting", "stopping", "down", "ready"}
      => \A t \in parked : work[t] = "parked" => t \in intent.parked

\* Every restart ends: no hook, no running target and no failure leaves run() waiting.
RestartEnds == phase # "up" ~> phase = "up"

\* An episode that was parked is running again, or over, once its restart is: unless
\* the restart itself failed, its recorded state did not check out, no intent could be
\* written, or the episode could not be resumed and is reported so.
EpisodeComesBack ==
    phase = "boundary" /\ work[Episode] = "parked" /\ Episode \in intent.parked
      ~> \/ work[Episode] # "parked"
         \/ outcome = "failed" \/ retained \/ Episode \in failures

\* Claimed at task-continuity.cjs:350: what was not parked had already finished.
CompleteIsComplete == [][\A t \in Targets : FoundComplete(t) => ~Unfinished(t)]_vars

================================================================================
