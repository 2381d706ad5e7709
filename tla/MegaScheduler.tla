----------------------------- MODULE MegaScheduler -----------------------------
(* The task queue of the Mega extension (src/app/extensions/mega/scheduler): the  *)
(* queue and its worker slots (scheduler.js), the vocabulary of statuses           *)
(* (lifecycle.js), the schedule gate (gate.js), the admission the health decision  *)
(* gives (src/app/core/work-admission.cjs) and the file the queue is kept in.      *)
(*                                                                              *)
(* The shell is one thread. tick() gives way at two awaits, session/list and the   *)
(* dispatch of a session; everything between them runs before the next event, so    *)
(* every event waits for tick.at to be at rest or at an await.                     *)
(* A retry is a new entry under a new id; here it is the same task again, and the   *)
(* silent end of the attempt before it is not an outcome of the task.              *)
EXTENDS Integers, FiniteSets

CONSTANTS Tasks,
          Official,     \* tasks delivered as a session of the Harness; the rest are headless
          Anytime,      \* tasks that may run in peak hours
          Slots,        \* concurrency.current
          MaxAttempts,  \* autonomyMaxAttempts
          Decisions,    \* the health decisions there are
          MaxUpsets,    \* bound: orders of the user after add, and faults
          MaxLives      \* bound: starts of the shell

ASSUME MegaSchedulerAssumption ==
    /\ Official \subseteq Tasks /\ Anytime \subseteq Tasks
    /\ Slots \in Nat \ {0} /\ MaxAttempts \in Nat \ {0}
    /\ Decisions \subseteq {"NO_ACTION", "THROTTLE", "PAUSE_NEW_WORK"}
    /\ "NO_ACTION" \in Decisions
    /\ MaxUpsets \in Nat /\ MaxLives \in Nat

VARIABLES st,       \* task.status
          listed,   \* this.tasks
          running,  \* this.running
          attempts, \* task.attempts, counted to MaxAttempts
          due,      \* tasks without an instant, or whose instant has come
          sess,     \* the session of the task's attempt in the Harness
          kid,      \* headless tasks whose child process runs
          hist,     \* tasks the history layer records the outcome of
          told,     \* TASK_TERMINATED events of a task that are not silent
          dropped,  \* tasks the user has had removed
          loose,    \* tasks that ended while the code had no way to stop their work
          disk,     \* scheduler-queue.json
          app,      \* the shell
          tick,     \* where tick() is, and its locals
          factor,   \* lastAdmission.concurrencyFactor
          health,   \* the decision the health monitor publishes
          peak,     \* statusAt(now) is PEAK
          upsets, lives,
          threw     \* the launch of a task has thrown

taskVars == <<st, listed, running, attempts>>
workVars == <<sess, kid, loose>>
recordVars == <<hist, told, dropped>>
envVars == <<health, peak, upsets, lives, threw>>
schedulerVars == <<taskVars, due, workVars, recordVars, disk, app, tick, factor, envVars>>

QueuedStatus == {"PENDING", "SUSPENDED"}
ActiveStatus == {"DISPATCHING", "RUNNING"}
TerminalStatus == {"COMPLETED", "FAILED", "CANCELED", "INTERRUPTED"}
\* "absent" was never added; "over" has no object left in this life of the shell.
Status == QueuedStatus \cup ActiveStatus \cup TerminalStatus \cup {"absent", "over"}

Resting == [at |-> "idle", asked |-> {}, rest |-> {}, sent |-> {}, peak |-> FALSE, changed |-> FALSE, again |-> FALSE]

\* Every variable keeps its type.
QueueTypeOK ==
    /\ st \in [Tasks -> Status] /\ disk \in [Tasks -> QueuedStatus \cup ActiveStatus \cup {"none"}]
    /\ listed \subseteq Tasks /\ running \subseteq Tasks
    /\ attempts \in [Tasks -> 0..MaxAttempts]
    /\ due \subseteq Tasks /\ kid \subseteq Tasks /\ hist \subseteq Tasks
    /\ dropped \subseteq Tasks /\ loose \subseteq Tasks
    /\ sess \in [Tasks -> {"none", "asked", "live", "idle", "lost"}]
    /\ told \in [Tasks -> Nat]
    /\ app \in {"down", "up", "closing"}
    /\ tick \in [at : {"idle", "listing", "supervise", "walk", "dispatch", "end"},
                 asked : SUBSET Tasks, rest : SUBSET Tasks, sent : SUBSET Tasks,
                 peak : BOOLEAN, changed : BOOLEAN, again : BOOLEAN]
    /\ factor \in {"full", "half", "none"}
    /\ health \in Decisions /\ peak \in BOOLEAN
    /\ upsets \in 0..MaxUpsets /\ lives \in 0..MaxLives /\ threw \in BOOLEAN

QueueInit ==
    /\ st = [t \in Tasks |-> "absent"] /\ disk = [t \in Tasks |-> "none"]
    /\ listed = {} /\ running = {} /\ attempts = [t \in Tasks |-> 0]
    /\ due = {} /\ sess = [t \in Tasks |-> "none"] /\ kid = {}
    /\ hist = {} /\ told = [t \in Tasks |-> 0] /\ dropped = {} /\ loose = {}
    /\ app = "down" /\ tick = Resting /\ factor = "full"
    /\ health = "NO_ACTION" /\ peak = FALSE /\ upsets = 0 /\ lives = 0 /\ threw = FALSE

Queued == {t \in listed : st[t] \in QueuedStatus}
Active == {t \in listed : st[t] \in ActiveStatus}

SlipOpen(S) == S

\* The tasks of S a terminal transition applies to: an ended one is never ended again.
Open(S) == {t \in S : st[t] \notin TerminalStatus}

\* saveQueue(): what the file holds of these entries.
Saved(entries, status) == [t \in Tasks |-> IF t \in entries THEN status[t] ELSE "none"]

Upset == upsets < MaxUpsets /\ upsets' = upsets + 1
Settled == tick.at \in {"idle", "listing", "dispatch"}

--------------------------------------------------------------------------------
(* Terminal transitions, and what asks for a tick                               *)

\* The sessions syncOfficialRuns() asks after, of those that hold a slot.
Asked(slots) == {t \in slots \cap Official : st[t] = "RUNNING" /\ sess[t] # "none"}

Begun(slots, again) ==
    [Resting EXCEPT !.at = IF Asked(slots) = {} THEN "supervise" ELSE "listing",
                    !.asked = Asked(slots), !.again = again]

\* requestTick(): begin a tick, or leave word for the one in progress.
RequestTick(slots, again) ==
    tick' = IF tick.at = "idle" THEN Begun(slots, again) ELSE [tick EXCEPT !.again = TRUE]

SlipLeave(D, how) ==
    /\ st' = [t \in Tasks |-> IF t \in D THEN how[t] ELSE st[t]]
    /\ listed' = listed \ D /\ running' = running \ D
    /\ disk' = Saved(listed, st')

\* terminate() for the tasks of D, which are open, each with its status.
Leave(D, how) ==
    /\ st' = [t \in Tasks |-> IF t \in D THEN how[t] ELSE st[t]]
    /\ listed' = listed \ D /\ running' = running \ D
    /\ disk' = Saved(listed \ D, st)

Announce(D) ==
    /\ hist' = hist \cup D
    /\ told' = [t \in Tasks |-> told[t] + IF t \in D THEN 1 ELSE 0]

All(status) == [t \in Tasks |-> status]

\* The first of them asks for the tick while the others still hold their slots.
TickAfter(D) ==
    IF D = {} THEN UNCHANGED tick
    ELSE \E first \in D : RequestTick(running \ {first}, Cardinality(D) > 1)

Terminate(D, how) == Leave(D, how) /\ Announce(D) /\ TickAfter(D)

\* Tried(t) is the count of attempts with one more, as far as MaxAttempts tells them apart.
Tried(t) == IF attempts[t] < MaxAttempts THEN attempts[t] + 1 ELSE attempts[t]

\* interruptTask() stops the work it can name: the session whose id it has been told, the
\* child it holds. "astray" is where the cancellation of a session does not arrive, and
\* "left" is work nothing tries to stop.
Interrupted(D, astray, left) ==
    /\ astray \subseteq {t \in D : sess[t] = "live"}
    /\ sess' = [t \in Tasks |-> IF t \in D /\ sess[t] # "asked" THEN "none" ELSE sess[t]]
    /\ kid' = kid \ D
    /\ loose' = loose \cup astray \cup left \cup {t \in D : sess[t] = "asked"}

--------------------------------------------------------------------------------
(* Orders of the user                                                           *)

\* addTask(): a task with or without an instant in the future.
AddTask(t) ==
    /\ app = "up" /\ Settled /\ st[t] = "absent"
    /\ st' = [st EXCEPT ![t] = "PENDING"] /\ listed' = listed \cup {t}
    /\ \E now \in BOOLEAN : due' = IF now THEN due \cup {t} ELSE due
    /\ disk' = Saved(listed', st')
    /\ RequestTick(running, FALSE)
    /\ UNCHANGED <<running, attempts, workVars, recordVars, app, factor, envVars>>

\* editTask(): only a queued one, and its instant is decided again.
EditTask(t) ==
    /\ app = "up" /\ Settled /\ t \in Queued /\ Upset
    /\ due' \in {due \cup {t}, due \ {t}}
    /\ disk' = Saved(listed, st)
    /\ RequestTick(running, FALSE)
    /\ UNCHANGED <<taskVars, workVars, recordVars, app, factor, health, peak, lives, threw>>

\* cancelTask(): a queued task is ended, an active one is interrupted first.
CancelTask(t) ==
    /\ app = "up" /\ Settled /\ t \in listed /\ Upset
    /\ \E astray \in SUBSET {t} : Interrupted({t} \cap Active, astray, {})
    /\ Terminate({t}, All("CANCELED"))
    /\ UNCHANGED <<attempts, due, dropped, app, factor, health, peak, lives, threw>>

\* clearPending()
ClearPending ==
    /\ app = "up" /\ Settled /\ Queued # {} /\ Upset
    /\ Terminate(Queued, All("CANCELED"))
    /\ UNCHANGED <<attempts, due, workVars, dropped, app, factor, health, peak, lives, threw>>

\* removeTasks(): the entry, its work and its record in the history.
RemoveTasks(S) ==
    /\ app = "up" /\ Settled /\ S # {} /\ Upset
    /\ \A t \in S : st[t] # "absent" /\ t \notin dropped
    /\ \E astray \in SUBSET S : Interrupted(S \cap Active, astray, {})
    /\ Leave(S \cap listed, All("CANCELED"))
    /\ hist' = hist \ S
    /\ told' = [t \in Tasks |-> told[t] + IF t \in S \cap listed THEN 1 ELSE 0]
    /\ dropped' = dropped \cup S
    /\ IF S \cap listed = {} THEN UNCHANGED tick
       ELSE \E first \in S \cap listed : RequestTick(running \ {first}, TRUE)
    /\ UNCHANGED <<attempts, due, app, factor, health, peak, lives, threw>>

--------------------------------------------------------------------------------
(* The tick                                                                     *)

Timer ==
    /\ app = "up" /\ Settled
    /\ RequestTick(running, FALSE)
    /\ UNCHANGED <<taskVars, due, workVars, recordVars, disk, app, factor, envVars>>

\* session/list has answered: a session at rest has completed its task, one that is not
\* in the list has failed it.
ListAnswered ==
    /\ tick.at = "listing"
    /\ LET over == Open({t \in tick.asked : sess[t] \in {"idle", "lost"}})
           how == [t \in Tasks |-> IF sess[t] = "idle" THEN "COMPLETED" ELSE "FAILED"]
       IN  /\ Leave(over, how) /\ Announce(over)
           /\ sess' = [t \in Tasks |-> IF t \in over THEN "none" ELSE sess[t]]
           /\ tick' = [tick EXCEPT !.at = "supervise", !.asked = {}, !.again = @ \/ over # {}]
    /\ UNCHANGED <<attempts, due, kid, loose, dropped, app, factor, envVars>>

ListFailed ==
    /\ tick.at = "listing" /\ Upset
    /\ tick' = [tick EXCEPT !.at = "supervise", !.asked = {}]
    /\ UNCHANGED <<taskVars, due, workVars, recordVars, disk, app, factor, health, peak, lives, threw>>

\* autonomyTick() and the peak pause, then the snapshot of the queue. A stalled attempt is
\* interrupted and queued again; beyond its attempts, or past its deadline, the task fails
\* and its child is left alone. The last task paused for the peak is not saved yet.
Supervise ==
    /\ tick.at = "supervise"
    /\ LET judged == {t \in running \ Official : st[t] = "RUNNING"}
       IN \E stalled \in SUBSET judged, late \in SUBSET judged, pausing \in BOOLEAN :
            LET retried == {t \in stalled \ late : attempts[t] < MaxAttempts}
                failed == late \cup (stalled \ retried)
                paused == IF pausing /\ peak
                          THEN {t \in Active \ (stalled \cup late \cup Anytime) : st[t] = "RUNNING"}
                          ELSE {}
                again == retried \cup paused
            IN  /\ st' = [t \in Tasks |-> IF t \in failed THEN "FAILED"
                                          ELSE IF t \in again THEN "PENDING" ELSE st[t]]
                /\ listed' = listed \ failed /\ running' = running \ (failed \cup again)
                /\ attempts' = [t \in Tasks |-> IF t \in paused THEN Tried(t) ELSE attempts[t]]
                /\ due' = due \ again
                /\ \E astray \in SUBSET paused : Interrupted(again, astray, failed \cap kid)
                /\ Announce(failed)
                /\ IF failed \cup again = {} THEN UNCHANGED disk
                   ELSE \E last \in IF paused = {} THEN failed \cup retried ELSE paused :
                            disk' = Saved(listed' \ (paused \cap {last}), st')
                /\ tick' = [tick EXCEPT !.at = "walk", !.peak = peak, !.changed = paused # {},
                                        !.rest = {t \in listed' : st'[t] \in QueuedStatus},
                                        !.again = @ \/ failed \cup again # {}]
    /\ UNCHANGED <<dropped, app, factor, envVars>>

\* effectiveConcurrency()
Capacity == CASE factor = "full" -> Slots
              [] factor = "half" -> IF Slots > 1 THEN Slots \div 2 ELSE 1
              [] factor = "none" -> 0

SlipRoom == Cardinality(running) <= Capacity

Room == Cardinality(running) < Capacity

\* admit(): the factor that goes with the decision.
FactorOf(decision) == CASE decision = "NO_ACTION" -> "full"
                        [] decision = "THROTTLE" -> "half"
                        [] decision = "PAUSE_NEW_WORK" -> "none"

\* decideTask(), with the peak the tick has read.
Suspended(t) == st[t] \in QueuedStatus /\ ((t \notin Anytime /\ tick.peak) \/ t \notin due)
Ready(t) == st[t] \in QueuedStatus /\ ~Suspended(t)

\* A task of the snapshot that has ended since, or has to wait for its hour.
Pass(t) ==
    /\ tick.at = "walk" /\ t \in tick.rest /\ ~Ready(t)
    /\ st' = IF Suspended(t) THEN [st EXCEPT ![t] = "SUSPENDED"] ELSE st
    /\ \E changed \in {tick.changed \/ st' # st, tick.changed \/ Suspended(t)} :
           tick' = [tick EXCEPT !.rest = @ \ {t}, !.changed = changed]
    /\ UNCHANGED <<listed, running, attempts, due, workVars, recordVars, disk, app, factor, envVars>>

\* No slot is free: the walk is over, and the gate is not asked.
Full ==
    /\ tick.at = "walk" /\ ~Room /\ \E t \in tick.rest : Ready(t)
    /\ tick' = [tick EXCEPT !.at = "end"]
    /\ UNCHANGED <<taskVars, due, workVars, recordVars, disk, app, factor, envVars>>

Consult(t) ==
    /\ tick.at = "walk" /\ t \in tick.rest /\ Ready(t) /\ Room
    /\ factor' = FactorOf(health)

Hold(t) ==
    /\ Consult(t) /\ health = "PAUSE_NEW_WORK"
    /\ \E changed \in {tick.changed, TRUE} :
           tick' = [tick EXCEPT !.rest = @ \ {t}, !.changed = changed]
    /\ UNCHANGED <<taskVars, due, workVars, recordVars, disk, app, envVars>>

Launch(t) ==
    /\ Consult(t) /\ health # "PAUSE_NEW_WORK"
    /\ attempts' = [attempts EXCEPT ![t] = Tried(t)]
    /\ UNCHANGED <<listed, due, loose, recordVars, app, health, peak, lives>>

\* launchHeadless(): the child is started, or the start throws and the tick with it.
LaunchHeadless(t) ==
    /\ Launch(t) /\ t \notin Official
    /\ st' = [st EXCEPT ![t] = "RUNNING"]
    /\ \/ /\ kid' = kid \cup {t} /\ running' = running \cup {t}
          /\ disk' = Saved(listed, st')
          /\ tick' = [tick EXCEPT !.rest = @ \ {t}, !.changed = TRUE]
          /\ UNCHANGED <<upsets, threw>>
       \/ /\ Upset /\ threw' = TRUE
          /\ tick' = [tick EXCEPT !.at = "end", !.changed = FALSE]
          /\ UNCHANGED <<kid, running, disk>>
    /\ UNCHANGED sess

\* launchOfficial() up to its await; the directory it makes first may be refused.
LaunchOfficial(t) ==
    /\ Launch(t) /\ t \in Official
    /\ st' = [st EXCEPT ![t] = "DISPATCHING"] /\ running' = running \cup {t}
    /\ disk' = Saved(listed, st')
    /\ \/ /\ sess' = [sess EXCEPT ![t] = "asked"]
          /\ tick' = [tick EXCEPT !.at = "dispatch", !.sent = {t}, !.rest = @ \ {t}]
          /\ UNCHANGED <<upsets, threw>>
       \/ /\ Upset /\ threw' = TRUE
          /\ tick' = [tick EXCEPT !.at = "end", !.changed = FALSE]
          /\ UNCHANGED sess
    /\ UNCHANGED kid

Walking == [tick EXCEPT !.at = "walk", !.sent = {}, !.changed = TRUE]

\* The session has taken the prompt; the task is RUNNING, whatever it was.
DispatchAccepted(t) ==
    /\ tick.at = "dispatch" /\ t \in tick.sent
    /\ st' = [st EXCEPT ![t] = "RUNNING"] /\ sess' = [sess EXCEPT ![t] = "live"]
    /\ disk' = Saved(listed, st') /\ tick' = Walking
    /\ UNCHANGED <<listed, running, attempts, due, kid, loose, recordVars, app, factor, envVars>>

\* An error, or no answer in time, of session/create or of session/prompt: the prompt may
\* have been taken all the same.
DispatchFailed(t) ==
    /\ tick.at = "dispatch" /\ t \in tick.sent /\ Upset
    /\ Leave(Open({t}), All("FAILED")) /\ Announce(Open({t}))
    /\ \E taken \in BOOLEAN :
           /\ sess' = [sess EXCEPT ![t] = IF taken THEN "live" ELSE "none"]
           /\ loose' = IF taken THEN loose \cup {t} ELSE loose
    /\ tick' = [Walking EXCEPT !.again = @ \/ Open({t}) # {}]
    /\ UNCHANGED <<attempts, due, kid, dropped, app, factor, health, peak, lives, threw>>

SlipEndTick ==
    /\ tick.at = "walk" /\ tick.rest = {}
    /\ disk' = IF tick.changed THEN Saved(listed, st) ELSE disk
    /\ tick' = IF tick.again THEN Begun(running, FALSE) ELSE Resting
    /\ UNCHANGED <<taskVars, due, workVars, recordVars, app, factor, envVars>>

\* The end of the walk, or of a tick that threw; the queue is saved if the walk says so.
EndTick ==
    /\ tick.at = "end" \/ (tick.at = "walk" /\ tick.rest = {})
    /\ disk' = IF tick.changed THEN Saved(listed, st) ELSE disk
    /\ tick' = IF tick.again THEN Begun(running, FALSE) ELSE Resting
    /\ UNCHANGED <<taskVars, due, workVars, recordVars, app, factor, envVars>>

--------------------------------------------------------------------------------
(* The work and the world                                                       *)

\* The exit of a child, or its error: only a task that is RUNNING ends by it.
ChildExits(t) ==
    /\ app # "down" /\ Settled /\ t \in kid
    /\ kid' = kid \ {t}
    /\ \E how \in {"COMPLETED", "FAILED"} :
           Terminate({t} \cap {u \in Tasks : st[u] = "RUNNING"}, All(how))
    /\ UNCHANGED <<attempts, due, sess, loose, dropped, app, factor, envVars>>

SessionEnds(t) ==
    /\ sess[t] = "live"
    /\ sess' = [sess EXCEPT ![t] = "idle"]
    /\ UNCHANGED <<taskVars, due, kid, loose, recordVars, disk, app, tick, factor, envVars>>

\* The Harness has lost the session.
SessionVanishes(t) ==
    /\ Settled /\ sess[t] \in {"live", "idle"} /\ Upset
    /\ sess' = [sess EXCEPT ![t] = "lost"]
    /\ UNCHANGED <<taskVars, due, kid, loose, recordVars, disk, app, tick, factor, health, peak, lives, threw>>

InstantComes(t) ==
    /\ t \in Queued \ due
    /\ due' = due \cup {t}
    /\ UNCHANGED <<taskVars, workVars, recordVars, disk, app, tick, factor, envVars>>

WorldChanges ==
    /\ Settled /\ app = "up"
    /\ \/ health' \in Decisions \ {health} /\ UNCHANGED peak
       \/ peak' = ~peak /\ UNCHANGED health
    /\ UNCHANGED <<taskVars, due, workVars, recordVars, disk, app, tick, factor, upsets, lives, threw>>

--------------------------------------------------------------------------------
(* The life of the shell                                                        *)

\* loadQueue() and start(): an entry that was active is ended, the queued ones are kept.
Start ==
    /\ app = "down" /\ lives < MaxLives
    /\ app' = "up" /\ lives' = lives + 1
    /\ LET cut == {t \in Tasks : disk[t] \in ActiveStatus}
           kept == {t \in Tasks : disk[t] \in QueuedStatus}
       IN  /\ st' = [t \in Tasks |-> IF t \in cut THEN "INTERRUPTED" ELSE st[t]]
           /\ listed' = kept /\ disk' = Saved(kept, st)
           /\ Announce(cut)
           /\ tick' = Begun({}, cut # {})
    /\ UNCHANGED <<running, attempts, due, workVars, dropped, factor, health, peak, upsets, threw>>

\* stop(): the timer, then every active task; each asks for a tick.
Stop ==
    /\ app = "up" /\ Settled
    /\ app' = "closing"
    /\ \E astray \in SUBSET Active : Interrupted(Active, astray, {})
    /\ Terminate(Active, All("INTERRUPTED"))
    /\ UNCHANGED <<attempts, due, dropped, factor, envVars>>

\* The process is gone. Children and sessions are not.
Gone ==
    /\ app' = "down" /\ tick' = Resting /\ factor' = "full"
    /\ listed' = {} /\ running' = {}
    /\ st' = [t \in Tasks |-> IF disk[t] # "none" THEN disk[t]
                              ELSE IF st[t] = "absent" THEN "absent" ELSE "over"]
    /\ loose' = loose \cup kid \cup {t \in Tasks : sess[t] \in {"asked", "live"}}
    /\ kid' = {} /\ sess' = [t \in Tasks |-> "none"]
    /\ UNCHANGED <<attempts, due, recordVars, disk, envVars>>

\* After stop() the process leaves at once, or lets the tick that stop() asked for run.
Exit == app = "closing" /\ (Settled \/ tick.at = "supervise") /\ Gone

Die == app = "up" /\ Settled /\ lives < MaxLives /\ Gone

--------------------------------------------------------------------------------
User == \/ \E t \in Tasks : AddTask(t) \/ EditTask(t) \/ CancelTask(t)
        \/ ClearPending
        \/ \E S \in SUBSET Tasks : RemoveTasks(S)

Turn == \/ Supervise \/ Full \/ EndTick
        \/ \E t \in Tasks : Pass(t) \/ Hold(t) \/ LaunchHeadless(t) \/ LaunchOfficial(t)

World == \/ WorldChanges
         \/ \E t \in Tasks : SessionVanishes(t) \/ DispatchFailed(t)

QueueNext ==
    \/ User \/ Timer \/ Turn \/ ListAnswered \/ ListFailed \/ World
    \/ \E t \in Tasks : DispatchAccepted(t) \/ ChildExits(t) \/ SessionEnds(t) \/ InstantComes(t)
    \/ Start \/ Stop \/ Exit \/ Die

QueueSpec == QueueInit /\ [][QueueNext]_schedulerVars

\* The timer fires, requests settle, work ends, instants come, and the thread goes on.
QueueFairSpec ==
    /\ QueueSpec
    /\ WF_schedulerVars(Timer) /\ WF_schedulerVars(Turn) /\ WF_schedulerVars(ListAnswered \/ ListFailed)
    /\ \A t \in Tasks : WF_schedulerVars(InstantComes(t))
    /\ \A t \in Official :
           /\ WF_schedulerVars(DispatchAccepted(t) \/ DispatchFailed(t))
           /\ WF_schedulerVars(SessionEnds(t))
    /\ \A t \in Tasks \ Official : SF_schedulerVars(ChildExits(t))

--------------------------------------------------------------------------------
(* Properties                                                                   *)

Working(t) == sess[t] \in {"asked", "live"} \/ t \in kid

\* A slot belongs to an active entry of the queue, there are no more of them than the
\* machine has, and work goes on only in a slot. The exceptions are named: a start that
\* threw leaves an entry RUNNING beside the slots, and work the code could not stop is
\* loose (scheduler.js, running and removeFromActiveQueue).
WorkHasASlot ==
    /\ running \subseteq Active /\ Cardinality(running) <= Slots
    /\ \A t \in Active \ running : threw /\ t \notin Official
    /\ \A t \in Tasks : Working(t) => t \in running \cup loose

\* A task reaches one outcome, is announced once, whatever callbacks arrive after it, and
\* neither the queue nor its file holds it any more: it cannot come back with a restart
\* (terminate(), "an already terminal task is never re-finalized").
OneOutcome(t) == told[t] > 0 => told[t] = 1 /\ t \notin listed /\ disk[t] = "none"

\* Nor is one lost: it is in the queue file or in the history, unless the user removed it or
\* the launch of another threw in a walk that had paused it (saveQueue and the history sink).
NotLost(t) == st[t] = "absent" \/ t \in dropped \cup hist \/ disk[t] # "none" \/ threw

\* Whenever the process may die, every task that was added is either still on file or has
\* ended, once.
OneFate == \A t \in Tasks : OneOutcome(t) /\ (Settled => NotLost(t))

\* A task that may run at any hour and whose instant has come leaves the queue, unless a
\* health decision has held the queue or entries whose launch threw fill the slots
\* (tick(), effectiveConcurrency()).
Jammed == {t \in running : st[t] = "DISPATCHING" /\ sess[t] = "none"}
QueueMoves ==
    \A t \in Anytime :
        (app = "up" /\ t \in Queued)
            ~> (app # "up" \/ t \notin Queued \/ factor = "none" \/ Cardinality(Jammed) >= Capacity)

\* What the admission says of a hold, "until it clears": when the health decision admits
\* again, the queue asks it again (work-admission.cjs, scheduler.js).
HoldIsLifted ==
    (app = "up" /\ factor = "none" /\ health = "NO_ACTION")
        ~> (app # "up" \/ factor # "none" \/ health # "NO_ACTION" \/ Queued \cap due \cap Anytime = {})

\* What the exit says, "stop scheduler": once stop() has been called nothing is started.
StopStartsNothing == [][app = "closing" => running' \subseteq running]_schedulerVars

================================================================================
