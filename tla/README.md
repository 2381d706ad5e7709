# A verification project for DS-Hns

DS-Hns (DS-Harness) is an Electron application that hosts agents and tools: a
desktop shell, an in-process plugin host with a few dozen plugins, a sub-worker
pool, an engineering runtime that works on a repository in "episodes", a Runtime
host process, and a *restart authority* that brings the application back when it
hangs, crashes or has to be restarted on purpose.

This directory holds TLA+ models of the parts of it that are hard to test: where
several processes agree through files, where a function is suspended while the
world moves, and where a long sequence of legal calls has to keep a promise. They
are checked by TLC on small instances, and the most important statements about
them are proved by TLAPS for every value of their parameters. Every definition
cites the lines it translates in `PROJECT.json` under `map`.

Paths below are relative to `src/`.

## 1. The system and what is hard about it

### The restart authority (`app/plugins/restart-supervisor/`)

Two processes: the **plugin** inside the application (`index.cjs`), and the
**companion** (`companion.cjs`, `companion/main.cjs`), a detached process that the
application spawns at boot and that outlives it. Both build the same budget and the
same lifecycle. They cannot call each other - one of them may be hung - so they
share a state directory.

| Part | State | Operations | Hard because |
| --- | --- | --- | --- |
| Budget (`budget.cjs`, `policy.cjs`) | capped history of attempts, streak of failures, last restart, safe mode, pending request; in memory | evaluate, accept, record, refreshLadder, cancelPending, reset | a run is admitted by one state of the window and charged to a later one; resets and refusals write the same history |
| Lifecycle (`lifecycle.cjs`) | the one restart in flight | run, cancel; its injected hooks (continuity, stop, launch, gates) | about fifteen awaits, each with a failure path that has to clear the same flags; cancel and reset come in between |
| Lock (`companion.cjs` 73-141) | `restart.lock`: pid, instant, ttl | claim, release, heldByOther | read-then-write between processes; expiry under a live owner; reused pids |
| Companion (`companion.cjs`, `companion/main.cjs`) | pid watched, attached or launcher, `companion.pid` | claim, attach, watch, launch, stop, release | crash, hang, quit and reopen of the application at any point of a pass |
| Handover (`index.cjs` 419-592, `desktop-main.cjs`) | `companion.stop`, `app.stop-request.json` | ensureCompanion, stopCompanion, the exits of the shell | whether an exit is wanted is only known if it was written down first |
| Delegation (`index.cjs` 270-330, 470) | `restart.request.json`, a second budget in the plugin | delegateToCompanion, pendingRequest, clearRequest | written under the lock that makes the companion defer it |
| Heartbeat (`heartbeat.cjs`) | four signals and two clocks | observe, seen, report | thresholds: wait, recover gently, or force |
| Status (`status.cjs`, `contract.cjs`) | `restart_status.json` | begin, phase, complete, refuse, adopt | two writers, reconciled by comparing `updatedAt` |

### Work across a restart (`app/core/task-continuity.cjs`, `app/reboot/`)

| Part | State | Operations | Hard because |
| --- | --- | --- | --- |
| Task continuity | `resume-intent.json`, resume history | park, pendingWork, verify, resume | the process that parks is not the one that resumes; what was asked to stop may not have stopped |
| Targets (`reboot/targets.cjs`) | none of its own: the sub-worker manager's and the engineering host's | status, suspend, resume | one target only *asks* for a pause, the other waits for it |
| Reboot plans and coordinator (`reboot/plan.cjs`, `store.cjs`, `coordinator.cjs`, `platform.cjs`) | `reboot-plans.json`, `reboot-resume.json`, the login entry and the restart the system has accepted | add, update, remove, cancel; a pass (park, execute) every five seconds; the resumption after boot | passes overlap while they wait for a park; a crash, an edit or the machine's own restart falls between any two steps |

### Delegated work (`app/sub-worker/`)

| Part | State | Operations | Hard because |
| --- | --- | --- | --- |
| Pool (`pool.cjs`) | slots: a child process, its task, whether its end is expected | spawn, assign, restart, retire, stop | callbacks are bound to the id a process was spawned with, a slot to the id it is filed under |
| Task graphs (`dag.cjs`, `scheduler.cjs`) | each node's status, worker and attempts; the duplicates of speculative nodes | ready, selectDispatch, start, retry, complete, block | silences, deaths, failures and crashes of the shell feed one attempt counter |
| File claims (`ownership.cjs`) | the owner of each file | acquire, release | a claim is released by whatever ends a task, and by what only looked like its end |
| Manager (`manager.cjs`) | plans, `state.json`, the supervisor's mode | tick, start, stop, pause, takeOver, cancelTask, the callbacks | tick() walks lists it made before it acted; stop() and takeOver() wait in the middle |
| Worker (`runtime.cjs`) | one task at a time | run, cancel, pause, report | it may die, fall silent, or wedge in a workspace it could not make |

### Episodes (`app/engineering/`, `app/engineering-host.cjs`)

| Part | State | Operations | Hard because |
| --- | --- | --- | --- |
| Checkpoints (`checkpoint.cjs`) | one file per sequence number | save, latest | the shell may die between a checkpoint and the index entry that names it |
| Recovery store (`recovery-store.cjs`) | `recovery-index.json`, one claim file per episode, `.reclaim` files | reconcileIndex, recordCheckpoint, beginRecoveryAttempt, claim, release, blockEpisode | read-modify-write of one index by several shells; a claim is taken over by renaming it away |
| Workspace lock (`locking.cjs`) | `workspace.lock` | acquire, heartbeat, release | it outlives the shell that took it |
| Host and supervisor (`engineering-host.cjs`, `supervisor.cjs`) | the one episode a shell runs | resume, startExecution, run, terminal cleanup | a dozen exits, each of which has to settle the claim, the lock and the entry |

### The Runtime (`app/runtime/`, `app/runtime-process.cjs`)

| Part | State | Operations | Hard because |
| --- | --- | --- | --- |
| Host (`host.cjs`, `runtime.cjs`) | the endpoint (a named pipe or a socket file), its services | serve, listen, harness.start, harness.stop, shutdown | the single-instance guard is a probe and a bind, and a start awaits a probe, a recovery and a port |
| Harness service (`harness-service.cjs`) | `child`, `childPid` | start, stop, the child's exit | one pair of variables for every child it ever had |
| Ownership record (`runtime-process.cjs`) | `dsh-process.json` | writeOwnership, clearOwnership, recoverOwnedStale | the next host knows an orphan by it, and by nothing else |
| Client (`client.cjs`, `instance.cjs`) | its socket, a reconnect timer, the port on record | resolveInstance, attach, connectOnce, onLost, detach | it must come back by itself, and start at most one host |

### The Mega task queue (`app/extensions/mega/scheduler/`, `app/core/work-admission.cjs`)

| Part | State | Operations | Hard because |
| --- | --- | --- | --- |
| Scheduler (`scheduler.js`, `lifecycle.js`) | the queue and its file, the worker slots (`running`), `tickInFlight`, `tickPending`, the history layer | add, edit, cancel, clear, remove, tick, terminate, start, stop | `tick()` waits for `session/list` and for each dispatch while callbacks, orders and timers change the queue it walks; the queue file is saved by some paths and not by others |
| Price gate (`gate.js`) | none | decideTask | a task is judged by the peak the tick read before its awaits |
| Admission (`work-admission.cjs`) | the last decision | admit | the scheduler keeps the answer and decides by it later |
| Work (`dsh-runner.js`, the official client) | a child process, or a session of the Harness | start, kill, dispatch, cancel, list | outlives the entry it belongs to |

### The rest

| Part | State and operations | Interacts by | What should hold |
| --- | --- | --- | --- |
| Health scheduler (`plugins/health-scheduler`) | samples, sustained pressure, the request it last made | the `restart-control` capability | a restart is asked for once per episode of pressure |
| Plugin manager, adapters, event bus, capabilities, resources (`core/plugin-manager`, `core/plugin-adapters`, `core/event-bus`, `core/capability-registry`, `core/resource-manager`) | per-plugin state, faults, leases, subscriptions | calls and events | an unloaded plugin holds no capability, resource or subscription; one faulty plugin does not take the host down |
| Installation and lockfile (`core/plugin-install`, `core/lockfile`) | staged directories, install records | the file system | an interrupted installation is either whole or rolled back |
| Plans of an episode (`engineering/plan.cjs`, `verifier.cjs`, `mutation.cjs`, `git.cjs`) | steps, evidence, worktrees | git and the file system | a step that is accepted has been verified |
| Computer use, mega surface, acceleration, frontend mode | drivers, panels, caches | the operating system, the network | data and I/O; see `PROJECT.json` |
| Desktop shell (`desktop-main.cjs`, `plugin-host.cjs`, `startup.cjs`) | windows, children, the exits | everything above | what its exits tell the companion |

`PROJECT.json` lists every component with its files and status, and under `hazards`
each hazard at its line with the properties that would catch it, or the reason why
none does yet.

## 2. Plan

In order of how much depends on each part and how hard it is to test:

1. **Done.** Budget, lifecycle and the rate limit they implement
   (`RestartBudget`, `RestartLifecycle`, `RestartPromise`); the lock
   (`RestartLock`); the companion and its handover (`RestartHandover`); work across a
   restart (`TaskContinuity`); restarts of the machine (`RebootCoordinator`).
2. **Done.** The sub-worker's pool, task graphs and file claims (`SubWorker`); the
   recovery of an episode (`EpisodeRecovery`); the Runtime hosts and their clients
   (`RuntimeHost`); the Mega task queue (`MegaScheduler`).
3. **Done.** Proofs: the type invariant of every module, and every safety and action
   property that a run shows to hold.
4. **Open.** The budgets of the plugin and of the companion composed with the request
   file, for what an accepted request promises; the plugin manager with its capabilities
   and resources.

## 3. The modules

Every module is one component: constants with a named assumption, a type invariant, `Init`,
one action per operation or per turn of the event loop, `Next`, `Spec`, and at its end the
properties. Modules that a run shows side by side name these apart (`LockInit`, `RebootNext`). `Horizon`, `MaxResets`, `MaxCrashes`, `MaxApps`, `MaxComps`, `MaxStarts`,
`MaxVersions`, `MaxLives`, `MaxSpawns`, `MaxUpsets`, `Lives`, `MaxSeq`, `MaxHosts`,
`MaxKids`, `MaxOpens`, `MaxFaults`, `Passes`, `Kinds` and `TaskContinuity`'s
`MaxRestarts` are bounds of the models and not of the code. Variables marked *auxiliary*
are read by properties only. An operator named `Slip...` stands before the definition it
distorts: it is that definition with a plausible bug, used to confirm that a property
notices; no specification refers to it.

### RestartBudget, RestartLifecycle

`RestartBudget` is `createRestartBudget`: its operators are what `evaluate` computes
(`MayRestart`, a conjunct for each refusal) and its actions are `accept`, `record`
with the `refreshLadder` that follows it in the same turn, `cancelPending` and
`reset`. An entry of the history keeps its instant, its outcome and whether it
counted.

`RestartLifecycle` EXTENDS it with `run()`. `stage` names the await `run()` is
suspended in; each action is one turn: `Request`, `ContinuityNotified`,
`ContinuityRefuses`, `BoundaryPoll`, `BoundaryBusy`, `BeginStop`, `BoundaryTimesOut`,
`Aborted`, the two stops and their failures, `Launches`, `LaunchFails`, the gates in
order with their attempts and shared deadline, `Recovered`. Beside them `Cancel`,
`ResetBudget` and `Tick` may happen between any two turns. The wait between two gate
probes and between two boundary polls is the `Tick`s between them.

### RestartPromise

The abstract specification: an application that is told to stop, one restart at a
time, at most `MaxRestarts` times in a rolling window. It has no stages and no
history. `RestartLifecycle` implements it under the refinement mapping `executing <-
stage \in AfterStop`, with the same clock and the same list of stops. The
implementation is not obvious: the code counts *outcomes*, at the instant at which they are
recorded, and admits a run long before it stops anything.

### RestartLock

`restart.lock` and the processes that claim it. Reading and writing are separate
steps; a process may die at any step; a dead pid may be handed out again to another
process, which then makes the stale claim look alive. `lock.age` is `now() - at`,
which is all the code looks at.

### RestartHandover

Application and companion processes and the four files between them. `pc[c]` is
where a companion is: claiming (read, write, clear), attaching, between two passes
(`polling`), inside a pass, stopping, launching, waiting for readiness, leaving.
`life` is the application's. A person opens it, closes the last window (`Quit`, the
only exit that leaves a stop file) or uses the tray (`TrayExit`); it may crash or
hang; it may be asked to leave by `app.stop-request.json` (`ObeyStopRequest`).
Companions may die. What the companion decides with the heartbeat is reduced to
`Healthy`, and the budget's refusal to `LookAway`. `Delegate` is the plugin's
`requestRestart()`: it leaves `restart.request.json` (`asked`), which the next pass
serves before anything it sees itself, whether the application is healthy or not;
the file goes when the restart it caused returns (`Outcome`), is refused or expires.

### TaskContinuity

`park`, the boundary, the stop, and `resume`, over the two targets the shell builds:
the sub-worker, whose pause is only a request and whose status is "the pool is
alive", and the engineering episode, whose suspension is awaited. Work starts,
finishes and is cut short on its own. `intent` is `resume-intent.json`. `verify()`
is one answer, yes or no.

### RebootCoordinator

A restart of the machine that a person schedules, over the plans on disk and the
system's own state: the entry that starts the application at the next login
(`armed`) and the restart that was accepted (`shutdown`). The actors are the passes of
the ticker, which may overlap, the resumption after boot (`"boot"`) and a
cancellation. `pc` says what an actor does or which await it is suspended in. The
event loop is the guard `Quiet`: a pass goes from one await to the next without anybody
else of the application running, but the process and the machine may go down between any
two of its steps. Each step of `execute()` is an action, in the code's order:
`WriteIntent`, `Arm`, `Shutdown`, `Mark`, with the refusals `ArmFails` and
`ShutdownFails`.

`plan` holds every version of every plan, because a pass keeps the object it took
from the list while an edit puts another one in its place; `listed` says which of them are
on the list, and `Marked` finds a plan by its id, as the store does. Whether a plan is
due is a question of the wall clock, so a pass may find it due or not. `Parks` is
the set of targets whose adapter has a `park()`.

### SubWorker

The supervisor is one thread, so a handler is one step, with two exceptions the code
makes itself: `stop()` and `takeOver()` wait in the middle, and are two steps each.
`tick()` is cut where it walks a list it made earlier - the verdicts of the health
check, the nodes chosen for dispatch, the duplicates - because dispatching one node may
change what the list says of the next; `phase` is the place it has reached and `todo`,
`queue` and `room` are its locals. Worker processes (`child`) take their steps beside it
while it rests: they finish, wedge, die, or answer late. A process is named by the id it
was spawned with, a slot by the id the pool files it under, so that a callback may name
a process the slot no longer holds. `Crash` is the death of the shell; it comes back
with what `state.json` restores.

### EpisodeRecovery

One episode and the shells that may run it, in the order of their lives or, with
`overlap`, up to three together (the single-instance lock of `desktop-main.cjs:415` is
per profile, and profiles may share a directory). Every access to the disk is a step.
The entry of the index is read, changed in memory and replaced whole by `Save`, so an
update of another shell in between is lost. `top` is the newest checkpoint; `claim` and
`reclaim` are the files that decide who executes; `lock` is `workspace.lock`. `pc[h]`
follows `resume()` from its two reconciliations over the claim to `run()`, and `run()`
to one of its ends. A shell may die at any label.

### RuntimeHost

Hosts, Harnesses and clients are processes. A host goes from `check` (is there another?)
to `bind`, `up`, `draining` and `gone`; `bound` are the hosts a connection may reach,
which is one at most for a socket file, since binding removes the file of whoever was
there before. `call[h]` holds up to two calls of `harness.start` that are in flight in a
host, each at the await it has reached. `host[h].child` and `.pid` are the two variables
of the Harness service, `owned` the child on record (its parent is the host that spawned
it), `saved` the port on record. A client resolves the instance, probes, starts a host
or not, waits, connects, is attached, and retries by its timer.

### MegaScheduler

The queue, its slots and its file, and what works for it: child processes (`kid`) and
sessions of the Harness (`sess`). `tick` is where `tick()` is and what it holds: the tasks
it has asked `session/list` about, the rest of the snapshot it walks, the peak it read, and
`again`, the tick that was asked for meanwhile. From one await to the next nothing else of
the shell runs (`Settled`); at the two awaits every order, callback and timer may. `Leave`,
`Announce` and `TickAfter` are the three parts of `terminate()`, in its order: the entry
leaves the queue, its slot and the file, it is recorded and told, and a tick is asked for.
A launch may throw (`threw`), which ends the walk and skips its save. `Interrupted` is what
the code can stop: the session whose id it was told and the child it holds; work it cannot
stop is `loose`. `Stop` asks for ticks too, and the process may go before or after them
(`Exit`). `Start` reads the file: active entries are ended, queued ones kept. A retry is a
new entry under a new id in the code and the same task in the model.

### Instances and proofs

`MCRestartLifecycle`, `MCRestartLock`, `MCRebootCoordinator`, `MCSubWorker` and
`MCMegaScheduler` give names to the sets the configurations need. `MCContinuity` shows
`TaskContinuity` or `EpisodeRecovery`, `MCHandover` shows `RestartHandover` or `RuntimeHost`,
`MCProgress` shows `RestartLifecycle` or `RestartLock`, and `MCDelegatedWork` shows
`SubWorker` or `RebootCoordinator`: the
initial value of `subject` says which of the two a behaviour is about (and, for `SubWorker`,
in which of two instances), and the other one's variables stay as they are, so that one
run checks two small systems that do not meet. `RestartSupervisorProofs` (of
`RestartLifecycle`, the rate limit it implements, and `RestartLock`),
`RestartHandoverProofs`, `RebootCoordinatorProofs`, `TaskContinuityProofs`,
`SubWorkerProofs`, `EpisodeRecoveryProofs`, `RuntimeHostProofs` and `MegaSchedulerProofs`
hold the theorems.

## 4. The runs

| Run | Question | Answer |
| --- | --- | --- |
| `lifecycle` | Do the window, the backoff and the ladder hold whatever interleaves with a run, and does the lifecycle implement the rate limit? | `WindowBound`, `BudgetIsSettled`, `StopIsEarned`, `KeepsPromise` hold |
| `lifecycle_cancel` | Does a cancellation before the stop prevent it? | No |
| `progress` | Does every accepted run end, and every restart that was begun come to an outcome? What does it take for two executors, and is a claim left behind taken over? | `RunEnds`, `KeepsPromiseFairly` hold; `ExecutorOwnsFile`, `LockIsTakenOver` hold: two executors take overlapping claims or an outlived ttl, and nothing else does it |
| `lock_race` | Is there at most one executor when nobody dies and nothing expires? | No |
| `continuity` | Does parked work survive? Does one shell at a time run an episode, and from the right checkpoint? | `ParkedIsRecorded`, `RestartEnds`, `EpisodeComesBack` hold; `OneExecutor`, `LoneShellIsCurrent`, `LifecycleOrder` hold |
| `continuity_complete` | Is what is reported complete complete? | No |
| `handover` | Is there one watcher, is a quit honoured, does a companion stand down? Is a Harness ever lost, does a client come back? | `CleanMeansOneWatcher`, `QuietQuitHolds`, `StandsDown` hold; `RuntimeSafe`, `LiveOwnerIsSpared`, `ClientReturns` hold |
| `delegated_work` | What holds of nodes, files and workers whatever fails, stops, takes over or crashes? With targets that can be parked: does a restart of the machine wait for its task, carry it, and leave nothing behind? | `SamePlanDisjoint`, `AttemptsBounded`, `DependenciesDone`, `BusyMeansWorking`, `CompletedIsFinal`, `StopHolds` hold; `NeverOverATask`, `CleanTaskIsCarried`, `NothingIsLeft` hold |
| `scheduler` | Is a queued task ever lost, ended twice or run beside the slots, and does the queue move? | `WorkHasASlot`, `OneFate`, `QueueMoves` hold |
| `scheduler_hold` | Does a hold on new work end with the pressure that caused it? | No |
| `handover_tray` | Is every intentional exit told from a crash? | No |
| `reboot_unparked` | Does it wait for its task with the targets the shell builds? | No |

### What the properties say

* `WindowBound`: the window never holds more counted attempts than `maxRestarts`,
  and *while a run is in flight there is room left to charge it*. The second half
  is what makes admission-then-charge sound.
* `BudgetIsSettled`: a streak at the threshold always finds safe mode in force, whatever
  order resets, refusals and outcomes came in (`LoopIsCaught`), and a pending request has
  a run that will clear it, since an orphan would make `evaluate()` refuse every later
  restart (`NoOrphanPending`).
* `StopIsEarned`: at the moment of the stop, not of the admission, the backoff has
  passed and safe mode is not in force.
* `ExecutorOwnsFile`: whoever executes owns the file, so that there is one executor
  (`CleanMeansOne`, a theorem), unless two claims overlapped or a restart outlived its
  claim. The premise names exactly the
  two holes; crashes, reused pids, releases and takeovers are no others.
* `LockIsTakenOver`: a claim left behind never blocks restarts for ever.
* `CleanMeansOneWatcher`: one companion watches, unless one claim was written over
  another that was being made.
* `QuietQuitHolds`: a quit that finds every companion between two passes is final.
  A quit inside a claim or a restart is not (below).
* `StandsDown`: a companion that is asked to stand down leaves.
* `ParkedIsRecorded`: what is parked is listed by the intent, when `park()` said the
  intent was written.
* `EpisodeComesBack`: a parked episode runs again after its restart, also when the
  restart was aborted at the boundary, or the reason is on record.
* `NeverOverATask`: a restart is asked of the system only when its task is at a point
  where it can be stopped, also when the answer to the park arrives late and another
  pass or an edit came in between.
* `CleanTaskIsCarried`: a restart that is pending for a plan with a task finds the intent
  and the entry in place, wherever a crash, an edit, a removal, a cancellation or a
  refusal falls. It is claimed while `clean`: no second plan was executed and no intent
  resumed while the restart was pending. The two exceptions are real (below).
* `NothingIsLeft`: a plan shown as executing has a restart pending, or is being
  cancelled (`ExecutingIsPending`), and an idle application with no restart pending has no
  intent on disk (`NoIntentIsLeft`).

* `SamePlanDisjoint`: two running nodes of one plan have no file in common, duplicates and
  retries included. It is about nodes; about processes it fails (below).
* `AttemptsBounded`: a node is dispatched `max_attempts` times at most, a speculative
  one once more in every life of the shell.
* `DependenciesDone`: a node that runs or has completed has only completed dependencies, or
  ones a takeover took back.
* `BusyMeansWorking`: a busy slot whose own process is alive never waits for nothing.
* `CompletedIsFinal`: only a takeover that captured a node while it ran gives it
  another end once it has completed.
* `StopHolds`: from `stop()` to the next `start()` no worker process is added, although a
  tick that began before may still hold verdicts.
* `OneExecutor`: whoever resumes or runs an episode owns the claim on disk, so there
  is one at most, whichever shells started, died or looked beside it. And whoever plans
  or executes holds the workspace lock while `lockWorkspace` is on: a new episode has no
  claim before its first checkpoint, so until then only the lock keeps a second shell out.
* `LoneShellIsCurrent`: a shell that is alone resumes from the newest checkpoint and
  never an episode whose work had ended, wherever its predecessor died; and the
  index never makes it refuse or block what it could run. Its recoveries that write no
  checkpoint are bounded, whatever ends them.
* `LifecycleOrder`: a terminal entry keeps its state, a blocked one never becomes active.
* `RuntimeSafe`: one host serves the instance, and a Harness that nobody told to stop is
  on record, unless two hosts were bound together, two starts overlapped, or a start
  did not wait for a stopped Harness to end. The three premises are the holes, and each is
  needed: without `alone` or `orderly` TLC finds a Harness that no record names.
* `LiveOwnerIsSpared`: a Harness is told to end by its own host, or when that is gone.
* `ClientReturns`: an open client comes back as soon as a host stays reachable.
* `WorkHasASlot`: a slot belongs to an active entry, there are no more than the machine
  has, an active entry has one, and a child or a session works only in a slot. The
  exceptions are named: a headless start that threw, and work nothing could stop.
* `OneFate`: a task reaches one outcome and is announced once, whichever of an exit, a
  session's end, a cancellation, a removal, a stall, a failed dispatch, a stop or a restart
  of the shell comes second; then neither the queue nor its file holds it. Until then it is
  on file whenever the shell may die.
* `QueueMoves`: a task that may run now leaves the queue, unless a decision held it
  or failed launches fill the slots.

### What the violations show

* **A cancellation that changes nothing.** `cancel()` answers `ok` with phase
  `before-stop`; `run()` never looks at the request again, and stops the application.
  `lifecycle.cjs:371` says that before the stop it prevents the restart.
* **Two executors.** The claim reads the lock and later writes it without exclusive
  creation. Two supervisors that read before either writes both execute.
  `companion.cjs:74` and `docs/restart-supervisor.md:154` promise one executor.
* **Paused work reported complete.** The sub-worker's suspend always answers
  `pending`, so it is recorded in the intent but not as parked, and `resume()` takes
  everything that is not parked for finished (`task-continuity.cjs:350`).
* **An exit that is undone.** The tray's exits set `shuttingDown` before
  `before-quit` runs, which then returns at once and writes no stop file; the
  companion launches the application again (`desktop-main.cjs:1443-1447` says why
  the file is needed).
* **A restart that does not wait.** `parkFor()` takes a target without `park()` for
  parked, and the targets the shell builds have `suspend()` instead. A due plan
  restarts the machine in the middle of a stage, against the coordinator's first rule
  (`coordinator.cjs:7`). The run `delegated_work` shows that the rule holds once `park()` exists.

* **A hold that never lifts.** `admit()` answers a pause with a concurrency factor of
  zero, the scheduler keeps it, and from then on every walk ends at the slot test before it
  reaches the line that asks again (`scheduler.js:868` and `874`). One decision to pause
  holds the queue until the shell is started again; `work-admission.cjs:80` says "until it
  clears".

### What the models also exhibit

These are behaviours of the code that no document of the repository rules out, or
that belong to a planned module; each is a hazard in `PROJECT.json`.

* A reset leaves the counted entries in the window, so the budget may be exhausted
  right after it.
* Refusals (`counted: false`) grow the streak: safe mode without a restart.
* The history cap counts uncounted entries, so enough refusals evict counted ones.
* An intent kept for repair is overwritten by the next `park()`.
* Work that starts after the last boundary poll is cut by the stop.
* An intent that cannot be written does not stop the restart.
* A quit while a companion claims or restarts is undone.
* A launcher whose kill fails launches a second process beside the first; the shell's
  single instance lock makes it leave.
* An application reopened while its companion is leaving may end up unwatched.
* A request that arrives while another is served is cleared with it.
* Two plans that are due at once share one intent, one entry and one restart: the
  refusal of the second takes the first one's intent and entry away, and a second
  plan's intent replaces the first one's.
* `resumeOnStartup` acts after an await on what is there by then: it may remove the
  intent of a restart that was accepted meanwhile, and completes its plan.
* A plan that failed stays on the list and is due at the next pass.
* A plan whose application goes down between the accepted restart and `EXECUTING` is
  due again after the boot.
* The park timeout starts anew at every pass that finds the plan waiting.

In `SubWorker`; two of them are stated at the end of the module as formulas that TLC
refutes:

* `ResultIsItsOwn`: a result is matched to whatever node its worker runs by then
  (`manager.cjs:811-813`), so a node may be completed by the late answer of another task.
* `OneWriter`: one worker's unexpected exit abandons every running node and releases
  every claim while the other workers go on, and a retry is given files that are still
  being written (`manager.cjs:1213-1214` says that cannot be).
* `restart()` files a new process under the old id while its callbacks carry the new one
  (`pool.cjs:330`), so its slot stays busy. A respawn that is throttled leaves the
  claims taken.
* `takeOver()` gives nodes that finished while it waited another end, and leaves those
  dispatched meanwhile running without a worker.
* A `CRASHED` message blocks the node before the exit could retry it. A paused, idle or
  wedged worker answers "blocked", which is not retried; a worker whose workspace failed
  keeps its task flag set.
* `hydrate()` restores running nodes that nobody runs, and a plan whose graph reads
  failed is not saved.
* Two speculative nodes may be given the same idle worker; the refusal releases all
  its claims. A duplicate whose workspace fails blocks the primary's node. A stale entry of
  the speculation table may cancel a task that has nothing to do with it.
* A round starts nodes on half of the idle workers, rounded up, for each plan;
  `max_attempts` of one half is none.

In `EpisodeRecovery`, whose `LockIsFreed` and `RunnerIsActive` TLC refutes:

* With `lockWorkspace` on and `stealStaleLock` off, which are the defaults, the lock
  left by a shell that died, or by a run that was cancelled or blocked, makes every
  recovery be refused and the episode be blocked (`supervisor.cjs:828-839`,
  `engineering-host.cjs:491`), although `supervisor.cjs:1157-1158` says that every path
  gives it back. The tests switch it off.
* A live lock may be stolen after thirty minutes, as nobody calls `heartbeat()`
  (`locking.cjs:128-129` says it is never), and two that steal both write.
* A shell that dies between creating a claim and writing it, or holding `.reclaim`,
  leaves a file that refuses every later recovery. Where the owner's life cannot be
  probed, which is everywhere but on Windows, a stale claim is never taken over.
* The attempts are reset by the checkpoint that an accepted recovery writes first, so a
  crash after it may repeat for ever.
* With shells beside each other: an update of the index may undo another's; a shell may
  resume a checkpoint its dead predecessor had gone beyond; a newcomer may block the
  episode of a live owner, or, once its claim is released, of another shell; a terminal
  cleanup writes checkpoints without a claim; and a blocked episode whose cleanup is
  repeated becomes completed, which the design's list of transitions does not have.

In `RuntimeHost`:

* Two clients that probe at once start two hosts, although `client.cjs:332-334` and
  `desktop-main.cjs:692-698` say the order of probing and starting prevents it, and
  both may bind: on POSIX because `listen()` removes the path first, which makes the bind no
  guard (`host.cjs:708` says it is one), on Windows if `runtime.cjs:128` is right about
  pipe names. An old host that closes then takes the newer one's path away.
* The exit handler of a child names none: a start before the stopped Harness has ended
  loses the new one, which is then neither stopped nor reclaimable.
* Recovery clears the record 300 ms after it read it, whosever it is by then.
* A `harness.stop` during a `harness.start` does not prevent the spawn.
* A stop and a start at once find the own, still ending Harness and report a stranger's.
* A full stop leaves the orphan of an earlier host running if this host never started one.
* A reconnect starts no host, so a client whose host was killed waits for somebody else
  to start one.

In `MegaScheduler`; `StopStartsNothing` at its end is refuted by TLC:

* `stop()` interrupts the active tasks, each of which asks for a tick, and the tick launches
  queued tasks into the slots just freed while the process leaves (`scheduler.js:291-295`,
  `631`). The next start finds them active on file and ends them as interrupted.
* A task cancelled while its dispatch is in flight has no session id yet, so its session is
  not cancelled and runs for nobody; the answer then sets the status of an object that
  has left the queue. A dispatch that times out may leave a session nobody owns.
* When autonomy ends a stalled task for good, its child goes on (`scheduler.js:1051` calls
  `finish`, which kills nothing). `start()` ends what was active and stops neither children
  nor sessions.
* A headless start that throws leaves the entry `RUNNING` with no child and outside
  the slots; an official one leaves it `DISPATCHING` in a slot for good. Both end the walk and
  skip its save, with the retries of tasks that were paused for the peak in the same tick.

Found while reading, in code the models leave out:

* The companion never adopts the status record the plugin began (`companion.cjs:449`,
  though `status.cjs:289-295` says it does); `refuse()` does not refresh from disk and
  overwrites a record in flight, which a later `phase()` turns from refused into
  completed; `cancelPendingRestart` completes the record of a restart the companion still
  executes; two writes within a millisecond tie; an expired request leaves its record
  requested. Nothing is decided by this record.
* The heartbeat keeps two clocks, one of the process and one of its signals, and three
  thresholds; an answer just inside one and outside another decides between waiting and
  force.
* A request that is deferred because the plugin still holds the lock is cleared
  unexecuted (`companion.cjs:592-596`), and the plugin's budget does not see delegated
  restarts.
* A client's request times out after 30 s (`client.cjs:369`), while `harness.start` may
  await readiness for 120 s.
* A `detach()` during a start or a handshake does not prevent the host or the attachment.
* A host's own record is cleared without looking whose it is (`host.cjs:687`).

### Bounds, and why they are enough

| Run | Instance | Why |
| --- | --- | --- |
| `lifecycle` | two restarts in a window of three ticks, cooldown and backoff of one to two, safe mode at three failures, one reset, four ticks, one probe per gate | the window fills, empties by age and is charged across its edge; the backoff reaches its cap; safe mode is above the budget as shipped, so it needs refusals or a window that moved; the reset falls into every stage. `MaxEntries` is large enough that the cap evicts nothing: the rate limit does not hold otherwise (above), and the theorems about the window hold for every cap |
| `progress`, lifecycle | as `lifecycle`, on a window of two ticks and three ticks in all | liveness needs one boundary timeout and one readiness timeout |
| gates | a required one with a probe, an optional one with a probe, three without | one of each kind `waitForGate` distinguishes |
| `progress`, lock | the plugin and two companions, two deaths, a ttl of two ticks | a claim, a claim over its stale file, and a third that meets both; no symmetry is used, since the run checks liveness |
| `lock_race` | two processes, no death, a ttl of thirty ticks | the smallest race, with expiry out of the way |
| `handover` | three applications, two companions, any of which may die | the one that quits, the one reopened and the one launched beside it; a leaving companion and its successor |
| `handover`, Runtime | one client opened twice, three hosts, three Harnesses and two faults (a killed host or Harness, a stop, a shutdown, a probe that times out); or two clients, two hosts, two Harnesses and one fault | a Harness that outlives its host is found by the next host, and by the one after; two clients are what races. Two clients with two faults (0.7 million states more) pass as well |
| `continuity` | two restarts, work started three times | an intent meets the next restart; each target runs in each restart |
| `continuity`, episodes | four shells one after another, five checkpoints and two attempts; or three, two checkpoints, that may live together, without the workspace lock | a crash of a crash's successor, twice; a claim, its takeover and a third that meets both |
| `delegated_work`, nodes | three nodes of one plan, two that write one file and a third that waits for the first; two workers, two lives of the shell, two attempts, the first node speculative; two upsets (orders, faults, silences) without duplicates of nodes, or duplicates and one upset | a conflict, a dependency and a duplicate; a retry on the other worker; a crash in between. 0.7 million states; duplicates and two upsets together (1.8 million) pass as well, a third worker or upset is too large. The safety properties of `SubWorker` and `RebootCoordinator` that are listed below are proved for every value of these bounds |
| `delegated_work`, reboot | two versions (two plans, or one and its edit), two passes, which overlap in the first of two starts, a worker plan and one without a task | two passes are what overlaps, each may hold a plan the other has marked, edited or removed; the second start is the one that resumes. Passes are symmetric. An instance with worker and episode plans together is too large (over eight million states); with `"episode"` for `"worker"` the same configuration passes too, and so does one with `Parks = {}` without `NeverOverATask` |
| `reboot_unparked` | one plan, one pass, one start, no target with a `park()` | the shipped adapters |
| `scheduler` | a headless task that may run at any hour and an official one that may not, one slot, two attempts, two upsets (an edit, a cancellation, a removal, a request or launch that fails, a lost session), two lives of the shell | the two tasks compete for the slot, each by its own path of launch and end; a second upset meets the wake of the first; a task is carried over a crash. 0.7 million states. The decision that halves the slots makes no difference with one slot and is left out |
| `scheduler_hold` | one task, no upsets, one life | the hold needs nothing else |

Deadlock is checked in `lock_race` only; in the other models the system may really
stop: the clock reaches its horizon, every node has ended, or nobody opens the
application, a shell or a client again.

### Fairness, and why the code justifies it

* `RestartLifecycle`: `WF(Run)` - every injected hook answers. The code gives them no
  deadline of its own (this is a hazard); the hooks the product installs are bounded
  by their own timeouts. `WF(Tick)` - time passes.
* `RestartLock`: `WF` of each process's next step, `WF(Ages)` - time passes.
* `RestartHandover`: `WF` of what a live application and each live companion do
  next: their steps are timers, file operations and waits with a timeout.
* `TaskContinuity`: `WF(Hooks)` and `WF(Settle)` - a cancelled episode reaches a
  checkpoint or its end.

* `RuntimeHost`: `WF` of what each client does next: its probes and waits have timeouts,
  its reconnect a timer. No host has to start, and none has to live.

* `MegaScheduler`: `WF` of the timer (`setInterval`), of the steps of a turn, of the
  answers of the two requests, which have timeouts, of a session's end and of an instant
  that comes; `SF` of a child's exit, which no number of suspended turns holds back.

`RebootCoordinator`, `SubWorker` and `EpisodeRecovery` state no fairness: their
properties are safety properties. An instance that shows a restart of the machine come
about is too large to check; a plan need not end and an episode need not be
recovered, by the behaviours listed above.

Nothing is assumed of persons, crashes, hangs, reused pids, workers or new work.

## 5. What is proved

All by TLAPS, for every value of the constants that satisfies the named assumptions
(naturals for durations and counts, a positive `MaxRestarts` and `SafeModeAt`, any
gate sets; any set of supervisors that does not contain the string `"none"`; any set
of passes without `"boot"` and `"cancel"`, and any set of targets that can be parked;
any plans whose nodes depend on nodes of their own plan and write at least one
file, and a positive `max_attempts`; any number of shells, and a positive
`maxAttempts`; any number of hosts, Harnesses, clients and faults; any tasks, and a
positive number of slots and attempts).

* `RestartSupervisorProofs`, the lifecycle: `TypeCorrect`, `NoOrphans`, `LoopsAreCaught`,
  `BudgetIsKept` (both together), `WindowHolds`, `StopsAreEarned`. `WindowBound` is not inductive as it stands: that
  the window has room when a run begins has to survive every stage of the run, while
  the clock moves and a reset appends to a capped history. The lemmas say what the
  operations do to the set of counted entries in the window: `Push` adds at most the
  new one (and the cap can only remove), a later instant can only remove, and an
  uncounted entry adds none. `StopsAreEarned` needs that between admission and stop
  nothing makes the wait longer: only a `Record` sets `lastRestartAt` or grows the
  streak, and a `Record` ends the run. `PromiseIsKept` is the refinement: while the
  history has room (`HistoryHasRoom`), the lifecycle implements `RestartPromise`. The
  code never counts stops, it counts outcomes; the invariant (`StopsAreCharged`) gives
  every stop whose restart has ended an entry of its own that is no older, so that the
  stops of a window inject into its counted entries and `WindowBound` bounds them too.
  `StopsAreFew` is what that is for: the abstract rate limit alone bounds the stops of
  every trailing window (`PromiseHolds`), so the lifecycle's stops are bounded too.
* `RestartSupervisorProofs`, the lock: `OneAtATime`, `LockTypeCorrect`, `ExecutorsOwn`. The inductive
  invariant adds to `CleanMeansOne` that every executor is alive and owns the file with
  an unexpired claim (`ExecutorOwnsFile`) and that every process between its read and
  its write over a changed file is `stirred`; two executors would own one file.
* `RestartHandoverProofs`: `OneSupervisor`. The inductive invariant adds that a
  companion that holds the pid file or is past its claim is the one on file, and
  that nobody else is between its read and its write while it is. `TypeCorrect` and
  `QuitStays`, an action property: once a quit was quiet, the stop file is on disk until a
  person opens the application, and no companion is anywhere it could launch from
  (`QuitIsNoted`).
* `RebootCoordinatorProofs`, first half: `TaskIsCarried`. The inductive invariant adds
  that one pass runs at a time (`OnePassRuns`) and what a pass on its way to the restart
  has left behind (`OnCourse`): the intent is its own when it arms the entry, and both
  are there when it asks for the restart. The lemmas follow the kinds of step: a pass
  that moves to a place not about to restart (`PassMove`), `execute()` itself, what
  happens while every pass waits (`QuietMove`), and going down or coming up
  (`LifeSteps`). It holds for the shipped targets as well: `Parks` is any set.
* `RebootCoordinatorProofs`, second half: `TypeCorrect`, which needs that whatever an
  actor is at names a version that was made (`Named`) and that what is at rest is listed
  once; `ExecutingMeansPending` from `MarkInv` (a mark follows an acceptance, one
  restart is accepted at a time); `NoIntentStays` from `IntentIsHeld` (an intent has an
  actor, a pending restart or a start that will read it), and `NothingStays`, both
  together; and `TaskIsSafe`, under the
  assumption that every target can be parked, from `Ready`: from the look at the task to
  the request no other actor runs.
* `TaskContinuityProofs`: `TypeCorrect` and `ParkedStaysRecorded`, from an invariant
  that says at which phases the intent on disk is the one the last `park()` wrote
  (`IntentIsParks`).
* `SubWorkerProofs`: `TypeCorrect`, `PlansDisjoint`, `RetriesBounded`, `DependenciesFirst`,
  `CompletedStays`, `StopIsKept`, `BusyIsAnswered`. The inductive invariant adds
  `LoopOK`: what a suspended tick holds in its lists is still true, because every other
  handler waits for it and each of its own steps keeps the rest of the list as it was.
  Most handlers only end nodes or queue them again (`Settles`), and for those one lemma
  carries all the invariants; what is left is the dispatch, the takeover and the
  crash. `BusyIsAnswered` has an invariant of its own (`BusyInv`).
* `EpisodeRecoveryProofs`, shells beside each other: `TypeCorrect`, `OneExecutes` and
  `LiveClaimIsLeftAlone`. The inductive
  invariant adds `PlaceOK`, where a shell's detours lead back to, and `ClaimOK`: a claim
  is by a shell that was launched, whoever fills it in or relies on it is its owner,
  whoever replaces a claim holds `.reclaim`, and at the rename the owner is dead. Taking
  a claim over is four steps (probe, `.reclaim`, read again, rename away), and the
  second read, under `.reclaim`, is what the argument rests on. The lock needs
  `WorkspaceOK`: it is held by whoever works in the workspace, whoever is on a detour that
  leads there, and whoever claims for a new episode, whose `run()` locked first.
* `EpisodeRecoveryProofs`, shells one after another: `LoneShellResumes` and
  `EpisodeEndsOnce`, from `LoneInv`. Neither is inductive: an update of the index reads an
  entry and writes it back later, and the shell may die in between. So the invariant speaks
  of the entry twice, as it is on disk and as it is once what the shell remembers was
  written (`Latest`), and asks of both that they agree with the newest checkpoint or are
  behind it (`Sound`), and of the second that it may follow the first (`Follows`). `Knows`
  says what a shell relies on at each place, and `Holds` where it may still be named by
  the claim, so that an owner it finds in its way is another one. Bounded recoveries
  come out of `Sound`: the attempts on disk cover the recoveries that were validated since
  the newest checkpoint, because each is counted before it is validated.
* `RuntimeHostProofs`: `RuntimeIsSafe` and `LiveOwnersSpared`. The invariant adds to the
  types what is named and by whom (`Known`), that one host serves (`OneServes`), that with
  one start at a time a host has one Harness at most and none while it starts one
  (`OneStart`), and that it is on record, or the start's look at the record left nothing
  to lose (`OnRecord`). `LiveOwnersSpared` needs no more than `Known`: a host that lives
  answers when it is asked.
* `MegaSchedulerProofs`: `QueueTypeCorrect`, `SlotsHold`, `FateIsOne`, from one invariant
  (`QueueInvariant`). It adds what holds at the awaits of a tick (`AwaitsAreKnown`: what
  `session/list` or the dispatch was asked for is in the queue, or has ended and left it),
  that the queue holds the tasks that have not ended and the file no other
  (`QueueIsOpen`), and when the file may be behind (`FileIsBehind`). An outcome is
  announced once because whatever is ended is still listed, and what is listed has not
  been announced; nothing is lost because the file is behind only inside a walk, where
  the process does not die. The events that end entries (cancel, clear, remove, exit of a
  child, stop) share one lemma (`EndingStep`), those that end none another (`QuietStep`).

## 6. What is only model-checked, and what is not modelled

* Liveness under fairness (`RunEnds`, `KeepsPromiseFairly`, `LockIsTakenOver`,
  `RestartEnds`, `EpisodeComesBack`, `StandsDown`, `ClientReturns`, `QueueMoves`) is out of
  the prover's reach.
* `KeepsPromise` is checked on an instance in which the history cap never evicts a
  counted entry, and proved with the hypothesis that the history has room: refusals are
  entries too, so `MaxEntries` of them make the budget forget the restarts before them.
* `LoneShellIsCurrent` and `LifecycleOrder` say nothing of shells beside each other: with
  `overlap` an entry can be blocked under its runner (the hazard at engineering-host.cjs:431).
* In `RebootCoordinator` the intent and the entry are taken back in one step; the code
  takes one after the other, and a crash in between leaves an entry that nothing
  removes. A plan with a target always asks to resume it, as `createPlan` defaults to.
  A worker's or an episode's progress is an oracle (`Work`).
* In `RestartHandover` a restart has three visible effects (stop, launch, wait) and
  an oracle for the rest. The request file's age is not kept: any pass may find it
  expired or refused.
* In `SubWorker` a worker acts only while the supervisor rests, and what is written to
  its stdin arrives at once. `stop()` and `takeOver()` do not overlap, the shell crashes
  between two handlers with `state.json` current, and its workers die with it. The
  capability a slot must have, priorities and the safety valve's `stop_task` are left
  out; a failure whose code is final is "blocked". Choosing nodes and dispatching them
  interleave node by node, which the code does plan by plan.
* In `EpisodeRecovery` `save()` finds its sequence number and renames the file in one
  step; the owner an index entry names is left out, and with it what a release writes
  back (a choice); whether a checkpoint is well formed and whether its evidence verifies
  are choices. Stealing and the lock's heartbeat are not modelled, nor storage errors,
  nor the steps of the plan.
* In `RuntimeHost` a turn of a host is atomic, so a host is not killed between the spawn
  and the record. On Windows a kill is immediate, elsewhere a Harness that was told to
  stop takes its time. Pids are not reused. The host's own record is left out, which
  only a status line reads; so are the readiness wait, a spawn that fails, and the
  host's other services. A client that is detached has gone. A shutdown needs no client,
  since a signal asks for it too.
* In `MegaScheduler` the order of the queue is a choice, the number of slots a constant (the
  probe of the hardware may change it, and lower it under running tasks), and the stall
  detector's and the price schedule's verdicts are choices. The shell dies between two of
  its turns, not inside one. That a session missing from the list is given sixty seconds
  is not kept. Errors of the history and queue files, which the code reports and goes on
  from, are left out, and so is an `officialClient` that is missing.
* The other parts of the application are not modelled: `PROJECT.json` gives the reason
  for each. They are mostly one process and one caller (plugin manager, registries,
  installation), user interface and network (mega surface, frontend mode), or the
  operating system (computer use).
* Two companions' budgets are separate in the code too: each lives in its process's
  memory. `RestartLifecycle` is one process's life.
* Configuration values are taken to be naturals; `policy.cjs` normalises
  them, but `history.maxEntries` below zero would spin in `capHistory`.
* File writes are atomic, as `writeJsonAtomic` makes them; where the code writes
  plainly, a torn read is a read that finds nothing, which is what `readJson` makes
  of it.
* Wording, journals, traces and panels are left out: no property depends on them.
