------------------------------- MODULE SubWorker -------------------------------
(* The sub-worker supervisor (src/app/sub-worker): the pool of worker processes  *)
(* (pool.cjs), the task graphs (dag.cjs), the dispatch scheduler (scheduler.cjs), *)
(* the registry of file claims (ownership.cjs) and the manager that drives them   *)
(* (manager.cjs), with the worker's side of the pipe (runtime.cjs).               *)
(*                                                                              *)
(* The supervisor is one thread: a handler runs to its end before the next event. *)
(* tick() is cut into the steps of its loop, and "phase" is the place it has      *)
(* reached; every event waits for phase = "rest".                                *)
(* A worker process is named by the id it was spawned with, because its callbacks *)
(* are bound to that id; a slot is named by the id the pool files it under.       *)
EXTENDS Integers, FiniteSets, FiniteSetsExt

CONSTANTS N,            \* nodes of all plans, numbered in the order of the plans
          Plan,         \* the plan of a node
          Deps,         \* the nodes a node depends on
          Scope,        \* the files a node may write
          Files,
          Speculative,  \* nodes the controller marked speculative
          MaxAttempts,  \* max_attempts of every node
          MaxWorkers,   \* the pool's ceiling
          MaxSpawns,    \* bound: worker processes of one life of the shell
          MaxLives,     \* bound: crashes of the shell
          MaxUpsets     \* bound: orders of the user, faults and silences of workers, crashes

ASSUME SubWorkerAssumption ==
    /\ N \in Nat /\ Plan \in [1..N -> Nat]
    /\ Deps \in [1..N -> SUBSET (1..N)]
    /\ \A n \in 1..N : \A d \in Deps[n] : Plan[d] = Plan[n] /\ d # n
    /\ Scope \in [1..N -> (SUBSET Files) \ {{}}]
    /\ Speculative \subseteq 1..N
    /\ MaxAttempts \in Nat \ {0} /\ MaxWorkers \in Nat
    /\ MaxSpawns \in Nat /\ MaxLives \in Nat /\ MaxUpsets \in Nat

Nodes == 1..N
Plans == {Plan[n] : n \in Nodes}
Ids == 1..MaxSpawns

VARIABLES status,    \* node.status
          worker,    \* node.worker_id, 0 is null
          attempts,  \* node.attempts
          result,    \* whose task the recorded result answers, 0 none, HandedOver
          plans,     \* the state of each plan
          slot,      \* pool.slots: child 0 is "no slot"
          child,     \* the worker processes
          spawned,   \* worker ids handed out
          owner,     \* FileOwnershipRegistry.owners
          dup,       \* dispatchScheduler.speculation: the duplicate of a node
          mode,      \* the supervisor's state, as far as a handler reads it
          flags,     \* intentionalStop, pool.stopping, the tick timer, stop() waiting
          handing,   \* takeOver() waiting, and the nodes it captured
          phase, todo, queue, room, \* where tick() is and its locals
          lives,     \* crashes of the shell
          upsets     \* what has gone against the plan so far

nodeVars == <<status, worker, attempts, result>>
poolVars == <<slot, child, spawned>>
tickVars == <<phase, todo, queue, room>>
vars == <<nodeVars, plans, poolVars, owner, dup, mode, flags, handing, tickVars, lives, upsets>>

HandedOver == -1
User == -1
Ended == {"completed", "failed", "blocked", "cancelled"}
Lost == {"failed", "blocked", "cancelled"}
NoSlot == [child |-> 0, task |-> 0, expected |-> FALSE]
NoOut == [node |-> 0, status |-> "none"]
Unborn == [run |-> "none", task |-> 0, mode |-> "ready", cancel |-> 0, out |-> NoOut]

\* Every variable keeps its type.
TypeOK ==
    /\ status \in [Nodes -> {"absent", "pending", "running"} \cup Ended]
    /\ worker \in [Nodes -> 0..MaxSpawns]
    /\ attempts \in [Nodes -> Nat]
    /\ result \in [Nodes -> HandedOver..N]
    /\ plans \in [Plans -> {"absent", "active", "completed", "failed", "lost"}]
    /\ slot \in [Ids -> [child : 0..MaxSpawns, task : 0..N, expected : BOOLEAN]]
    /\ child \in [Ids -> [run : {"none", "alive", "quitting", "dead", "gone"},
                          task : 0..N,
                          mode : {"ready", "paused", "handoff", "wedged"},
                          cancel : User..N,
                          out : [node : 0..N, status : {"none", "crash"} \cup Ended]]]
    /\ spawned \in 0..MaxSpawns
    /\ owner \in [Files -> 0..MaxSpawns]
    /\ dup \in [Nodes -> 0..MaxSpawns]
    /\ mode \in {"off", "on", "stopping", "handoff"}
    /\ flags \in [intentional : BOOLEAN, latched : BOOLEAN, ticking : BOOLEAN, stopping : BOOLEAN]
    /\ handing \in [on : BOOLEAN, nodes : SUBSET Nodes]
    /\ phase \in {"rest", "tick", "health", "dispatch", "pick", "duplicate", "stop"}
    /\ todo \in SUBSET (Nodes \cup Ids)
    /\ queue \in SUBSET Plans
    /\ room \in Nat
    /\ lives \in 0..MaxLives
    /\ upsets \in 0..MaxUpsets

Init ==
    /\ status = [n \in Nodes |-> "absent"]
    /\ worker = [n \in Nodes |-> 0]
    /\ attempts = [n \in Nodes |-> 0]
    /\ result = [n \in Nodes |-> 0]
    /\ plans = [p \in Plans |-> "absent"]
    /\ slot = [w \in Ids |-> NoSlot]
    /\ child = [w \in Ids |-> Unborn]
    /\ spawned = 0
    /\ owner = [f \in Files |-> 0]
    /\ dup = [n \in Nodes |-> 0]
    /\ mode = "off"
    /\ flags = [intentional |-> FALSE, latched |-> FALSE, ticking |-> FALSE, stopping |-> FALSE]
    /\ handing = [on |-> FALSE, nodes |-> {}]
    /\ phase = "rest" /\ todo = {} /\ queue = {} /\ room = 0
    /\ lives = 0 /\ upsets = 0

\* An order of the user or a fault; the model stops making them at MaxUpsets.
Upset(k) == upsets + k <= MaxUpsets /\ upsets' = upsets + k

-------------------------------------------------------------------------------
(* What a handler reads.                                                        *)

Slots == {w \in Ids : slot[w].child # 0}
\* slot.alive: Node sets exitCode when it emits "exit", so a process is alive to the
\* supervisor until that event.
Alive(w) == w \in Slots /\ child[slot[w].child].run \in {"alive", "quitting", "dead"}
Workers == {w \in Ids : Alive(w)}
Idle == {w \in Workers : slot[w].task = 0}
Running == {n \in Nodes : status[n] = "running"}
Active == {p \in Plans : plans[p] = "active"}

\* Mutant of NodeOf: any node that names the worker, its end or not.
SlipNodeOf(w) == LET held == {n \in Nodes : worker[n] = w}
                 IN IF held = {} THEN 0 ELSE Min(held)

\* nodeForWorker: the first running node that names the worker; 0 when there is none.
NodeOf(w) == LET held == {n \in Running : worker[n] = w}
             IN IF held = {} THEN 0 ELSE Min(held)

\* Mutant of Runnable: a dependency that has ended, however it did.
SlipRunnable(p) == {n \in Nodes : /\ Plan[n] = p
                                  /\ status[n] = "pending"
                                  /\ \A d \in Deps[n] : status[d] \in Ended}

Runnable(p) == {n \in Nodes : /\ Plan[n] = p
                              /\ status[n] = "pending"
                              /\ \A d \in Deps[n] : status[d] = "completed"}

\* blockedByDependency, one level: the pending nodes of s a dependency of which is lost.
Doomed(s, p) == {n \in Nodes : /\ Plan[n] = p
                               /\ s[n] = "pending"
                               /\ \E d \in Deps[n] : s[d] \in Lost}

Blocking(s, lost) == [n \in Nodes |-> IF n \in lost THEN "blocked" ELSE s[n]]

\* registry.release
Released(own, gone) == [f \in Files |-> IF own[f] \in gone THEN 0 ELSE own[f]]

\* registry.claim: the files of the scope nobody else owns
Claimed(n, w) == [f \in Files |-> IF f \in Scope[n] /\ owner[f] \in {0, w} THEN w ELSE owner[f]]

\* Mutant of Conflict: the registry alone is asked.
SlipConflict(n) == \E f \in Scope[n] : owner[f] \notin {0, Min(Idle)}

\* filterConflicts: the running nodes of the plan, then the registry, which is asked on
\* behalf of the first idle worker
Conflict(n) ==
    \/ \E m \in Running : Plan[m] = Plan[n] /\ Scope[m] \cap Scope[n] # {}
    \/ \E f \in Scope[n] : owner[f] \notin {0, Min(Idle)}

\* Mutant of Retryable: off by one.
SlipRetryable(n, outcome) == outcome = "failed" /\ attempts[n] <= MaxAttempts

Retryable(n, outcome) == outcome = "failed" /\ attempts[n] < MaxAttempts

-------------------------------------------------------------------------------
(* The worker processes: what a message to them does, and what they do.          *)

Processes(ws) == {slot[w].child : w \in ws \cap Slots}

\* killTree
Killed(ps) == [c \in Ids |-> IF c \in ps /\ child[c].run \in {"alive", "quitting"}
                             THEN [child[c] EXCEPT !.run = "dead", !.task = 0, !.mode = "ready", !.cancel = 0]
                             ELSE child[c]]

\* stop_task: a worker without a task only logs it
Cancelled(ws, who) == [c \in Ids |-> IF c \in Processes(ws) /\ child[c].task # 0
                                     THEN [child[c] EXCEPT !.cancel = who]
                                     ELSE child[c]]

\* assign_task: a worker that is paused, handed over or already holds a task answers
\* "blocked"; one that is leaving never reads it.
Accepting(c) == child[c].task = 0 /\ child[c].mode = "ready"

\* Mutant of Handed: a worker that does not accept the task says nothing.
SlipHanded(c, n) ==
    IF child[c].run = "alive" /\ Accepting(c)
    THEN [child EXCEPT ![c].task = n, ![c].cancel = 0] ELSE child

Handed(c, n) ==
    IF child[c].run # "alive" THEN child
    ELSE IF Accepting(c) THEN [child EXCEPT ![c].task = n, ![c].cancel = 0]
    ELSE [child EXCEPT ![c].out = [node |-> n, status |-> "blocked"]]

\* The task runner ends, and its result goes into the pipe.
Finish(c) ==
    /\ child[c].run \in {"alive", "quitting"} /\ child[c].task # 0
    /\ \E s \in {"completed", "failed", "blocked"} \cup
                (IF child[c].cancel # 0 \/ child[c].run = "quitting" THEN {"cancelled"} ELSE {}) :
         /\ Upset(IF s = "completed" \/ child[c].cancel # 0 THEN 0 ELSE 1)
         /\ child' = [child EXCEPT ![c].task = 0, ![c].cancel = 0,
                                ![c].mode = "ready",
                                ![c].out = [node |-> child[c].task, status |-> s]]
    /\ UNCHANGED <<nodeVars, plans, slot, spawned, owner, dup, mode, flags, handing, tickVars, lives>>

\* The workspace of the task cannot be made: the early return answers "blocked" and
\* leaves taskInFlight set, so the process accepts no task again.
Wedge(c) ==
    /\ Upset(1)
    /\ child[c].run = "alive" /\ child[c].task # 0 /\ child[c].mode = "ready"
    /\ child' = [child EXCEPT ![c].task = 0, ![c].mode = "wedged",
                              ![c].out = [node |-> child[c].task, status |-> "blocked"]]
    /\ UNCHANGED <<nodeVars, plans, slot, spawned, owner, dup, mode, flags, handing, tickVars, lives>>

\* The process dies: killed by the system, at the end of a shutdown, or of an uncaught
\* exception, which first reports a crash.
Die(c) ==
    /\ Upset(IF child[c].run = "quitting" THEN 0 ELSE 1)
    /\ child[c].run \in {"alive", "quitting"}
    /\ \E said \in {child[c].out} \cup
                   (IF child[c].out = NoOut THEN {[node |-> 0, status |-> "crash"]} ELSE {}) :
         child' = [child EXCEPT ![c] = [Unborn EXCEPT !.run = "dead", !.out = said]]
    /\ UNCHANGED <<nodeVars, plans, slot, spawned, owner, dup, mode, flags, handing, tickVars, lives>>

-------------------------------------------------------------------------------
(* Ends of nodes.                                                               *)

\* finishNode: a recoverable failure goes back to the queue, any other loss blocks the
\* nodes that depend on it directly.
Finished(n, outcome) ==
    IF Retryable(n, outcome) THEN [status EXCEPT ![n] = "pending"]
    ELSE LET s == [status EXCEPT ![n] = outcome]
         IN IF outcome = "completed" THEN s ELSE Blocking(s, Doomed(s, Plan[n]))
FinishNode(n, w, outcome, answers) ==
    /\ status' = Finished(n, outcome)
    /\ worker' = [worker EXCEPT ![n] = IF Retryable(n, outcome) THEN 0
                                       ELSE IF status[n] = "running" THEN w ELSE @]
    /\ result' = [result EXCEPT ![n] = answers]

\* abandonRunningNodes, over the statuses st: whatever still runs is blocked, and the
\* claims of every worker are released.
Abandoned(st) == [n \in Nodes |-> IF st[n] = "running" THEN "blocked" ELSE st[n]]

-------------------------------------------------------------------------------
(* pool.spawn, start and the user's orders.                                      *)

CanSpawn == ~flags.latched /\ Cardinality(Slots) < MaxWorkers /\ spawned < MaxSpawns

\* A new process under its own id.
SpawnOne ==
    /\ spawned' = spawned + 1
    /\ child' = [child EXCEPT ![spawned + 1].run = "alive"]
    /\ slot' = [slot EXCEPT ![spawned + 1] = [child |-> spawned + 1, task |-> 0, expected |-> FALSE]]

\* start(): it has no await, so the tick it ends with runs in the same handler. A pool
\* that cannot spawn leaves the supervisor FAILED, without a timer.
Starting ==
    LET room1 == Cardinality(Slots) < MaxWorkers /\ spawned < MaxSpawns
    IN /\ flags' = [flags EXCEPT !.intentional = FALSE, !.latched = FALSE,
                                 !.ticking = @ \/ room1]
       /\ mode' = "on"
       /\ IF room1 THEN SpawnOne /\ phase' = "tick"
                   ELSE UNCHANGED poolVars /\ phase' = "rest"

Start ==
    /\ phase = "rest" /\ Workers = {}
    /\ Starting
    /\ UNCHANGED <<nodeVars, plans, owner, dup, handing, todo, queue, room, lives, upsets>>

\* submitPlan of the next plan; its tick() may be swallowed by the 250 ms throttle.
Submit(p) ==
    /\ phase = "rest" /\ plans[p] = "absent"
    /\ \A q \in Plans : q < p => plans[q] # "absent"
    /\ plans' = [plans EXCEPT ![p] = "active"]
    /\ status' = [n \in Nodes |-> IF Plan[n] = p THEN "pending" ELSE status[n]]
    /\ phase' \in {"rest", "tick"}
    /\ UNCHANGED <<worker, attempts, result, poolVars, owner, dup, mode, flags, handing,
                   todo, queue, room, lives, upsets>>

\* cancelTask
CancelTask ==
    /\ Upset(1)
    /\ phase = "rest" /\ Workers # {} /\ Running # {}
    /\ child' = Cancelled({worker[n] : n \in Running}, User)
    /\ UNCHANGED <<nodeVars, plans, slot, spawned, owner, dup, mode, flags, handing, tickVars, lives>>

\* pause and resume are broadcast; a worker that has no task parks at once
Pause ==
    /\ Upset(1)
    /\ phase = "rest" /\ Workers # {}
    /\ child' = [c \in Ids |-> IF c \in Processes(Workers) /\ child[c].mode = "ready"
                               THEN [child[c] EXCEPT !.mode = "paused"] ELSE child[c]]
    /\ UNCHANGED <<nodeVars, plans, slot, spawned, owner, dup, mode, flags, handing, tickVars, lives>>

Resume ==
    /\ Upset(1)
    /\ phase = "rest" /\ Workers # {}
    /\ child' = [c \in Ids |-> IF c \in Processes(Workers) /\ child[c].mode \in {"paused", "handoff"}
                               THEN [child[c] EXCEPT !.mode = "ready"] ELSE child[c]]
    /\ UNCHANGED <<nodeVars, plans, slot, spawned, owner, dup, mode, flags, handing, tickVars, lives>>

-------------------------------------------------------------------------------
(* stop, takeOver and a crash of the shell.                                      *)

\* killAll({expected: true}) and finalizeStop: every slot is deleted before its process
\* is killed, so no exit reaches the manager; nodes that still run are cancelled.
Finalize ==
    /\ slot' = [w \in Ids |-> NoSlot]
    /\ child' = Killed(Processes(Ids))
    /\ status' = [n \in Nodes |-> IF status[n] = "running" THEN "cancelled" ELSE status[n]]
    /\ result' = [n \in Nodes |-> IF status[n] = "running" THEN 0 ELSE result[n]]
    /\ flags' = [intentional |-> TRUE, latched |-> TRUE, ticking |-> FALSE, stopping |-> FALSE]
    /\ mode' = "off"

Stop ==
    /\ Upset(1)
    /\ phase = "rest" /\ ~flags.stopping /\ ~handing.on
    /\ IF Workers = {} THEN Finalize /\ UNCHANGED owner
       ELSE /\ flags' = [intentional |-> TRUE, latched |-> TRUE, ticking |-> FALSE, stopping |-> TRUE]
            /\ mode' = "stopping"
            /\ status' = Abandoned(status)
            /\ result' = [n \in Nodes |-> IF status[n] = "running" THEN 0 ELSE result[n]]
            /\ owner' = Released(owner, Slots)
            /\ child' = [c \in Ids |-> IF c \in Processes(Workers) /\ child[c].run = "alive"
                                       THEN [child[c] EXCEPT !.run = "quitting"] ELSE child[c]]
            /\ UNCHANGED slot
    /\ UNCHANGED <<worker, attempts, plans, spawned, dup, handing, tickVars, lives>>

\* stop() resumes: the pool has drained (phase "stop"), or waitForExit timed out.
StopEnds ==
    /\ flags.stopping /\ phase \in {"rest", "stop"}
    /\ Finalize
    /\ phase' = "rest"
    /\ UNCHANGED <<worker, attempts, plans, spawned, owner, dup, handing, todo, queue, room, lives, upsets>>

\* takeOver() captures the running nodes and, when workers run, tells them and waits
\* 150 ms; then the nodes it captured are blocked, whatever became of them.
HandOver(captured) ==
    /\ status' = Blocking(status, captured)
    /\ result' = [n \in Nodes |-> IF n \in captured THEN HandedOver ELSE result[n]]
    /\ slot' = [w \in Ids |-> NoSlot]
    /\ child' = Killed(Processes(Ids))
    /\ flags' = [flags EXCEPT !.intentional = TRUE, !.latched = TRUE, !.ticking = FALSE]
    /\ mode' = "handoff"
    /\ handing' = [on |-> FALSE, nodes |-> {}]

TakeOver ==
    /\ Upset(1)
    /\ phase = "rest" /\ ~flags.stopping /\ ~handing.on
    /\ IF Workers = {} THEN HandOver(Running)
       ELSE /\ handing' = [on |-> TRUE, nodes |-> Running]
            /\ child' = [c \in Ids |-> IF c \in Processes(Workers) /\ child[c].mode # "wedged"
                                       THEN [child[c] EXCEPT !.mode = "handoff"] ELSE child[c]]
            /\ UNCHANGED <<status, result, slot, flags, mode>>
    /\ UNCHANGED <<worker, attempts, plans, spawned, owner, dup, tickVars, lives>>

TakeOverEnds ==
    /\ handing.on /\ phase = "rest"
    /\ HandOver(handing.nodes)
    /\ UNCHANGED <<worker, attempts, plans, spawned, owner, dup, tickVars, lives, upsets>>

ClearHandoff ==
    /\ phase = "rest" /\ mode = "handoff"
    /\ mode' = "off"
    /\ UNCHANGED <<nodeVars, plans, poolVars, owner, dup, flags, handing, tickVars, lives, upsets>>

\* The shell dies and is started again: hydrate() restores the plans state.json held and
\* the claims; a plan whose graph read "failed" was not saved. The workers see their
\* stdin close and exit; ids are handed out from sub-1 again.
Dropped(p) ==
    LET of == {n \in Nodes : Plan[n] = p}
    IN \/ \A n \in of : status[n] \in Ended
       \/ /\ of \cap Running = {}
          /\ \E n \in of : status[n] \in {"failed", "blocked"}
Crash ==
    /\ Upset(1)
    /\ phase = "rest" /\ lives < MaxLives
    /\ lives' = lives + 1
    /\ plans' = [p \in Plans |-> IF plans[p] = "active" /\ Dropped(p) THEN "lost" ELSE plans[p]]
    /\ slot' = [w \in Ids |-> NoSlot]
    /\ child' = [w \in Ids |-> Unborn]
    /\ spawned' = 0
    /\ dup' = [n \in Nodes |-> 0]
    /\ mode' = IF mode = "stopping" THEN "off" ELSE mode
    /\ flags' = [intentional |-> FALSE, latched |-> FALSE, ticking |-> FALSE, stopping |-> FALSE]
    /\ handing' = [on |-> FALSE, nodes |-> {}]
    /\ UNCHANGED <<nodeVars, owner, tickVars>>

-------------------------------------------------------------------------------
(* Callbacks of the pool.                                                       *)

\* handleCrash of a worker, once finishNode has left the statuses st and the registry own:
\* every running node of every plan is abandoned and every slot in ws loses its claims.
Crashed(st, own, ws) ==
    /\ status' = Abandoned(st)
    /\ owner' = Released(own, ws)
    /\ mode' = "on"

\* pool.handleExit, bound to the id the process was spawned with: whatever slot is filed
\* under that id is deleted, and the manager is told.
ExitReported(c) ==
    /\ phase = "rest" /\ child[c].run = "dead"
    /\ child' = [child EXCEPT ![c] = [Unborn EXCEPT !.run = "gone"]]
    /\ IF slot[c].child = 0 THEN UNCHANGED <<nodeVars, slot, owner, mode, phase>>
       ELSE
         LET n == NodeOf(c)
             st == IF n = 0 THEN status ELSE Finished(n, "failed")
             expected == \/ slot[c].expected \/ flags.latched \/ flags.intentional
                         \/ (n = 0 /\ mode \in {"stopping", "off", "handoff"})
             own == Released(owner, {c})
         IN /\ slot' = [slot EXCEPT ![c] = NoSlot]
            /\ worker' = IF n # 0 /\ Retryable(n, "failed") THEN [worker EXCEPT ![n] = 0] ELSE worker
            /\ result' = [m \in Nodes |-> IF m = n \/ (~expected /\ st[m] = "running") THEN 0
                                          ELSE result[m]]
            /\ IF expected
               THEN /\ status' = st /\ owner' = own
                    /\ mode' = IF n = 0 /\ mode = "handoff" THEN mode
                               ELSE IF flags.intentional \/ (n = 0 /\ mode = "stopping") THEN "off"
                               ELSE "on"
               ELSE Crashed(st, own, Slots \ {c})
            /\ phase' = IF flags.stopping /\ Workers \ {c} = {} THEN "stop" ELSE "rest"
            /\ UNCHANGED attempts
    /\ UNCHANGED <<plans, spawned, dup, flags, handing, todo, queue, room, lives, upsets>>

\* consume -> handleResult: the node is looked up by the worker, not by the result.
ResultReported(c) ==
    /\ phase = "rest" /\ child[c].out.status \in Ended
    /\ slot' = IF slot[c].child = 0 THEN slot ELSE [slot EXCEPT ![c].task = 0]
    /\ owner' = IF slot[c].child = 0 THEN owner ELSE Released(owner, {c})
    /\ LET n == IF slot[c].child = 0 THEN 0 ELSE NodeOf(c)
           outcome == child[c].out.status
           won == n # 0 /\ dup[n] # 0 /\ outcome = "completed"
           read == [child EXCEPT ![c].out = NoOut]
       IN /\ child' = [k \in Ids |-> IF won /\ dup[n] # c /\ k = slot[dup[n]].child /\ child[k].task # 0
                                     THEN [read[k] EXCEPT !.cancel = n] ELSE read[k]]
          /\ dup' = IF won THEN [dup EXCEPT ![n] = 0] ELSE dup
          /\ IF n = 0 THEN UNCHANGED <<status, worker, result, mode, phase>>
             ELSE FinishNode(n, c, outcome, child[c].out.node) /\ mode' = "on" /\ phase' = "tick"
    /\ UNCHANGED <<attempts, plans, spawned, flags, handing, todo, queue, room, lives, upsets>>

\* consume -> an error message with the code CRASHED.
CrashReported(c) ==
    /\ phase = "rest" /\ child[c].out.status = "crash"
    /\ child' = [child EXCEPT ![c].out = NoOut]
    /\ IF slot[c].child = 0 THEN UNCHANGED <<status, result, owner, mode>>
       ELSE /\ Crashed(status, owner, Slots)
            /\ result' = [n \in Nodes |-> IF status[n] = "running" THEN 0 ELSE result[n]]
    /\ UNCHANGED <<worker, attempts, plans, slot, spawned, dup, flags, handing, tickVars, lives, upsets>>

-------------------------------------------------------------------------------
(* tick(): scale, health, dispatch, completion.                                  *)

\* The interval timer fires, when the 250 ms throttle does not swallow it, or a handler
\* ends with a tick of its own.
Ticking == phase = "tick" \/ (phase = "rest" /\ flags.ticking)

\* A tick during a teardown does nothing.
TickRefused ==
    /\ phase = "tick" /\ (flags.latched \/ flags.intentional)
    /\ phase' = "rest"
    /\ UNCHANGED <<nodeVars, plans, poolVars, owner, dup, mode, flags, handing,
                   todo, queue, room, lives, upsets>>

\* A supervisor without workers recovers its pool; the nested tick is the one that
\* start() ends with.
TickRecovers ==
    /\ Ticking /\ ~flags.latched /\ ~flags.intentional
    /\ Workers = {}
    /\ mode = "on" \/ Active # {}
    /\ Starting
    /\ UNCHANGED <<nodeVars, plans, owner, dup, handing, todo, queue, room, lives, upsets>>

\* ensureSize, one step: spawn, unless the throttle refuses, or retire an idle worker.
\* retire() deletes the slot before it kills the process.
Retire(w) ==
    /\ slot' = [slot EXCEPT ![w] = NoSlot]
    /\ child' = Killed({slot[w].child})
    /\ UNCHANGED spawned
EnsureSize ==
    \/ UNCHANGED poolVars
    \/ CanSpawn /\ SpawnOne
    \/ Cardinality(Slots) > 0 /\ \E w \in Idle : Retire(w)

\* Mutant of Tick: a tick is not refused while the supervisor stops.
SlipTick ==
    /\ Ticking
    /\ Workers # {} \/ Active = {}
    /\ IF Workers = {} THEN UNCHANGED poolVars ELSE EnsureSize
    /\ \E silent \in SUBSET {w \in Ids : slot'[w].child = w} :
         /\ Upset(Cardinality(silent))
         /\ todo' = silent \cup {w \in Ids : slot'[w].child # 0 /\ child'[slot'[w].child].run = "gone"}
    /\ queue' \in {Active, {}}
    /\ phase' = IF todo' = {} THEN "dispatch" ELSE "health"
    /\ UNCHANGED <<nodeVars, plans, owner, dup, mode, flags, handing, room, lives>>

\* The verdicts are taken on the pool scaling left. A process is heard when its slot has
\* the id it was spawned with; one that was filed under another id is judged by its exit.
Tick ==
    /\ Ticking /\ ~flags.latched /\ ~flags.intentional
    /\ Workers # {} \/ Active = {}
    /\ IF Workers = {} THEN UNCHANGED poolVars ELSE EnsureSize
    /\ \E silent \in SUBSET {w \in Ids : slot'[w].child = w} :
         /\ Upset(Cardinality(silent))
         /\ todo' = silent \cup {w \in Ids : slot'[w].child # 0 /\ child'[slot'[w].child].run = "gone"}
    /\ queue' \in {Active, {}}   \* nothing is dispatched under CRITICAL, SAFE_MODE, THROTTLED
    /\ phase' = IF todo' = {} THEN "dispatch" ELSE "health"
    /\ UNCHANGED <<nodeVars, plans, owner, dup, mode, flags, handing, room, lives>>

\* A worker that is dead or silent: its node fails, and pool.restart() replaces it under
\* its own id, unless the throttle refuses the spawn.
Replace(w) ==
    \/ /\ slot' = [slot EXCEPT ![w] = NoSlot]
       /\ child' = Killed({slot[w].child})
       /\ UNCHANGED spawned
    \/ /\ spawned < MaxSpawns
       /\ spawned' = spawned + 1
       /\ slot' = [slot EXCEPT ![w] = [child |-> spawned + 1, task |-> 0, expected |-> FALSE]]
       /\ child' = [Killed({slot[w].child}) EXCEPT ![spawned + 1].run = "alive"]
Health ==
    /\ phase = "health" /\ todo # {}
    /\ LET w == Min(todo)
           n == NodeOf(w)
       IN /\ IF n = 0 THEN UNCHANGED <<status, worker, result, mode>>
             ELSE FinishNode(n, w, "failed", 0) /\ mode' = "on"
          /\ Replace(w)
          /\ todo' = todo \ {w}
    /\ phase' = IF todo' = {} THEN "dispatch" ELSE "health"
    /\ UNCHANGED <<attempts, plans, owner, dup, flags, handing, queue, room, lives, upsets>>

\* dispatchRound enters the next plan: the pending nodes behind a lost one are blocked,
\* and the loop over the runnable ones ends when it has chosen as many as are left idle.
EnterPlan ==
    /\ phase = "dispatch" /\ queue # {} /\ Idle # {}
    /\ LET p == Min(queue)
       IN /\ status' = Blocking(status, Doomed(status, p))
          /\ todo' = Runnable(p)
          /\ room' = (Cardinality(Idle) + 1) \div 2
    /\ phase' = "pick"
    /\ UNCHANGED <<worker, attempts, result, plans, poolVars, owner, dup, mode, flags, handing,
                   queue, lives, upsets>>

\* dispatchNode: the workspace is prepared or the node is blocked; the scope is claimed;
\* a worker that is busy refuses, and then loses every claim it has.
Dispatch(n, w, speculative) ==
    \/ /\ Upset(1)
       /\ FinishNode(n, w, "blocked", 0)
       /\ mode' = "on"
       /\ UNCHANGED <<attempts, slot, child, owner>>
    \/ /\ slot[w].task = 0
       /\ status' = [status EXCEPT ![n] = "running"]
       /\ worker' = [worker EXCEPT ![n] = w]
       /\ attempts' = [attempts EXCEPT ![n] = @ + 1]
       /\ slot' = [slot EXCEPT ![w].task = n]
       /\ child' = Handed(slot[w].child, n)
       /\ owner' = Claimed(n, w)
       /\ mode' = IF speculative THEN mode ELSE "on"
       /\ UNCHANGED <<result, upsets>>
    \/ /\ slot[w].task # 0
       /\ owner' = Released(Claimed(n, w), {w})
       /\ UNCHANGED <<nodeVars, slot, child, mode, upsets>>

\* Mutant of Pick: the loop does not end with the idle workers it counted.
SlipPick(n, w) ==
    /\ phase = "pick" /\ n \in todo /\ w \in Idle
    /\ ~Conflict(n)
    /\ Dispatch(n, w, FALSE)
    /\ todo' = todo \ {n} /\ room' = room - 1
    /\ UNCHANGED <<plans, spawned, dup, flags, handing, phase, queue, lives>>

Pick(n, w) ==
    /\ phase = "pick" /\ room > 0 /\ n \in todo /\ w \in Idle
    /\ ~Conflict(n)
    /\ Dispatch(n, w, FALSE)
    /\ todo' = todo \ {n} /\ room' = room - 1
    /\ UNCHANGED <<plans, spawned, dup, flags, handing, phase, queue, lives>>

\* selectSpeculative: one duplicate for every running speculative node that has none, on
\* the first idle worker that is not its own; two nodes may be given the same one.
Uncertain(p) == {n \in Running : /\ Plan[n] = p
                                 /\ n \in Speculative
                                 /\ dup[n] = 0
                                 /\ Idle \ {worker[n]} # {}}
NextPlan == phase' = "dispatch" /\ queue' = queue \ {Min(queue)}
PickEnds ==
    /\ phase = "pick" /\ (room > 0 /\ Idle # {} => \A n \in todo : Conflict(n))
    /\ LET chosen == Uncertain(Min(queue))
       IN /\ todo' = chosen
          /\ dup' = [n \in Nodes |-> IF n \in chosen THEN Min(Idle \ {worker[n]}) ELSE dup[n]]
          /\ IF chosen = {} THEN NextPlan ELSE phase' = "duplicate" /\ UNCHANGED queue
    /\ room' = 0
    /\ UNCHANGED <<nodeVars, plans, poolVars, owner, mode, flags, handing, lives, upsets>>

Duplicate(n) ==
    /\ phase = "duplicate" /\ n \in todo
    /\ Dispatch(n, dup[n], TRUE)
    /\ todo' = todo \ {n}
    /\ IF todo' = {} THEN NextPlan ELSE UNCHANGED <<phase, queue>>
    /\ UNCHANGED <<plans, spawned, dup, flags, handing, room, lives>>

\* maybeCompletePlan of every active plan; a cancelled node is not a failure.
Settled(p) == \A n \in Nodes : Plan[n] = p => status[n] \in Ended
Failing(p) == \E n \in Nodes : Plan[n] = p /\ status[n] \in {"failed", "blocked"}
TickEnds ==
    /\ phase = "dispatch" /\ (queue = {} \/ Idle = {})
    /\ plans' = [p \in Plans |-> IF p \in Active /\ Settled(p)
                                 THEN IF Failing(p) THEN "failed" ELSE "completed"
                                 ELSE plans[p]]
    /\ phase' = "rest" /\ queue' = {}
    /\ UNCHANGED <<nodeVars, poolVars, owner, dup, mode, flags, handing, todo, room, lives, upsets>>

-------------------------------------------------------------------------------

Worker(c) == Finish(c) \/ Wedge(c) \/ Die(c)
Callback(c) == ExitReported(c) \/ ResultReported(c) \/ CrashReported(c)
Order ==
    \/ Start \/ CancelTask \/ Pause \/ Resume \/ Stop \/ TakeOver \/ ClearHandoff
    \/ \E p \in Plans : Submit(p)
Loop ==
    \/ TickRefused \/ TickRecovers \/ Tick \/ Health \/ EnterPlan
    \/ \E n \in Nodes : Duplicate(n)
    \/ \E n \in Nodes, w \in Ids : Pick(n, w)
    \/ PickEnds \/ TickEnds

Next ==
    \/ \E c \in Ids : (phase = "rest" /\ Worker(c)) \/ Callback(c)
    \/ Order \/ StopEnds \/ TakeOverEnds \/ Crash
    \/ Loop

Spec == Init /\ [][Next]_vars

-------------------------------------------------------------------------------
(* Properties.                                                                  *)

\* Two running nodes of one plan never have a file in common: scheduler.cjs:126 "never
\* let two workers write the same files at the same time", as far as a plan goes.
SamePlanDisjoint ==
    \A n, m \in Running : n # m /\ Plan[n] = Plan[m] => Scope[n] \cap Scope[m] = {}

\* A node is dispatched max_attempts times at most; a speculative one once more in every
\* life of the shell, since markRunning counts the duplicate too and the speculation
\* table is not persisted.
AttemptsBounded ==
    \A n \in Nodes :
        attempts[n] <= MaxAttempts + (IF n \in Speculative THEN 1 + lives ELSE 0)

\* A node that runs or has completed has only completed dependencies, or ones a takeover
\* took back after they had completed.
DependenciesDone ==
    \A n \in Nodes : status[n] \in {"running", "completed"} =>
        \A d \in Deps[n] : status[d] = "completed" \/ result[d] = HandedOver

\* A completed node is never run again nor given another end, except by a takeover that
\* captured it while it ran.
CompletedIsFinal ==
    [][\A n \in Nodes : status[n] = "completed" /\ status'[n] # "completed" =>
            handing.on /\ n \in handing.nodes]_vars

\* From stop() until the next start() no worker process is added to the pool: neither a
\* verdict, nor a scale-up, nor a lost pool brings one back.
StopHolds ==
    [][flags.intentional /\ flags'.intentional => spawned' <= spawned]_vars

\* A busy slot whose own process is alive is never waiting for nothing: the process works
\* on the task of the slot, or an answer is in the pipe.
BusyMeansWorking ==
    \A w \in Slots : slot[w].task # 0 /\ slot[w].child = w /\ child[w].run = "alive" =>
        child[w].task = slot[w].task \/ child[w].out # NoOut

\* (violated) A node is completed by the result of its own task: manager.cjs:790 names the
\* task of a node "<plan>-<node>" "so results stay addressable".
ResultIsItsOwn == \A n \in Nodes : status[n] = "completed" => result[n] = n

\* (violated) Two processes that work for the supervisor never write the same file:
\* manager.cjs "so two workers can never write the same file".
OneWriter == \A c, d \in Ids : c # d /\ child[c].task # 0 /\ child[d].task # 0 /\ child[c].task # child[d].task =>
    Scope[child[c].task] \cap Scope[child[d].task] = {}
================================================================================
