---------------------------- MODULE RestartHandover ----------------------------
(* Who supervises the application, and how a quit is told from a crash: the       *)
(* files companion.pid, companion.stop, app.stop-request.json and                 *)
(* restart.request.json, written by the application (ensureCompanion,             *)
(* stopCompanion and delegateToCompanion of the plugin's index.cjs, the exits of  *)
(* desktop-main.cjs) and by its companions (claim, attach, watch and release of   *)
(* companion.cjs, killByPid of companion/main.cjs).                               *)
(*                                                                                *)
(* Applications and companions are processes, named by pids that count up. One    *)
(* application runs at a time: a second one finds the first and exits. A restart  *)
(* is the part of run() that other processes can see, stop and launch; its        *)
(* budget, which may refuse it at any time, is RestartLifecycle's subject, and    *)
(* its lock RestartLock's.                                                        *)
EXTENDS Integers

CONSTANTS
    MaxApps,   \* bound of the model: how many application processes are started
    MaxComps,  \* bound of the model: how many companions are started
    MayDie     \* whether a companion may die

ASSUME HandoverAssumption == MaxApps \in Nat /\ MaxComps \in Nat /\ MayDie \in BOOLEAN

VARIABLES
    app,       \* the application that runs, or 0
    life,      \* what it is doing
    apps,      \* the application processes started so far
    comps,     \* the companions started so far
    pc,        \* between which two observable steps each companion is
    target,    \* the pid each companion watches: childPid, 0 for null
    attached,  \* the companions that adopted that pid instead of launching it
    serving,   \* the companions whose restart was asked for by the plugin
    pidFile,   \* companion.pid, 0 when there is none
    stopFile,  \* companion.stop is on disk
    request,   \* app.stop-request.json: the newest pid when it was written, 0 for none
    asked,     \* restart.request.json is on disk
    closed,    \* auxiliary: how a person closed the application, if it is closed
    clean      \* auxiliary: no claim was written over one it had not read

appVars == <<app, life, apps>>
fileVars == <<pidFile, stopFile, request, asked>>
watchVars == <<target, attached, serving>>
vars == <<appVars, comps, pc, watchVars, fileVars, closed, clean>>

Pids == 1..MaxApps
Comps == 1..MaxComps
Lives == {"off", "booting", "up", "hung", "leaving"}
Places == {"none", "started", "claiming", "clearing", "attaching", "polling", "looking",
           "stopping", "waiting", "launching", "readying", "leaving", "gone"}

TypeOK ==
    /\ app \in 0..apps
    /\ life \in Lives /\ (app = 0 <=> life = "off")
    /\ apps \in 0..MaxApps
    /\ comps \in 0..MaxComps
    /\ pc \in [Comps -> Places]
    /\ \A c \in Comps : c > comps <=> pc[c] = "none"
    /\ target \in [Comps -> 0..apps]
    /\ attached \subseteq Comps
    /\ serving \subseteq {c \in Comps : pc[c] \in {"stopping", "waiting", "launching", "readying"}}
    /\ pidFile \in 0..comps
    /\ stopFile \in BOOLEAN
    /\ request \in 0..apps
    /\ asked \in BOOLEAN
    /\ closed \in {"no", "exit", "quit", "quiet quit"}
    /\ clean \in BOOLEAN

Init ==
    /\ app = 0 /\ life = "off"
    /\ apps = 0 /\ comps = 0
    /\ pc = [c \in Comps |-> "none"]
    /\ target = [c \in Comps |-> 0] /\ attached = {} /\ serving = {}
    /\ pidFile = 0 /\ stopFile = FALSE /\ request = 0 /\ asked = FALSE
    /\ closed = "no"
    /\ clean = TRUE

Running(c) == pc[c] \notin {"none", "gone"}
Watching == {c \in Comps : pc[c] \in {"polling", "looking", "stopping", "waiting", "launching", "readying"}}

--------------------------------------------------------------------------------
(* The application.                                                              *)

Begin(p) == app' = p /\ life' = "booting" /\ apps' = p

Ends == app' = 0 /\ life' = "off" /\ UNCHANGED apps

Lives2(from, to) == life \in from /\ life' = to /\ UNCHANGED <<app, apps>>

\* A person opens the application; a second one would only show the first.
Open ==
    /\ app = 0
    /\ apps < MaxApps
    /\ Begin(apps + 1)
    /\ closed' = "no"
    /\ UNCHANGED <<comps, pc, watchVars, fileVars, clean>>

\* companionStatus(): the pid on file answers and was not asked to stand down.
CompanionRuns == pidFile # 0 /\ Running(pidFile) /\ ~stopFile

\* The deferred boot step. A companion's steps fall before or after it: it changes
\* nothing that a companion reads but the stop file.
EnsureCompanion ==
    /\ Lives2({"booting"}, "up")
    /\ \/ /\ CompanionRuns
          /\ UNCHANGED <<comps, pc, target, stopFile>>
       \/ /\ ~CompanionRuns
          /\ comps < MaxComps
          /\ stopFile' = FALSE
          /\ comps' = comps + 1
          /\ pc' = [pc EXCEPT ![comps + 1] = "started"]
          /\ target' = [target EXCEPT ![comps + 1] = app]
    /\ UNCHANGED <<attached, serving, pidFile, request, asked, closed, clean>>

\* before-quit: closing the last window, or the system shutting down. The note to the
\* companion is written while there still is a process to write it.
Quit ==
    /\ Lives2({"up"}, "leaving")
    /\ stopFile' = TRUE
    /\ closed' = IF \A c \in Comps : pc[c] \in {"none", "polling", "leaving", "gone"}
                 THEN "quiet quit" ELSE "quit"
    /\ UNCHANGED <<comps, pc, watchVars, pidFile, request, asked, clean>>

\* The tray's exits mark shuttingDown themselves, so that before-quit returns at once.
TrayExit ==
    /\ Lives2({"booting", "up"}, "leaving")
    /\ closed' = "exit"
    /\ UNCHANGED <<comps, pc, watchVars, fileVars, clean>>

\* watchSupervisorStopRequest: a request written since this process began.
ObeyStopRequest ==
    /\ Lives2({"booting", "up"}, "leaving")
    /\ request >= app
    /\ request' = 0
    /\ UNCHANGED <<comps, pc, watchVars, pidFile, stopFile, asked, closed, clean>>

\* requestRestart() of the plugin, accepted by its own budget: whoever watches next is
\* to execute it.
Delegate ==
    /\ life = "up"
    /\ asked' = TRUE
    /\ UNCHANGED <<appVars, comps, pc, watchVars, pidFile, stopFile, request, closed, clean>>

Leave ==
    /\ life = "leaving"
    /\ Ends
    /\ UNCHANGED <<comps, pc, watchVars, fileVars, closed, clean>>

Crash ==
    /\ life \in {"booting", "up", "hung"}
    /\ Ends
    /\ UNCHANGED <<comps, pc, watchVars, fileVars, closed, clean>>

Hang ==
    /\ Lives2({"up"}, "hung")
    /\ UNCHANGED <<comps, pc, watchVars, fileVars, closed, clean>>

--------------------------------------------------------------------------------
(* A companion comes up.                                                         *)

GoTo(c, from, to) == pc[c] = from /\ pc' = [pc EXCEPT ![c] = to]

Alive(p) == p # 0 /\ p = app

SlipClaimRead(c) ==
    /\ GoTo(c, "started", IF pidFile # 0 /\ pc[pidFile] = "polling" THEN "gone" ELSE "claiming")
    /\ UNCHANGED <<appVars, comps, watchVars, fileVars, closed, clean>>

\* claim() reads the pid file; a companion that is on file and runs is not displaced.
ClaimRead(c) ==
    /\ GoTo(c, "started", IF pidFile # 0 /\ Running(pidFile) THEN "gone" ELSE "claiming")
    /\ UNCHANGED <<appVars, comps, watchVars, fileVars, closed, clean>>

ClaimWrite(c) ==
    /\ GoTo(c, "claiming", "clearing")
    /\ pidFile' = c
    /\ clean' = (clean /\ \A d \in Comps \ {c} : pc[d] \notin {"claiming", "clearing"})
    /\ UNCHANGED <<appVars, comps, watchVars, stopFile, request, asked, closed>>

\* ... and removes a stop file, whoever wrote it.
ClaimClear(c) ==
    /\ GoTo(c, "clearing", "attaching")
    /\ stopFile' = FALSE
    /\ UNCHANGED <<appVars, comps, watchVars, pidFile, request, asked, closed, clean>>

Attach(c) ==
    /\ GoTo(c, "attaching", IF Alive(target[c]) THEN "polling" ELSE "leaving")
    /\ attached' = IF Alive(target[c]) THEN attached \cup {c} ELSE attached
    /\ UNCHANGED <<appVars, comps, target, serving, fileVars, closed, clean>>

--------------------------------------------------------------------------------
(* It watches, in passes.                                                        *)

SlipPoll(c) ==
    /\ GoTo(c, "polling", IF stopFile /\ Alive(target[c]) THEN "leaving" ELSE "looking")
    /\ UNCHANGED <<appVars, comps, watchVars, fileVars, closed, clean>>

\* A pass begins with the stop file.
Poll(c) ==
    /\ GoTo(c, "polling", IF stopFile THEN "leaving" ELSE "looking")
    /\ UNCHANGED <<appVars, comps, watchVars, fileVars, closed, clean>>

\* The watched pid answers and its heartbeat is not stale. With no child, only the
\* heartbeat counts, whoever writes it; the one on file is an earlier process's until
\* the application has booted.
Healthy(c) ==
    /\ life \in {"up", "leaving"}
    /\ Alive(target[c]) \/ (target[c] = 0 /\ c \notin attached)

\* The request file, when a restart does not serve it: it is removed if it was found
\* expired or was refused, and stays if it came after the look.
Unserved == asked' \in {asked, FALSE}

\* All is well, or the budget, the lock or safe mode refuses the restart.
LookAway(c) ==
    /\ GoTo(c, "looking", "polling")
    /\ Unserved
    /\ UNCHANGED <<appVars, comps, watchVars, pidFile, stopFile, request, closed, clean>>

\* A restart that was asked for comes before anything that the companion sees itself.
Restart(c) ==
    /\ GoTo(c, "looking", "stopping")
    /\ \/ asked /\ serving' = serving \cup {c} /\ UNCHANGED asked
       \/ ~Healthy(c) /\ Unserved /\ UNCHANGED serving
    /\ UNCHANGED <<appVars, comps, target, attached, pidFile, stopFile, request, closed, clean>>

SlipOutcome(c) == UNCHANGED <<serving, fileVars>>

\* requestRestart() returns; a request it served is cleared, be it a newer one by now.
Outcome(c) ==
    /\ asked' = (asked /\ c \notin serving)
    /\ serving' = serving \ {c}
    /\ UNCHANGED <<pidFile, stopFile, request>>

\* killByPid, graceful: the request is written before anybody is found to be alive.
AskToLeave(c) ==
    /\ GoTo(c, "stopping", IF target[c] = 0 THEN "launching" ELSE "waiting")
    /\ request' = IF target[c] = 0 THEN request ELSE apps
    /\ UNCHANGED <<appVars, comps, watchVars, pidFile, stopFile, asked, closed, clean>>

SlipLeft(c) ==
    /\ ~Alive(target[c])
    /\ GoTo(c, "waiting", "stopping")
    /\ UNCHANGED <<appVars, comps, watchVars, fileVars, closed, clean>>

Left(c) ==
    /\ ~Alive(target[c])
    /\ GoTo(c, "waiting", "launching")
    /\ target' = [target EXCEPT ![c] = 0]
    /\ UNCHANGED <<appVars, comps, attached, serving, fileVars, closed, clean>>

\* The timeout passed: the process is terminated.
Terminate(c) ==
    /\ Alive(target[c])
    /\ GoTo(c, "waiting", "launching")
    /\ Ends
    /\ target' = [target EXCEPT ![c] = 0]
    /\ UNCHANGED <<comps, attached, serving, fileVars, closed, clean>>

\* It could not be. A launcher has dropped its child by then, so that the forced stop
\* that follows finds nothing to stop and the restart goes on.
TerminateFails(c) ==
    /\ Alive(target[c])
    /\ \/ /\ c \in attached
          /\ GoTo(c, "waiting", "polling")
          /\ Outcome(c) /\ UNCHANGED target
       \/ /\ c \notin attached
          /\ GoTo(c, "waiting", "launching")
          /\ target' = [target EXCEPT ![c] = 0]
          /\ UNCHANGED <<serving, fileVars>>
    /\ UNCHANGED <<appVars, comps, attached, closed, clean>>

\* launchChild: beside a running application the new process exits at once.
Launch(c) ==
    /\ GoTo(c, "launching", "readying")
    /\ apps < MaxApps
    /\ IF app = 0 THEN Begin(apps + 1)
       ELSE apps' = apps + 1 /\ UNCHANGED <<app, life>>
    /\ target' = [target EXCEPT ![c] = apps + 1]
    /\ attached' = attached \ {c}
    /\ UNCHANGED <<comps, serving, fileVars, closed, clean>>

LaunchFails(c) ==
    /\ GoTo(c, "launching", "polling")
    /\ Outcome(c)
    /\ UNCHANGED <<appVars, comps, target, attached, closed, clean>>

\* The readiness gates opened, or ran out of attempts.
RestartEnds(c) ==
    /\ GoTo(c, "readying", "polling")
    /\ Outcome(c)
    /\ UNCHANGED <<appVars, comps, target, attached, closed, clean>>

\* release(), and the process is over.
Release(c) ==
    /\ GoTo(c, "leaving", "gone")
    /\ pidFile' = IF pidFile = c THEN 0 ELSE pidFile
    /\ UNCHANGED <<appVars, comps, watchVars, stopFile, request, asked, closed, clean>>

Dies(c) ==
    /\ MayDie
    /\ Running(c)
    /\ pc' = [pc EXCEPT ![c] = "gone"]
    /\ serving' = serving \ {c}
    /\ UNCHANGED <<appVars, comps, target, attached, fileVars, closed, clean>>

--------------------------------------------------------------------------------
Proceed(c) ==
    \/ ClaimRead(c) \/ ClaimWrite(c) \/ ClaimClear(c) \/ Attach(c)
    \/ Poll(c) \/ LookAway(c) \/ Restart(c)
    \/ AskToLeave(c) \/ Left(c) \/ Terminate(c) \/ TerminateFails(c)
    \/ Launch(c) \/ LaunchFails(c) \/ RestartEnds(c)
    \/ Release(c)

AppProceeds == EnsureCompanion \/ ObeyStopRequest \/ Leave

Next ==
    \/ Open \/ Quit \/ TrayExit \/ Crash \/ Hang \/ Delegate \/ AppProceeds
    \/ \E c \in Comps : Proceed(c) \/ Dies(c)

Spec == Init /\ [][Next]_vars

\* Every process takes its next step; nothing has to crash, hang, quit or be opened.
FairSpec == Spec /\ WF_vars(AppProceeds) /\ \A c \in Comps : WF_vars(Proceed(c))

--------------------------------------------------------------------------------
(* Correctness.                                                                  *)

OneWatcher == \A c, d \in Watching : c = d

\* One companion watches, whatever crashes, quits and reopens, as long as no claim was
\* written over one that was being made.
CleanMeansOneWatcher == clean => OneWatcher

\* A quit that finds every companion between two passes is honoured: no companion
\* launches the application until a person opens it again.
QuietQuitHolds == [][\A c \in Comps : Launch(c) => closed # "quiet quit"]_vars

\* A companion that was asked to stand down does, however long its restart takes,
\* unless the request is withdrawn.
StandsDown ==
    \A c \in Comps : stopFile /\ c \in Watching ~> ~stopFile \/ c \notin Watching

\* Claimed at desktop-main.cjs:1445: a companion is told of every intentional exit.
ExitStaysClosed == [][\A c \in Comps : Launch(c) => closed # "exit"]_vars

================================================================================
