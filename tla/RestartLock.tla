------------------------------- MODULE RestartLock -------------------------------
(* restart.lock, the file two supervisors agree through: claimRestartLock,        *)
(* releaseRestartLock and restartLockHeldByOther of                               *)
(* app/plugins/restart-supervisor/companion.cjs, and the two requestRestart       *)
(* functions that call them (the plugin's in index.cjs, the companion's).         *)
(*                                                                                *)
(* The supervisors are processes: they interleave between any two file            *)
(* operations, die at any of them, and a dead one's pid may be handed out again.  *)
(* A claim reads the file and then writes it; nothing makes the two one step. A   *)
(* read that meets a half-written file finds nothing, which is the read before    *)
(* the write. Ages are kept instead of instants: `now() - at`, capped at the ttl. *)
EXTENDS Integers

CONSTANTS
    Supervisors,   \* the processes (their pids)
    Companions,    \* those that look before they claim: the out-of-process companions
    Ttl,           \* ttlMs of a claim, in ticks
    MaxCrashes     \* bound of the model: how many processes die

ASSUME LockAssumption ==
    /\ Companions \subseteq Supervisors
    /\ "none" \notin Supervisors
    /\ Ttl \in Nat \ {0}
    /\ MaxCrashes \in Nat

VARIABLES
    lock,      \* the parsed file, or NoLock
    pc,        \* between which two file operations each process is
    alive,     \* the pids process.kill(pid, 0) finds
    crashes,   \* the processes that died so far
    stirred,   \* auxiliary: who has read a file that has been written since
    clean      \* auxiliary: no claim was written over a newer one, and none outlived
               \* its ttl while its owner was still executing

lockVars == <<lock, pc, alive, crashes, stirred, clean>>

NoLock == [pid |-> "none", age |-> 0]

Claims == [pid : Supervisors, age : 0..Ttl] \cup {NoLock}
Places == {"idle", "asking", "looked", "claiming", "executing", "removing"}

LockTypeOK ==
    /\ lock \in Claims
    /\ pc \in [Supervisors -> Places]
    /\ alive \in [Supervisors -> BOOLEAN]
    /\ crashes \in 0..MaxCrashes
    /\ stirred \subseteq Supervisors
    /\ clean \in BOOLEAN

LockInit ==
    /\ lock = NoLock
    /\ pc = [p \in Supervisors |-> "idle"]
    /\ alive = [p \in Supervisors |-> TRUE]
    /\ crashes = 0
    /\ stirred = {}
    /\ clean = TRUE

--------------------------------------------------------------------------------
\* The claim on file is live: inside its deadline, and its owner's pid answers.
Held == lock # NoLock /\ lock.age < Ttl /\ alive[lock.pid]

SlipHeldByOther(p) == lock # NoLock /\ lock.pid # p

HeldByOther(p) == Held /\ lock.pid # p

Moves(p, from, to) == alive[p] /\ pc[p] = from /\ pc' = [pc EXCEPT ![p] = to]

\* Whoever has read the file and not acted on it yet now acts on something old.
Stir(p) ==
    stirred' = (stirred \cup {q \in Supervisors : pc[q] \in {"claiming", "removing"}}) \ {p}

\* requestRestart was called; a caller that is deferred calls it again.
Ask(p) ==
    /\ Moves(p, "idle", "asking")
    /\ UNCHANGED <<lock, alive, crashes, stirred, clean>>

\* The companion asks whether somebody else is executing, and backs off if so.
LookFirst(p) ==
    /\ p \in Companions
    /\ ~HeldByOther(p)
    /\ Moves(p, "asking", "looked")
    /\ UNCHANGED <<lock, alive, crashes, stirred, clean>>

SlipClaimRead(p) ==
    /\ p \in Companions \/ ~Held
    /\ Moves(p, IF p \in Companions THEN "looked" ELSE "asking", "claiming")
    /\ UNCHANGED <<lock, alive, crashes, stirred, clean>>

\* The read of claimRestartLock, when it finds no live claim.
ClaimRead(p) ==
    /\ ~Held
    /\ Moves(p, IF p \in Companions THEN "looked" ELSE "asking", "claiming")
    /\ UNCHANGED <<lock, alive, crashes, stirred, clean>>

\* It finds one: RESTART_LOCK_HELD, and the caller is deferred.
ClaimRefused(p) ==
    /\ p \in Companions
    /\ Held
    /\ Moves(p, "looked", "asking")
    /\ UNCHANGED <<lock, alive, crashes, stirred, clean>>

\* The write of claimRestartLock. From here on the process executes a restart.
ClaimWrite(p) ==
    /\ Moves(p, "claiming", "executing")
    /\ lock' = [pid |-> p, age |-> 0]
    /\ clean' = (clean /\ p \notin stirred)
    /\ Stir(p)
    /\ UNCHANGED <<alive, crashes>>

\* The restart is over, however it ended: the read of releaseRestartLock.
ReleaseRead(p) ==
    /\ Moves(p, "executing", IF lock # NoLock /\ lock.pid = p THEN "removing" ELSE "idle")
    /\ UNCHANGED <<lock, alive, crashes, stirred, clean>>

\* rmSync, of whatever the file is by now.
ReleaseRemove(p) ==
    /\ Moves(p, "removing", "idle")
    /\ lock' = NoLock
    /\ Stir(p)
    /\ UNCHANGED <<alive, crashes, clean>>

--------------------------------------------------------------------------------
\* A process dies between two operations; its claim stays on file.
Crash(p) ==
    /\ alive[p]
    /\ crashes < MaxCrashes
    /\ alive' = [alive EXCEPT ![p] = FALSE]
    /\ pc' = [pc EXCEPT ![p] = "idle"]
    /\ crashes' = crashes + 1
    /\ stirred' = stirred \ {p}
    /\ UNCHANGED <<lock, clean>>

\* The pid is used again, by the next supervisor or by anything else.
PidReused(p) ==
    /\ ~alive[p]
    /\ alive' = [alive EXCEPT ![p] = TRUE]
    /\ UNCHANGED <<lock, pc, crashes, stirred, clean>>

SlipAges ==
    /\ lock # NoLock
    /\ lock' = [lock EXCEPT !.age = @ + 1]
    /\ UNCHANGED <<pc, alive, crashes, stirred, clean>>

Ages ==
    /\ lock # NoLock
    /\ lock.age < Ttl
    /\ lock' = [lock EXCEPT !.age = @ + 1]
    /\ clean' = (clean /\ ~(lock.age + 1 = Ttl /\ pc[lock.pid] \in {"executing", "removing"}))
    /\ UNCHANGED <<pc, alive, crashes, stirred>>

\* What a process does next on its own.
Proceed(p) ==
    \/ LookFirst(p) \/ ClaimRead(p) \/ ClaimRefused(p) \/ ClaimWrite(p)
    \/ ReleaseRead(p) \/ ReleaseRemove(p)

LockNext == Ages \/ \E p \in Supervisors : Ask(p) \/ Proceed(p) \/ Crash(p) \/ PidReused(p)

LockSpec == LockInit /\ [][LockNext]_lockVars

\* Callers retry, restarts end and time passes; nothing has to die or be reused.
LockFairSpec == LockSpec /\ WF_lockVars(Ages) /\ \A p \in Supervisors : WF_lockVars(Proceed(p))

--------------------------------------------------------------------------------
(* Correctness.                                                                  *)

Executing == {p \in Supervisors : pc[p] \in {"executing", "removing"}}
Wanting == {p \in Supervisors : pc[p] \in {"asking", "looked", "claiming"}}

OneExecutor == \A p, q \in Executing : p = q

\* One executor at a time, as long as no two claims overlapped and no restart outlived
\* its claim: neither a crash, a reused pid nor the order of release and takeover
\* breaks the lock by itself.
CleanMeansOne == clean => OneExecutor

\* Whoever executes a restart still owns the file it claimed: releasing it can
\* neither leave a claim behind nor delete somebody else's.
ExecutorOwnsFile ==
    clean => \A p \in Executing :
                 lock # NoLock /\ lock.pid = p /\ lock.age < Ttl /\ alive[p]

\* A lock left behind by a dead process, or by a pid that means somebody else now,
\* never keeps a restart waiting for ever.
LockIsTakenOver == Wanting # {} ~> Executing # {} \/ Wanting = {}

\* Claimed at companion.cjs:74 and docs/restart-supervisor.md:154: one executor.
AtMostOneExecutor == OneExecutor

================================================================================
