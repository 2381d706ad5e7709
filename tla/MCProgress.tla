------------------------------- MODULE MCProgress -------------------------------
(* Two systems for TLC that have to go on, of which a behaviour shows one: the      *)
(* restart lifecycle with hooks that answer, or the lock of its two executors.      *)
EXTENDS MCRestartLifecycle, MCRestartLock

VARIABLE subject

MCInit == Init /\ LockInit /\ subject \in {"lifecycle", "lock"}

Restarts(action) == subject = "lifecycle" /\ action /\ UNCHANGED <<lockVars, subject>>
Locks(action) == subject = "lock" /\ action /\ UNCHANGED <<vars, subject>>

allVars == <<vars, lockVars, subject>>

\* FairSpec and LockFairSpec, each of the behaviours that show its system.
MCSpec ==
    /\ MCInit /\ [][Restarts(Next) \/ Locks(LockNext)]_allVars
    /\ WF_allVars(Restarts(Run)) /\ WF_allVars(Restarts(Tick))
    /\ WF_allVars(Locks(Ages)) /\ \A p \in Supervisors : WF_allVars(Locks(Proceed(p)))
================================================================================
