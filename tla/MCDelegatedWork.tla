----------------------------- MODULE MCDelegatedWork -----------------------------
(* Three systems for TLC, of which a behaviour shows one: the sub-worker's nodes and *)
(* workers, with every upset or with duplicates of its nodes and one upset less; or  *)
(* the restarts of the machine that are scheduled for a task.                        *)
EXTENDS MCSubWorker, MCRebootCoordinator

VARIABLE subject

MCInit == Init /\ RebootInit /\ subject \in {"nodes", "duplicates", "reboot"}

\* The bounds of the two instances of SubWorker.
Within ==
    IF subject = "nodes" THEN \A n \in Nodes : dup'[n] = 0 ELSE upsets' < MaxUpsets

\* Bound: passes overlap before the last start of the application, which resumes.
Overlaps ==
    starts' = MaxStarts => \A s, t \in Passes : pc'[s] # "idle" /\ pc'[t] # "idle" => s = t

Works(action) == subject # "reboot" /\ action /\ Within /\ UNCHANGED <<rebootVars, subject>>
Reboots(action) == subject = "reboot" /\ action /\ Overlaps /\ UNCHANGED <<vars, subject>>

MCSpec == MCInit /\ [][Works(Next) \/ Reboots(RebootNext)]_<<vars, rebootVars, subject>>
================================================================================
