------------------------------ MODULE MCContinuity ------------------------------
(* Two systems for TLC, of which a behaviour shows one: a restart over work in    *)
(* flight (TaskContinuity), or the shells that run one episode (EpisodeRecovery). *)
EXTENDS TaskContinuity, EpisodeRecovery

CONSTANTS
    LivesTogether,    \* bound: how many shells there are when they may overlap
    MaxSeqTogether    \* bound: the number of checkpoints when they may overlap

VARIABLE subject

MCInit ==
    /\ Init /\ RecoveryInit
    /\ subject \in {"restart", "episode"}
    /\ subject = "restart" => ~overlap /\ ~locking
    /\ overlap => ~locking

Together ==
    overlap => /\ top'.seq <= MaxSeqTogether
               /\ \A h \in Hosts : h > LivesTogether => pc'[h] = "unborn"

Restart == subject = "restart" /\ Next /\ UNCHANGED <<recoveryVars, subject>>
Episodes == subject = "episode" /\ RecoveryNext /\ Together /\ UNCHANGED <<vars, subject>>

allVars == <<vars, recoveryVars, subject>>

MCSpec ==
    /\ MCInit /\ [][Restart \/ Episodes]_allVars
    /\ WF_allVars(subject = "restart" /\ Hooks /\ UNCHANGED <<recoveryVars, subject>>)
    /\ WF_allVars(subject = "restart" /\ Settle /\ UNCHANGED <<recoveryVars, subject>>)

================================================================================
