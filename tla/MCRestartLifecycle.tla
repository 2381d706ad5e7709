--------------------------- MODULE MCRestartLifecycle ---------------------------
(* Instances of RestartLifecycle for TLC. One tick stands for the cooldown.      *)
EXTENDS RestartLifecycle

\* The companion's deployment: it probes the process and the runtime and needs both.
CompanionGates == {"process", "runtime"}

\* A deployment whose continuity gate has a probe and may be stepped over.
SupervisedGates == {"runtime", "continuity"}
RuntimeOnly == {"runtime"}
================================================================================
