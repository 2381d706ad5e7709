------------------------------ MODULE MCRestartLock ------------------------------
(* Instances of RestartLock for TLC: the plugin and two companions.              *)
EXTENDS RestartLock

CONSTANTS plugin, companion, successor

Three == {plugin, companion, successor}
Two == {plugin, companion}
Outside == {companion, successor}
OneOutside == {companion}
================================================================================
