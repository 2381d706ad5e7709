----------------------------- MODULE MCMegaScheduler -----------------------------
(* Instances of MegaScheduler for TLC: a headless task and an official one.        *)
EXTENDS MegaScheduler

CONSTANTS headless, official

TheTasks == {headless, official}
TheOfficial == {official}
TheAnytime == {headless}
OneTask == {headless}
NoTask == {}
================================================================================
