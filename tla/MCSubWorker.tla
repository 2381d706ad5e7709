------------------------------ MODULE MCSubWorker ------------------------------
(* Two nodes that write one file, and a third that waits for the first.           *)
EXTENDS SubWorker
ThePlan == <<1, 1, 1>>
TheDeps == <<{}, {}, {1}>>
TheScope == <<{"a"}, {"a"}, {"b"}>>
================================================================================
