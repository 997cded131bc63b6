-------------------------- MODULE MCQueueExecutor --------------------------
(* Instances of QueueExecutor for TLC. *)
EXTENDS QueueExecutor

CONSTANTS w1, w2, s1, s2

TwoWorkers    == {w1, w2}
TwoSubmitters == {s1, s2}
=============================================================================
