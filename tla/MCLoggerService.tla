-------------------------- MODULE MCLoggerService --------------------------
(* Instances of LoggerService for TLC. *)
EXTENDS LoggerService

CONSTANTS p1, p2

OneProducer  == {p1}
TwoProducers == {p1, p2}
=============================================================================
