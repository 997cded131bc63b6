------------------------ MODULE MCRuntimeLifecycle -------------------------
(* Instances of RuntimeLifecycle for TLC. *)
EXTENDS RuntimeLifecycle

CONSTANT g1

OneThread == {g1}

AllOutcomes == {"ok", "refused", "unrestored"}
=============================================================================
