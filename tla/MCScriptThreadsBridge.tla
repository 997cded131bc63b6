----------------------- MODULE MCScriptThreadsBridge -----------------------
(* Instances of ScriptThreadsBridge for TLC. *)
EXTENDS ScriptThreadsBridge

CONSTANTS g1, g2

OneThread  == {g1}
TwoThreads == {g1, g2}

AllOutcomes   == {"ok", "refused", "unrestored"}
BytesWritten  == {"ok", "unrestored"}
WriteSucceeds == {"ok"}
=============================================================================
