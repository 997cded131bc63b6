------------------------------ MODULE TaskPool ------------------------------
(***************************************************************************)
(* What an executor promises about a task: it is refused, or it runs once, *)
(* or, only when the pool is closed and has come to rest, it is dropped.   *)
(***************************************************************************)
CONSTANTS Tasks

VARIABLES open, fate

vars == <<open, fate>>

Fates == {"new", "refused", "queued", "running", "done", "failed", "dropped"}

Init ==
    /\ open = TRUE
    /\ fate = [t \in Tasks |-> "new"]

Move(t, from, to) ==
    /\ fate[t] = from
    /\ fate' = [fate EXCEPT ![t] = to]
    /\ UNCHANGED open

Accept(t) == open /\ Move(t, "new", "queued")

Refuse(t) == ~open /\ Move(t, "new", "refused")

Begin(t) == Move(t, "queued", "running")

End(t) == \E to \in {"done", "failed"} : Move(t, "running", to)

Close == open /\ open' = FALSE /\ UNCHANGED fate

\* The tasks that are still queued go together, and only when none is running.
Drop ==
    /\ ~open
    /\ \A t \in Tasks : fate[t] # "running"
    /\ fate' = [t \in Tasks |-> IF fate[t] = "queued" THEN "dropped" ELSE fate[t]]
    /\ UNCHANGED open

Next ==
    \/ Close \/ Drop
    \/ \E t \in Tasks : Accept(t) \/ Refuse(t) \/ Begin(t) \/ End(t)

Spec == Init /\ [][Next]_vars
=============================================================================
