-------------------------- MODULE InvocationGate ---------------------------
(***************************************************************************)
(* What the bridge promises about the native manager: a resource that      *)
(* threads use only between Enter and Leave, that they may enter only      *)
(* while the gate is open, and that is taken away only when the gate is    *)
(* closed and nobody is inside.                                            *)
(***************************************************************************)
CONSTANT Users

VARIABLES open, resource, inside

vars == <<open, resource, inside>>

Init ==
    /\ open = FALSE
    /\ resource = FALSE
    /\ inside = {}

Provide ==
    /\ ~resource
    /\ resource' = TRUE
    /\ UNCHANGED <<open, inside>>

Open ==
    /\ resource
    /\ open' = TRUE
    /\ UNCHANGED <<resource, inside>>

Close ==
    /\ open
    /\ open' = FALSE
    /\ UNCHANGED <<resource, inside>>

Enter(u) ==
    /\ open
    /\ inside' = inside \cup {u}
    /\ UNCHANGED <<open, resource>>

Leave(u) ==
    /\ u \in inside
    /\ inside' = inside \ {u}
    /\ UNCHANGED <<open, resource>>

\* The resource goes only when the gate is closed and empty.
Withdraw ==
    /\ resource /\ ~open
    /\ inside = {}
    /\ resource' = FALSE
    /\ UNCHANGED <<open, inside>>

Next ==
    \/ Provide \/ Open \/ Close \/ Withdraw
    \/ \E u \in Users : Enter(u) \/ Leave(u)

Spec == Init /\ [][Next]_vars
=============================================================================
