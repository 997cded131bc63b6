---------------------------- MODULE LogChannel -----------------------------
(***************************************************************************)
(* What the logger promises: records that are accepted while the channel   *)
(* is open come out once each, in the order in which they were accepted,   *)
(* also after the channel was closed.                                      *)
(***************************************************************************)
EXTENDS Naturals, Sequences

CONSTANT Records

VARIABLES open, sent, written

vars == <<open, sent, written>>

Init ==
    /\ open = FALSE
    /\ sent = <<>>
    /\ written = <<>>

Open == ~open /\ open' = TRUE /\ UNCHANGED <<sent, written>>

Close == open /\ open' = FALSE /\ UNCHANGED <<sent, written>>

Accept(r) ==
    /\ open
    /\ sent' = Append(sent, r)
    /\ UNCHANGED <<open, written>>

Write ==
    /\ Len(written) < Len(sent)
    /\ written' = Append(written, sent[Len(written) + 1])
    /\ UNCHANGED <<open, sent>>

Next == Open \/ Close \/ Write \/ \E r \in Records : Accept(r)

Spec == Init /\ [][Next]_vars

\* Every accepted record is written in the end.
FairSpec == Spec /\ WF_vars(Write)
=============================================================================
