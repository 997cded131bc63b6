------------------------ MODULE MCFileSystemMonitor ------------------------
(* Instances of FileSystemMonitor for TLC. *)
EXTENDS FileSystemMonitor

CONSTANTS c1, c2, n1, f1, f2

OneClient  == {c1}
TwoClients == {c1, c2}
OneName    == {n1}
OneFile    == {f1}
TwoFiles   == {f1, f2}
=============================================================================
