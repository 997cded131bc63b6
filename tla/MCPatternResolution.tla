------------------------ MODULE MCPatternResolution ------------------------
(* Instances of PatternResolution for TLC. *)
EXTENDS PatternResolution, TLC

CONSTANTS exe, dll, k1, k2, c1, c2

TwoModules == {exe, dll}
OneKey     == {k1}
TwoKeys    == {k1, k2}
TwoCallers == {c1, c2}

InLibrary == [k \in OneKey |-> dll]
OneInEach == k1 :> dll @@ k2 :> exe

\* The program is loaded at one place, the library at two.
OneOrTwoPlaces ==
    exe :> {[base |-> 300, version |-> 1]} @@
    dll :> {[base |-> 100, version |-> 1], [base |-> 200, version |-> 1]}

\* Each of them at two places, the library also in another version at one of them.
MorePlaces ==
    exe :> {[base |-> 300, version |-> 1], [base |-> 400, version |-> 1]} @@
    dll :> {[base |-> 100, version |-> 1], [base |-> 200, version |-> 1],
            [base |-> 200, version |-> 2]}

\* An offset of two digits, which a torn line cuts to one.
OneOffset == {1 :> (k1 :> 11)}

\* In its other version the library has its pattern elsewhere, lost it, or has the
\* address below the image.
BothMove == {1 :> (k1 :> 11 @@ k2 :> 10) @@ 2 :> (k1 :> v @@ k2 :> 10) :
                v \in {10, -1, Absent}}
=============================================================================
