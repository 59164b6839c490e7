-------------------------------- MODULE MCGeo -------------------------------
(***************************************************************************)
(* Instances of Geo for TLC.                                               *)
(***************************************************************************)
EXTENDS Geo, TLC

CONSTANTS p1, p2, p3, a, b, e1, e2, e3, e4, l1

(* Two paths of one file name, and a third path of another. *)
ThreePaths  == {p1, p2, p3}
ThreeNameOf == (p1 :> a) @@ (p2 :> a) @@ (p3 :> b)
TwoPaths    == {p1, p3}
TwoNameOf   == (p1 :> a) @@ (p3 :> b)

Symmetry == Permutations(Entries)
=============================================================================
