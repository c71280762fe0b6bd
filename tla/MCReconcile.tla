---------------------------- MODULE MCReconcile ----------------------------
(* A small instance of Reconcile: a library, its root and a subdirectory,   *)
(* one path in each, three rows.                                            *)
EXTENDS Reconcile, TLC

CONSTANTS a1, a2, a3, l1, r1, d1, p1, p2, x, y

ThreeAssets  == {a1, a2, a3}
OneLibrary   == {l1}
TwoDirs      == {r1, d1}
TwoPaths     == {p1, p2}
TheLibraries == r1 :> l1 @@ d1 :> l1
TheRoots     == l1 :> r1
TheDirs      == p1 :> r1 @@ p2 :> d1
TwoContents  == {x, y}
=============================================================================
