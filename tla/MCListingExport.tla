-------------------------- MODULE MCListingExport --------------------------
(* Small instances of ListingExport.                                       *)
EXTENDS ListingExport, TLC

CONSTANTS c1, c2, r1, r2, r3

OneClient  == {c1}
TwoClients == {c1, c2}
ThreeRuns  == {r1, r2, r3}

(* Executions are interchangeable, and clients where both may export. *)
Executions == Permutations(Runs)
=============================================================================
