------------------------------ MODULE MCHouse -------------------------------
(* Instances of House: one family whose two people look alike in the light  *)
(* of some pictures.                                                        *)
EXTENDS House, TLC

CONSTANTS d1, d2, x, z, dad
ShowsTwo == (d1 :> x) @@ (d2 :> z)
SlugOfNames == dad :> "dad"
XLikeZ == {{x, z}}

(* Every photograph shows another face, all of them alike; a name is its    *)
(* own slug.                                                                *)
ShowsItself == [d \in Detections |-> d]
AllAlike == {{a, b} : a, b \in Detections}
SlugIsName == [n \in Names |-> n]
Interchangeable == Permutations(Detections) \cup Permutations(Persons) \cup Permutations(Names)

=============================================================================
