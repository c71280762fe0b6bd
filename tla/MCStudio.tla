------------------------------ MODULE MCStudio ------------------------------
(* Instances of Studio: a learner whose pictures a, b, c look alike and     *)
(* whose d looks like a.                                                    *)
EXTENDS Studio

CONSTANTS a, b, c, d, e
LooksAlike == [x \in TagAssets |-> {x} \cup (IF x = d THEN {a, d} ELSE {a, b, c})]

=============================================================================
