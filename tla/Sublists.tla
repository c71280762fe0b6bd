------------------------------- MODULE Sublists -------------------------------
(***************************************************************************)
(* Parts of a list, in its order: as recursive functions, so that what they *)
(* hold can be proved.                                                      *)
(***************************************************************************)
EXTENDS Integers, Sequences

(* What is at some places of a list. *)
Those(list, places) ==
    LET upto[i \in 0..Len(list)] ==
            IF i = 0 THEN << >>
            ELSE IF i \in places THEN Append(upto[i - 1], list[i]) ELSE upto[i - 1]
    IN  upto[Len(list)]

(* What is in some set. *)
Kept(list, S) == Those(list, {i \in DOMAIN list : list[i] \in S})

=============================================================================
