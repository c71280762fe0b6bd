---------------------------- MODULE MCBackroom ------------------------------
(* A small instance of each part of Backroom.                               *)
EXTENDS Backroom

CONSTANTS pic1, pic2, pic3, ann, ben

(* A slideshow of three photographs and two people; a pace whose times are  *)
(* whole frames and one whose times are not.                                *)
TheTaken == pic1 :> 1 @@ pic2 :> 2 @@ pic3 :> 3
TheShows == pic1 :> {ann} @@ pic2 :> {ann, ben} @@ pic3 :> {}
ThePaces == {[hold |-> 3500, transition |-> 600], [hold |-> 220, transition |-> 105]}

(* Three shares, one within another, a file with a name that repeats its    *)
(* folder's, and workstations that map some of the shares.                  *)
TheShares == "apr" :> <<"intel", "apr">> @@ "promo" :> <<"intel", "promo">>
             @@ "raw" :> <<"intel", "promo", "raw">>
NoneDotted == << >>
TheDiskFiles == {<<"intel", "apr", "f">>, <<"intel", "promo", "f">>,
                 <<"intel", "promo", "raw", "f">>, <<"intel", "apr", "apr", "f">>}
TheParents == {<<"intel">>, <<"intel", "promo">>, <<"intel", "apr">>}
TheMaps == "apr" :> ("win" :> <<"Z", "apr">>)
           @@ "promo" :> ("win" :> <<"Z", "promo">> @@ "mac" :> <<"P", "reels">>)
           @@ "raw" :> ("win" :> <<"Q", "promo", "raw">>)

(* Two houses of one street, and a Drive folder of finals of one of them.   *)
ThePictures ==
    "o1" :> [shoot |-> "s111", role |-> "original", name |-> "x"] @@
    "o2" :> [shoot |-> "s111", role |-> "original", name |-> "y"] @@
    "o3" :> [shoot |-> "s113", role |-> "original", name |-> "x"] @@
    "f1" :> [shoot |-> "s111", role |-> "final", name |-> "x"] @@
    "g1" :> [shoot |-> "d111", role |-> "final", name |-> "x"]
OnTheDrive == {"g1"}
TheShootNames ==
    "s111" :> [date |-> 0, words |-> {"111", "water", "st"}] @@
    "s113" :> [date |-> 0, words |-> {"113", "water", "st"}] @@
    "d111" :> [date |-> 3, words |-> {"111", "water", "st"}]
TheLikenesses == << <<"o2", "g1">>, <<"o2", "f1">> >>

(* Six views of five folders along a line, two of them frames of one video, *)
(* one on the ground, one that looks like another.                          *)
Views == {"a1", "a2", "b1", "d1", "v1", "v2"}
TheAssets == [x \in Views |-> IF x \in {"v1", "v2"} THEN "v" ELSE x]
TheFolders == "a1" :> "A" @@ "a2" :> "Social" @@ "b1" :> "B" @@ "d1" :> "D"
              @@ "v1" :> "C" @@ "v2" :> "C"
TheFolderOrder == <<"A", "B", "C", "D", "Social">>
TheFixes == "a1" :> 0 @@ "a2" :> 0 @@ "b1" :> 1 @@ "d1" :> 2 @@ "v1" :> 9 @@ "v2" :> 9
TheBest == <<"v1", "a1", "b1", "d1", "a2", "v2">>
TheLine == <<"a1", "a2", "b1", "d1", "v1", "v2">>
TheNears == {{"a2", "v1"}}
TheKinds == "finished" :> Views @@ "crew" :> {"a2", "v1"}

(* A drone shot that knows where it is, a later one and a recording that do *)
(* not, until the second's file is retagged.                                *)
ShotTimes == "drone" :> 1 @@ "dslr" :> 2 @@ "audio" :> 3
AllAlike == {{"drone", "dslr"}, {"dslr", "audio"}, {"drone", "audio"}}
Tags == "drone" :> "A" @@ "dslr" :> "none" @@ "audio" :> "none"
NewTags == "dslr" :> "B"
=============================================================================
