------------------------------ MODULE MCFront -------------------------------
(* A small instance of each part of Front.                                  *)
EXTENDS Front

CONSTANTS a, b, c

(* Three photographs: a model is surer that the second is a bathroom.       *)
TheRooms == "hall" :> 1 @@ "bath" :> 2 @@ "" :> 3
TheSees == a :> [room |-> "bath", score |-> 2] @@ b :> [room |-> "bath", score |-> 3]
TheFiles == a :> 1 @@ b :> 2 @@ c :> 3

(* Three clips: one crowds the nearest frames, two say the words.           *)
TheFootage == <<"f", "g", "h">>
TheFrames == <<<<"f", 3>>, <<"f", 1>>, <<"g", 1>>, <<"f", 2>>, <<"h", 1>>>>
TheSegments == <<[id |-> 1, asset |-> "g", whole |-> FALSE],
                 [id |-> 2, asset |-> "g", whole |-> TRUE],
                 [id |-> 3, asset |-> "h", whole |-> FALSE]>>
TheNamed == <<"h", "f">>
TheTagged == <<"g", "f">>
TheVerdicts == "f" :> "tag" @@ "g" :> "suggested_tag" @@ "h" :> "rejected"
TheWeights == [tag |-> 15, suggested_tag |-> 8, transcript |-> 12, visual |-> 10, name |-> 8]

(* Three stills of one video and one each of two others.                    *)
TheStills == {<<"v", 1>>, <<"v", 2>>, <<"v", 3>>, <<"w", 1>>, <<"x", 1>>}

(* A Drive folder of two photographs whose rooms are in the other order.    *)
TheRoomRanks == a :> 2 @@ b :> 1

(* Two shoots: pairs that chain across two rooms, and a room nearly empty.  *)
TheShoots ==
    "barn" :> [order |-> <<"a", "b", "c", "d", "e">>,
               room |-> "a" :> "barn" @@ "b" :> "barn" @@ "c" :> "yard" @@ "d" :> "yard" @@ "e" :> "yard",
               sharp |-> "a" :> 5 @@ "b" :> 6 @@ "c" :> 9 @@ "d" :> 2 @@ "e" :> 8,
               nears |-> {{"a", "c"}, {"b", "c"}}, plain |-> {"d"}, gone |-> {}]
    @@ "home" :> [order |-> <<"k", "l", "m", "n", "o", "p">>,
               room |-> "k" :> "kitchen" @@ "l" :> "kitchen" @@ "m" :> "kitchen" @@ "n" :> "kitchen"
                        @@ "o" :> "bath" @@ "p" :> "bath",
               sharp |-> "k" :> 4 @@ "l" :> 7 @@ "m" :> 4 @@ "n" :> 5 @@ "o" :> 5 @@ "p" :> 3,
               nears |-> {{"k", "l"}, {"k", "m"}}, plain |-> {"p"}, gone |-> {"n"}]
=============================================================================
