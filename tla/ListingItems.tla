---------------------------- MODULE ListingItems ----------------------------
(***************************************************************************)
(* The photographs of one listing, their order and their rooms              *)
(* (api/v1/listings.py).  Every request reads the rows, works, and writes   *)
(* back the columns it changed from what it had read: requests that overlap *)
(* interleave between the two.                                              *)
(***************************************************************************)
EXTENDS Integers, Sequences, FiniteSets, SequencesExt

CONSTANTS
    Assets,             \* photographs that can be listed
    RoomOrder,          \* room -> its place in the walk-through; "" is last
    Sees,               \* asset -> [room, score] its embedding classifies to, if it has one
    FileOrder,          \* asset -> place of its file name (of two alike, as they are read)
    Hands,              \* requests under way at a time
    ItemIncidents       \* bound: requests made

ASSUME ItemsAssumption ==
    /\ IsFiniteSet(Assets) /\ ItemIncidents \in Nat
    /\ RoomOrder \in [DOMAIN RoomOrder -> Nat] /\ "" \in DOMAIN RoomOrder
    /\ DOMAIN Sees \subseteq Assets
    /\ \A a \in DOMAIN Sees : Sees[a].room \in DOMAIN RoomOrder /\ Sees[a].score \in Nat
    /\ FileOrder \in [Assets -> Nat] /\ IsInjective(FileOrder)

VARIABLES
    listing,        \* "absent", "there" or "deleted"
    items,          \* the rows: asset -> [pos, room, source, score]
    hand,           \* request -> where it is and what it read
    lapped,         \* history: two requests were under way at once
    itemBudget      \* requests left

itemVars == <<listing, items, hand, lapped, itemBudget>>

IdleHand == [pc |-> "idle", op |-> "none", seen |-> << >>, target |-> << >>, arrange |-> FALSE]

ItemsInit ==
    /\ listing = "absent" /\ items = << >>
    /\ hand = [h \in Hands |-> IdleHand] /\ lapped = FALSE /\ itemBudget = ItemIncidents

ItemsTypeOK ==
    /\ listing \in {"absent", "there", "deleted"}
    /\ listing # "there" => items = << >>
    /\ DOMAIN items \subseteq Assets
    /\ \A a \in DOMAIN items : /\ items[a].pos \in Nat
                               /\ items[a].room \in DOMAIN RoomOrder
                               /\ items[a].source \in {"suggested", "confirmed"}
    /\ itemBudget \in 0..ItemIncidents

Listed == DOMAIN items
PlaceIn(s, x) == CHOOSE i \in DOMAIN s : s[i] = x
Row(p) == [pos |-> p, room |-> "", source |-> "suggested", score |-> 0]
Requested(h) ==
    /\ hand[h].pc = "idle" /\ itemBudget > 0
    /\ itemBudget' = itemBudget - 1
    /\ lapped' = (lapped \/ \E g \in Hands \ {h} : hand[g].pc # "idle")
Take(h, op, target) ==
    hand' = [hand EXCEPT ![h].pc = "write", ![h].op = op, ![h].seen = items, ![h].target = target]

-----------------------------------------------------------------------------
(* _add_assets: what is listed and the tail are read; the rows that are     *)
(* missing follow the tail in the order asked for.  A row that another      *)
(* request inserted meanwhile breaks the unique constraint: nothing is.     *)
(* Bound: two photographs are asked for at most.                            *)
UpTo(wanted, a) == {b \in ToSet(wanted) \ Listed : PlaceIn(wanted, b) <= PlaceIn(wanted, a)}
AddAt(h, tail) ==
    \E wanted \in {s \in TupleOf(Assets, 1) \cup TupleOf(Assets, 2) : IsInjective(s)} :
        Take(h, "add", [a \in ToSet(wanted) \ Listed |-> Row(tail + Cardinality(UpTo(wanted, a)))])

LastPos == Max({-1} \cup {items[a].pos : a \in Listed})

(* Defect: the tail is the number of rows. *)
AddAfterCount(h) ==
    /\ listing = "there" /\ Requested(h)
    /\ AddAt(h, Cardinality(Listed) - 1)
    /\ UNCHANGED <<listing, items>>

Add(h) ==
    /\ listing = "there" /\ Requested(h)
    /\ AddAt(h, LastPos)
    /\ UNCHANGED <<listing, items>>

(* create_listing: the row is committed with the first photographs, which   *)
(* are classified and put in walk-through order before the answer.          *)
Create(h) ==
    /\ listing = "absent" /\ Requested(h)
    /\ \A g \in Hands : hand[g].pc = "idle"
    /\ AddAt(h, LastPos)
    /\ UNCHANGED <<listing, items>>

CommitAdd(h) ==
    /\ hand[h].pc = "write" /\ hand[h].op = "add"
    /\ IF listing = "deleted" \/ DOMAIN hand[h].target \cap Listed # {}
       THEN /\ hand' = [hand EXCEPT ![h] = IdleHand] /\ UNCHANGED <<listing, items>>
       ELSE /\ items' = [a \in Listed \cup DOMAIN hand[h].target |->
                           IF a \in Listed THEN items[a] ELSE hand[h].target[a]]
            /\ listing' = "there"
            /\ hand' = [hand EXCEPT ![h] = [IdleHand EXCEPT !.pc = "classify",
                                                           !.arrange = (listing = "absent")]]
    /\ UNCHANGED <<lapped, itemBudget>>

-----------------------------------------------------------------------------
Suggested(rows) ==
    [a \in Listed |-> IF a \in rows \cap DOMAIN Sees
                      THEN [items[a] EXCEPT !.room = Sees[a].room, !.score = Sees[a].score,
                                            !.source = "suggested"]
                      ELSE items[a]]

(* Defect: the operator's rooms are read too. *)
ClassifyAll(h) ==
    /\ hand[h].pc = "classify"
    /\ Take(h, "classify", Suggested(Listed))
    /\ UNCHANGED <<listing, items, lapped, itemBudget>>

(* _classify_items: the rows nobody confirmed, from their embeddings. *)
Classify(h) ==
    /\ hand[h].pc = "classify"
    /\ Take(h, "classify", Suggested({a \in Listed : items[a].source # "confirmed"}))
    /\ UNCHANGED <<listing, items, lapped, itemBudget>>

(* The CLIP runtime is not installed: rows stay as they are. *)
ClassifyUnavailable(h) ==
    /\ hand[h].pc = "classify"
    /\ hand' = [hand EXCEPT ![h] = IF @.arrange THEN [@ EXCEPT !.pc = "arrange"] ELSE IdleHand]
    /\ UNCHANGED <<listing, items, lapped, itemBudget>>

Reclassify(h) ==
    /\ listing = "there" /\ Requested(h)
    /\ hand' = [hand EXCEPT ![h].pc = "classify"]
    /\ UNCHANGED <<listing, items>>

(* canonical_sort_key, then the file name. *)
Before(a, b) ==
    LET ra == RoomOrder[items[a].room]
        rb == RoomOrder[items[b].room]
    IN  \/ ra < rb
        \/ ra = rb /\ items[a].score > items[b].score
        \/ ra = rb /\ items[a].score = items[b].score /\ FileOrder[a] < FileOrder[b]

WalkThrough ==
    [a \in Listed |-> [items[a] EXCEPT !.pos = Cardinality({b \in Listed : Before(b, a)})]]

Arrange(h) ==
    /\ listing = "there" /\ Requested(h)
    /\ Take(h, "arrange", WalkThrough)
    /\ UNCHANGED <<listing, items>>

ArrangeNew(h) ==
    /\ hand[h].pc = "arrange"
    /\ Take(h, "arrange", WalkThrough)
    /\ UNCHANGED <<listing, items, lapped, itemBudget>>

Orders(rows) ==
    {s \in TupleOf(rows, Cardinality(rows)) : \A a \in rows : \E i \in DOMAIN s : s[i] = a}

(* reorder: the named ones first, in the order given; the rest by position  *)
(* (rows that share one come back in either order).                         *)
Reorder(h) ==
    /\ listing = "there" /\ Requested(h)
    /\ \E order \in Orders(Listed), n \in 1..2 :
          /\ n <= Cardinality(Listed)
          /\ \A i, j \in n + 1 .. Cardinality(Listed) : i < j => items[order[i]].pos <= items[order[j]].pos
          /\ Take(h, "reorder", [a \in Listed |-> [items[a] EXCEPT !.pos = PlaceIn(order, a) - 1]])
    /\ UNCHANGED <<listing, items>>

(* set_room: the operator's word. *)
SetRoom(h) ==
    /\ listing = "there" /\ Requested(h)
    /\ \E a \in Listed, room \in DOMAIN RoomOrder :
          Take(h, "room", [items EXCEPT ![a].room = room, ![a].source = "confirmed",
                                        ![a].score = 0])
    /\ UNCHANGED <<listing, items>>

-----------------------------------------------------------------------------
Newer(was, is, now) == IF is # was THEN is ELSE now
Changed(h) == {a \in DOMAIN hand[h].seen : hand[h].target[a] # hand[h].seen[a]}

(* A request's commit writes each column it changed and leaves the others   *)
(* as another request may have written them; a row that is gone fails it.   *)
Commit(h) ==
    /\ hand[h].pc = "write" /\ hand[h].op # "add"
    /\ LET written(a) ==
               [pos |-> Newer(hand[h].seen[a].pos, hand[h].target[a].pos, items[a].pos),
                room |-> Newer(hand[h].seen[a].room, hand[h].target[a].room, items[a].room),
                source |-> Newer(hand[h].seen[a].source, hand[h].target[a].source, items[a].source),
                score |-> Newer(hand[h].seen[a].score, hand[h].target[a].score, items[a].score)]
       IN  IF Changed(h) \subseteq Listed
           THEN /\ items' = [a \in Listed |-> IF a \in Changed(h) THEN written(a) ELSE items[a]]
                /\ hand' = [hand EXCEPT ![h] = IF @.op = "classify" /\ @.arrange
                                               THEN [IdleHand EXCEPT !.pc = "arrange"] ELSE IdleHand]
           ELSE UNCHANGED items /\ hand' = [hand EXCEPT ![h] = IdleHand]
    /\ UNCHANGED <<listing, lapped, itemBudget>>

(* remove_item: one statement; the others keep their positions. *)
RemoveItem(h) ==
    /\ listing = "there" /\ Requested(h)
    /\ \E a \in Listed : items' = [b \in Listed \ {a} |-> items[b]]
    /\ UNCHANGED <<listing, hand>>

(* Defect: the rows outlive the listing. *)
DeleteRowOnly(h) ==
    /\ listing = "there" /\ Requested(h)
    /\ listing' = "deleted"
    /\ UNCHANGED <<items, hand>>

Delete(h) ==
    /\ listing = "there" /\ Requested(h)
    /\ listing' = "deleted" /\ items' = << >>
    /\ UNCHANGED hand

ItemsNext ==
    \E h \in Hands :
        \/ Create(h) \/ Add(h) \/ CommitAdd(h)
        \/ Classify(h) \/ ClassifyUnavailable(h) \/ Reclassify(h)
        \/ Arrange(h) \/ ArrangeNew(h) \/ Reorder(h) \/ SetRoom(h) \/ Commit(h)
        \/ RemoveItem(h) \/ Delete(h)

ItemsSpec == ItemsInit /\ [][ItemsNext]_itemVars

-----------------------------------------------------------------------------
(* Whatever is added, removed and moved, no two photographs share a place   *)
(* in the gallery, as long as no two requests overlapped.                   *)
PositionsApart ==
    ~lapped => \A a, b \in Listed : items[a].pos = items[b].pos => a = b

(* A room the operator confirmed changes only by set_room, or by a          *)
(* classification that had read the row before it was confirmed.            *)
ConfirmedRoomHeld ==
    [][\A a \in Listed \cap DOMAIN items' :
          items[a].source = "confirmed" /\ items'[a].room # items[a].room =>
             \E h \in Hands : /\ hand[h].pc = "write"
                              /\ \/ hand[h].op = "room"
                                 \/ /\ hand[h].op = "classify" /\ a \in DOMAIN hand[h].seen
                                    /\ hand[h].seen[a].source # "confirmed"
      ]_itemVars

(* "Re-suggest labels for everything not operator-confirmed": a room that   *)
(* is marked confirmed is one the operator chose.                           *)
OnlyTheOperatorConfirms ==
    [][\A a \in Listed \cap DOMAIN items' :
          items[a].source = "confirmed" /\ items'[a].room # items[a].room =>
             \E h \in Hands : hand[h].pc = "write" /\ hand[h].op = "room"]_itemVars

=============================================================================
