-------------------------------- MODULE Curate --------------------------------
(***************************************************************************)
(* Which photographs a listing can afford to lose (media/curate.py and      *)
(* listings.py, curate): read, measured one by one while the listing goes   *)
(* on, and answered with near-duplicates and soft frames the operator then  *)
(* removes, or not.                                                         *)
(***************************************************************************)
EXTENDS Integers, Sequences, FiniteSets, SequencesExt

CONSTANTS
    Shoots,             \* listing -> [order: its photographs, room, sharp: of each,
                        \*   nears: {c, d} of one subject, plain: without an embedding, gone: unreadable]
    Softness,           \* SOFTNESS_RATIO, in hundredths
    Editors,
    CurateIncidents     \* bound: requests, and removals of the operator's own

ASSUME CurateAssumption == Softness \in 0..100 /\ CurateIncidents \in Nat

VARIABLES
    listed,             \* listing -> the photographs still in it
    desk,               \* editor -> [at, l, rows, answer, fresh]
    curateBudget

curateVars == <<listed, desk, curateBudget>>

Clear == [at |-> "idle", l |-> "none", rows |-> << >>, answer |-> << >>, fresh |-> FALSE]

CurateInit ==
    /\ listed = [l \in DOMAIN Shoots |-> ToSet(Shoots[l].order)]
    /\ desk = [e \in Editors |-> Clear] /\ curateBudget = CurateIncidents

CurateIncident == curateBudget > 0 /\ curateBudget' = curateBudget - 1

-----------------------------------------------------------------------------
(* group_duplicates *)

(* Defect: only the one photograph of a pair changes its group. *)
JoinOne(root, a, b) == [root EXCEPT ![a] = root[b]]

Join(root, a, b) == [x \in DOMAIN root |-> IF root[x] = root[a] THEN root[b] ELSE root[x]]

Pairs(ids) ==
    FlattenSeq([i \in DOMAIN ids |-> [j \in 1..(Len(ids) - i) |-> <<ids[i], ids[i + j]>>]])

(* In order of their first members. *)
Groups(shoot, ids) ==
    LET near == SelectSeq(Pairs(ids), LAMBDA p : {p[1], p[2]} \in shoot.nears)
        root == FoldLeft(LAMBDA r, p : Join(r, p[1], p[2]), [x \in ToSet(ids) |-> x], near)
        of(x) == SelectSeq(ids, LAMBDA y : root[y] = root[x])
        firsts == SelectSeq(ids, LAMBDA x : x = Head(of(x)) /\ Len(of(x)) > 1)
    IN  [i \in DOMAIN firsts |-> of(firsts[i])]

-----------------------------------------------------------------------------
(* suggest_removals *)

Offer(x, reason, keep) == [photo |-> x, reason |-> reason, keep |-> keep]
OfferedIn(answer) == {o.photo : o \in ToSet(answer)}
LeftIn(shoot, rows, answer, room) == {x \in ToSet(rows) \ OfferedIn(answer) : shoot.room[x] = room}

(* Defect: what is already suggested is not counted. *)
SpareAtFirst(shoot, rows, answer, x) == Cardinality(LeftIn(shoot, rows, << >>, shoot.room[x])) > 1

RoomCanSpare(shoot, rows, answer, x) == Cardinality(LeftIn(shoot, rows, answer, shoot.room[x])) > 1

(* A group keeps its sharpest. *)
Duplicates(shoot, rows, answer, group) ==
    LET keep == CHOOSE x \in ToSet(group) :
                   \A i \in DOMAIN group : \/ shoot.sharp[x] > shoot.sharp[group[i]]
                                           \/ shoot.sharp[x] = shoot.sharp[group[i]]
                                              /\ \E j \in 1..i : group[j] = x
    IN  FoldLeft(LAMBDA ans, x : IF x # keep /\ RoomCanSpare(shoot, rows, ans, x)
                                 THEN Append(ans, Offer(x, "near-duplicate", keep)) ELSE ans, answer, group)

(* sorted(...)[len // 2] *)
Median(shoot, rows) ==
    LET n == Len(rows)
        sharp(i) == shoot.sharp[rows[i]]
    IN  CHOOSE m \in {sharp(i) : i \in DOMAIN rows} :
           /\ Cardinality({i \in DOMAIN rows : sharp(i) < m}) <= n \div 2
           /\ Cardinality({i \in DOMAIN rows : sharp(i) <= m}) > n \div 2

SoftOnes(shoot, rows, answer) ==
    FoldLeft(LAMBDA ans, x : IF /\ x \notin OfferedIn(ans)
                                /\ 100 * shoot.sharp[x] < Softness * Median(shoot, rows)
                                /\ RoomCanSpare(shoot, rows, ans, x)
                             THEN Append(ans, Offer(x, "soft", x)) ELSE ans, answer, rows)

(* MAX_SUGGEST_FRACTION of the listing, and one at least. *)
MostOffered(rows) == IF Len(rows) < 5 THEN 1 ELSE (2 * Len(rows)) \div 5

Removals(shoot, rows) ==
    LET ids == SelectSeq(rows, LAMBDA x : x \notin shoot.plain)
        doubles == FoldLeft(LAMBDA ans, g : Duplicates(shoot, rows, ans, g), << >>, Groups(shoot, ids))
        all == SoftOnes(shoot, rows, doubles)
    IN  SubSeq(all, 1, IF Len(all) < MostOffered(rows) THEN Len(all) ELSE MostOffered(rows))

-----------------------------------------------------------------------------
(* The request reads the listing's rows ... *)
CurateReads(e, l) ==
    /\ desk[e].at = "idle" /\ CurateIncident
    /\ desk' = [desk EXCEPT ![e] = [at |-> "measuring", l |-> l, answer |-> << >>, fresh |-> TRUE,
           rows |-> SelectSeq(Shoots[l].order, LAMBDA x : x \in listed[l])]]
    /\ UNCHANGED listed

(* ... measures what it can read, and answers. *)
CurateAnswers(e) ==
    LET shoot == Shoots[desk[e].l]
        rows == SelectSeq(desk[e].rows, LAMBDA x : x \notin shoot.gone)
    IN  /\ desk[e].at = "measuring" /\ UNCHANGED <<listed, curateBudget>>
        /\ desk' = [desk EXCEPT ![e].at = "idle", ![e].answer = Removals(shoot, rows)]

(* The operator takes a photograph out; another's answer is older than that.*)
TakeOut(e, l, x) ==
    /\ x \in listed[l] /\ listed' = [listed EXCEPT ![l] = @ \ {x}]
    /\ desk' = [d \in Editors |-> IF desk[d].l = l /\ ~(d = e /\ x \in OfferedIn(desk[d].answer))
                                  THEN [desk[d] EXCEPT !.fresh = FALSE] ELSE desk[d]]

FollowAnswer(e) ==
    /\ desk[e].at = "idle" /\ desk[e].l # "none" /\ UNCHANGED curateBudget
    /\ \E x \in OfferedIn(desk[e].answer) : TakeOut(e, desk[e].l, x)

OwnChoice(e, l, x) == desk[e].at = "idle" /\ CurateIncident /\ TakeOut(e, l, x)

CurateNext ==
    \E e \in Editors :
       \/ CurateAnswers(e) \/ FollowAnswer(e)
       \/ \E l \in DOMAIN Shoots : CurateReads(e, l) \/ \E x \in listed[l] : OwnChoice(e, l, x)

CurateSpec == CurateInit /\ [][CurateNext]_curateVars

-----------------------------------------------------------------------------
CurateTypeOK ==
    /\ \A l \in DOMAIN Shoots : listed[l] \subseteq ToSet(Shoots[l].order)
    /\ \A e \in Editors : /\ desk[e].at \in {"idle", "measuring"} /\ desk[e].fresh \in BOOLEAN
                          /\ OfferedIn(desk[e].answer) \subseteq ToSet(desk[e].rows)
    /\ curateBudget \in 0..CurateIncidents

(* "A room never loses its last photograph": whatever of an answer the      *)
(* operator follows, in whatever order, if nothing else was taken out since *)
(* it was asked for.                                                        *)
RoomsStay ==
    [][\A e \in Editors, l \in DOMAIN Shoots :
          /\ desk[e].l = l /\ desk[e].fresh /\ desk'[e].fresh /\ listed'[l] # listed[l] =>
             \A x \in listed[l] \ listed'[l] :
                \E y \in listed'[l] : Shoots[l].room[y] = Shoots[l].room[x]]_curateVars

(* Near-duplicates, through however many others they are so, are offered    *)
(* up but for the sharpest: two that are left are of rooms one of which     *)
(* could spare no more, or the answer is as long as it may be.              *)
NearOnesGo ==
    \A e \in Editors : desk[e].at = "idle" /\ desk[e].l # "none" =>
       LET shoot == Shoots[desk[e].l]
           rows == SelectSeq(desk[e].rows, LAMBDA x : x \notin shoot.gone)
           left == ToSet(rows) \ OfferedIn(desk[e].answer)
       IN  Len(desk[e].answer) < MostOffered(rows) =>
              \A x, y \in left \ shoot.plain : {x, y} \in shoot.nears =>
                 \E z \in {x, y} : {w \in left : shoot.room[w] = shoot.room[z]} = {z}

=============================================================================
