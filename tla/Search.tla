-------------------------------- MODULE Search --------------------------------
(***************************************************************************)
(* One search of the catalogue (api/v1/search.py, search/ranking.py) and    *)
(* the Premiere panel's (api/v1/panel.py): several queries one after        *)
(* another, each of the catalogue as it then is, and their lists fused.     *)
(* What text, tags and CLIP match is given, as ranked lists; the index is   *)
(* exact.                                                                   *)
(***************************************************************************)
EXTENDS Integers, Sequences, FiniteSets, FiniteSetsExt, SequencesExt, Sublists, TLC

CONSTANTS
    Footage,            \* assets, by key
    NearestFrames,      \* <<asset, ms>>, nearest to the query first
    Segments,           \* [id, asset, whole]: said, best first; whole: every word of the query
    Named,              \* assets whose name or folder holds the query, in order
    Tagged,             \* assets with a tag that matches, in order
    Verdict,            \* asset -> "tag", "suggested_tag" or "rejected", at first
    Weight,             \* FUSION_WEIGHTS, in tenths
    RankConstant,       \* RRF_K
    Hits,               \* the limit of a search
    NeighbourFrames, WidestWindow, \* NEIGHBOUR_FRAMES, MAX_FRAME_WINDOW
    Panels, Pages,      \* searches under way at a time, of the panel and of everybody else
    SearchIncidents     \* bound: searches, and changes of the catalogue

ASSUME SearchAssumption ==
    /\ Hits \in Nat \ {0} /\ NeighbourFrames \in Nat \ {0} /\ WidestWindow \in Nat
    /\ ToSet(Footage) = DOMAIN Verdict /\ SearchIncidents \in Nat
    /\ Footage \in Seq(ToSet(Footage)) /\ "none" \notin ToSet(Footage)
    /\ Named \in Seq(ToSet(Footage)) /\ Tagged \in Seq(ToSet(Footage))
    /\ NearestFrames \in Seq(ToSet(Footage) \X Nat)
    /\ Segments \in Seq([id : Nat, asset : ToSet(Footage), whole : BOOLEAN])

VARIABLES
    online,             \* assets whose availability is online
    indexed,            \* frames with an embedding
    verdict,            \* asset -> what the operator has said of its tag
    looking,            \* search -> [at, like: an asset whose likes it is for, the lists so far, results]
    searchBudget

searchVars == <<online, indexed, verdict, looking, searchBudget>>

Searches == Panels \cup Pages
NotLooking == [at |-> "idle", like |-> "none", said |-> << >>, names |-> << >>, window |-> 0, frames |-> << >>,
               tags |-> << >>, results |-> << >>, changed |-> FALSE]

SearchInit ==
    /\ online = ToSet(Footage) /\ indexed = ToSet(NearestFrames) /\ verdict = Verdict
    /\ looking = [s \in Searches |-> NotLooking] /\ searchBudget = SearchIncidents

SearchIncident == searchBudget > 0 /\ searchBudget' = searchBudget - 1

Least(m, n) == IF m < n THEN m ELSE n
Upto(list, n) == SubSeq(list, 1, Least(n, Len(list)))
Onward(s, at, change) == looking' = [looking EXCEPT ![s] = [change EXCEPT !.at = at]]
Still == UNCHANGED <<online, indexed, verdict, searchBudget>>
(* dict.fromkeys: each once, where it came first. *)
Once(list) == Those(list, {i \in DOMAIN list : \A j \in 1..(i - 1) : list[j] # list[i]})

-----------------------------------------------------------------------------
(* The catalogue goes on meanwhile. *)

Changes(catalogue) ==
    /\ SearchIncident /\ catalogue
    /\ looking' = [s \in Searches |-> [looking[s] EXCEPT !.changed = looking[s] # NotLooking]]

GoesOffline(a) == a \in online /\ online' = online \ {a} /\ UNCHANGED <<indexed, verdict>>
ComesBack(a) == a \notin online /\ online' = online \cup {a} /\ UNCHANGED <<indexed, verdict>>
Reframed(f) == indexed' = (indexed \ {f}) \cup ({f} \ indexed) /\ UNCHANGED <<online, verdict>>
Rejects(a) == verdict[a] = "suggested_tag" /\ verdict' = [verdict EXCEPT ![a] = "rejected"]
              /\ UNCHANGED <<online, indexed>>

-----------------------------------------------------------------------------
(* The retrievers *)

Begin(s) ==
    /\ looking[s].at = "idle" /\ SearchIncident
    /\ Onward(s, IF s \in Panels THEN "names" ELSE "words", NotLooking)
    /\ UNCHANGED <<online, indexed, verdict>>

SaidOnline(whole) == Kept(Segments, {g \in ToSet(Segments) : g.whole = whole /\ g.asset \in online})

(* _transcript_search: every word said; where that leaves room ... *)
EveryWord(s) ==
    /\ looking[s].at = "words" /\ Still
    /\ LET rows == Upto(SaidOnline(TRUE), Hits)
       IN  Onward(s, IF Len(rows) < Hits THEN "any word" ELSE "names", [looking[s] EXCEPT !.said = rows])

(* Defect: what fills up is put in front. *)
FillFront(rows, more) == Upto(more, Hits - Len(rows)) \o rows

FillUp(rows, more) == rows \o Upto(more, Hits - Len(rows))

(* ... any word, below it. *)
AnyWord(s) ==
    LET rows == looking[s].said
        more == Kept(SaidOnline(FALSE), {g \in ToSet(Segments) : \A r \in ToSet(rows) : g.id # r.id})
    IN  /\ looking[s].at = "any word" /\ Still
        /\ Onward(s, "names", [looking[s] EXCEPT !.said = FillUp(rows, more)])

(* _name_search, and the panel's, after which it needs no more when it is   *)
(* full.                                                                    *)
Names(s) ==
    LET byName == Upto(Kept(Named, online), Hits)
    IN  /\ looking[s].at = "names" /\ Still
        /\ Onward(s, IF s \in Panels /\ Len(byName) = Hits THEN "load" ELSE "frames",
                  [looking[s] EXCEPT !.names = byName, !.window = Hits * NeighbourFrames])

(* similar_assets: like an asset with an indexed frame, and of any other. *)
BeginAlike(s, a) ==
    /\ looking[s].at = "idle" /\ s \in Pages /\ (\E f \in indexed : f[1] = a) /\ SearchIncident
    /\ Onward(s, "frames", [NotLooking EXCEPT !.like = a, !.window = Hits * NeighbourFrames])
    /\ UNCHANGED <<online, indexed, verdict>>

(* One window of the nearest frames: each asset at its best. *)
Nearby(like) ==
    Kept(NearestFrames, {f \in indexed : IF like = "none" THEN f[1] \in online ELSE f[1] # like})
BestFrames(frames) ==
    Those(frames, {i \in DOMAIN frames : \A j \in 1..(i - 1) : frames[j][1] # frames[i][1]})

(* Defect: one window is enough. *)
FirstWindow(found, seen, window) == TRUE

Enough(found, seen, window) == Len(found) >= Hits \/ seen < window \/ window >= WidestWindow

(* _widen_until_filled: one fetch. *)
Widen(s) ==
    LET window == looking[s].window
        frames == Upto(Nearby(looking[s].like), window)
        found == Upto(BestFrames(frames), Hits)
    IN  /\ looking[s].at = "frames" /\ Still
        /\ IF Enough(found, Len(frames), window)
           THEN Onward(s, IF s \in Panels THEN "load" ELSE IF looking[s].like = "none" THEN "tags" ELSE "idle",
                       [looking[s] EXCEPT !.frames = found])
           ELSE Onward(s, "frames", [looking[s] EXCEPT !.window = Least(4 * window, WidestWindow)])

(* _tag_search: what was rejected is not brought back. *)
Tags(s) ==
    LET carrying(v) == Kept(Tagged, {a \in online : verdict[a] = v})
    IN  /\ looking[s].at = "tags" /\ Still
        /\ Onward(s, "fuse", [looking[s] EXCEPT
              !.tags = Upto([i \in DOMAIN carrying("tag") |-> <<carrying("tag")[i], "tag">>]
                            \o [i \in DOMAIN carrying("suggested_tag") |->
                                  <<carrying("suggested_tag")[i], "suggested_tag">>], Hits)])

-----------------------------------------------------------------------------
(* Fusion *)

(* fuse_results: what each retriever found, each asset once. *)
Lists(s) ==
    LET me == looking[s]
        tags(kind) == LET some == Kept(me.tags, {t \in ToSet(me.tags) : t[2] = kind}) IN [i \in DOMAIN some |-> some[i][1]]
    IN  [tag |-> tags("tag"),
         suggested_tag |-> Kept(tags("suggested_tag"), ToSet(Footage) \ ToSet(tags("tag"))),
         visual |-> [i \in DOMAIN me.frames |-> me.frames[i][1]],
         transcript |-> Once([i \in DOMAIN me.said |-> me.said[i].asset]),
         name |-> me.names]

(* Reasons and ranks: each list an asset is in counts by its place in it.   *)
Reasons(lists, a) == {why \in DOMAIN lists : a \in ToSet(lists[why])}
RankIn(list, a) == CHOOSE i \in DOMAIN list : list[i] = a

Scale == (RankConstant + 1) * (RankConstant + 2) * (RankConstant + 3)

Points(lists, why, a) == (Weight[why] * Scale) \div (RankConstant + RankIn(lists[why], a))

Score(lists, a) == MapThenSumSet(LAMBDA why : Points(lists, why, a), Reasons(lists, a))

(* fuse: best first, then by key. *)
Ranked(lists, above, a) ==
    InsertAt(above, Cardinality({i \in DOMAIN above : Score(lists, above[i]) >= Score(lists, a)}) + 1, a)
Fused(lists) ==
    LET found == Kept(Footage, {a \in ToSet(Footage) : Reasons(lists, a) # {}})
        upto[i \in 0..Len(found)] == IF i = 0 THEN << >> ELSE Ranked(lists, upto[i - 1], found[i])
    IN  upto[Len(found)]

(* An asset's moment is what was said there first, or else its best frame. *)
Moment(me, a) ==
    LET there == Kept(me.said, {g \in ToSet(Segments) : g.asset = a})
    IN  IF there = << >> THEN "frame" ELSE IF Head(there).whole THEN "every word" ELSE "any word"

Fuse(s) ==
    LET lists == Lists(s)
        fused == Upto(Fused(lists), Hits)
    IN  /\ looking[s].at = "fuse" /\ Still
        /\ Onward(s, "idle", [looking[s] EXCEPT !.results =
              [i \in DOMAIN fused |-> [asset |-> fused[i], reasons |-> Reasons(lists, fused[i]),
                                       moment |-> Moment(looking[s], fused[i])]]])

(* Defect: what was found is handed out without a second look. *)
LoadAsFound(s, ordered) == ordered

(* panel_search reads what it found again: still there, or not a result. *)
LoadOnline(s, ordered) == Kept(ordered, online)

(* The panel: the names, then the visual hits, each asset once. *)
Load(s) ==
    LET seen == [i \in DOMAIN looking[s].frames |-> looking[s].frames[i][1]]
        ordered == Upto(LoadOnline(s, Once(looking[s].names \o seen)), Hits)
    IN  /\ looking[s].at = "load" /\ Still
        /\ Onward(s, "idle", [looking[s] EXCEPT !.results =
              [i \in DOMAIN ordered |-> [asset |-> ordered[i], reasons |-> {}, moment |-> "frame"]]])

-----------------------------------------------------------------------------
SearchNext ==
    \/ \E s \in Searches : \/ Begin(s) \/ EveryWord(s) \/ AnyWord(s) \/ Names(s) \/ Widen(s) \/ Tags(s)
                           \/ Fuse(s) \/ Load(s)
    \/ \E s \in Pages, a \in ToSet(Footage) : BeginAlike(s, a)
    \/ \E a \in ToSet(Footage) : Changes(GoesOffline(a)) \/ Changes(ComesBack(a)) \/ Changes(Rejects(a))
    \/ \E f \in ToSet(NearestFrames) : Changes(Reframed(f))

SearchSpec == SearchInit /\ [][SearchNext]_searchVars

-----------------------------------------------------------------------------
SearchTypeOK ==
    /\ online \subseteq ToSet(Footage) /\ indexed \subseteq ToSet(NearestFrames)
    /\ \A s \in Searches : /\ Len(looking[s].results) <= Hits /\ Len(looking[s].said) <= Hits
                           /\ looking[s].window \in 0..(WidestWindow + Hits * NeighbourFrames)
    /\ searchBudget \in 0..SearchIncidents

(* A few clips whose frames sit together do not crowd the others out: the   *)
(* windows end with the nearest assets there are, or at the widest, if the  *)
(* catalogue stayed as it was.                                              *)
VisualIsExact ==
    \A s \in Searches :
       LET me == looking[s]
           widest == Upto(Nearby(me.like), Max({me.window, WidestWindow}))
       IN  me.at \in {"tags", "load", "idle"} /\ me.frames # << >> /\ ~me.changed =>
              me.frames = Upto(BestFrames(widest), Hits)

(* What fills the transcript hits up ranks "below every precise hit": an    *)
(* asset opens where some word was said only if every word was said nowhere *)
(* in it, if the catalogue stayed as it was.                                *)
MomentIsPrecise ==
    \A s \in Searches : looking[s].at = "idle" /\ ~looking[s].changed => \A r \in ToSet(looking[s].results) :
       r.moment = "any word" => ~\E g \in ToSet(SaidOnline(TRUE)) : g.asset = r.asset

(* "A file the share no longer has is not a result": a panel is answered    *)
(* with what is there when it is answered, and a search with what was there *)
(* all the while.                                                           *)
FoundIsThere ==
    [][\A s \in Searches : looking[s].at # "idle" /\ looking'[s].at = "idle"
                             /\ (s \in Panels \/ ~looking[s].changed) =>
          {r.asset : r \in ToSet(looking'[s].results)} \subseteq online]_searchVars

=============================================================================
