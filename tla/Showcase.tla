------------------------------- MODULE Showcase -------------------------------
(***************************************************************************)
(* Choosing a company's best photographs, place by place (media/showcase.py, *)
(* api/v1/showcase.py): candidates are put in places by folder and by GPS,  *)
(* each place offers its best distinct views, and what the operator keeps   *)
(* is saved to listings, batch after batch, numbered on from one another.   *)
(* Scores are given: how CLIP and the pixels make them is left out.         *)
(***************************************************************************)
EXTENDS Integers, Sequences, FiniteSets, SequencesExt, TLC

CONSTANTS
    Candidates,         \* photographs, and frames of videos
    NewCandidates,      \* those not catalogued at first
    AssetOf,            \* candidate -> the photograph or the video it is of
    FolderOf,           \* candidate -> top-level folder
    FolderOrder,        \* the folders' keys, sorted
    Collections,        \* folders of copies from many places
    FixOf,              \* candidate -> its GPS, a point of a line, or NoFix
    NoFix, AlongTheLine, \* the candidates that have one, by GPS
    SamePlace,          \* SAME_PLACE_KM
    GroundViews,        \* candidates not taken by a drone
    BestFirst,          \* the candidates by score
    Good,               \* those that clear OPTION_FLOOR
    Nears,              \* {c, d}: near-duplicates
    Admitted,           \* kind of search -> the candidates it may offer
    Places, Alternates, \* how many places, and options in each, a search asks for
    ShortlistLength,
    Limits,             \* sets of folders a search is limited to
    Batches,            \* listings
    Browsers,
    ShowIncidents       \* bound: searches and saves

ASSUME ShowcaseAssumption ==
    /\ FixOf \in [Candidates -> Int] /\ ToSet(BestFirst) = Candidates
    /\ ToSet(AlongTheLine) = {c \in Candidates : FixOf[c] # NoFix}
    /\ DOMAIN AssetOf = Candidates /\ DOMAIN FolderOf = Candidates
    /\ Places \in Nat \ {0} /\ Alternates \in Nat \ {0} /\ ShowIncidents \in Nat
    /\ \A i \in 2..Len(AlongTheLine) : FixOf[AlongTheLine[i - 1]] <= FixOf[AlongTheLine[i]]

VARIABLES
    embeddings,         \* candidates with an embedding
    browser,            \* browser -> its response and its save under way
    batch,              \* listing -> its items, in order of position
    overlapped,         \* history: two saves into one listing at a time
    showBudget

showVars == <<embeddings, browser, batch, overlapped, showBudget>>

Nowhere == "nowhere"
Company == "company"
NothingShown == [at |-> "browsing", kind |-> "none", offers |-> << >>, shown |-> {},
                 pool |-> {}, where |-> << >>, keep |-> << >>, into |-> "none", known |-> << >>, earlier |-> {}]

ShowcaseInit ==
    /\ embeddings = Candidates \ NewCandidates /\ browser = [b \in Browsers |-> NothingShown]
    /\ batch = << >> /\ overlapped = FALSE /\ showBudget = ShowIncidents

ShowIncident == showBudget > 0 /\ showBudget' = showBudget - 1

-----------------------------------------------------------------------------
(* Places (assign_places) *)

Apart(x, y) == IF x > y THEN x - y ELSE y - x

(* The median of the GPS of a folder's own photographs. *)
CentreOf(f) ==
    LET own == SelectSeq(AlongTheLine, LAMBDA c : c \in embeddings /\ FolderOf[c] = f)
    IN  (FixOf[own[(Len(own) + 1) \div 2]] + FixOf[own[Len(own) \div 2 + 1]]) \div 2

Centred == {f \in ToSet(FolderOrder) \ Collections :
               \E c \in embeddings : FolderOf[c] = f /\ FixOf[c] # NoFix}

(* Defect: a folder close to a merged one is merged into that one. *)
MergeNeighbours(alias, centre, f, g) ==
    IF g \notin DOMAIN alias /\ Apart(centre[f], centre[g]) < SamePlace
    THEN (g :> f) @@ alias ELSE alias

(* A later folder close to an earlier one goes where that one went. *)
MergeFolders(alias, centre, f, g) ==
    IF g \notin DOMAIN alias /\ Apart(centre[f], centre[g]) < SamePlace
    THEN (g :> IF f \in DOMAIN alias THEN alias[f] ELSE f) @@ alias ELSE alias

Merged(centre) ==
    LET ordered == SelectSeq(FolderOrder, LAMBDA f : f \in DOMAIN centre)
        later(i) == [j \in 1..(Len(ordered) - i) |-> <<ordered[i], ordered[i + j]>>]
        pairs == FlattenSeq([i \in DOMAIN ordered |-> later(i)])
    IN  FoldLeft(LAMBDA a, p : MergeFolders(a, centre, p[1], p[2]), << >>, pairs)

(* A candidate's GPS says where it was taken, or else its folder. *)
PlacesNow ==
    LET centre == [f \in Centred |-> CentreOf(f)]
        alias == Merged(centre)
        canonical(f) == IF f \in DOMAIN alias THEN alias[f] ELSE f
        close(c) == {f \in DOMAIN centre : FixOf[c] # NoFix /\ Apart(FixOf[c], centre[f]) < SamePlace}
        nearest(c) == CHOOSE f \in close(c) : \A g \in close(c) :
                         Apart(FixOf[c], centre[f]) <= Apart(FixOf[c], centre[g])
    IN  [c \in embeddings |-> IF close(c) # {} THEN canonical(nearest(c))
                               ELSE IF FolderOf[c] \in Collections THEN Nowhere ELSE canonical(FolderOf[c])]

-----------------------------------------------------------------------------
(* The search (rank) *)

NearAny(c, offered) == \E d \in offered : c = d \/ {c, d} \in Nears

(* Where a search has them: everyone at the company, or in the places asked *)
(* for and what their folders were merged into.                             *)
Placed(kind, only) ==
    LET places == PlacesNow
        wanted == only \cup {places[c] : c \in {d \in embeddings : FolderOf[d] \in only}}
    IN  IF kind = "group" THEN [c \in embeddings |-> Company]
        ELSE [c \in embeddings |-> IF only # {} /\ places[c] \notin wanted THEN Nowhere ELSE places[c]]

(* Each place's candidates, best first; places, best first. *)
Shortlists(kind, where, shown) ==
    LET eligible == {c \in DOMAIN where \ shown : c \in Admitted[kind] /\ where[c] # Nowhere}
        best == SelectSeq(BestFirst, LAMBDA c : c \in eligible)
        in(p) == SelectSeq(best, LAMBDA c : where[c] = p)
        cut(list) == SubSeq(list, 1, IF Len(list) < ShortlistLength THEN Len(list) ELSE ShortlistLength)
        order == SelectSeq(best, LAMBDA c : c = Head(in(where[c])))
    IN  [i \in DOMAIN order |-> cut(in(where[order[i]]))]

(* One option after another: good enough after the first, unlike what was   *)
(* offered, and no second frame of a video.                                 *)
Consider(st, c) ==
    IF st.full \/ (st.picks # << >> /\ c \notin Good) THEN [st EXCEPT !.full = TRUE]
    ELSE IF NearAny(c, st.offered) \/ AssetOf[c] \in st.assets THEN st
    ELSE [picks |-> Append(st.picks, c), offered |-> st.offered \cup {c},
          assets |-> st.assets \cup {AssetOf[c]}, full |-> Len(st.picks) + 1 = Alternates]

(* Defect: the ground view is not compared with what was offered. *)
AnyGround(picks, offered, list) ==
    LET whole == Len(picks) = Alternates
        ground == SelectSeq(list, LAMBDA c : c \in GroundViews \cap Good)
    IN  IF ground # << >> THEN (IF whole THEN Front(picks) ELSE picks) \o <<Head(ground)>> ELSE picks

(* Defect: a ground view is looked for among the leaders only. *)
GroundInFront(picks, offered, list) ==
    LET still == offered \ {Last(picks)}
        ground == SelectSeq(SubSeq(list, 1, Len(picks)),
                            LAMBDA c : c \in GroundViews \cap Good /\ ~NearAny(c, still))
    IN  IF ground # << >> THEN Front(picks) \o <<Head(ground)>> ELSE picks

(* Where only drone views made it, the best ground view that clears the     *)
(* floor takes the last place.                                              *)
MixGround(picks, offered, list) ==
    LET whole == Len(picks) = Alternates
        still == IF whole THEN offered \ {Last(picks)} ELSE offered
        ground == SelectSeq(list, LAMBDA c : /\ c \in GroundViews \cap Good
                                             /\ ~NearAny(c, still))
    IN  IF ground # << >> THEN (IF whole THEN Front(picks) ELSE picks) \o <<Head(ground)>> ELSE picks

OfferPlace(st, list, kind) ==
    LET chosen == FoldLeft(Consider, [picks |-> << >>, offered |-> st.offered, assets |-> st.assets,
                                      full |-> FALSE], list)
        mixed == /\ kind = "finished" /\ Alternates >= 3 /\ chosen.picks # << >>
                 /\ ToSet(chosen.picks) \cap GroundViews = {}
        picks == IF mixed THEN MixGround(chosen.picks, chosen.offered, list) ELSE chosen.picks
    IN  IF Len(st.results) = Places THEN st
        ELSE [results |-> IF picks = << >> THEN st.results ELSE Append(st.results, picks),
              offered |-> (chosen.offered \ ToSet(chosen.picks)) \cup ToSet(picks),
              assets |-> chosen.assets]

Rank(kind, lists, shown) ==
    FoldLeft(LAMBDA st, list : OfferPlace(st, list, kind),
             [results |-> << >>, offered |-> shown \cap embeddings, assets |-> {}],
             lists).results

Items(listings) == UNION {ToSet(batch[l]) : l \in listings}

Embed(c) == c \notin embeddings /\ embeddings' = embeddings \cup {c}
            /\ UNCHANGED <<browser, batch, overlapped, showBudget>>

(* search_showcase, leaving out what some listings hold. *)
Search(b, kind, only, without) ==
    /\ browser[b].at = "browsing" /\ embeddings # {} /\ ShowIncident
    /\ \E shown \in {{i.key : i \in Items(without)}}, where \in {Placed(kind, only)} :
       \E lists \in {Shortlists(kind, where, shown)} :
          browser' = [browser EXCEPT ![b] = [NothingShown EXCEPT
              !.kind = kind, !.offers = Rank(kind, lists, shown), !.shown = shown,
              !.pool = UNION {ToSet(list) : list \in ToSet(lists)}, !.where = where]]
    /\ UNCHANGED <<embeddings, batch, overlapped>>

OffersOf(b) == UNION {ToSet(browser[b].offers[i]) : i \in DOMAIN browser[b].offers}

-----------------------------------------------------------------------------
(* The save (create_showcase_listing) *)

(* What some picks kept are saved to, and what they are numbered on from:   *)
(* both are read first.                                                     *)
SaveReads(b, picks, into, from) ==
    /\ browser[b].at = "browsing" /\ picks # {} /\ ShowIncident
    /\ browser' = [browser EXCEPT ![b] = [@ EXCEPT
          !.at = "saving", !.into = into,
          !.keep = SelectSeq(FlattenSeq(browser[b].offers), LAMBDA c : c \in picks),
          !.known = IF into \in DOMAIN batch THEN batch[into] ELSE << >>,
          !.earlier = Items(from)]]
    /\ overlapped' = (overlapped \/ \E c \in Browsers : browser[c].at = "saving" /\ browser[c].into = into)
    /\ UNCHANGED <<embeddings, batch>>

(* stem_head: where a pick was offered, and whether a crew is what it shows. *)
HeadOf(b, c) == <<browser[b].where[c], IF browser[b].kind = "crew" THEN "crew" ELSE "">>

Highest(S) == IF S = {} THEN 0 ELSE CHOOSE n \in S : \A m \in S : m <= n

(* Defect: numbers start after the listing's own only. *)
OwnNumbers(held, earlier, head) == {i.number : i \in {j \in ToSet(held) : j.head = head}}

NumbersUsed(held, earlier, head) ==
    {i.number : i \in {j \in ToSet(held) \cup earlier : j.head = head}}

Added(held, b, c) ==
    IF \E i \in ToSet(held) : i.asset = AssetOf[c] THEN held
    ELSE Append(held, [key |-> c, asset |-> AssetOf[c], head |-> HeadOf(b, c),
                        number |-> Highest(NumbersUsed(held, browser[b].earlier, HeadOf(b, c))) + 1,
                        pos |-> Highest({i.pos + 1 : i \in ToSet(held)})])

(* One commit; an asset that another save has put there meanwhile fails it  *)
(* (uq_listing_items_listing_asset).                                        *)
SaveCommits(b) ==
    LET me == browser[b]
        saved == FoldLeft(LAMBDA held, c : Added(held, b, c), me.known, me.keep)
        new == SubSeq(saved, Len(me.known) + 1, Len(saved))
        now == IF me.into \in DOMAIN batch THEN batch[me.into] ELSE << >>
        clash == \E i \in ToSet(now) : \E j \in ToSet(new) : i.asset = j.asset
    IN  /\ me.at = "saving"
        /\ batch' = IF clash THEN batch ELSE (me.into :> (now \o new)) @@ batch
        /\ browser' = [browser EXCEPT ![b].at = "browsing"]
        /\ UNCHANGED <<embeddings, overlapped, showBudget>>

-----------------------------------------------------------------------------
(* A browser leaves out, or numbers on from, all the listings or none; it   *)
(* keeps everything, or the first option of each place.                     *)
ShowcaseNext ==
    \/ \E c \in Candidates : Embed(c)
    \/ \E b \in Browsers, kind \in DOMAIN Admitted, only \in Limits, without \in {{}, DOMAIN batch} :
          Search(b, kind, only, without)
    \/ \E b \in Browsers, into \in Batches, from \in {{}, DOMAIN batch} :
          \E picks \in {OffersOf(b), {o[1] : o \in ToSet(browser[b].offers)}} : SaveReads(b, picks, into, from)
    \/ \E b \in Browsers : SaveCommits(b)

ShowcaseSpec == ShowcaseInit /\ [][ShowcaseNext]_showVars

-----------------------------------------------------------------------------
ShowcaseTypeOK ==
    /\ embeddings \subseteq Candidates /\ DOMAIN batch \subseteq Batches
    /\ \A b \in Browsers : /\ browser[b].at \in {"browsing", "saving"}
                           /\ UNION {ToSet(o) : o \in ToSet(browser[b].offers)} \subseteq Candidates
    /\ showBudget \in 0..ShowIncidents

(* "A frame already offered is never offered again": in a response no two   *)
(* candidates are one view or of one flight, across places and through the  *)
(* exchange for a ground view, and none is a view the listings left out     *)
(* hold.                                                                    *)
OfferedOnce ==
    \A b \in Browsers : \A c \in OffersOf(b) :
       /\ ~NearAny(c, (OffersOf(b) \cup browser[b].shown) \ {c}) /\ c \notin browser[b].shown
       /\ \A d \in OffersOf(b) \ {c} : AssetOf[c] # AssetOf[d]

(* "Drone overheads and ground-level views, mixed": a place offers drone    *)
(* views alone only where every good ground view is one already offered.    *)
GroundToo ==
    \A b \in Browsers : browser[b].kind = "finished" /\ Alternates >= 3 =>
       \A o \in ToSet(browser[b].offers) : ToSet(o) \cap GroundViews = {} =>
          \A c \in browser[b].pool \cap GroundViews :
             browser[b].where[c] = browser[b].where[o[1]] /\ c \in Good =>
                NearAny(c, OffersOf(b) \cup browser[b].shown)

(* "Folders whose centres lie within SAME_PLACE_KM are one place": no two   *)
(* places candidates are in are so close.                                   *)
PlacesApart ==
    \A b \in Browsers : LET places == {browser[b].where[c] : c \in browser[b].pool} \cap Centred IN
       browser[b].offers # << >> =>
          \A p, q \in places : p # q => Apart(CentreOf(p), CentreOf(q)) >= SamePlace

(* Numbering "continues within each place and kind across searches and      *)
(* batches": what a save adds is numbered, and placed, after all it was to  *)
(* go on from, if no other save into the listing was under way.             *)
NumbersContinue ==
    [][\A b \in Browsers : browser[b].at = "saving" /\ browser'[b].at # "saving" /\ batch' # batch /\ ~overlapped =>
          LET l == browser[b].into
              old == IF l \in DOMAIN batch THEN Len(batch[l]) ELSE 0
          IN  \A i \in (old + 1)..Len(batch'[l]) :
                 LET new == batch'[l][i]
                     before == ToSet(SubSeq(batch'[l], 1, i - 1))
                 IN  /\ \A j \in before \cup browser[b].earlier : j.head = new.head => new.number > j.number
                     /\ \A j \in before : new.pos > j.pos]_showVars

=============================================================================
