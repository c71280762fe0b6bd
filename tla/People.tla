------------------------------- MODULE People -------------------------------
(***************************************************************************)
(* Faces and the people they are (api/v1/people.py): detection and matching *)
(* of new faces, the clustering of those that are nobody's, and what the    *)
(* operator says of them in two browser tabs.                               *)
(*                                                                         *)
(* A row of the faces table is named by the detection that inserted it; a   *)
(* photograph shows one face.  A prototype is the set of rows it is the     *)
(* mean of.  Scores are abstracted: any person one of whose examples looks  *)
(* alike may match, or may fall short of their own threshold.               *)
(***************************************************************************)
EXTENDS Integers, Sequences, FiniteSets, Functions

CONSTANTS
    Detections,     \* deliveries of detect_faces
    Shows,          \* detection -> the photograph, and so the face, it looks at
    Lookalike,      \* the pairs of photographs whose faces look alike
    Persons,        \* ids a person may get
    Names, Slug,    \* what may be typed, and its slug: "" if no letter is left
    Tabs,           \* requests of the operator under way at a time
    MinLoose,       \* MIN_FACES_TO_CLUSTER
    PeopleIncidents \* bound: the operator's requests, lost or failed steps

ASSUME PeopleAssumption ==
    /\ IsFiniteSet(Detections) /\ IsFiniteSet(Persons) /\ IsFiniteSet(Tabs)
    /\ "none" \notin Persons \cup Detections /\ "" \notin Names
    /\ DOMAIN Shows = Detections /\ Names \subseteq DOMAIN Slug
    /\ MinLoose \in Nat /\ PeopleIncidents \in Nat

VARIABLES
    face,       \* the faces table: row -> who, source, suggestion and its state
    person,     \* the people table: id -> name, prototype and cover
    desk,       \* tab -> its request
    detect,     \* detection -> its execution
    cluster,    \* cluster_faces: nothing, queued, or the rows it has read
    memo,       \* the scanner's memo of the counts it last queued for
    unlearned,  \* history: people whose evidence changed without a relearn
    claimed,    \* history: rows a match or a clustering took from someone who had them
    faceBudget  \* incidents left

peopleVars == <<face, person, desk, detect, cluster, memo, unlearned, claimed, faceBudget>>

IdleTab == [pc |-> "idle", about |-> << >>, rows |-> {}]
FreshDetection == [pc |-> "new", people |-> << >>, refused |-> {}]
NoCluster == [pc |-> "none", rows |-> {}]
NoMemo == [counts |-> << >>, seen |-> {}]
NewFace == [who |-> "none", source |-> "detected", slot |-> "none", state |-> "none"]

PeopleInit ==
    /\ face = << >> /\ person = << >>
    /\ desk = [t \in Tabs |-> IdleTab]
    /\ detect = [d \in Detections |-> FreshDetection]
    /\ cluster = NoCluster /\ memo = NoMemo
    /\ unlearned = {} /\ claimed = {} /\ faceBudget = PeopleIncidents

Rows == DOMAIN face
Known == DOMAIN person
Of(p, sources) == {r \in Rows : face[r].who = p /\ face[r].source \in sources}
Loose == {r \in Rows : face[r].who = "none"}
Named(p) == p \in Known /\ person[p].name # ""
Alike(r, rows) == \E s \in rows : {Shows[r], Shows[s]} \in Lookalike \/ Shows[r] = Shows[s]
SlugOf(p) == IF person[p].name = "" THEN "" ELSE Slug[person[p].name]

PeopleTypeOK ==
    /\ Rows \subseteq Detections /\ Known \subseteq Persons
    /\ \A r \in Rows : /\ face[r].who \in Known \cup {"none"}
                       /\ face[r].slot \in Known \cup {"none"}
                       /\ face[r].source \in {"detected", "confirmed", "rejected"}
                       /\ face[r].state \in {"none", "pending", "rejected"}
    /\ \A p \in Known : /\ person[p].name \in Names \cup {""}
                        /\ person[p].proto \subseteq Detections
                        /\ person[p].cover \in Detections \cup {"none"}
    /\ \A t \in Tabs : desk[t].pc \in {"idle", "learn", "write", "offer"}
    /\ cluster.pc \in {"none", "queued", "read"}
    /\ unlearned \subseteq Known /\ faceBudget \in 0..PeopleIncidents

PeopleSpend == faceBudget > 0 /\ faceBudget' = faceBudget - 1
Shift(rows, Changed(_)) == face' = [r \in Rows |-> IF r \in rows THEN Changed(face[r]) ELSE face[r]]
Judge(rows, source) == Shift(rows, LAMBDA f : [f EXCEPT !.source = source])
Others(t) == {u \in Tabs \ {t} : desk[u].pc # "idle"}
Unused == {p \in Persons \ Known :
              /\ \A t \in Tabs : p \notin Range(desk[t].about)
              /\ \A d \in Detections : p \notin DOMAIN detect[d].people}

(* A judgement commits, then the request relearns the people concerned.  If *)
(* another is under way the two relearns may write in either order.         *)
Judged(t, people, lost) ==
    /\ desk[t].pc = "idle" /\ PeopleSpend
    /\ desk' = [desk EXCEPT ![t] = [pc |-> "learn", about |-> people, rows |-> {}]]
    /\ unlearned' = DOMAIN person' \cap (unlearned \cup lost
          \cup IF Others(t) = {} THEN {}
               ELSE Range(people) \cup UNION {Range(desk[u].about) : u \in Others(t)})
    /\ UNCHANGED <<detect, cluster, memo, claimed>>

-----------------------------------------------------------------------------
(* Defect: naming a group leaves its faces unreviewed. *)
NameOnly(t, p, n) ==
    /\ p \in Known
    /\ \A q \in Known \ {p} : SlugOf(q) # Slug[n]
    /\ person' = [person EXCEPT ![p].name = n]
    /\ UNCHANGED face
    /\ Judged(t, <<p>>, {})

(* name_person: refused while anyone else has the slug; the unreviewed      *)
(* faces of the group become confirmed.                                     *)
Name(t, p, n) ==
    /\ p \in Known
    /\ \A q \in Known \ {p} : SlugOf(q) # Slug[n]
    /\ person' = [person EXCEPT ![p].name = n]
    /\ Judge(Of(p, {"detected"}), "confirmed")
    /\ Judged(t, <<p>>, {})

(* confirm_faces, and confirm_above for the unreviewed ones. *)
Confirm(t, p, rows) ==
    /\ p \in Known /\ rows # {} /\ rows \subseteq Of(p, {"detected", "rejected"})
    /\ Judge(rows, "confirmed")
    /\ UNCHANGED person
    /\ Judged(t, <<p>>, {})

(* reject_faces: the pair stays, and the cover goes with the face. *)
Reject(t, p, rows) ==
    /\ p \in Known /\ rows # {} /\ rows \subseteq Of(p, {"detected", "confirmed"})
    /\ Judge(rows, "rejected")
    /\ person' = [person EXCEPT ![p].cover = IF @ \in rows THEN "none" ELSE @]
    /\ Judged(t, <<p>>, {})

(* discover_more: the faces that are nobody's, or in a group without a      *)
(* name, whose suggestion slot is free or this person's and not refused.    *)
Discover(t, p, found) ==
    /\ desk[t].pc = "idle" /\ PeopleSpend
    /\ Named(p) /\ person[p].proto # {} /\ found # {}
    /\ found \subseteq {r \in Rows : /\ face[r].who = "none" \/ ~Named(face[r].who)
                                     /\ \/ face[r].slot = "none"
                                        \/ face[r].slot = p /\ face[r].state # "rejected"
                                     /\ Alike(r, person[p].proto)}
    /\ desk' = [desk EXCEPT ![t] = [pc |-> "offer", about |-> <<p>>, rows |-> found]]
    /\ UNCHANGED <<face, person, detect, cluster, memo, unlearned, claimed>>

(* The update by key, after the search: a row or a person deleted meanwhile *)
(* fails it; whose the rows are by now is not asked.                        *)
WriteOffers(t) ==
    /\ desk[t].pc = "offer"
    /\ IF desk[t].rows \subseteq Rows /\ Range(desk[t].about) \subseteq Known
       THEN Shift(desk[t].rows, LAMBDA f : [f EXCEPT !.slot = desk[t].about[1], !.state = "pending"])
       ELSE UNCHANGED face
    /\ desk' = [desk EXCEPT ![t] = IdleTab]
    /\ UNCHANGED <<person, detect, cluster, memo, unlearned, faceBudget, claimed>>

(* accept_suggestions: the face leaves wherever it was; only the person who *)
(* gains it learns.                                                         *)
Accept(t, p, rows) ==
    /\ p \in Known /\ rows # {}
    /\ rows \subseteq {r \in Rows : face[r].slot = p /\ face[r].state = "pending"}
    /\ Shift(rows, LAMBDA f : [who |-> p, source |-> "confirmed", slot |-> "none", state |-> "none"])
    /\ UNCHANGED person
    /\ Judged(t, <<p>>, {face[r].who : r \in rows} \ {p, "none"})

RejectSuggestion(t, p, rows) ==
    /\ p \in Known /\ rows # {}
    /\ rows \subseteq {r \in Rows : face[r].slot = p /\ face[r].state = "pending"}
    /\ Shift(rows, LAMBDA f : [f EXCEPT !.state = "rejected"])
    /\ UNCHANGED person
    /\ Judged(t, <<p>>, {})

(* Defect: what moves is to be reviewed again. *)
MergeAnew(t, p, q) ==
    /\ p # q /\ {p, q} \subseteq Known
    /\ face' = [r \in Rows |->
          LET moved == IF face[r].who = q THEN p ELSE face[r].who
          IN  IF moved = p /\ face[r].slot \in {p, q}
              THEN [who |-> p, source |-> face[r].source, slot |-> "none", state |-> "none"]
              ELSE [face[r] EXCEPT !.who = moved, !.slot = IF @ = q THEN p ELSE @,
                                   !.source = IF moved # face[r].who THEN "detected" ELSE @]]
    /\ person' = [x \in Known \ {q} |-> person[x]]
    /\ Judged(t, <<p>>, {})

(* merge_people, in one transaction: the other's faces, rejections and all; *)
(* their suggestions; and no suggestion of a face to the person it is in.   *)
Merge(t, p, q) ==
    /\ p # q /\ {p, q} \subseteq Known
    /\ face' = [r \in Rows |->
          LET moved == IF face[r].who = q THEN p ELSE face[r].who
          IN  IF moved = p /\ face[r].slot \in {p, q}
              THEN [who |-> p, source |-> face[r].source, slot |-> "none", state |-> "none"]
              ELSE [face[r] EXCEPT !.who = moved, !.slot = IF @ = q THEN p ELSE @]]
    /\ person' = [x \in Known \ {q} |-> person[x]]
    /\ Judged(t, <<p>>, {})

(* Defect: suggestions elsewhere still name the person. *)
ForgetFacesOnly(p) ==
    /\ p \in Known /\ PeopleSpend
    /\ face' = [r \in {s \in Rows : face[s].who # p} |-> face[r]]
    /\ person' = [x \in Known \ {p} |-> person[x]]
    /\ unlearned' = (unlearned \cup UNION {Range(desk[t].about) : t \in Tabs}) \cap DOMAIN person'
    /\ UNCHANGED <<desk, detect, cluster, memo, claimed>>

(* forget_person: its rows go; suggestions elsewhere lose their person. *)
Forget(p) ==
    /\ p \in Known /\ PeopleSpend
    /\ face' = [r \in {s \in Rows : face[s].who # p} |->
                  [face[r] EXCEPT !.slot = IF @ = p THEN "none" ELSE @]]
    /\ person' = [x \in Known \ {p} |-> person[x]]
    /\ unlearned' = (unlearned \cup UNION {Range(desk[t].about) : t \in Tabs}) \cap DOMAIN person'
    /\ UNCHANGED <<desk, detect, cluster, memo, claimed>>

(* Defect: only the person who gains the face learns. *)
AssignForward(t, r, p, n) ==
    /\ r \in Rows
    /\ p \in Known \/ (p \in Unused /\ n \in Names /\ \A q \in Known : SlugOf(q) # Slug[n])
    /\ Shift({r}, LAMBDA f : [f EXCEPT !.who = p, !.source = "confirmed"])
    /\ person' = [x \in Known \cup {p} |-> IF x \in Known THEN person[x]
                                           ELSE [name |-> n, proto |-> {}, cover |-> r]]
    /\ Judged(t, <<p>>, {})

(* assign_face: to a person, to whoever has the slug of the name, or to a   *)
(* new person; a free cover is taken and the one left behind is given up.   *)
Assign(t, r, p, n) ==
    /\ r \in Rows
    /\ \/ p \in Known
       \/ /\ p \in Unused /\ n \in Names
          /\ \A q \in Known : SlugOf(q) # Slug[n] \/ Slug[n] = ""
    /\ LET before == face[r].who
           gains == IF p \in Known
                    THEN [person[p] EXCEPT !.cover = IF @ = "none" THEN r ELSE @]
                    ELSE [name |-> n, proto |-> {}, cover |-> r]
           moves == before \notin {"none", p}
       IN  /\ Shift({r}, LAMBDA f : [f EXCEPT !.who = p, !.source = "confirmed"])
           /\ person' = [x \in Known \cup {p} |->
                 CASE x = p -> gains
                   [] x = before /\ moves /\ person[x].cover = r -> [person[x] EXCEPT !.cover = "none"]
                   [] OTHER -> person[x]]
           /\ Judged(t, IF moves THEN <<p, before>> ELSE <<p>>, {})

(* _relearn reads the judgements ... *)
Relearn(t) ==
    /\ desk[t].pc = "learn"
    /\ desk' = [desk EXCEPT ![t].pc = "write", ![t].rows = Of(desk[t].about[1], {"confirmed"})]
    /\ UNCHANGED <<face, person, detect, cluster, memo, unlearned, faceBudget, claimed>>

(* ... and writes what they teach; a person who is gone ends the request.   *)
WriteLearned(t) ==
    /\ desk[t].pc = "write"
    /\ LET p == desk[t].about[1]
           rest == IF p \in Known /\ Len(desk[t].about) = 2 /\ desk[t].about[2] \in Known
                   THEN <<desk[t].about[2]>> ELSE << >>
       IN  /\ person' = [x \in Known |-> IF x = p THEN [person[x] EXCEPT !.proto = desk[t].rows]
                                         ELSE person[x]]
           /\ unlearned' = IF p \in unlearned /\ Others(t) = {}
                              /\ desk[t].rows = Of(p, {"confirmed"})
                           THEN unlearned \ {p} ELSE unlearned
           /\ desk' = [desk EXCEPT ![t] = IF rest = << >> THEN IdleTab
                                          ELSE [pc |-> "learn", about |-> rest, rows |-> {}]]
    /\ UNCHANGED <<face, detect, cluster, memo, faceBudget, claimed>>

(* The API goes down between the judgement and what it teaches. *)
RequestDies(t) ==
    /\ desk[t].pc \in {"learn", "write"} /\ PeopleSpend
    /\ desk' = [desk EXCEPT ![t] = IdleTab]
    /\ unlearned' = unlearned \cup (Range(desk[t].about) \cap Known)
    /\ UNCHANGED <<face, person, detect, cluster, memo, claimed>>

-----------------------------------------------------------------------------
(* detect_faces: nothing to do where a row of the photograph exists; the    *)
(* model runs between that look and the insert.                             *)
Look(d) ==
    /\ detect[d].pc = "new"
    /\ detect' = [detect EXCEPT ![d] = [FreshDetection EXCEPT !.pc =
          IF \E r \in Rows : Shows[r] = Shows[d] THEN "over" ELSE "seen"]]
    /\ UNCHANGED <<face, person, desk, cluster, memo, unlearned, faceBudget, claimed>>

(* One commit; then the named people with a prototype and what was refused. *)
InsertFace(d) ==
    /\ detect[d].pc = "seen"
    /\ face' = [r \in Rows \cup {d} |-> IF r = d THEN NewFace ELSE face[r]]
    /\ detect' = [detect EXCEPT ![d] =
          [pc |-> "matching",
           people |-> [p \in {q \in Known : Named(q) /\ person[q].proto # {}} |-> person[p].proto],
           refused |-> {<<face[r].who, Shows[r]>> : r \in {s \in Rows : face[s].source = "rejected"}}]]
    /\ UNCHANGED <<person, desk, cluster, memo, unlearned, faceBudget, claimed>>

(* The best match is written by key; a person or a row that is gone fails   *)
(* the commit, and the retry finds the photograph done.                     *)
Match(d) ==
    /\ detect[d].pc = "matching"
    /\ LET possible == {p \in DOMAIN detect[d].people :
                           /\ <<p, Shows[d]>> \notin detect[d].refused
                           /\ Alike(d, detect[d].people[p])}
       IN  \/ UNCHANGED <<face, unlearned, claimed>>
           \/ \E p \in possible \cap Known :
                 /\ d \in Rows
                 /\ Shift({d}, LAMBDA f : [f EXCEPT !.who = p])
                 /\ claimed' = IF face[d].who = "none" THEN claimed ELSE claimed \cup {d}
                 /\ unlearned' = unlearned \cup IF face[d].source # "detected"
                                                THEN {p, face[d].who} \ {"none"} ELSE {}
    /\ detect' = [detect EXCEPT ![d] = [FreshDetection EXCEPT !.pc = "over"]]
    /\ UNCHANGED <<person, desk, cluster, memo, faceBudget>>

(* extract_frames replaces a photograph's frames, and the rows of its faces *)
(* go with them; a detection at work on them fails.                         *)
ReplaceFrames(photo) ==
    /\ PeopleSpend /\ \E r \in Rows : Shows[r] = photo
    /\ LET lost == {r \in Rows : Shows[r] = photo}
       IN  /\ face' = [r \in Rows \ lost |-> face[r]]
           /\ unlearned' = unlearned \cup ({face[r].who : r \in lost} \ {"none"})
    /\ detect' = [d \in Detections |-> IF Shows[d] = photo /\ detect[d].pc \notin {"new", "over"}
                                       THEN [FreshDetection EXCEPT !.pc = "over"] ELSE detect[d]]
    /\ UNCHANGED <<person, desk, cluster, memo, claimed>>

-----------------------------------------------------------------------------
Counts == <<Cardinality(Loose), Cardinality(Rows)>>

(* Defect: the memo is written whether or not the message was taken. *)
TickFirst ==
    /\ cluster.pc = "none" /\ Cardinality(Loose) >= MinLoose /\ memo.counts # Counts
    /\ memo' = [counts |-> Counts, seen |-> Loose]
    /\ \/ cluster' = [NoCluster EXCEPT !.pc = "queued"] /\ UNCHANGED faceBudget
       \/ PeopleSpend /\ UNCHANGED cluster
    /\ UNCHANGED <<face, person, desk, detect, unlearned, claimed>>

(* _cluster_new_faces: the same two counts as last time ask for nothing; a  *)
(* broker that refuses leaves the memo as it was.  Bound: one pass at a     *)
(* time.                                                                    *)
Tick ==
    /\ cluster.pc = "none" /\ Cardinality(Loose) >= MinLoose /\ memo.counts # Counts
    /\ \/ /\ cluster' = [NoCluster EXCEPT !.pc = "queued"]
          /\ memo' = [counts |-> Counts, seen |-> Loose]
          /\ UNCHANGED faceBudget
       \/ PeopleSpend /\ UNCHANGED <<cluster, memo>>
    /\ UNCHANGED <<face, person, desk, detect, unlearned, claimed>>

ScannerRestarts ==
    /\ memo # NoMemo /\ PeopleSpend
    /\ memo' = NoMemo
    /\ UNCHANGED <<face, person, desk, detect, cluster, unlearned, claimed>>

ReadLoose ==
    /\ cluster.pc = "queued"
    /\ cluster' = IF Cardinality(Loose) >= 2 THEN [pc |-> "read", rows |-> Loose] ELSE NoCluster
    /\ UNCHANGED <<face, person, desk, detect, memo, unlearned, faceBudget, claimed>>

(* The greedy pass: disjoint groups of two or more, each around its first   *)
(* member; no two of the rows left over look alike.  Ids and the member     *)
(* whose face is the cover are interchangeable.                             *)
Groupings(rows) ==
    {gs \in SUBSET {g \in SUBSET rows : Cardinality(g) >= 2 /\ \E r \in g : \A s \in g : Alike(s, {r})} :
        /\ \A g, h \in gs : g = h \/ g \cap h = {}
        /\ \A r, s \in rows \ UNION gs : r # s => ~Alike(r, {s})}

Ids(gs) == {f \in [gs -> Unused] : IsInjective(f)}

(* cluster_unassigned_faces writes the groups by key, whoever has claimed a *)
(* row meanwhile; a row that is gone fails the commit, and one retry reads  *)
(* again.                                                                   *)
WriteGroups ==
    /\ cluster.pc = "read"
    /\ IF cluster.rows \subseteq Rows
       THEN \E gs \in Groupings(cluster.rows) :
               /\ Ids(gs) # {}
               /\ LET id == CHOOSE f \in Ids(gs) : TRUE
                  IN  /\ face' = [r \in Rows |->
                            [face[r] EXCEPT !.who = IF \E g \in gs : r \in g
                                                    THEN id[CHOOSE g \in gs : r \in g] ELSE @]]
                      /\ person' = [p \in Known \cup Range(id) |->
                            IF p \in Known THEN person[p]
                            ELSE LET g == CHOOSE h \in gs : id[h] = p
                                 IN  [name |-> "", proto |-> g, cover |-> CHOOSE r \in g : TRUE]]
               /\ cluster' = NoCluster
               /\ claimed' = claimed \cup {r \in UNION gs : face[r].who # "none"}
               /\ unlearned' = unlearned \cup ({face[r].who : r \in UNION gs} \ {"none"})
       ELSE /\ cluster' \in {NoCluster, [NoCluster EXCEPT !.pc = "queued"]}
            /\ UNCHANGED <<face, person, unlearned, claimed>>
    /\ UNCHANGED <<desk, detect, memo, faceBudget>>

-----------------------------------------------------------------------------
Finishing(t) == Relearn(t) \/ WriteLearned(t) \/ WriteOffers(t)
Detecting(d) == Look(d) \/ InsertFace(d) \/ Match(d)
Clustering == Tick \/ ReadLoose \/ WriteGroups

Says(t) ==
    \/ \E p \in Persons, n \in Names : Name(t, p, n)
    \/ \E p \in Known : \E rows \in SUBSET Rows :
          Confirm(t, p, rows) \/ Reject(t, p, rows) \/ Discover(t, p, rows)
          \/ Accept(t, p, rows) \/ RejectSuggestion(t, p, rows)
    \/ \E p, q \in Known : Merge(t, p, q)
    \/ \E r \in Rows, p \in Persons, n \in Names : Assign(t, r, p, n)

PeopleNext ==
    \/ \E t \in Tabs : Says(t) \/ Finishing(t) \/ RequestDies(t)
    \/ \E p \in Known : Forget(p)
    \/ \E d \in Detections : Detecting(d) \/ ReplaceFrames(Shows[d])
    \/ Clustering \/ ScannerRestarts

PeopleFairness ==
    /\ \A t \in Tabs : WF_peopleVars(Finishing(t))
    /\ \A d \in Detections : WF_peopleVars(Detecting(d))
    /\ WF_peopleVars(Clustering)

PeopleSpec == PeopleInit /\ [][PeopleNext]_peopleVars /\ PeopleFairness

-----------------------------------------------------------------------------
(* _covers and _cover_faces: the cover that was chosen while it is still    *)
(* theirs, else a confirmed face, else a guess.                             *)
ShownCover(p) ==
    IF person[p].cover \in Of(p, {"detected", "confirmed"}) THEN {person[p].cover}
    ELSE IF Of(p, {"confirmed"}) # {} THEN Of(p, {"confirmed"}) ELSE Of(p, {"detected"})

(* A card never shows another person's face, and that of a named person     *)
(* shows a face someone agreed to whenever there is one, unless the cover   *)
(* is a row a match or a clustering took from whoever had it.               *)
CoverAgreed ==
    \A p \in Known :
        /\ ShownCover(p) \subseteq Of(p, {"detected", "confirmed"})
        /\ Named(p) /\ Of(p, {"confirmed"}) # {} =>
              ShownCover(p) \subseteq Of(p, {"confirmed"}) \cup claimed

(* _cover_faces: "a cover taken from a guess would make the card assert     *)
(* something nobody agreed to".                                             *)
NoGuessedCover ==
    \A p \in Known : Named(p) /\ Of(p, {"confirmed"}) # {} => ShownCover(p) \subseteq Of(p, {"confirmed"})

(* With no request under way a named person's prototype is the mean of      *)
(* exactly the confirmed faces, unless evidence went without a judgement    *)
(* about them: an overlapping request, a killed one, replaced frames, or a  *)
(* suggestion taken out of a group.                                         *)
LearnedAtRest ==
    (\A t \in Tabs : desk[t].pc = "idle") =>
        \A p \in Known \ unlearned : Named(p) => person[p].proto = Of(p, {"confirmed"})

Refused(p) == {r \in Rows : \/ face[r].who = p /\ face[r].source = "rejected"
                            \/ face[r].slot = p /\ face[r].state = "rejected"}

(* What was refused for either of two people stays refused for the one they *)
(* become, except a suggested face the merge itself puts in the group       *)
(* (merge_people: losing rejections "would resurrect every mistake").       *)
MergeKeepsRefusals ==
    [][\A t \in Tabs, p, q \in Known :
          desk[t].pc = "idle" /\ q \notin DOMAIN person' /\ p \in DOMAIN person'
          /\ desk'[t].pc = "learn" /\ desk'[t].about = <<p>> =>
             \A r \in Refused(p) \cup Refused(q) :
                \/ r \in Refused(p)'
                \/ face'[r].who = p /\ face[r].source # "rejected"]_peopleVars

(* Faces that look alike and are nobody's are grouped, whatever is lost,    *)
(* unless the two counts come out as they were when the last pass was       *)
(* queued although the faces are others.                                    *)
AlikeLoose == Cardinality(Loose) >= MinLoose /\ \E r, s \in Loose : r # s /\ Alike(r, {s})
GroupsForm == []<>(~AlikeLoose \/ (memo.counts = Counts /\ memo.seen # Loose))

(* _cluster_new_faces: "the same counts mean nothing has been detected or   *)
(* reviewed since".                                                         *)
GroupsAlwaysForm == []<>~AlikeLoose

(* AssignFaceRequest: a name "matches an existing name rather than making a *)
(* duplicate".                                                              *)
OnePersonPerName == \A p, q \in Known : Named(p) /\ person[p].name = person[q].name => p = q

(* discover_more: "a face already attributed to a named person is somebody  *)
(* else's answer and is not up for grabs here".                             *)
NotUpForGrabs ==
    [][\A r \in Rows, p \in Known :
          Named(p) /\ face[r].who = p /\ face[r].source = "confirmed"
          /\ face[r].state = "pending" /\ r \in DOMAIN face' /\ face'[r].state = "none"
          => face'[r].who = p]_peopleVars

(* "Nothing is attributed to a named person until someone says so."         *)
ConfirmBeforeItCounts ==
    [][\A d \in Detections : detect[d].pc = "matching" /\ detect'[d].pc = "over" /\ d \in Rows =>
          \A p \in Known : d \in Of(p, {"confirmed"})' => d \in Of(p, {"confirmed"})]_peopleVars

(* detect_faces: "detection is idempotent but re-running it would duplicate *)
(* every face row".                                                         *)
OneRowPerFace == \A r, s \in Rows : Shows[r] = Shows[s] => r = s

=============================================================================
