------------------------------ MODULE Tagging -------------------------------
(***************************************************************************)
(* One tag: what the operator says of each asset (api/v1/tags.py), the      *)
(* learner that turns the answers into a prototype, a bar and suggestions,  *)
(* the scoring of new media on arrival (processing/tag_tasks.py), and       *)
(* Claude's proposals (ai/tag_review.py).                                   *)
(*                                                                         *)
(* Vectors are abstracted to the evidence they come from: a prototype is    *)
(* the set of examples it was blended from, and the bar is the kind of      *)
(* evidence it was measured on, since a bar for words alone is below every  *)
(* score between two pictures and one for pictures above every score of     *)
(* words (ai/tagging.py, the modality gap).                                 *)
(***************************************************************************)
EXTENDS Integers, FiniteSets, FiniteSetsExt

CONSTANTS
    TagAssets,      \* the library's assets
    Arriving,       \* those whose frames are yet to be embedded
    Taught,         \* those the operator has tagged by hand already
    Alike,          \* the pairs that score above a bar set by pictures
    ByWords,        \* the assets that score above a bar set by words
    Learners,       \* deliveries of learn_tag
    MaxPending,     \* MAX_PENDING_PER_TAG
    TagIncidents    \* bound: the operator's answers, proposals, lost messages

ASSUME TagAssumption ==
    /\ IsFiniteSet(TagAssets) /\ IsFiniteSet(Learners)
    /\ Arriving \subseteq TagAssets /\ Taught \subseteq TagAssets
    /\ Alike \in [TagAssets -> SUBSET TagAssets] /\ ByWords \subseteq TagAssets
    /\ MaxPending \in Nat \ {0} /\ TagIncidents \in Nat

ArrivalPending == 2 * MaxPending
BulkSize == 2           \* bound on MAX_BULK_DECISIONS
VisionSlots == 2        \* docker-compose.yml: the vision worker's concurrency

Positive == {"manual", "confirmed"}
Settled == Positive \cup {"rejected"}
Pending == {"clip", "claude"}   \* suggested, and who suggested it

VARIABLES
    link,       \* asset -> its row for the tag, or "none"
    tag,        \* prototype and threshold; "none" before the first pass
    tagLock,    \* the learner whose transaction has updated the tag's row
    learner,    \* delivery -> its execution
    arrival,    \* asset -> its embedding's scoring
    tagBudget   \* incidents left

tagVars == <<link, tag, tagLock, learner, arrival, tagBudget>>

Bars == {"none", "words", "pictures"}
NoProto == [proto |-> {"none"}, bar |-> "none"]
IdleLearner == [pc |-> "free", bar |-> "none", proto |-> {}, decided |-> {}, room |-> 0,
                fresh |-> "none", offers |-> {}]

TagInit ==
    /\ link = [a \in TagAssets |-> IF a \in Taught THEN "manual" ELSE "none"]
    /\ tag = NoProto /\ tagLock = {}
    /\ learner = [l \in Learners |-> IdleLearner]
    /\ arrival = [a \in TagAssets |-> IF a \in Arriving THEN "new" ELSE "over"]
    /\ tagBudget = TagIncidents

Evidence(sources) == {a \in TagAssets : link[a] \in sources}
Embedded == {a \in TagAssets : arrival[a] # "new"}
Waiting == Cardinality(Evidence(Pending))

LearnerRecords ==
    [pc : {"free", "message", "loaded", "taught", "ranking", "ranked"}, bar : Bars,
     proto : SUBSET TagAssets, decided : SUBSET TagAssets, room : 0..MaxPending, fresh : Bars,
     offers : SUBSET TagAssets]

TagTypeOK ==
    /\ link \in [TagAssets -> Settled \cup Pending \cup {"none"}]
    /\ tag \in [proto : SUBSET (TagAssets \cup {"none"}), bar : Bars]
    /\ tagLock \subseteq Learners /\ Cardinality(tagLock) <= 1
    /\ learner \in [Learners -> LearnerRecords]
    /\ arrival \in [TagAssets -> {"new", "scored", "counted", "over"}]
    /\ tagBudget \in 0..TagIncidents

TagSpend == tagBudget > 0 /\ tagBudget' = tagBudget - 1
ActiveWork == Cardinality({l \in Learners : learner[l].pc \notin {"free", "message"}})
              + Cardinality({a \in TagAssets : arrival[a] \in {"scored", "counted"}})

(* derive_threshold and baseline_percentile: which evidence the bar is from. *)
BarOf(positives) == IF positives = {} THEN "words" ELSE "pictures"

(* cosine against the bar, in either regime and across the two. *)
Clears(a, t) ==
    CASE t.bar = "words" /\ t.proto = {} -> a \in ByWords
      [] t.bar = "pictures" /\ t.proto # {} -> Alike[a] \cap t.proto # {}
      [] OTHER -> t.bar = "words"

(* veto_flags: the nearest labelled neighbour is a rejection. *)
Vetoed(a) == /\ Alike[a] \cap Evidence({"rejected"}) \cap Embedded # {}
             /\ Alike[a] \cap Evidence(Positive) \cap Embedded = {}

-----------------------------------------------------------------------------
(* _relearn: queue the learner; a queue that is down must not fail the edit. *)
Relearn == \/ \E l \in Learners : /\ learner[l].pc = "free"
                                  /\ learner' = [learner EXCEPT ![l].pc = "message"]
           \/ tagBudget > 1 /\ UNCHANGED learner

Answer(a, source) ==
    /\ TagSpend
    /\ link' = [link EXCEPT ![a] = source]
    /\ Relearn
    /\ UNCHANGED <<tag, tagLock, arrival>>

AddTag(a) == Answer(a, "manual")

(* Recorded as a rejection, not a deletion; an asset without the tag: no-op. *)
RemoveTag(a) == link[a] # "none" /\ Answer(a, "rejected")

Decide(a) == link[a] # "none" /\ \E source \in {"confirmed", "rejected"} : Answer(a, source)

(* Defect: the page's lists are believed. *)
DecideNamed(accept, reject) ==
    /\ TagSpend /\ Cardinality(accept \cup reject) \in 1..BulkSize
    /\ link' = [a \in TagAssets |->
                  CASE a \in accept /\ link[a] # "none" -> "confirmed"
                    [] a \in reject /\ link[a] # "none" -> "rejected"
                    [] OTHER -> link[a]]
    /\ IF link' # link THEN Relearn ELSE UNCHANGED learner
    /\ UNCHANGED <<tag, tagLock, arrival>>

(* decide_many: what a page showed some time ago; only rows still waiting   *)
(* change, and the tag is learned again when one did.                       *)
DecideMany(accept, reject) ==
    /\ TagSpend /\ Cardinality(accept \cup reject) \in 1..BulkSize
    /\ link' = [a \in TagAssets |->
                  CASE a \in accept /\ link[a] \in Pending -> "confirmed"
                    [] a \in reject /\ link[a] \in Pending -> "rejected"
                    [] OTHER -> link[a]]
    /\ IF link' # link THEN Relearn ELSE UNCHANGED learner
    /\ UNCHANGED <<tag, tagLock, arrival>>

(* write_proposals, for Claude's reviewer and the connector: a row only     *)
(* where there is none.                                                     *)
WriteProposals(a) ==
    /\ link[a] = "none" /\ TagSpend
    /\ link' = [link EXCEPT ![a] = "claude"]
    /\ UNCHANGED <<tag, tagLock, learner, arrival>>

QueueLearner ==
    /\ \A l \in Learners : learner[l].pc # "message"
    /\ \E l \in Learners : learner[l].pc = "free" /\ learner' = [learner EXCEPT ![l].pc = "message"]
    /\ UNCHANGED <<link, tag, tagLock, arrival, tagBudget>>

(* suggest_all_tags every night, for a tag that has a prototype. *)
SuggestAll == tag # NoProto /\ QueueLearner

(* relearn_tag, which asks only that the tag exists. *)
RelearnByHand == QueueLearner

-----------------------------------------------------------------------------
(* learn_tag.  The tag's row, as it was when the task began. *)
LoadTag(l) ==
    /\ learner[l].pc = "message" /\ ActiveWork < VisionSlots
    /\ learner' = [learner EXCEPT ![l].pc = "loaded", ![l].bar = tag.bar]
    /\ UNCHANGED <<link, tag, tagLock, arrival, tagBudget>>

(* _example_vectors and blend. *)
Teach(l) ==
    /\ learner[l].pc = "loaded"
    /\ learner' = [learner EXCEPT ![l].pc = "taught",
                                  ![l].proto = Evidence(Positive) \cap Embedded]
    /\ UNCHANGED <<link, tag, tagLock, arrival, tagBudget>>

(* Defect: what already waits does not count. *)
ReadLinksOnly(l) ==
    /\ learner[l].pc = "taught" /\ tagLock = {}
    /\ tagLock' = {l}
    /\ learner' = [learner EXCEPT ![l].pc = "ranking",
                                  ![l].decided = {a \in TagAssets : link[a] # "none"},
                                  ![l].room = MaxPending]
    /\ UNCHANGED <<link, tag, arrival, tagBudget>>

(* Defect: a queue past its cap leaves less than no room. *)
ReadLinksUnfloored(l) ==
    /\ learner[l].pc = "taught" /\ tagLock = {}
    /\ tagLock' = {l}
    /\ learner' = [learner EXCEPT ![l].pc = "ranking",
                                  ![l].decided = {a \in TagAssets : link[a] # "none"},
                                  ![l].room = MaxPending - Waiting]
    /\ UNCHANGED <<link, tag, arrival, tagBudget>>

(* _score_library's first query flushes the new prototype: the row is       *)
(* locked until the commit.  Every asset with a row is decided, and what    *)
(* waits counts against the cap.                                            *)
ReadLinks(l) ==
    /\ learner[l].pc = "taught" /\ tagLock = {}
    /\ tagLock' = {l}
    /\ learner' = [learner EXCEPT ![l].pc = "ranking",
                                  ![l].decided = {a \in TagAssets : link[a] # "none"},
                                  ![l].room = Max({0, MaxPending - Waiting})]
    /\ UNCHANGED <<link, tag, arrival, tagBudget>>

(* Defect: assets with a row are candidates like any other. *)
RankAll(l) ==
    /\ learner[l].pc = "ranking"
    /\ LET above == {a \in Embedded : ~Vetoed(a)}
       IN  \E offers \in SUBSET above :
              /\ Cardinality(offers) = Min({learner[l].room, Cardinality(above)})
              /\ learner' = [learner EXCEPT ![l].pc = "ranked", ![l].offers = offers,
                                        ![l].fresh = "words"]
    /\ UNCHANGED <<link, tag, tagLock, arrival, tagBudget>>

(* The frames, the examples once more, the bar, the veto, and the strongest *)
(* that fit.                                                                *)
Rank(l) ==
    /\ learner[l].pc = "ranking"
    /\ LET mine == [proto |-> learner[l].proto, bar |-> BarOf(Evidence(Positive) \cap Embedded)]
           above == {a \in Embedded \ learner[l].decided : Clears(a, mine) /\ ~Vetoed(a)}
       IN  \E offers \in SUBSET above :
              /\ Cardinality(offers) = Min({learner[l].room, Cardinality(above)})
              /\ learner' = [learner EXCEPT ![l].pc = "ranked", ![l].offers = offers,
                                        ![l].fresh = mine.bar, ![l].decided = {}, ![l].room = 0]
    /\ UNCHANGED <<link, tag, tagLock, arrival, tagBudget>>

(* One commit.  The session writes only what differs from what it loaded.   *)
(* A row that appeared meanwhile fails it, and the task is tried again or   *)
(* has been often enough.                                                   *)
CommitLearned(l) ==
    /\ learner[l].pc = "ranked"
    /\ IF \A a \in learner[l].offers : link[a] = "none"
       THEN /\ link' = [a \in TagAssets |-> IF a \in learner[l].offers THEN "clip" ELSE link[a]]
            /\ tag' = [proto |-> learner[l].proto,
                       bar |-> IF learner[l].fresh = learner[l].bar THEN tag.bar
                               ELSE learner[l].fresh]
            /\ learner' = [learner EXCEPT ![l] = IdleLearner]
       ELSE /\ \E after \in {"message", "free"} :
                   learner' = [learner EXCEPT ![l] = [IdleLearner EXCEPT !.pc = after]]
            /\ UNCHANGED <<link, tag>>
    /\ tagLock' = {}
    /\ UNCHANGED <<arrival, tagBudget>>

(* A killed vision worker: rolled back, and the message comes back. *)
LearnerDies(l) ==
    /\ learner[l].pc \notin {"free", "message"} /\ TagSpend
    /\ learner' = [learner EXCEPT ![l] = [IdleLearner EXCEPT !.pc = "message"]]
    /\ tagLock' = tagLock \ {l}
    /\ UNCHANGED <<link, tag, arrival>>

-----------------------------------------------------------------------------
(* suggest_tags_for_asset, once its frames are embedded: the tag's pair and *)
(* whether there is a row; the count and the veto; the insert.              *)
Arrive(a) ==
    /\ arrival[a] = "new" /\ ActiveWork < VisionSlots
    /\ arrival' = [arrival EXCEPT ![a] =
          IF tag # NoProto /\ link[a] = "none" /\ Clears(a, tag) THEN "scored" ELSE "over"]
    /\ UNCHANGED <<link, tag, tagLock, learner, tagBudget>>

CountPending(a) ==
    /\ arrival[a] = "scored"
    /\ arrival' = [arrival EXCEPT ![a] =
          IF Waiting < ArrivalPending /\ ~Vetoed(a) THEN "counted" ELSE "over"]
    /\ UNCHANGED <<link, tag, tagLock, learner, tagBudget>>

(* Any row by now and the insert fails, logged and swallowed. *)
Offer(a) ==
    /\ arrival[a] = "counted"
    /\ link' = [link EXCEPT ![a] = IF @ = "none" THEN "clip" ELSE @]
    /\ arrival' = [arrival EXCEPT ![a] = "over"]
    /\ UNCHANGED <<tag, tagLock, learner, tagBudget>>

-----------------------------------------------------------------------------
Learning(l) == LoadTag(l) \/ Teach(l) \/ ReadLinks(l) \/ Rank(l) \/ CommitLearned(l)
Scoring(a) == Arrive(a) \/ CountPending(a) \/ Offer(a)
OneByOne(a) == AddTag(a) \/ RemoveTag(a) \/ Decide(a)

TagNext ==
    \/ \E a \in TagAssets : OneByOne(a) \/ WriteProposals(a) \/ Scoring(a)
    \/ \E page \in SUBSET TagAssets : \E accept \in SUBSET page : DecideMany(accept, page \ accept)
    \/ \E l \in Learners : Learning(l) \/ LearnerDies(l)
    \/ SuggestAll \/ RelearnByHand

TagFairness == /\ WF_tagVars(SuggestAll)
               /\ \A l \in Learners : WF_tagVars(Learning(l))
               /\ WF_tagVars(\E a \in TagAssets : Scoring(a))

TagSpec == TagInit /\ [][TagNext]_tagVars /\ TagFairness

-----------------------------------------------------------------------------
(* What the operator settled, a yes or a no, changes only by an answer      *)
(* about that one asset: no learner, arrival, proposal or bulk answer from  *)
(* a stale page touches it (decide_many: "a bulk click must never overturn  *)
(* a decision someone made one at a time").                                 *)
SettledStays ==
    [][\A a \in TagAssets : link[a] \in Settled /\ link'[a] # link[a] => OneByOne(a)]_tagVars

(* The unanswered suggestions of a tag stay bounded whatever overlaps: a    *)
(* pass that found the queue empty still adds its share after arrivals have *)
(* filled theirs, and Claude's proposals come on top.                       *)
PendingBounded ==
    Cardinality(Evidence({"clip"})) <= ArrivalPending + MaxPending

(* Once a tag was learned and the operator stops answering, the nightly     *)
(* pass makes the prototype the one the answers teach, whatever was lost,   *)
(* killed or overtaken.  A tag never learned waits for the operator.        *)
AnswersTeach ==
    tag # NoProto ~> tag.proto = Evidence(Positive) \cap Embedded

(* learn_tag: "arrival scoring sees the old pair or the new one, never a    *)
(* mix".                                                                    *)
NeverAMix == tag # NoProto => tag.bar = BarOf(tag.proto)

=============================================================================
