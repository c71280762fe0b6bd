------------------------------- MODULE Studio -------------------------------
(***************************************************************************)
(* The parts that call Claude, and the tags it reviews, side by side: the   *)
(* AI edits of a listing, the tag reviewer and the tag learner.  Edits and  *)
(* reviews share the ledger, the cap and the key.  In a behaviour one part  *)
(* is busy and the others are at rest, in the state they start in.          *)
(***************************************************************************)
EXTENDS AIEdit, TagReview, Tagging

CONSTANT Overlap        \* bound: incidents of each part that calls Claude when both do

ASSUME StudioAssumption ==
    /\ EditRuns \cap Reviews = {}
    /\ Overlap \in Nat

VARIABLE busyPart       \* what is busy in this behaviour

studioVars == <<busyPart, callVars, editVars, reviewVars, tagVars>>

EditsMove == busyPart \in {"edits", "claude"} /\ UNCHANGED <<busyPart, reviewVars, tagVars>>
ReviewsMove == busyPart \in {"reviews", "claude"} /\ UNCHANGED <<busyPart, editVars, tagVars>>
TagsMove == busyPart = "tags" /\ UNCHANGED <<busyPart, callVars, editVars, reviewVars>>

StudioInit ==
    /\ CallInit /\ EditInit /\ ReviewInit /\ TagInit
    /\ \/ /\ busyPart \in {"edits", "reviews", "tags"}
          /\ edBudget = EditIncidents /\ rvBudget = ReviewIncidents
       \/ /\ busyPart = "claude"
          /\ edBudget <= Overlap /\ rvBudget <= Overlap

StudioNext ==
    \/ EditsMove /\ EditNext
    \/ ReviewsMove /\ ReviewNext
    \/ TagsMove /\ TagNext

(* Workers that have a message go on with it, a request that passed its     *)
(* check commits, and the nightly pass over the tags comes round.           *)
StudioFairness ==
    /\ WF_studioVars(EditsMove /\ \E r \in EditRuns : EditProgress(r))
    /\ WF_studioVars(EditsMove /\ \E t \in Pressers : PressQueue(t) /\ UNCHANGED callVars)
    /\ WF_studioVars(ReviewsMove /\ \E v \in Reviews : ReviewProgress(v))
    /\ WF_studioVars(TagsMove /\ (SuggestAll \/ \E a \in TagAssets : Scoring(a)))
    /\ \A l \in Learners : WF_studioVars(TagsMove /\ Learning(l))

StudioSpec == StudioInit /\ [][StudioNext]_studioVars /\ StudioFairness

(* The month's ledger and the callers of every edit and review, overlapping *)
(* or killed, behave as the budget's specification says: no call is made    *)
(* whose estimate the cap does not hold, and the ledger passes the cap by   *)
(* less than one call for each caller.                                      *)
Cap == INSTANCE SpendCap WITH
    Callers <- EditRuns \cup Reviews,
    ledger <- month,
    asking <- {r \in EditRuns : run[r].pc \in {"ask", "record"}}
              \cup {v \in Reviews : review[v].pc \in {"ask", "write"}}
CallersKeepCap == Cap!Spec /\ []Cap!OvershootBounded

(* The AI edit of a listing (ai/recipe_picker.py, the edit task): what a run *)
(* counts as edited is saved beside other saves, and a name the operator    *)
(* confirms while a run is at work stands.                                  *)
EditKept == [](CallTypeOK /\ EditTypeOK /\ EditedIsSaved) /\ ConfirmedNamesStay

(* The tags: no picture is picked for a paid review twice                   *)
(* (tag_review_tasks.py); the queue of suggestions is bounded whoever fills *)
(* it, and what the operator settled stays whatever comes from a stale      *)
(* page, a learner or an arrival (tag_tasks.py, api/v1/tags.py).            *)
TagsKept ==
    /\ [](ReviewTypeOK /\ PicksPayOnce /\ TagTypeOK /\ PendingBounded)
    /\ SettledStays

(* Through refusals, replaced runs and deaths an edit that is queued or     *)
(* running ends, the row that says a review is running says otherwise one   *)
(* day, and once a tag was learned and the operator stops answering the     *)
(* nightly pass makes its prototype the one the answers teach.              *)
StudioEnds == EditEnds /\ ReviewEnds /\ (busyPart = "tags" => AnswersTeach)

=============================================================================
