----------------------------- MODULE TagReview ------------------------------
(***************************************************************************)
(* The Claude tag reviewer (processing/tag_review_tasks.py, api/v1/tags.py): *)
(* requests and the nightly sweep that hand it pictures, its at-least-once   *)
(* executions under the shared budget, the settings row that says whether   *)
(* one is running, and the pictures it has answered for.                    *)
(***************************************************************************)
EXTENDS AICalls

CONSTANTS
    Pictures,           \* online pictures with a thumbnail
    Reviews,            \* deliveries of review_tags_with_claude
    ReviewIncidents     \* bound: requests, sweeps, operator's acts, errors, deaths

ASSUME ReviewAssumption ==
    /\ IsFiniteSet(Pictures) /\ IsFiniteSet(Reviews) /\ ReviewIncidents \in Nat

VARIABLES
    rvState,    \* AiReviewState.state
    rvPaid,     \* pictures with a ledger row that says ok
    rvOpinion,  \* pictures with a tag row that is not the learner's own guess
    review,     \* delivery -> its execution
    rvAlone,    \* history: the delivery that was picked and overlaps no other
    rvBudget    \* incidents left

reviewVars == <<rvState, rvPaid, rvOpinion, review, rvAlone, rvBudget>>

ReviewPcs == {"free", "message", "config", "next", "ask", "write", "end", "over", "raised"}
IdleReview == [pc |-> "free", given |-> {}, todo |-> {}, now |-> {}, budget |-> 0, cost |-> 0,
               verdict |-> "running"]

ReviewInit ==
    /\ rvState = "idle" /\ rvPaid = {} /\ rvOpinion = {}
    /\ review = [v \in Reviews |-> IdleReview] /\ rvAlone = {}
    /\ rvBudget \in 0..ReviewIncidents

ReviewRecords ==
    [pc : ReviewPcs, given : SUBSET Pictures, todo : SUBSET Pictures, now : SUBSET Pictures,
     budget : {0, Budget}, cost : 0..MaxCost, verdict : {"running", "budget", "failed"}]

ReviewTypeOK ==
    /\ rvState \in {"idle", "running", "done", "budget", "failed"}
    /\ rvPaid \subseteq Pictures /\ rvOpinion \subseteq Pictures
    /\ review \in [Reviews -> ReviewRecords]
    /\ \A v \in Reviews : /\ review[v].todo \cup review[v].now \subseteq review[v].given
                          /\ Cardinality(review[v].now) <= 1
    /\ rvAlone \subseteq Reviews
    /\ rvBudget \in 0..ReviewIncidents

ReviewSpend == rvBudget > 0 /\ rvBudget' = rvBudget - 1
Busy(v) == review[v].pc \notin {"free", "message", "over", "raised"}

(* Defect: any picture without an opinion, reviewed before or not. *)
UntaggedOnly == Pictures \ rvOpinion

(* pick_untagged: no person's or Claude's opinion, and not answered for. *)
Untagged == Pictures \ (rvOpinion \cup rvPaid)

-----------------------------------------------------------------------------
(* rvAlone: history, its pictures were picked and nothing overlaps it. *)
Hand(pictures, byPick) ==
    /\ pictures # {}
    /\ \E v \in Reviews :
          /\ review[v] = IdleReview
          /\ review' = [review EXCEPT ![v] = [IdleReview EXCEPT !.pc = "message",
                                                               !.given = pictures]]
          /\ rvAlone' = IF byPick /\ \A w \in Reviews : review[w].pc \in {"free", "over", "raised"}
                        THEN {v} ELSE {}

(* queue_claude_review: refused without a key, without budget left, or while *)
(* the row says a run is going; pictures by name, or the untagged ones.     *)
Request ==
    /\ key /\ month < cap /\ rvState # "running"
    /\ ReviewSpend
    /\ Hand(Untagged, TRUE) \/ \E p \in Pictures : Hand({p}, FALSE)
    /\ UNCHANGED <<rvState, rvPaid, rvOpinion>>

(* The nightly sweep does not look at the budget; the run does. *)
Sweep ==
    /\ key /\ rvState # "running"
    /\ ReviewSpend
    /\ Hand(Untagged, TRUE)
    /\ UNCHANGED <<rvState, rvPaid, rvOpinion>>

(* The operator tags a picture by hand, or answers a suggestion. *)
Judge(p) ==
    /\ ReviewSpend /\ p \notin rvOpinion
    /\ rvOpinion' = rvOpinion \cup {p}
    /\ UNCHANGED <<rvState, rvPaid, review, rvAlone>>

-----------------------------------------------------------------------------
(* _review: the configuration, then the row, overwritten. *)
Open(v) ==
    /\ review[v].pc = "message"
    /\ review' = [review EXCEPT ![v].pc = "config",
                                ![v].budget = cap,
                                ![v].todo = review[v].given,
                                ![v].verdict = IF key THEN "running" ELSE "failed"]
    /\ UNCHANGED <<rvState, rvPaid, rvOpinion, rvAlone, rvBudget>>

SayRunning(v) ==
    /\ review[v].pc = "config"
    /\ review' = [review EXCEPT ![v].pc = IF review[v].verdict = "failed" THEN "end" ELSE "next"]
    /\ rvState' = "running"
    /\ UNCHANGED <<rvPaid, rvOpinion, rvAlone, rvBudget>>

(* The cap is checked before the call that would cross it. *)
Pick(v) ==
    /\ review[v].pc = "next" /\ review[v].todo # {}
    /\ IF WithinBudget(review[v].budget)
       THEN \E p \in review[v].todo :
               review' = [review EXCEPT ![v].pc = "ask",
                                        ![v].now = {p},
                                        ![v].todo = review[v].todo \ {p}]
       ELSE review' = [review EXCEPT ![v].pc = "end", ![v].verdict = "budget"]
    /\ UNCHANGED <<rvState, rvPaid, rvOpinion, rvAlone, rvBudget>>

(* Offline or without a thumbnail by now: skipped, before the check. *)
SkipPicture(v) ==
    /\ review[v].pc = "next" /\ ReviewSpend
    /\ \E p \in review[v].todo : review' = [review EXCEPT ![v].todo = review[v].todo \ {p}]
    /\ UNCHANGED <<rvState, rvPaid, rvOpinion, rvAlone>>

Reply(v) ==
    /\ review[v].pc = "ask"
    /\ \E c \in Costs : review' = [review EXCEPT ![v].pc = "write", ![v].cost = c]
    /\ UNCHANGED <<rvState, rvPaid, rvOpinion, rvAlone, rvBudget>>

(* A failed call is recorded as such, without dollars; a fatal one ends it. *)
NoReply(v, kind) ==
    /\ review[v].pc = "ask" /\ ReviewSpend
    /\ review' = [review EXCEPT ![v].pc = IF kind = "fatal" THEN "end" ELSE "next",
                                ![v].now = {},
                                ![v].verdict = IF kind = "fatal" THEN "failed" ELSE "running"]
    /\ UNCHANGED <<rvState, rvPaid, rvOpinion, rvAlone>>

(* The ledger row and what admit let through, in one commit; perhaps no     *)
(* proposal survives and no row is written.  Every few pictures the state   *)
(* row is written again.                                                    *)
WriteReview(v) ==
    /\ review[v].pc = "write"
    /\ rvPaid' = rvPaid \cup review[v].now
    /\ rvOpinion' \in {rvOpinion, rvOpinion \cup review[v].now}
    /\ rvState' \in {rvState, "running"}
    /\ review' = [review EXCEPT ![v].pc = "next", ![v].now = {}, ![v].cost = 0]
    /\ UNCHANGED <<rvAlone, rvBudget>>

(* Somebody else creates the tag, or tags the picture, first: the unique    *)
(* constraint fails the transaction, nothing catches it, the task is over.  *)
Clash(v) ==
    /\ review[v].pc = "write" /\ ReviewSpend
    /\ review' = [review EXCEPT ![v].pc = "raised", ![v].now = {}, ![v].cost = 0]
    /\ UNCHANGED <<rvState, rvPaid, rvOpinion, rvAlone>>

LastPicture(v) ==
    /\ review[v].pc = "next" /\ review[v].todo = {}
    /\ review' = [review EXCEPT ![v].pc = "end"]
    /\ UNCHANGED <<rvState, rvPaid, rvOpinion, rvAlone, rvBudget>>

(* Defect: a run that stopped at the cap leaves the row as it is. *)
CloseDone(v) ==
    /\ review[v].pc = "end"
    /\ rvState' = IF review[v].verdict = "running" THEN "done" ELSE rvState
    /\ review' = [review EXCEPT ![v].pc = "over"]
    /\ UNCHANGED <<rvPaid, rvOpinion, rvAlone, rvBudget>>

Close(v) ==
    /\ review[v].pc = "end"
    /\ rvState' = IF review[v].verdict = "running" THEN "done" ELSE review[v].verdict
    /\ review' = [review EXCEPT ![v].pc = "over"]
    /\ UNCHANGED <<rvPaid, rvOpinion, rvAlone, rvBudget>>

(* A killed worker's message comes back, with the same pictures. *)
ReviewDies(v) ==
    /\ Busy(v) /\ ReviewSpend
    /\ review' = [review EXCEPT ![v] = [IdleReview EXCEPT !.pc = "message", !.given = review[v].given]]
    /\ rvAlone' = rvAlone \ {v}
    /\ UNCHANGED <<rvState, rvPaid, rvOpinion>>

-----------------------------------------------------------------------------
Quiet(v) == Open(v) \/ SayRunning(v) \/ Pick(v) \/ Reply(v) \/ LastPicture(v) \/ Close(v)
ReviewProgress(v) == \/ Quiet(v) /\ UNCHANGED callVars
                     \/ WriteReview(v) /\ RecordCall(review[v].cost)

ReviewNext ==
    \/ (Request \/ Sweep \/ \E p \in Pictures : Judge(p)) /\ UNCHANGED callVars
    \/ \E v \in Reviews :
          \/ ReviewProgress(v)
          \/ SkipPicture(v) /\ UNCHANGED callVars
          \/ \E kind \in Failures : NoReply(v, kind) /\ FailCall(kind)
          \/ Clash(v) /\ LoseCall(TRUE)
          \/ ReviewDies(v) /\ LoseCall(review[v].pc = "write")
    \/ /\ SetCap \/ SetKey \/ TurnMonth
       /\ ReviewSpend
       /\ UNCHANGED <<rvState, rvPaid, rvOpinion, review, rvAlone>>

ReviewFairness == \A v \in Reviews : WF_<<reviewVars, callVars>>(ReviewProgress(v))

ReviewSpec == ReviewInit /\ CallInit /\ [][ReviewNext]_<<reviewVars, callVars>> /\ ReviewFairness

-----------------------------------------------------------------------------
(* The pictures a sweep or a request picks are never paid for twice, however *)
(* the answers turned out, as long as no other run overlaps (a run that died *)
(* comes back with its pictures and is not one of these).                   *)
PicksPayOnce ==
    \A v \in Reviews : v \in rvAlone /\ review[v].pc = "ask" => review[v].now \cap rvPaid = {}

(* A row that says running ends, through refusals and deaths, as long as no *)
(* execution has raised.                                                    *)
ReviewEnds ==
    rvState = "running" ~> rvState # "running" \/ \E v \in Reviews : review[v].pc = "raised"

(* queue_claude_review: "A review is already running - it will finish on    *)
(* its own".                                                                *)
ReviewFinishes == rvState = "running" ~> rvState # "running"

=============================================================================
