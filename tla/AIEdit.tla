------------------------------- MODULE AIEdit -------------------------------
(***************************************************************************)
(* One listing's AI edit (api/v1/listings.py, processing/tasks.py): presses *)
(* of the button, the at-least-once executions that edit or name the        *)
(* photographs one by one, the operator's own names and recipes beside      *)
(* them, and the 45 minutes after which a press replaces a run.             *)
(***************************************************************************)
EXTENDS AICalls

CONSTANTS
    Photos,         \* the listing's photographs
    EditRuns,       \* deliveries of ai_edit_listing
    Pressers,       \* browser tabs that press the button
    EditIncidents   \* bound: presses, operator's acts, errors and deaths

ASSUME EditAssumption ==
    /\ IsFiniteSet(Photos) /\ IsFiniteSet(EditRuns) /\ IsFiniteSet(Pressers)
    /\ EditIncidents \in Nat

VARIABLES
    edState,        \* Listing.ai_edit_state
    edOverdue,      \* AI_EDIT_STALE has passed since ai_edit_started_at
    press,          \* tab -> the mode its request passed the check with, or "none"
    named,          \* photograph -> naming_source
    recipes,        \* photograph -> version -> who saved it
    saving,         \* the operator's save: photograph -> the version it read
    wiped,          \* history: photographs whose recipes were cleared
    run,            \* delivery -> its execution
    edBudget        \* incidents left

editVars == <<edState, edOverdue, press, named, recipes, saving, wiped, run, edBudget>>
deskVars == <<named, recipes, saving, wiped>>

Modes == {"ai", "preset", "describe"}
Operator == "operator"
Attempts == 3
RunPcs == {"free", "message", "config", "check", "ask", "record", "version",
           "insert", "name", "end", "over"}
IdleRun == [pc |-> "free", mode |-> "ai", budget |-> 0, writer |-> "preset", todo |-> {}, now |-> {},
            cost |-> 0, version |-> 0, tries |-> 0, done |-> {}, verdict |-> "whole"]

EditInit ==
    /\ edState = "idle" /\ edOverdue = FALSE
    /\ press = [t \in Pressers |-> "none"]
    /\ named = [p \in Photos |-> ""]
    /\ recipes = [p \in Photos |-> << >>]
    /\ saving = << >> /\ wiped = {}
    /\ run = [r \in EditRuns |-> IdleRun]
    /\ edBudget \in 0..EditIncidents

RunRecords ==
    [pc : RunPcs, mode : Modes, budget : {0, Budget}, writer : {"claude", "preset"},
     todo : SUBSET Photos, now : SUBSET Photos, cost : 0..MaxCost, version : Nat, tries : Nat,
     done : SUBSET Photos, verdict : {"whole", "nothing", "stopped"}]

EditTypeOK ==
    /\ edState \in {"idle", "queued", "running", "done", "failed"}
    /\ edOverdue \in BOOLEAN
    /\ press \in [Pressers -> Modes \cup {"none"}]
    /\ named \in [Photos -> {"", "suggested", "confirmed"}]
    /\ \A p \in Photos : /\ DOMAIN recipes[p] \subseteq Nat \ {0}
                         /\ Range(recipes[p]) \subseteq EditRuns \cup {Operator}
    /\ DOMAIN saving \subseteq Photos /\ Range(saving) \subseteq Nat
    /\ wiped \subseteq Photos
    /\ run \in [EditRuns -> RunRecords]
    /\ \A r \in EditRuns : Cardinality(run[r].now) <= 1 /\ run[r].tries <= Attempts
    /\ edBudget \in 0..EditIncidents

EditSpend == edBudget > 0 /\ edBudget' = edBudget - 1
Held == edState \in {"queued", "running"} /\ ~edOverdue
Live(r) == run[r].pc \notin {"free", "over"}
Highest(p) == IF recipes[p] = << >> THEN 0
              ELSE CHOOSE v \in DOMAIN recipes[p] : \A w \in DOMAIN recipes[p] : w <= v
WithVersion(saved, v, who) ==
    [w \in DOMAIN saved \cup {v} |-> IF w \in DOMAIN saved THEN saved[w] ELSE who]

-----------------------------------------------------------------------------
(* The button: the check of a live run and the commit of queued are two     *)
(* steps of one request.  Naming needs the key; editing does without it.    *)
PressCheck(t) ==
    /\ press[t] = "none" /\ ~Held
    /\ EditSpend
    /\ \E m \in Modes :
          /\ m = "ai" => key
          /\ m = "preset" => ~key
          /\ m = "describe" => key /\ \E p \in Photos : named[p] # "confirmed"
          /\ press' = [press EXCEPT ![t] = m]
    /\ UNCHANGED <<edState, edOverdue, deskVars, run>>

PressQueue(t) ==
    /\ press[t] # "none"
    /\ \E r \in EditRuns : /\ run[r] = IdleRun
                           /\ run' = [run EXCEPT ![r].pc = "message", ![r].mode = press[t]]
    /\ press' = [press EXCEPT ![t] = "none"]
    /\ edState' = "queued" /\ edOverdue' = FALSE
    /\ UNCHANGED <<deskVars, edBudget>>

(* The broker refuses: queued is already committed, failed follows. *)
PressRefused(t) ==
    /\ press[t] # "none"
    /\ EditSpend
    /\ press' = [press EXCEPT ![t] = "none"]
    /\ edState' = "failed" /\ edOverdue' = FALSE
    /\ UNCHANGED <<deskVars, run>>

(* ai_edit_started_at is written by the press alone: 45 minutes later the   *)
(* run is taken for dead, working or not.                                   *)
TimePasses ==
    /\ Held
    /\ EditSpend
    /\ edOverdue' = TRUE
    /\ UNCHANGED <<edState, press, deskVars, run>>

-----------------------------------------------------------------------------
(* The operator meanwhile: set_naming, save_edit or apply_to_listing, which *)
(* read the newest versions and commit in two steps, and clear_edit.        *)
ConfirmName(p) ==
    /\ EditSpend
    /\ named' = [named EXCEPT ![p] = "confirmed"]
    /\ UNCHANGED <<edState, edOverdue, press, recipes, saving, wiped, run>>

ReadToSave ==
    /\ saving = << >> /\ EditSpend
    /\ \E ps \in {{p} : p \in Photos} \cup {Photos} : saving' = [p \in ps |-> Highest(p)]
    /\ UNCHANGED <<edState, edOverdue, press, named, recipes, wiped, run>>

(* One transaction: a version taken meanwhile fails the whole request. *)
CommitSave ==
    /\ saving # << >>
    /\ recipes' = IF \E p \in DOMAIN saving : saving[p] + 1 \in DOMAIN recipes[p]
                  THEN recipes
                  ELSE [p \in Photos |-> IF p \in DOMAIN saving
                                         THEN WithVersion(recipes[p], saving[p] + 1, Operator)
                                         ELSE recipes[p]]
    /\ saving' = << >>
    /\ UNCHANGED <<edState, edOverdue, press, named, wiped, run, edBudget>>

ClearRecipes(p) ==
    /\ EditSpend /\ recipes[p] # << >>
    /\ recipes' = [recipes EXCEPT ![p] = << >>]
    /\ wiped' = wiped \cup {p}
    /\ UNCHANGED <<edState, edOverdue, press, named, saving, run>>

-----------------------------------------------------------------------------
(* The run.  set_state("running") is a bulk update of whatever is there. *)
Start(r) ==
    /\ run[r].pc = "message"
    /\ run' = [run EXCEPT ![r].pc = "config"]
    /\ edState' = "running"
    /\ UNCHANGED <<edOverdue, press, deskVars, edBudget>>

(* The configuration and the photographs are read once, for the whole run;  *)
(* a naming whose key is gone fails.                                        *)
Load(r) ==
    /\ run[r].pc = "config"
    /\ LET keyless == run[r].mode = "describe" /\ ~key
           photos == {p \in Photos : run[r].mode = "describe" => named[p] # "confirmed"}
       IN  run' = [run EXCEPT ![r].pc = IF keyless THEN "end" ELSE "check",
                              ![r].verdict = IF keyless THEN "stopped"
                                             ELSE IF photos = {} THEN "nothing" ELSE "whole",
                              ![r].budget = cap,
                              ![r].writer = IF key /\ run[r].mode # "preset"
                                            THEN "claude" ELSE "preset",
                              ![r].todo = photos]
    /\ UNCHANGED <<edState, edOverdue, press, deskVars, edBudget>>

(* check_budget before the photograph's call; a run past its cap stops. *)
Check(r) ==
    /\ run[r].pc = "check" /\ run[r].todo # {}
    /\ IF run[r].writer = "claude" /\ ~WithinBudget(run[r].budget)
       THEN run' = [run EXCEPT ![r].pc = "end", ![r].verdict = "stopped"]
       ELSE \E p \in run[r].todo :
               run' = [run EXCEPT ![r].pc = IF run[r].writer = "claude" THEN "ask" ELSE "version",
                                  ![r].tries = 0,
                                  ![r].now = {p},
                                  ![r].todo = run[r].todo \ {p}]
    /\ UNCHANGED <<edState, edOverdue, press, deskVars, edBudget>>

Answered(r) ==
    /\ run[r].pc = "ask"
    /\ \E c \in Costs : run' = [run EXCEPT ![r].pc = "record", ![r].cost = c]
    /\ UNCHANGED <<edState, edOverdue, press, deskVars, edBudget>>

(* An exception skips the photograph; a fatal one ends the run. *)
NotAnswered(r, kind) ==
    /\ run[r].pc = "ask" /\ EditSpend
    /\ run' = [run EXCEPT ![r].pc = IF kind = "fatal" THEN "end" ELSE "check",
                          ![r].verdict = IF kind = "fatal" THEN "stopped" ELSE "whole",
                          ![r].now = {}]
    /\ UNCHANGED <<edState, edOverdue, press, deskVars>>

(* No source to render, or segmentation and rendering raise. *)
Skip(r) ==
    /\ run[r].pc = "version" /\ EditSpend
    /\ run' = [run EXCEPT ![r].pc = "check", ![r].now = {}]
    /\ UNCHANGED <<edState, edOverdue, press, deskVars>>

(* spend.record and its commit, before anything is written for the photo. *)
RecordEdit(r) ==
    /\ run[r].pc = "record"
    /\ run' = [run EXCEPT ![r].pc = IF run[r].mode = "describe" THEN "name" ELSE "version",
                          ![r].cost = 0,
                          ![r].tries = 0]
    /\ UNCHANGED <<edState, edOverdue, press, deskVars, edBudget>>

ReadVersion(r) ==
    /\ run[r].pc = "version"
    /\ IF run[r].tries = Attempts
       THEN run' = [run EXCEPT ![r].pc = "check", ![r].now = {}]
       ELSE \E p \in run[r].now : run' = [run EXCEPT ![r].pc = "insert",
                                                     ![r].version = Highest(p) + 1]
    /\ UNCHANGED <<edState, edOverdue, press, deskVars, edBudget>>

(* Defect: the version someone else took is not tried again. *)
InsertOnce(r) ==
    /\ run[r].pc = "insert"
    /\ \E p \in run[r].now : recipes' = [recipes EXCEPT ![p] = WithVersion(@, run[r].version, r)]
    /\ run' = [run EXCEPT ![r].pc = "name", ![r].version = 0]
    /\ UNCHANGED <<edState, edOverdue, press, named, saving, wiped, edBudget>>

(* The unique constraint lets one of two through; the other reads again. *)
Insert(r) ==
    /\ run[r].pc = "insert"
    /\ \E p \in run[r].now :
          IF run[r].version \in DOMAIN recipes[p]
          THEN /\ run' = [run EXCEPT ![r].pc = "version",
                                     ![r].tries = run[r].tries + 1,
                                     ![r].version = 0]
               /\ UNCHANGED recipes
          ELSE /\ run' = [run EXCEPT ![r].pc = "name", ![r].version = 0]
               /\ recipes' = [recipes EXCEPT ![p] = WithVersion(@, run[r].version, r)]
    /\ UNCHANGED <<edState, edOverdue, press, named, saving, wiped, edBudget>>

(* Defect: the snapshot of the start decides, not the row of now. *)
NameAnyway(r) ==
    /\ run[r].pc = "name"
    /\ named' = [p \in Photos |-> IF p \in run[r].now /\ run[r].writer = "claude"
                                  THEN "suggested" ELSE named[p]]
    /\ run' = [run EXCEPT ![r].pc = "check",
                          ![r].now = {},
                          ![r].done = run[r].done \cup run[r].now]
    /\ UNCHANGED <<edState, edOverdue, press, recipes, saving, wiped, edBudget>>

(* save_naming: the row's own naming_source is in the update's WHERE; a     *)
(* preset names nothing.                                                    *)
Name(r) ==
    /\ run[r].pc = "name"
    /\ named' = [p \in Photos |-> IF /\ p \in run[r].now /\ run[r].writer = "claude"
                                     /\ named[p] # "confirmed"
                                  THEN "suggested" ELSE named[p]]
    /\ run' = [run EXCEPT ![r].pc = "check",
                          ![r].now = {},
                          ![r].done = run[r].done \cup run[r].now]
    /\ UNCHANGED <<edState, edOverdue, press, recipes, saving, wiped, edBudget>>

Finished(r) ==
    /\ run[r].pc = "check" /\ run[r].todo = {}
    /\ run' = [run EXCEPT ![r].pc = "end"]
    /\ UNCHANGED <<edState, edOverdue, press, deskVars, edBudget>>

(* Defect: a run that stopped early does not write its end. *)
EndIfWhole(r) ==
    /\ run[r].pc = "end"
    /\ edState' = IF run[r].verdict = "stopped" THEN edState ELSE "done"
    /\ run' = [run EXCEPT ![r].pc = "over"]
    /\ UNCHANGED <<edOverdue, press, deskVars, edBudget>>

End(r) ==
    /\ run[r].pc = "end"
    /\ edState' = IF \/ run[r].verdict = "stopped"
                     \/ run[r].verdict = "whole" /\ run[r].done = {}
                  THEN "failed" ELSE "done"
    /\ run' = [run EXCEPT ![r].pc = "over"]
    /\ UNCHANGED <<edOverdue, press, deskVars, edBudget>>

(* A killed worker's message comes back and the whole run starts again. *)
EditDies(r) ==
    /\ Live(r) /\ run[r].pc # "message" /\ EditSpend
    /\ run' = [run EXCEPT ![r] = [IdleRun EXCEPT !.pc = "message", !.mode = run[r].mode]]
    /\ UNCHANGED <<edState, edOverdue, press, deskVars>>

-----------------------------------------------------------------------------
Working(r) == \/ Start(r) \/ Load(r) \/ Check(r) \/ Answered(r) \/ ReadVersion(r)
              \/ Insert(r) \/ Name(r) \/ Finished(r) \/ End(r)

EditProgress(r) == \/ Working(r) /\ UNCHANGED callVars
                   \/ RecordEdit(r) /\ RecordCall(run[r].cost)

Desk == TimePasses \/ ReadToSave \/ CommitSave \/ \E p \in Photos : ConfirmName(p) \/ ClearRecipes(p)

EditNext ==
    \/ \E t \in Pressers : (PressCheck(t) \/ PressQueue(t) \/ PressRefused(t)) /\ UNCHANGED callVars
    \/ Desk /\ UNCHANGED callVars
    \/ \E r \in EditRuns :
          \/ EditProgress(r)
          \/ \E kind \in Failures : NotAnswered(r, kind) /\ FailCall(kind)
          \/ Skip(r) /\ UNCHANGED callVars
          \/ EditDies(r) /\ LoseCall(run[r].pc = "record")
    \/ /\ SetCap \/ SetKey \/ TurnMonth
       /\ EditSpend
       /\ UNCHANGED <<edState, edOverdue, press, deskVars, run>>

EditFairness ==
    /\ \A r \in EditRuns : WF_<<editVars, callVars>>(EditProgress(r))
    /\ \A t \in Pressers : WF_<<editVars, callVars>>(PressQueue(t) /\ UNCHANGED callVars)

EditSpec == EditInit /\ CallInit /\ [][EditNext]_<<editVars, callVars>> /\ EditFairness

-----------------------------------------------------------------------------
(* A name the operator confirmed is the operator's from then on, whatever   *)
(* a run read before (save_naming's WHERE, "confirmed-never-overwritten").  *)
ConfirmedNamesStay ==
    [][\A p \in Photos : named[p] = "confirmed" => named'[p] = "confirmed"]_named

(* A photograph a run counts as edited has a recipe version of that run,    *)
(* whoever else was saving, unless the operator cleared its recipes.        *)
EditedIsSaved ==
    \A r \in EditRuns : run[r].mode # "describe" =>
        \A p \in run[r].done \ wiped : r \in Range(recipes[p])

(* A run that is queued or running ends, through refusals and deaths. *)
EditEnds == edState \in {"queued", "running"} ~> edState \in {"done", "failed"}

(* ai_edit: "One run per listing ... it is refused while one is live". *)
OneRun == \A r, s \in EditRuns : Live(r) /\ Live(s) => r = s

(* spend.py: "Every call FrameFound makes to Anthropic ... lands in one      *)
(* ledger with the token counts the API itself reported".                   *)
EveryCallRecorded == ~unrecorded

=============================================================================
