---------------------------- MODULE ScanControl ----------------------------
(***************************************************************************)
(* The life of a scan row: the API that queues, pauses, resumes and        *)
(* cancels it, the one scanner process that executes it, the schedule that *)
(* queues more, and the restart that recovers it.                          *)
(*                                                                         *)
(*   scanner/__main__.py   main loop, pending scans, schedule, recovery    *)
(*   scanner/scan.py       run_scan and its pause/cancel poll              *)
(*   api/v1/libraries.py   libraries and the scan control endpoints        *)
(*                                                                         *)
(* Every process talks to the database through read-committed sessions     *)
(* that never expire what they loaded, so a handler is a SELECT and, later,*)
(* a blind UPDATE by primary key.  Each of the two is an action here.      *)
(* What a scan does to the asset rows is module Reconcile; here only       *)
(* whether a library has any (stocked) is kept.                            *)
(***************************************************************************)
EXTENDS Naturals, FiniteSets

CONSTANTS
    Libraries,   \* library identities; one is never reused
    Scans,       \* scan-row identities (bound: rows ever created)
    Clients,     \* concurrent API requests
    Scheduled,   \* libraries with a scan_interval_minutes
    Batches,     \* batches the walk of a library yields
    MaxFaults,   \* bound: crashes and exceptions of the scanner
    NoScan, NoLibrary, NoRequest

ASSUME ConstantsAssumption ==
    /\ Scheduled \subseteq Libraries
    /\ Batches \in Nat
    /\ MaxFaults \in Nat
    /\ NoScan \notin Scans
    /\ NoLibrary \notin Libraries

VARIABLES
    library,   \* the row's existence and its enabled flag
    stocked,   \* libraries some asset row belongs to
    refused,   \* libraries whose confirmed removal the database refused
    status,    \* scans.status; "unborn" and "deleted" are rows not there
    owner,     \* scans.library_id
    pc,        \* where the scanner's main loop stands
    todo,      \* rows of the pending list the pass has yet to reach
    held,      \* library row the pass's session still holds, as it was read
    cur,       \* the scan run_scan is executing
    left,      \* batches its walk has yet to yield
    late,      \* batches committed since its row stopped saying "running"
    look,      \* libraries the schedule has yet to look at
    due,       \* libraries it will insert a scan for when it commits
    req,       \* what each API request read and is about to write
    faults

rows    == <<status, owner>>
catalog == <<library, stocked, refused>>
loop    == <<pc, todo, held, cur, left, late>>
plan    == <<look, due>>
vars    == <<catalog, rows, loop, plan, req, faults>>

Active   == {"pending", "running", "paused"}
Statuses == Active \cup {"completed", "failed", "cancelled", "unborn", "deleted"}

Transition == [scan : Scans, to : {"paused", "running", "cancelled"}]
Trigger    == [lib : Libraries]
Held       == [lib : Libraries \cup {NoLibrary}, on : BOOLEAN]
NotHeld    == [lib |-> NoLibrary, on |-> FALSE]

ASSUME NoRequestAssumption == NoRequest \notin Transition \cup Trigger

TypeOK ==
    /\ library \in [Libraries -> {"absent", "on", "off", "deleted"}]
    /\ stocked \subseteq Libraries
    /\ refused \subseteq Libraries
    /\ status \in [Scans -> Statuses]
    /\ owner \in [Scans -> Libraries \cup {NoLibrary}]
    /\ pc \in {"boot", "load", "take", "probe", "poll", "batch", "plan"}
    /\ todo \subseteq Scans
    /\ held \in Held
    /\ cur \in Scans \cup {NoScan}
    /\ left \in Nat
    /\ late \in Nat
    /\ look \subseteq Libraries
    /\ due \subseteq Libraries
    /\ req \in [Clients -> {NoRequest} \cup Transition \cup Trigger]
    /\ faults \in Nat

Init ==
    /\ library = [l \in Libraries |-> "absent"]
    /\ stocked = {} /\ refused = {}
    /\ status = [s \in Scans |-> "unborn"]
    /\ owner = [s \in Scans |-> NoLibrary]
    /\ pc = "boot"
    /\ todo = {} /\ held = NotHeld
    /\ cur = NoScan /\ left = 0 /\ late = 0
    /\ look = {} /\ due = {}
    /\ req = [c \in Clients |-> NoRequest]
    /\ faults = 0

-----------------------------------------------------------------------------
(* Rows *)

Fresh         == {s \in Scans : status[s] = "unborn"}
ScansOf(l)    == {s \in Scans : owner[s] = l}
ActiveOf(l)   == {s \in ScansOf(l) : status[s] \in Active}
Exists(l)     == library[l] \in {"on", "off"}

(* One new pending row for each library of L.  When the bound on rows      *)
(* leaves too few, the insert is dropped.                                  *)
Insert(L) ==
    \/ \E new \in [L -> Fresh] :
         /\ \A k, l \in L : k # l => new[k] # new[l]
         /\ status' = [s \in Scans |-> IF \E l \in L : new[l] = s
                                       THEN "pending" ELSE status[s]]
         /\ owner' = [s \in Scans |-> IF \E l \in L : new[l] = s
                                      THEN CHOOSE l \in L : new[l] = s
                                      ELSE owner[s]]
    \/ /\ Cardinality(Fresh) < Cardinality(L)
       /\ UNCHANGED rows

-----------------------------------------------------------------------------
(* API: libraries *)

(* create_library: the row and its initial scan in one commit. *)
CreateLibrary(l) ==
    /\ library[l] = "absent"
    /\ library' = [library EXCEPT ![l] = "on"]
    /\ Insert({l})
    /\ UNCHANGED <<stocked, refused, loop, plan, req, faults>>

(* update_library, as far as scans are concerned. *)
SetEnabled(l) ==
    /\ Exists(l)
    /\ library' = [library EXCEPT ![l] = IF @ = "on" THEN "off" ELSE "on"]
    /\ UNCHANGED <<stocked, refused, rows, loop, plan, req, faults>>

(* delete_library with the right confirm_name.  The scans go by the foreign *)
(* key's cascade.  Library.assets has neither cascade nor passive_deletes,  *)
(* so the flush first sets library_id of the assets to NULL, which the      *)
(* column refuses: with an asset in it the library stays.                   *)
DeleteLibrary(l) ==
    /\ Exists(l)
    /\ IF l \in stocked
       THEN /\ refused' = refused \cup {l}
            /\ UNCHANGED <<library, status>>
       ELSE /\ library' = [library EXCEPT ![l] = "deleted"]
            /\ status' = [s \in Scans |-> IF owner[s] = l THEN "deleted" ELSE status[s]]
            /\ UNCHANGED refused
    /\ UNCHANGED <<stocked, owner, loop, plan, req, faults>>

-----------------------------------------------------------------------------
(* API: scan control *)

(* trigger_scan up to its check: no active row, else 409.  A disabled      *)
(* library passes.                                                         *)
TriggerRead(c, l) ==
    /\ req[c] = NoRequest
    /\ Exists(l) /\ ActiveOf(l) = {}
    /\ req' = [req EXCEPT ![c] = [lib |-> l]]
    /\ UNCHANGED <<catalog, rows, loop, plan, faults>>

(* ... and its insert, which a library deleted meanwhile makes fail. *)
TriggerCommit(c) ==
    /\ req[c] \in Trigger
    /\ IF Exists(req[c].lib) THEN Insert({req[c].lib}) ELSE UNCHANGED rows
    /\ req' = [req EXCEPT ![c] = NoRequest]
    /\ UNCHANGED <<catalog, loop, plan, faults>>

(* _transition_scan's SELECT: exactly one row in a state of from, else 409 *)
(* (none) or 500 (several, scalar_one_or_none).                            *)
TransitionRead(c, l, from, to) ==
    /\ req[c] = NoRequest
    /\ \E s \in ScansOf(l) :
         /\ {t \in ScansOf(l) : status[t] \in from} = {s}
         /\ req' = [req EXCEPT ![c] = [scan |-> s, to |-> to]]
    /\ UNCHANGED <<catalog, rows, loop, plan, faults>>

Pause(c, l)  == TransitionRead(c, l, {"running"}, "paused")
Resume(c, l) == TransitionRead(c, l, {"paused"}, "running")
Cancel(c, l) == TransitionRead(c, l, Active, "cancelled")

(* Defect: resuming puts the scan back in the queue. *)
ResumeRequeues(c) ==
    /\ req[c] \in Transition
    /\ status' = [status EXCEPT ![req[c].scan] =
                    IF req[c].to = "running" THEN "pending" ELSE req[c].to]
    /\ req' = [req EXCEPT ![c] = NoRequest]
    /\ UNCHANGED <<catalog, owner, loop, plan, faults>>

(* ... and its UPDATE by primary key, whatever the row says by now. *)
TransitionCommit(c) ==
    /\ req[c] \in Transition
    /\ status' = IF status[req[c].scan] = "deleted" THEN status
                 ELSE [status EXCEPT ![req[c].scan] = req[c].to]
    /\ req' = [req EXCEPT ![c] = NoRequest]
    /\ UNCHANGED <<catalog, owner, loop, plan, faults>>

-----------------------------------------------------------------------------
(* Scanner: recovery and the list of pending scans *)

(* _requeue_interrupted_scans, once, before the loop. *)
Boot ==
    /\ pc = "boot"
    /\ status' = [s \in Scans |-> IF status[s] = "running" THEN "pending" ELSE status[s]]
    /\ pc' = "load"
    /\ UNCHANGED <<catalog, owner, todo, held, cur, left, late, plan, req, faults>>

(* main: "scanner.startup_recovery_failed" is logged and the loop starts. *)
BootFails ==
    /\ pc = "boot" /\ faults < MaxFaults
    /\ pc' = "load"
    /\ faults' = faults + 1
    /\ UNCHANGED <<catalog, rows, todo, held, cur, left, late, plan, req>>

(* Defect: the list leaves out disabled libraries instead of cancelling.   *)
LoadPendingOfEnabled ==
    /\ pc = "load"
    /\ todo' = {s \in Scans : status[s] = "pending" /\ library[owner[s]] = "on"}
    /\ held' = NotHeld /\ pc' = "take"
    /\ UNCHANGED <<catalog, rows, cur, left, late, plan, req, faults>>

(* A pass begins with a new session and the pending rows of this moment. *)
LoadPending ==
    /\ pc = "load"
    /\ todo' = {s \in Scans : status[s] = "pending"}
    /\ held' = NotHeld
    /\ pc' = "take"
    /\ UNCHANGED <<catalog, rows, cur, left, late, plan, req, faults>>

(* The library as db.get returns it: the object the loop still holds, or   *)
(* the row, or nothing.                                                    *)
LibraryOn(l) == IF held.lib = l THEN held.on ELSE library[l] = "on"
Hold(l) ==
    held' = IF held.lib = l THEN held
            ELSE IF Exists(l) THEN [lib |-> l, on |-> library[l] = "on"] ELSE NotHeld

(* Its UPDATE matches no row: StaleDataError, logged by main; next pass.   *)
Abandon ==
    /\ pc' = "load" /\ todo' = {} /\ cur' = NoScan /\ late' = 0
    /\ UNCHANGED <<catalog, rows, held, left, plan, req, faults>>

TakeDeleted(s) ==
    /\ pc = "take" /\ s \in todo /\ status[s] = "deleted"
    /\ Abandon

TakeDisabled(s) ==
    /\ pc = "take" /\ s \in todo /\ status[s] # "deleted"
    /\ ~ LibraryOn(owner[s])
    /\ Hold(owner[s])
    /\ status' = [status EXCEPT ![s] = "cancelled"]
    /\ todo' = todo \ {s}
    /\ UNCHANGED <<catalog, owner, pc, cur, left, late, plan, req, faults>>

(* run_scan's first commit.  The row was pending when the list was loaded; *)
(* nothing looks at it again.                                              *)
StartScan(s) ==
    /\ pc = "take" /\ s \in todo /\ status[s] # "deleted"
    /\ LibraryOn(owner[s])
    /\ Hold(owner[s])
    /\ status' = [status EXCEPT ![s] = "running"]
    /\ cur' = s /\ left' = Batches /\ late' = 0
    /\ todo' = todo \ {s}
    /\ pc' = "probe"
    /\ UNCHANGED <<catalog, owner, plan, req, faults>>

-----------------------------------------------------------------------------
(* Scanner: run_scan *)

Gone == status[cur] = "deleted"

(* The end of an execution: its outcome is written over whatever is there. *)
Leave(outcome) ==
    /\ status' = [status EXCEPT ![cur] = outcome]
    /\ cur' = NoScan /\ late' = 0
    /\ pc' = "take"
    /\ UNCHANGED <<catalog, owner, todo, held, left, plan, req, faults>>

ProbeUnreachable == pc = "probe" /\ ~ Gone /\ Leave("failed")

ProbeReachable ==
    /\ pc = "probe"
    /\ pc' = "poll"
    /\ UNCHANGED <<catalog, rows, todo, held, cur, left, late, plan, req, faults>>

(* _await_while_paused: sits here as long as the row says "paused". *)
PollGoesOn ==
    /\ pc = "poll" /\ status[cur] \notin {"paused", "cancelled", "deleted"}
    /\ pc' = "batch"
    /\ late' = IF status[cur] = "running" THEN 0 ELSE late
    /\ UNCHANGED <<catalog, rows, todo, held, cur, left, plan, req, faults>>

(* Defect: the poll returns only when the row says running. *)
PollOnlyRunning == FALSE

PollCancelled == pc = "poll" /\ status[cur] = "cancelled" /\ Leave("cancelled")

(* The row went with its library: the refresh, or the write, raises. *)
ScanDeleted == pc \in {"probe", "poll", "batch"} /\ Gone /\ Abandon

(* Defects: the poll is skipped between batches; a batch is walked again.  *)
BatchStep(next, taken) ==
    /\ pc = "batch" /\ left > 0 /\ ~ Gone
    /\ left' = left - taken
    /\ late' = IF status[cur] = "running" THEN 0 ELSE late + 1
    /\ pc' = next
    /\ UNCHANGED <<catalog, rows, todo, held, cur, plan, req, faults>>
CommitBatchUnpolled == BatchStep("batch", 1)
CommitBatchAgain    == BatchStep("poll", 0)

(* One batch of the walk, committed: the library may have assets now. *)
CommitBatch ==
    /\ pc = "batch" /\ left > 0 /\ ~ Gone
    /\ left' = left - 1
    /\ late' = IF status[cur] = "running" THEN 0 ELSE late + 1
    /\ stocked' \in {stocked, stocked \cup {owner[cur]}}
    /\ pc' = "poll"
    /\ UNCHANGED <<library, refused, rows, todo, held, cur, plan, req, faults>>

(* Defect: a status nobody knows. *)
CompleteMisspelt == pc = "batch" /\ left = 0 /\ ~ Gone /\ Leave("complete")

(* The walk is over: missing files flagged, "completed" written. *)
Complete == pc = "batch" /\ left = 0 /\ ~ Gone /\ Leave("completed")

-----------------------------------------------------------------------------
(* Scanner: schedule, faults *)

EndPass ==
    /\ pc = "take" /\ todo = {}
    /\ pc' = "plan"
    /\ look' = {l \in Scheduled : library[l] = "on"}
    /\ due' = {}
    /\ UNCHANGED <<catalog, rows, todo, held, cur, left, late, req, faults>>

(* _schedule_due_scans on one library.  Whether its interval has passed, or *)
(* its failed share is back, is the clock's choice.                         *)
PlanLibrary(l) ==
    /\ pc = "plan" /\ l \in look
    /\ look' = look \ {l}
    /\ due' \in IF ActiveOf(l) = {} THEN {due, due \cup {l}} ELSE {due}
    /\ UNCHANGED <<catalog, rows, loop, req, faults>>

(* Its one commit, and the sweeps of the rest of the pass, which touch no  *)
(* scan.  A library deleted since fails the whole insert.                  *)
CommitPlan ==
    /\ pc = "plan" /\ look = {}
    /\ IF \A l \in due : Exists(l) THEN Insert(due) ELSE UNCHANGED rows
    /\ due' = {}
    /\ pc' = "load"
    /\ UNCHANGED <<catalog, todo, held, cur, left, late, look, req, faults>>

(* Anything raised inside the loop: rolled back, logged, next pass.  The    *)
(* row of the scan that raised keeps the status it had.                     *)
LoopError ==
    /\ pc # "boot" /\ faults < MaxFaults
    /\ faults' = faults + 1
    /\ pc' = "load" /\ todo' = {} /\ cur' = NoScan /\ late' = 0
    /\ look' = {} /\ due' = {}
    /\ UNCHANGED <<catalog, rows, held, left, req>>

(* The process dies - a deploy, a reboot - and is started again. *)
Crash ==
    /\ pc # "boot" /\ faults < MaxFaults
    /\ faults' = faults + 1
    /\ pc' = "boot" /\ todo' = {} /\ cur' = NoScan /\ late' = 0
    /\ look' = {} /\ due' = {}
    /\ UNCHANGED <<catalog, rows, held, left, req>>

-----------------------------------------------------------------------------
Operator ==
    \/ \E l \in Libraries : CreateLibrary(l) \/ SetEnabled(l) \/ DeleteLibrary(l)
    \/ \E c \in Clients, l \in Libraries :
         TriggerRead(c, l) \/ Pause(c, l) \/ Resume(c, l) \/ Cancel(c, l)

Commit == \E c \in Clients : TriggerCommit(c) \/ TransitionCommit(c)

Execute ==
    \/ ProbeUnreachable \/ ProbeReachable \/ PollGoesOn \/ PollCancelled
    \/ ScanDeleted \/ CommitBatch \/ Complete

Scanner ==
    \/ Boot \/ LoadPending \/ EndPass \/ CommitPlan
    \/ \E s \in Scans : TakeDeleted(s) \/ TakeDisabled(s) \/ StartScan(s)
    \/ \E l \in Libraries : PlanLibrary(l)
    \/ Execute

Fault == BootFails \/ LoopError \/ Crash

Next == Operator \/ Commit \/ Scanner \/ Fault

Spec == Init /\ [][Next]_vars

(* The scanner is one loop that never waits for anything but the pause of   *)
(* the scan it executes, and a request handler that has read goes on to     *)
(* write.  Nothing obliges the operator to ask, or a fault to happen.       *)
FairSpec == Spec /\ WF_vars(Scanner) /\ WF_vars(Commit)

-----------------------------------------------------------------------------
(* Properties *)

Executing == cur # NoScan
Blocked   == Executing /\ status[cur] = "paused"

(* The row of the scan in execution is never back in the queue nor already  *)
(* given an outcome: neither the recovery, nor the schedule, nor a request  *)
(* that read another row earlier, writes "pending", "completed" or "failed" *)
(* under run_scan's feet.  run_scan relies on it when it treats every       *)
(* status that is not "paused" or "cancelled" as leave to go on.            *)
ExecutedScanIsHeld ==
    /\ Executing => status[cur] \in {"running", "paused", "cancelled", "deleted"}
    /\ Executing <=> pc \in {"probe", "poll", "batch"}

(* "API-driven control takes effect mid-scan" (scan.py): once the row of    *)
(* the executing scan says paused or cancelled, at most the batch in hand   *)
(* is committed before the scan stops, whatever the timing of the request.  *)
PromptControl == late <= 1

(* A pending scan does not wait for ever: the scanner takes it, or its      *)
(* owner goes, unless the scanner sits in the pause of another scan.        *)
PendingIsTaken ==
    \A s \in Scans : status[s] = "pending" ~> status[s] # "pending" \/ Blocked

(* A cancelled scan is let go of: its execution ends, unless an older       *)
(* request for the same row is written after the cancel.                    *)
CancelledIsLetGo ==
    \A s \in Scans : cur = s /\ status[s] = "cancelled" ~> cur # s \/ Blocked

(* Every execution ends unless the operator leaves it paused. *)
ExecutionEnds == \A s \in Scans : cur = s ~> cur # s \/ Blocked

(* What waits is taken, what is cancelled is let go of and what is executed *)
(* ends, whatever requests, crashes and errors fall between the steps of    *)
(* the scanner, except in a pause only the operator can end.                *)
ScansEnd == PendingIsTaken /\ CancelledIsLetGo /\ ExecutionEnds

-----------------------------------------------------------------------------
(* What the docs say and the code does not do *)

(* "There is one scanner, so a scan still marked running at startup is one  *)
(* whose process died under it": a running row is being executed, except    *)
(* between a death and the recovery that follows it.                        *)
RunningIsExecuted ==
    pc # "boot" => \A s \in Scans : status[s] = "running" => cur = s

=============================================================================
