------------------------- MODULE ScanControlProofs -------------------------
(* Invariance proofs for ScanControl, for any number of libraries, scans,  *)
(* requests, batches and faults.                                           *)
EXTENDS ScanControl, TLAPS

USE DEF Statuses, Active

(* The strengthening.  late counts the batches committed under a paused or *)
(* cancelled row; a batch in hand was begun by a poll that set it to zero. *)
BatchIsPolled == pc = "batch" => late = 0

(* Whatever refers to a row - the pass's list, the execution, a request in *)
(* flight - refers to one that was inserted, and so has a library.         *)
RowsOwned   == \A s \in Scans : status[s] # "unborn" => owner[s] \in Libraries
TodoKnown   == \A s \in todo : status[s] # "unborn"
RequestKnown ==
    \A c \in Clients : req[c] \in Transition => status[req[c].scan] # "unborn"

IInv ==
    /\ TypeOK
    /\ ExecutedScanIsHeld /\ PromptControl /\ BatchIsPolled
    /\ RowsOwned /\ TodoKnown /\ RequestKnown

(* An insert only touches rows that did not exist, and gives them an owner. *)
RowsKept ==
    /\ status' \in [Scans -> Statuses]
    /\ owner' \in [Scans -> Libraries \cup {NoLibrary}]
    /\ \A s \in Scans :
         IF status[s] # "unborn" THEN status'[s] = status[s] /\ owner'[s] = owner[s]
         ELSE status'[s] # "unborn" => owner'[s] \in Libraries /\ status'[s] = "pending"

LEMMA InsertKeeps ==
    ASSUME NEW L \in SUBSET Libraries, Insert(L), TypeOK
    PROVE  RowsKept
<1>1. CASE UNCHANGED rows
  BY <1>1 DEF rows, TypeOK, RowsKept
<1>2. ASSUME NEW new \in [L -> Fresh],
             status' = [s \in Scans |-> IF \E l \in L : new[l] = s
                                        THEN "pending" ELSE status[s]],
             owner' = [s \in Scans |-> IF \E l \in L : new[l] = s
                                       THEN CHOOSE l \in L : new[l] = s
                                       ELSE owner[s]]
      PROVE  RowsKept
  <2>1. status' \in [Scans -> Statuses]
    BY <1>2 DEF TypeOK
  <2>2. ASSUME NEW s \in Scans
        PROVE  owner'[s] \in Libraries \cup {NoLibrary}
    <3>1. CASE \E l \in L : new[l] = s
      <4>1. (CHOOSE l \in L : new[l] = s) \in L
        BY <3>1
      <4>2. QED  BY <1>2, <3>1, <4>1
    <3>2. CASE ~ \E l \in L : new[l] = s
      BY <1>2, <3>2 DEF TypeOK
    <3>3. QED  BY <3>1, <3>2
  <2>3. owner' \in [Scans -> Libraries \cup {NoLibrary}]
    BY <1>2, <2>2
  <2>4. ASSUME NEW s \in Scans, status[s] # "unborn"
        PROVE  status'[s] = status[s] /\ owner'[s] = owner[s]
    BY <1>2, <2>4 DEF Fresh
  <2>5. ASSUME NEW s \in Scans, status[s] = "unborn", status'[s] # "unborn"
        PROVE  owner'[s] \in Libraries /\ status'[s] = "pending"
    <3>1. \E l \in L : new[l] = s
      BY <1>2, <2>5
    <3>2. (CHOOSE l \in L : new[l] = s) \in L
      BY <3>1
    <3>3. QED  BY <1>2, <3>1, <3>2
  <2>6. QED  BY <2>1, <2>3, <2>4, <2>5 DEF RowsKept
<1>3. QED
  BY <1>1, <1>2 DEF Insert

LEMMA InitInv == Init => IInv
<1> SUFFICES ASSUME Init PROVE IInv
  OBVIOUS
<1> USE DEF Init
<1>1. held \in Held
  BY DEF Held, NotHeld
<1>2. TypeOK
  BY <1>1 DEF TypeOK
<1>3. ExecutedScanIsHeld /\ PromptControl /\ BatchIsPolled
  BY DEF ExecutedScanIsHeld, Executing, PromptControl, BatchIsPolled
<1>4. RowsOwned /\ TodoKnown /\ RequestKnown
  BY NoRequestAssumption DEF RowsOwned, TodoKnown, RequestKnown
<1>5. QED  BY <1>2, <1>3, <1>4 DEF IInv

(* Everything IInv says beyond types survives a step that keeps the rows    *)
(* and, apart from the plan of the schedule, the loop.                      *)
LEMMA LoopUntouched ==
    ASSUME IInv, TypeOK', RowsKept, UNCHANGED loop,
           \A c \in Clients : req'[c] \in Transition =>
              req'[c] = req[c] \/ status[req'[c].scan] # "unborn"
    PROVE  IInv'
<1> USE DEF IInv, TypeOK, RowsKept, loop
<1>1. ExecutedScanIsHeld'
  BY DEF ExecutedScanIsHeld, Executing
<1>2. PromptControl' /\ BatchIsPolled'
  BY DEF PromptControl, BatchIsPolled
<1>3. RowsOwned'
  BY DEF RowsOwned
<1>4. TodoKnown'
  BY DEF TodoKnown
<1>5. RequestKnown'
  <2> SUFFICES ASSUME NEW c \in Clients, req'[c] \in Transition
               PROVE  status'[req'[c].scan] # "unborn"
    BY DEF RequestKnown
  <2>1. req'[c].scan \in Scans
    BY DEF Transition
  <2>2. status[req'[c].scan] # "unborn"
    BY DEF RequestKnown
  <2>3. QED  BY <2>1, <2>2
<1>6. QED  BY <1>1, <1>2, <1>3, <1>4, <1>5

(* What the operator asks leaves the loop alone; a removal deletes rows,   *)
(* which the loop notices at its next write.                               *)
LEMMA OperatorInv == IInv /\ Operator => IInv'
<1> SUFFICES ASSUME IInv, Operator PROVE IInv'
  OBVIOUS
<1>1. ASSUME NEW l \in Libraries, CreateLibrary(l) PROVE IInv'
  <2>1. RowsKept
    BY <1>1, InsertKeeps DEF CreateLibrary, IInv
  <2>2. TypeOK'
    BY <1>1, <2>1 DEF CreateLibrary, TypeOK, IInv, RowsKept, loop, plan
  <2>3. QED  BY <1>1, <2>1, <2>2, LoopUntouched DEF CreateLibrary
<1>2. ASSUME NEW l \in Libraries, SetEnabled(l) PROVE IInv'
  <2>1. TypeOK' /\ RowsKept
    BY <1>2 DEF SetEnabled, TypeOK, IInv, RowsKept, loop, plan, rows, RowsOwned
  <2>2. QED  BY <1>2, <2>1, LoopUntouched DEF SetEnabled
<1>3. ASSUME NEW l \in Libraries, DeleteLibrary(l) PROVE IInv'
  <2> USE <1>3 DEF DeleteLibrary, IInv, TypeOK, loop, plan
  <2>1. /\ \A s \in Scans : status'[s] \in {status[s], "deleted"}
        /\ status' \in [Scans -> Statuses]
        /\ library' \in [Libraries -> {"absent", "on", "off", "deleted"}]
        /\ refused' \subseteq Libraries
    OBVIOUS
  <2>2. TypeOK'
    BY <2>1
  <2>3. ExecutedScanIsHeld' /\ PromptControl' /\ BatchIsPolled'
    BY <2>1 DEF ExecutedScanIsHeld, Executing, PromptControl, BatchIsPolled
  <2>4. RowsOwned'
    <3> SUFFICES ASSUME NEW s \in Scans, status'[s] # "unborn"
                 PROVE  owner[s] \in Libraries
      BY DEF RowsOwned
    <3>1. QED  BY DEF RowsOwned
  <2>5. TodoKnown'
    BY <2>1 DEF TodoKnown
  <2>6. RequestKnown'
    BY <2>1 DEF RequestKnown, Transition
  <2>7. QED  BY <2>2, <2>3, <2>4, <2>5, <2>6
<1>4. ASSUME NEW c \in Clients, NEW l \in Libraries, TriggerRead(c, l) PROVE IInv'
  <2>1. RowsKept /\ TypeOK'
    BY <1>4 DEF TriggerRead, TypeOK, Trigger, IInv, RowsKept, loop, plan, rows,
                catalog, RowsOwned
  <2>2. \A d \in Clients : req'[d] \in Transition => req'[d] = req[d]
    BY <1>4 DEF TriggerRead, Transition, IInv, TypeOK
  <2>3. QED  BY <1>4, <2>1, <2>2, LoopUntouched DEF TriggerRead
<1>5. ASSUME NEW c \in Clients, NEW l \in Libraries,
             Pause(c, l) \/ Resume(c, l) \/ Cancel(c, l)
      PROVE  IInv'
  <2>1. PICK s \in ScansOf(l), to \in {"paused", "running", "cancelled"} :
              /\ req' = [req EXCEPT ![c] = [scan |-> s, to |-> to]]
              /\ status[s] # "unborn"
    <3>1. PICK from \in {{"running"}, {"paused"}, Active},
               to \in {"paused", "running", "cancelled"} : TransitionRead(c, l, from, to)
      BY <1>5 DEF Pause, Resume, Cancel
    <3>2. PICK s \in ScansOf(l) :
              /\ {t \in ScansOf(l) : status[t] \in from} = {s}
              /\ req' = [req EXCEPT ![c] = [scan |-> s, to |-> to]]
      BY <3>1 DEF TransitionRead
    <3>3. status[s] \in from
      BY <3>2
    <3>4. QED  BY <3>2, <3>3
  <2>2. req' \in [Clients -> {NoRequest} \cup Transition \cup Trigger]
    BY <2>1 DEF TypeOK, Transition, ScansOf, IInv
  <2>3. UNCHANGED <<catalog, rows, loop, plan, faults>>
    BY <1>5 DEF Pause, Resume, Cancel, TransitionRead
  <2>4. RowsKept /\ TypeOK'
    BY <2>2, <2>3 DEF TypeOK, IInv, RowsKept, catalog, rows, loop, plan
  <2>5. \A d \in Clients : req'[d] \in Transition =>
              req'[d] = req[d] \/ status[req'[d].scan] # "unborn"
    BY <2>1 DEF IInv, TypeOK
  <2>6. QED  BY <2>3, <2>4, <2>5, LoopUntouched
<1>6. QED
  BY <1>1, <1>2, <1>3, <1>4, <1>5 DEF Operator

(* A request in flight may land on any row, but it only writes paused,     *)
(* running or cancelled.                                                   *)
LEMMA CommitInv == IInv /\ Commit => IInv'
<1> SUFFICES ASSUME IInv, NEW c \in Clients, TriggerCommit(c) \/ TransitionCommit(c)
             PROVE  IInv'
  BY DEF Commit
<1>0. req' \in [Clients -> {NoRequest} \cup Transition \cup Trigger]
  BY DEF TriggerCommit, TransitionCommit, TypeOK, IInv
<1>1. CASE TriggerCommit(c)
  <2>1. {req[c].lib} \in SUBSET Libraries
    BY <1>1 DEF TriggerCommit, Trigger
  <2>2. RowsKept
    <3>1. CASE Insert({req[c].lib})
      BY <2>1, <3>1, InsertKeeps DEF IInv
    <3>2. CASE UNCHANGED rows
      BY <3>2 DEF TypeOK, RowsKept, rows, IInv
    <3>3. QED  BY <1>1, <3>1, <3>2 DEF TriggerCommit
  <2>3. TypeOK'
    BY <1>0, <1>1, <2>2 DEF TriggerCommit, TypeOK, IInv, RowsKept, catalog, loop, plan
  <2>4. \A d \in Clients : req'[d] \in Transition =>
              req'[d] = req[d] \/ status[req'[d].scan] # "unborn"
    BY <1>1, NoRequestAssumption DEF TriggerCommit, IInv, TypeOK
  <2>5. QED  BY <1>1, <2>2, <2>3, <2>4, LoopUntouched DEF TriggerCommit
<1>2. CASE TransitionCommit(c)
  <2> USE <1>2 DEF TransitionCommit, IInv, TypeOK, loop, plan, catalog
  <2>1. /\ req[c].scan \in Scans
        /\ req[c].to \in {"paused", "running", "cancelled"}
        /\ status[req[c].scan] # "unborn"
    BY DEF Transition, RequestKnown
  <2>2. /\ status' \in [Scans -> Statuses]
        /\ \A s \in Scans : (status'[s] = "unborn") <=> (status[s] = "unborn")
        /\ \A s \in Scans : status'[s] \in {status[s], "paused", "running", "cancelled"}
    BY <2>1
  <2>3. TypeOK'
    BY <1>0, <2>2
  <2>4. ExecutedScanIsHeld' /\ PromptControl' /\ BatchIsPolled'
    BY <2>2 DEF ExecutedScanIsHeld, Executing, PromptControl, BatchIsPolled
  <2>5. RowsOwned' /\ TodoKnown'
    BY <2>2 DEF RowsOwned, TodoKnown
  <2>6. RequestKnown'
    <3> SUFFICES ASSUME NEW d \in Clients, req'[d] \in Transition
                 PROVE  status'[req'[d].scan] # "unborn"
      BY DEF RequestKnown
    <3>1. req'[d].scan \in Scans
      BY DEF Transition
    <3>2. d # c /\ req'[d] = req[d]
      BY NoRequestAssumption
    <3>3. status[req[d].scan] # "unborn"
      BY <3>2 DEF RequestKnown
    <3>4. QED  BY <2>2, <3>1, <3>2, <3>3
  <2>7. QED  BY <2>3, <2>4, <2>5, <2>6
<1>3. QED  BY <1>1, <1>2

(* The loop between two executions. *)
LEMMA PassInv == IInv /\ Scanner /\ ~ Execute => IInv'
<1> USE DEF IInv, TypeOK
<1> SUFFICES ASSUME IInv, Scanner, ~ Execute PROVE IInv'
  OBVIOUS
<1>1. CASE Boot
  <2> USE <1>1 DEF Boot, plan, catalog
  <2>1. /\ status' \in [Scans -> Statuses]
        /\ \A s \in Scans : (status'[s] = "unborn") <=> (status[s] = "unborn")
        /\ cur = NoScan
    BY DEF ExecutedScanIsHeld, Executing
  <2>2. TypeOK'
    BY <2>1
  <2>3. ExecutedScanIsHeld' /\ PromptControl' /\ BatchIsPolled'
    BY <2>1 DEF ExecutedScanIsHeld, Executing, PromptControl, BatchIsPolled
  <2>4. RowsOwned' /\ TodoKnown' /\ RequestKnown'
    BY <2>1 DEF RowsOwned, TodoKnown, RequestKnown, Transition
  <2>5. QED  BY <2>2, <2>3, <2>4
<1>2. CASE LoadPending
  <2> USE <1>2 DEF LoadPending, plan, catalog, rows
  <2>1. TypeOK'
    BY DEF Held, NotHeld
  <2>2. ExecutedScanIsHeld' /\ PromptControl' /\ BatchIsPolled'
    BY DEF ExecutedScanIsHeld, Executing, PromptControl, BatchIsPolled
  <2>3. RowsOwned' /\ TodoKnown' /\ RequestKnown'
    BY DEF RowsOwned, TodoKnown, RequestKnown
  <2>4. QED  BY <2>1, <2>2, <2>3
<1>3. CASE EndPass
  <2> USE <1>3 DEF EndPass, catalog, rows
  <2>1. TypeOK'
    BY ConstantsAssumption
  <2>2. ExecutedScanIsHeld' /\ PromptControl' /\ BatchIsPolled'
    BY DEF ExecutedScanIsHeld, Executing, PromptControl, BatchIsPolled
  <2>3. RowsOwned' /\ TodoKnown' /\ RequestKnown'
    BY DEF RowsOwned, TodoKnown, RequestKnown
  <2>4. QED  BY <2>1, <2>2, <2>3
<1>4. CASE CommitPlan
  <2> USE <1>4 DEF CommitPlan
  <2>1. RowsKept
    <3>1. CASE Insert(due)
      BY <3>1, InsertKeeps
    <3>2. CASE UNCHANGED rows
      BY <3>2 DEF RowsKept, rows
    <3>3. QED  BY <3>1, <3>2
  <2>2. TypeOK'
    BY <2>1 DEF RowsKept, catalog
  <2>3. ExecutedScanIsHeld' /\ PromptControl' /\ BatchIsPolled'
    BY <2>1 DEF RowsKept, ExecutedScanIsHeld, Executing, PromptControl, BatchIsPolled
  <2>4. RowsOwned' /\ TodoKnown' /\ RequestKnown'
    BY <2>1 DEF RowsKept, RowsOwned, TodoKnown, RequestKnown, Transition
  <2>5. QED  BY <2>2, <2>3, <2>4
<1>5. ASSUME NEW s \in Scans, TakeDeleted(s) PROVE IInv'
  BY <1>5 DEF TakeDeleted, Abandon, plan, catalog, rows, ExecutedScanIsHeld, Executing,
              PromptControl, BatchIsPolled, RowsOwned, TodoKnown, RequestKnown
<1>6. ASSUME NEW l \in Libraries, Hold(l)
      PROVE  held' \in Held
  BY <1>6 DEF Hold, Held, NotHeld
<1>7. ASSUME NEW s \in Scans, TakeDisabled(s) PROVE IInv'
  <2> USE <1>7 DEF TakeDisabled, plan, catalog
  <2>1. status[s] # "unborn" /\ owner[s] \in Libraries
    BY DEF TodoKnown, RowsOwned
  <2>2. held' \in Held
    BY <1>6, <2>1
  <2>3. /\ status' \in [Scans -> Statuses]
        /\ \A t \in Scans : (status'[t] = "unborn") <=> (status[t] = "unborn")
        /\ cur = NoScan
    BY <2>1 DEF ExecutedScanIsHeld, Executing
  <2>4. TypeOK'
    BY <2>2, <2>3
  <2>5. ExecutedScanIsHeld' /\ PromptControl' /\ BatchIsPolled'
    BY <2>3 DEF ExecutedScanIsHeld, Executing, PromptControl, BatchIsPolled
  <2>6. RowsOwned' /\ TodoKnown' /\ RequestKnown'
    BY <2>3 DEF RowsOwned, TodoKnown, RequestKnown, Transition
  <2>7. QED  BY <2>4, <2>5, <2>6
<1>8. ASSUME NEW s \in Scans, StartScan(s) PROVE IInv'
  <2> USE <1>8 DEF StartScan, plan, catalog
  <2>1. status[s] # "unborn" /\ owner[s] \in Libraries
    BY DEF TodoKnown, RowsOwned
  <2>2. held' \in Held
    BY <1>6, <2>1
  <2>3. /\ status' \in [Scans -> Statuses]
        /\ \A t \in Scans : (status'[t] = "unborn") <=> (status[t] = "unborn")
        /\ status'[s] = "running"
    BY <2>1
  <2>4. TypeOK'
    BY <2>2, <2>3, ConstantsAssumption
  <2>5. ExecutedScanIsHeld' /\ PromptControl' /\ BatchIsPolled'
    BY <2>3, ConstantsAssumption
       DEF ExecutedScanIsHeld, Executing, PromptControl, BatchIsPolled
  <2>6. RowsOwned' /\ TodoKnown' /\ RequestKnown'
    BY <2>3 DEF RowsOwned, TodoKnown, RequestKnown, Transition
  <2>7. QED  BY <2>4, <2>5, <2>6
<1>9. ASSUME NEW l \in Libraries, PlanLibrary(l) PROVE IInv'
  <2>1. TypeOK' /\ RowsKept
    BY <1>9 DEF PlanLibrary, RowsKept, loop, catalog, rows, RowsOwned
  <2>2. QED  BY <1>9, <2>1, LoopUntouched DEF PlanLibrary
<1>10. QED
  BY <1>1, <1>2, <1>3, <1>4, <1>5, <1>7, <1>8, <1>9 DEF Scanner

(* run_scan. *)
LEMMA ExecuteInv == IInv /\ Execute => IInv'
<1> USE DEF IInv, TypeOK, catalog, plan
<1> SUFFICES ASSUME IInv, Execute PROVE IInv'
  OBVIOUS
<1>1. ASSUME NEW outcome \in {"completed", "failed", "cancelled"}, Leave(outcome),
             status[cur] # "unborn"
      PROVE  IInv'
  <2> USE <1>1 DEF Leave
  <2>1. /\ status' \in [Scans -> Statuses]
        /\ \A s \in Scans : (status'[s] = "unborn") <=> (status[s] = "unborn")
    OBVIOUS
  <2>2. TypeOK'
    BY <2>1
  <2>3. ExecutedScanIsHeld' /\ PromptControl' /\ BatchIsPolled'
    BY DEF ExecutedScanIsHeld, Executing, PromptControl, BatchIsPolled
  <2>4. RowsOwned' /\ TodoKnown' /\ RequestKnown'
    BY <2>1 DEF RowsOwned, TodoKnown, RequestKnown, Transition
  <2>5. QED  BY <2>2, <2>3, <2>4
<1>2. CASE ProbeUnreachable \/ PollCancelled \/ Complete
  <2>1. status[cur] # "unborn"
    BY <1>2 DEF ProbeUnreachable, PollCancelled, Complete, ExecutedScanIsHeld, Executing
  <2>2. QED  BY <1>1, <1>2, <2>1 DEF ProbeUnreachable, PollCancelled, Complete
<1>3. CASE ProbeReachable
  BY <1>3 DEF ProbeReachable, rows, ExecutedScanIsHeld, Executing,
              PromptControl, BatchIsPolled, RowsOwned, TodoKnown, RequestKnown
<1>4. CASE PollGoesOn
  <2> USE <1>4 DEF PollGoesOn, rows
  <2>1. status[cur] = "running"
    BY DEF ExecutedScanIsHeld, Executing
  <2>2. QED
    BY <2>1 DEF ExecutedScanIsHeld, Executing, PromptControl, BatchIsPolled,
                RowsOwned, TodoKnown, RequestKnown
<1>5. CASE ScanDeleted
  BY <1>5 DEF ScanDeleted, Abandon, rows, ExecutedScanIsHeld, Executing,
              PromptControl, BatchIsPolled, RowsOwned, TodoKnown, RequestKnown
<1>6. CASE CommitBatch
  <2> USE <1>6 DEF CommitBatch, rows
  <2>1. cur \in Scans /\ status[cur] # "unborn"
    BY DEF ExecutedScanIsHeld, Executing
  <2>2. stocked' \subseteq Libraries /\ left' \in Nat /\ late' \in {0, 1}
    BY <2>1 DEF RowsOwned, BatchIsPolled
  <2>3. TypeOK'
    BY <2>2
  <2>4. ExecutedScanIsHeld' /\ PromptControl' /\ BatchIsPolled'
    BY <2>2 DEF ExecutedScanIsHeld, Executing, PromptControl, BatchIsPolled
  <2>5. RowsOwned' /\ TodoKnown' /\ RequestKnown'
    BY DEF RowsOwned, TodoKnown, RequestKnown
  <2>6. QED  BY <2>3, <2>4, <2>5
<1>7. QED
  BY <1>2, <1>3, <1>4, <1>5, <1>6 DEF Execute

(* A death or an exception drops the loop's own state and writes no row. *)
LEMMA FaultInv == IInv /\ Fault => IInv'
BY DEF IInv, TypeOK, Fault, BootFails, LoopError, Crash, catalog, rows, plan,
       ExecutedScanIsHeld, Executing, PromptControl, BatchIsPolled,
       RowsOwned, TodoKnown, RequestKnown

LEMMA StepInv == IInv /\ [Next]_vars => IInv'
<1>1. CASE Next
  BY <1>1, OperatorInv, CommitInv, PassInv, ExecuteInv, FaultInv DEF Next
<1>2. CASE UNCHANGED vars
  BY <1>2 DEF vars, IInv, TypeOK, catalog, rows, loop, plan,
              ExecutedScanIsHeld, Executing, PromptControl, BatchIsPolled,
              RowsOwned, TodoKnown, RequestKnown
<1>3. QED  BY <1>1, <1>2

(* Every reachable state satisfies the inductive invariant. *)
THEOREM Invariance == Spec => []IInv
<1>1. QED  BY InitInv, StepInv, PTL DEF Spec

(* Type correctness, for every value of the constants. *)
THEOREM TypeCorrect == Spec => []TypeOK
<1>1. IInv => TypeOK
  BY DEF IInv
<1>2. QED  BY <1>1, Invariance, PTL

(* No process but the scanner moves the row of the executing scan out of   *)
(* running, paused, cancelled and deleted.                                 *)
THEOREM ExecutionHeld == Spec => []ExecutedScanIsHeld
<1>1. IInv => ExecutedScanIsHeld
  BY DEF IInv
<1>2. QED  BY <1>1, Invariance, PTL

(* A pause or a cancel stops the executing scan after at most one batch,   *)
(* for any number of concurrent requests.                                  *)
THEOREM ControlIsPrompt == Spec => []PromptControl
<1>1. IInv => PromptControl
  BY DEF IInv
<1>2. QED  BY <1>1, Invariance, PTL
=============================================================================
