------------------------ MODULE ListingExportProofs ------------------------
(* Invariance proofs for ListingExport, for any number of clients and      *)
(* executions and any budget of edits, outages, deaths and errors.         *)
(*                                                                         *)
(* The argument: unless a send ever met another, there is one delivery or  *)
(* one execution at a time (OneAtATime).  So nothing publishes between an   *)
(* execution's load and its own publication: the status it found or wrote  *)
(* is not "ready" while it writes the file (NotReadyYet), the file is its   *)
(* own (OwnFile), the fingerprint it loaded is the one in the row          *)
(* (PrintLoaded) - which matters, since an unchanged column is not written. *)
(* Without an undo the items only grow, so a digest taken before they were  *)
(* read can equal the one of now only if they are the same (InOrder).       *)
EXTENDS ListingExport, TLAPS

OneAtATime ==
    ~ overlap =>
      /\ messages <= 1
      /\ messages = 1 => \A r \in Runs : ~ Running(r)
      /\ \A r, q \in Runs : Running(r) /\ Running(q) => r = q

Latest == used["undos"] = 0 => items = latest

Before    == {"loaded", "marked", "printed", "read", "writing", "written", "failing"}
Unpublished == Before \ {"loaded"}

NotReadyYet(r) ==
    run[r].step \in Unpublished \/ (At(r, "loaded") /\ run[r].status = "exporting")
      => status # "ready"
OwnFile(r)     == run[r].step \in {"writing", "written"} => file = {r}
PrintLoaded(r) == run[r].step \in Before => print = run[r].was
InOrder(r) ==
    used["undos"] = 0 =>
      /\ run[r].step \in {"printed", "read", "writing", "written"} =>
           run[r].print \in Prints /\ run[r].print.items <= items
      /\ run[r].step \in {"read", "writing", "written"} =>
           run[r].print.items <= run[r].items /\ run[r].items <= items

Undisturbed == exists /\ ~ overlap
RunsInOrder ==
    Undisturbed =>
      \A r \in Runs : NotReadyYet(r) /\ OwnFile(r) /\ PrintLoaded(r) /\ InOrder(r)

ReadyInOrder ==
    Undisturbed /\ status = "ready" =>
      \E r \in Runs :
        /\ WholeZip(r)
        /\ used["undos"] = 0 =>
             /\ print \in Prints /\ print.items <= run[r].items
             /\ run[r].items <= items

IInv == TypeOK /\ OneAtATime /\ Latest /\ RunsInOrder /\ ReadyInOrder

-----------------------------------------------------------------------------
(* Types *)

RowTyped ==
    /\ exists \in BOOLEAN /\ header \in 0..MaxRenames
    /\ items \in 0..MaxEdits /\ latest \in 0..MaxEdits
ExportTyped ==
    /\ status \in Statuses /\ relpath \in BOOLEAN /\ print \in Prints \cup {NoPrint}
UsedTyped == used \in [Budgets -> Nat] /\ \A b \in Budgets : used[b] <= Max[b]
QueueTyped == messages \in Nat /\ overlap \in BOOLEAN
RunTyped == run \in [Runs -> Execution]
ClientTyped == client \in [Clients -> Request]

LEMMA Parts ==
    TypeOK <=> /\ RowTyped /\ ExportTyped /\ UsedTyped /\ QueueTyped
               /\ RunTyped /\ ClientTyped /\ file \subseteq Runs
BY DEF TypeOK, RowTyped, ExportTyped, UsedTyped, QueueTyped, RunTyped, ClientTyped

LEMMA PartsAfter ==
    ASSUME RowTyped', ExportTyped', UsedTyped', QueueTyped', RunTyped', ClientTyped',
           file' \subseteq Runs
    PROVE  TypeOK'
BY DEF TypeOK, RowTyped, ExportTyped, UsedTyped, QueueTyped, RunTyped, ClientTyped

LEMMA MaxTyped == \A b \in Budgets : Max[b] \in Nat
BY ListingExportAssumption DEF Max, Budgets

LEMMA SpendKeeps ==
    ASSUME UsedTyped, NEW b \in Budgets, Spend(b)
    PROVE  UsedTyped' /\ (b # "undos" => used'["undos"] = used["undos"])
BY MaxTyped DEF UsedTyped, Spend, Budgets

LEMMA StepKeeps ==
    ASSUME RunTyped, NEW r \in Runs, NEW step \in RunSteps, Step(r, step)
    PROVE  RunTyped'
BY DEF RunTyped, Step, Execution

LEMMA NowTyped == ASSUME RowTyped PROVE Now \in Prints
BY DEF RowTyped, Now, Prints

LEMMA ClientKeeps ==
    ASSUME ClientTyped, NEW c \in Clients, NEW step \in RequestSteps, To(c, step) \/ Done(c)
    PROVE  ClientTyped'
BY DEF ClientTyped, To, Done, Idle, Request, RequestSteps

LEMMA OperatorTypes == ASSUME TypeOK, Operator PROVE TypeOK'
<1>1. RowTyped'
  <2>1. RowTyped /\ MaxRenames \in Nat /\ MaxEdits \in Nat
    BY Parts, ListingExportAssumption
  <2>2. CASE Rename
    BY <2>1, <2>2 DEF Rename, RowTyped
  <2>3. CASE Edit
    BY <2>1, <2>3 DEF Edit, RowTyped
  <2>4. CASE Undo
    <3>1. items' \in 0..latest /\ UNCHANGED <<exists, header, latest>>
      BY <2>4 DEF Undo
    <3>2. QED  BY <2>1, <3>1 DEF RowTyped
  <2>5. CASE Delete
    BY <2>1, <2>5 DEF Delete, RowTyped
  <2>6. QED  BY <2>2, <2>3, <2>4, <2>5 DEF Operator
<1>2. UsedTyped'
  BY Parts, SpendKeeps DEF Operator, Rename, Edit, Undo, Delete, Budgets, UsedTyped
<1>3. ExportTyped' /\ QueueTyped' /\ RunTyped' /\ ClientTyped' /\ file' \subseteq Runs
  BY DEF Operator, Rename, Edit, Undo, Delete, export, queue, TypeOK,
         ExportTyped, QueueTyped, RunTyped, ClientTyped
<1>4. QED  BY <1>1, <1>2, <1>3, PartsAfter

LEMMA RequestTypes ==
    ASSUME TypeOK, NEW c \in Clients, Ask(c) \/ Answer(c)
    PROVE  TypeOK'
<1>1. UsedTyped /\ ClientTyped /\ ExportTyped
  BY Parts
<1>2. ClientTyped'
  <2>1. CASE AskZip(c)
    BY <1>1, <2>1 DEF AskZip, ClientTyped, ExportTyped, Request, RequestSteps
  <2>2. CASE Check(c) \/ Queue(c) \/ Send(c) \/ BrokerDown(c) \/ Refuse(c)
             \/ CheckFresh(c) \/ Serve(c)
    BY <1>1, <2>2, ClientKeeps
    DEF Check, Queue, Send, BrokerDown, Refuse, CheckFresh, Serve, RequestSteps
  <2>3. QED  BY <2>1, <2>2 DEF Ask, Answer
<1>3. UsedTyped'
  BY <1>1, SpendKeeps
  DEF Ask, Answer, Check, Queue, Send, BrokerDown, Refuse, AskZip, CheckFresh, Serve,
      Budgets, UsedTyped
<1>4. ExportTyped'
  <2>1. CASE Queue(c)
    BY <1>1, <2>1 DEF Queue, ExportTyped, Statuses
  <2>2. CASE Refuse(c)
    BY <1>1, <2>2 DEF Refuse, ExportTyped, Statuses
  <2>3. CASE UNCHANGED export
    BY <1>1, <2>3 DEF export, ExportTyped
  <2>4. QED
    BY <2>1, <2>2, <2>3
    DEF Ask, Answer, Check, Send, BrokerDown, AskZip, CheckFresh, Serve
<1>5. QueueTyped'
  <2>1. QueueTyped
    BY Parts
  <2>2. CASE Send(c)
    BY <2>1, <2>2 DEF Send, QueueTyped
  <2>3. CASE UNCHANGED queue
    BY <2>1, <2>3 DEF queue, QueueTyped
  <2>4. QED
    BY <2>2, <2>3
    DEF Ask, Answer, Check, Queue, BrokerDown, Refuse, AskZip, CheckFresh, Serve
<1>6. RowTyped' /\ RunTyped' /\ file' \subseteq Runs
  BY DEF Ask, Answer, Check, Queue, Send, BrokerDown, Refuse, AskZip, CheckFresh, Serve,
         row, RowTyped, RunTyped, TypeOK
<1>7. QED  BY <1>2, <1>3, <1>4, <1>5, <1>6, PartsAfter

LEMMA WorkTypes ==
    ASSUME TypeOK, NEW r \in Runs, Work(r) \/ Trouble(r)
    PROVE  TypeOK'
<1>1. /\ UsedTyped /\ RowTyped /\ ExportTyped /\ RunTyped
      /\ run[r] \in Execution /\ Now \in Prints
  BY Parts, NowTyped DEF RunTyped
<1>2. RunTyped'
  <2>1. CASE Load(r)
    BY <1>1, <2>1 DEF Load, RunTyped, RowTyped, ExportTyped, Execution, RunSteps
  <2>2. CASE Fingerprint(r)
    BY <1>1, <2>2 DEF Fingerprint, RunTyped, Execution, RunSteps
  <2>3. CASE ReadItems(r)
    BY <1>1, <2>3 DEF ReadItems, RunTyped, RowTyped, Execution, RunSteps
  <2>4. CASE Mark(r) \/ Raise(r) \/ Die(r)
    <3>1. PICK step \in RunSteps : Step(r, step)
      BY <2>4 DEF Mark, Raise, Die, RunSteps
    <3>2. QED  BY <1>1, <3>1, StepKeeps
  <2>5. CASE Open(r) \/ Close(r) \/ Publish(r) \/ Fail(r) \/ PublishFailure(r) \/ Acknowledge(r)
    BY <1>1, <2>5, StepKeeps
    DEF Open, Close, Publish, Fail, PublishFailure, Acknowledge, RunSteps
  <2>6. QED  BY <2>1, <2>2, <2>3, <2>4, <2>5 DEF Work, Trouble
<1>3. ExportTyped'
  <2>1. CASE Publish(r)
    BY <1>1, <2>1 DEF Publish, Write, export, ExportTyped, Execution, Statuses
  <2>2. CASE ~ Publish(r)
    BY <1>1, <2>2
    DEF Work, Trouble, Load, Mark, Fingerprint, ReadItems, Open, Close, Fail, PublishFailure,
        Acknowledge, Raise, Die, export, ExportTyped, Statuses
  <2>3. QED  BY <2>1, <2>2
<1>4. UsedTyped'
  <2>1. CASE Raise(r) \/ Die(r)
    BY <1>1, <2>1, SpendKeeps DEF Raise, Die, Budgets
  <2>2. CASE UNCHANGED used
    BY <1>1, <2>2 DEF UsedTyped
  <2>3. QED
    BY <2>1, <2>2
    DEF Work, Trouble, Load, Mark, Fingerprint, ReadItems, Open, Close, Publish, Fail,
        PublishFailure, Acknowledge, Still
<1>5. QueueTyped' /\ RowTyped' /\ ClientTyped'
  BY DEF Work, Trouble, Load, Mark, Fingerprint, ReadItems, Open, Close, Publish, Fail,
         PublishFailure, Acknowledge, Raise, Die, Still, row, queue, TypeOK,
         QueueTyped, RowTyped, ClientTyped
<1>6. file' \subseteq Runs
  BY DEF Work, Trouble, Load, Mark, Fingerprint, ReadItems, Open, Close, Publish, Fail,
         PublishFailure, Acknowledge, Raise, Die, TypeOK
<1>7. QED  BY <1>2, <1>3, <1>4, <1>5, <1>6, PartsAfter

-----------------------------------------------------------------------------
LEMMA InitInv == Init => IInv
<1> SUFFICES ASSUME Init PROVE IInv
  OBVIOUS
<1>1. RowTyped /\ ExportTyped /\ QueueTyped /\ file \subseteq Runs
  <2>1. MaxRenames \in Nat /\ MaxEdits \in Nat
    BY ListingExportAssumption
  <2>2. RowTyped
    BY <2>1 DEF Init, RowTyped
  <2>3. ExportTyped /\ file \subseteq Runs
    BY DEF Init, ExportTyped, Statuses
  <2>4. QueueTyped
    BY DEF Init, QueueTyped
  <2>5. QED  BY <2>2, <2>3, <2>4
<1>2. UsedTyped
  BY MaxTyped DEF Init, UsedTyped
<1>3. RunTyped
  BY ListingExportAssumption DEF Init, RunTyped, Execution, RunSteps, Statuses
<1>4. ClientTyped
  BY DEF Init, ClientTyped, Idle, Request, RequestSteps
<1>5. TypeOK
  BY <1>1, <1>2, <1>3, <1>4, Parts
<1>6. \A r \in Runs : run[r].step = "new"
  BY DEF Init
<1>7. OneAtATime /\ Latest
  BY <1>6 DEF Init, OneAtATime, Running, Latest
<1>8. RunsInOrder
  BY <1>6
  DEF RunsInOrder, NotReadyYet, OwnFile, PrintLoaded, InOrder, Before, Unpublished, At
<1>9. ReadyInOrder
  BY DEF Init, ReadyInOrder
<1>10. QED  BY <1>5, <1>7, <1>8, <1>9 DEF IInv

(* What operators and requests do to the invariant: the runs and the file   *)
(* stay, or the listing is gone.                                            *)
LEMMA OperatorKeeps == ASSUME IInv, Operator PROVE IInv'
<1>1. TypeOK' /\ TypeOK
  BY OperatorTypes DEF IInv
<1>2. OneAtATime'
  BY DEF Operator, Rename, Edit, Undo, Delete, queue, IInv, OneAtATime, Running
<1>3. CASE Delete
  BY <1>1, <1>2, <1>3
  DEF Delete, IInv, Latest, RunsInOrder, ReadyInOrder, Undisturbed
<1>4. CASE Undo
  <2>1. used'["undos"] # 0
    BY <1>4, Parts, <1>1 DEF Undo, Spend, UsedTyped, Budgets
  <2>2. UNCHANGED <<exists, overlap, run, file, export>>
    BY <1>4 DEF Undo, queue
  <2>3. QED
    BY <1>1, <1>2, <2>1, <2>2
    DEF IInv, Latest, RunsInOrder, ReadyInOrder, Undisturbed, NotReadyYet, OwnFile,
        PrintLoaded, InOrder, At, WholeZip, export
<1>5. CASE Rename \/ Edit
  <2>1. UNCHANGED <<exists, overlap, run, file, export>> /\ used'["undos"] = used["undos"]
    BY <1>1, <1>5, Parts DEF Rename, Edit, queue, Spend, UsedTyped, Budgets
  <2>2. used["undos"] = 0 => items <= items' /\ items' = latest'
    BY <1>1, <1>5 DEF Rename, Edit, IInv, Latest, TypeOK
  <2>3. Latest'
    BY <2>1, <2>2 DEF Latest
  <2>4. ASSUME Undisturbed', NEW r \in Runs
        PROVE  (NotReadyYet(r) /\ OwnFile(r) /\ PrintLoaded(r) /\ InOrder(r))'
    <3>1. NotReadyYet(r) /\ OwnFile(r) /\ PrintLoaded(r) /\ InOrder(r)
      BY <2>1, <2>4 DEF IInv, RunsInOrder, Undisturbed
    <3>2. (NotReadyYet(r) /\ OwnFile(r) /\ PrintLoaded(r))'
      BY <2>1, <3>1 DEF NotReadyYet, OwnFile, PrintLoaded, At, export
    <3>3. run[r] \in Execution /\ items \in Nat /\ items' \in Nat
      BY <1>1 DEF TypeOK
    <3>4. InOrder(r)'
      BY <2>1, <2>2, <3>1, <3>3 DEF InOrder, Execution, Prints
    <3>5. QED  BY <3>2, <3>4
  <2>5. ReadyInOrder'
    <3> SUFFICES ASSUME Undisturbed', status' = "ready"
                 PROVE  \E r \in Runs :
                          /\ WholeZip(r)'
                          /\ used'["undos"] = 0 =>
                               /\ print' \in Prints /\ print'.items <= run'[r].items
                               /\ run'[r].items <= items'
      BY DEF ReadyInOrder
    <3>1. PICK r \in Runs : /\ WholeZip(r)
                            /\ used["undos"] = 0 =>
                                 /\ print \in Prints /\ print.items <= run[r].items
                                 /\ run[r].items <= items
      BY <2>1 DEF IInv, ReadyInOrder, Undisturbed, export
    <3>2. run[r].items \in Nat /\ items \in Nat /\ items' \in Nat
      BY <1>1 DEF TypeOK, Execution
    <3>3. QED  BY <2>1, <2>2, <3>1, <3>2 DEF WholeZip, export
  <2>6. QED  BY <1>1, <1>2, <2>3, <2>4, <2>5 DEF IInv, RunsInOrder
<1>6. QED  BY <1>3, <1>4, <1>5 DEF Operator

LEMMA RequestKeeps ==
    ASSUME IInv, NEW c \in Clients, Ask(c) \/ Answer(c)
    PROVE  IInv'
<1>1. TypeOK' /\ TypeOK
  BY RequestTypes DEF IInv
<1>2. OneAtATime'
  <2>1. CASE Send(c)
    <3>1. messages' = messages + 1 /\ UNCHANGED run /\ messages \in Nat
      BY <1>1, <2>1 DEF Send, TypeOK
    <3>2. ~ overlap' => ~ messages > 0 /\ \A r \in Runs : ~ Running(r)
      BY <2>1, Zenon DEF Send
    <3>3. ~ messages > 0 => messages' = 1
      BY <3>1
    <3>4. QED  BY <3>1, <3>2, <3>3 DEF OneAtATime, Running
  <2>2. CASE UNCHANGED <<queue, run>>
    BY <2>2 DEF queue, IInv, OneAtATime, Running
  <2>3. QED
    BY <2>1, <2>2
    DEF Ask, Answer, Check, Queue, BrokerDown, Refuse, AskZip, CheckFresh, Serve
<1>3. /\ UNCHANGED <<row, relpath, print, file, run>>
      /\ status' = "ready" => status = "ready"
      /\ Undisturbed' => Undisturbed
  <2>1. CASE Queue(c)
    BY <2>1 DEF Queue, queue, row, Undisturbed
  <2>2. CASE Refuse(c)
    BY <2>2 DEF Refuse, queue, row, Undisturbed
  <2>3. CASE Send(c)
    BY <2>3 DEF Send, export, row, Undisturbed
  <2>4. CASE UNCHANGED <<row, export, file, run, queue>>
    BY <2>4 DEF export, queue, row, Undisturbed
  <2>5. QED
    BY <2>1, <2>2, <2>3, <2>4 DEF Ask, Answer, Check, BrokerDown, AskZip, CheckFresh, Serve
<1>4. used'["undos"] = used["undos"]
  <2>1. UsedTyped
    BY <1>1, Parts
  <2>2. QED
    BY <2>1, SpendKeeps
    DEF Ask, Answer, Check, Queue, Send, BrokerDown, Refuse, AskZip, CheckFresh, Serve, Budgets
<1>5. Latest'
  BY <1>3, <1>4 DEF row, IInv, Latest
<1>6. RunsInOrder'
  BY <1>3, <1>4
  DEF row, IInv, RunsInOrder, NotReadyYet, OwnFile, PrintLoaded, InOrder, At
<1>7. ReadyInOrder'
  BY <1>3, <1>4 DEF row, IInv, ReadyInOrder, WholeZip
<1>8. QED  BY <1>1, <1>2, <1>5, <1>6, <1>7 DEF IInv

-----------------------------------------------------------------------------
(* The execution *)

LEMMA WorkAlone ==
    ASSUME IInv, NEW r \in Runs, Work(r) \/ Trouble(r)
    PROVE  OneAtATime' /\ Latest'
<1>1. \A q \in Runs : q # r => run'[q] = run[q]
  BY DEF Work, Trouble, Load, Mark, Fingerprint, ReadItems, Open, Close, Publish, Fail,
         PublishFailure, Acknowledge, Raise, Die, Step, IInv, TypeOK
<1>2. run[r] \in Execution /\ run \in [Runs -> Execution] /\ messages \in Nat
  BY DEF IInv, TypeOK
<1>3. OneAtATime'
  <2>1. CASE Load(r)
    <3>1. messages > 0 /\ messages' = messages - 1 /\ UNCHANGED overlap
      BY <2>1 DEF Load
    <3>2. QED  BY <1>1, <1>2, <3>1 DEF IInv, OneAtATime, Running
  <2>2. CASE Die(r)
    <3>1. Running(r) /\ messages' = messages + 1 /\ UNCHANGED overlap
      BY <2>2 DEF Die
    <3>2. ~ Running(r)'
      BY <1>2, <2>2 DEF Die, Step, Running
    <3>3. QED  BY <1>1, <1>2, <3>1, <3>2 DEF IInv, OneAtATime, Running
  <2>3. CASE ~ Load(r) /\ ~ Die(r)
    <3>1. UNCHANGED queue
      BY <2>3
      DEF Work, Trouble, Mark, Fingerprint, ReadItems, Open, Close, Publish, Fail,
          PublishFailure, Acknowledge, Raise, Still
    <3>2. Running(r)
      BY <1>2, <2>3
      DEF Work, Trouble, Mark, Fingerprint, ReadItems, Open, Close, Publish, Fail,
          PublishFailure, Acknowledge, Raise, At, Running
    <3>3. QED  BY <1>1, <3>1, <3>2 DEF queue, IInv, OneAtATime, Running
  <2>4. QED  BY <2>1, <2>2, <2>3
<1>4. UNCHANGED row /\ used'["undos"] = used["undos"]
  <2>1. UsedTyped
    BY Parts DEF IInv
  <2>2. QED
    BY <2>1, SpendKeeps
    DEF Work, Trouble, Load, Mark, Fingerprint, ReadItems, Open, Close, Publish, Fail,
        PublishFailure, Acknowledge, Raise, Die, Still, Budgets
<1>5. Latest'
  BY <1>4 DEF row, IInv, Latest
<1>6. QED  BY <1>3, <1>5

(* With one execution at a time, what an execution does leaves every other  *)
(* at rest, so only its own facts have to be shown again.                   *)
LEMMA OthersRest ==
    ASSUME IInv, ~ overlap, NEW r \in Runs, Work(r) \/ Trouble(r), NEW q \in Runs, q # r
    PROVE  run'[q] = run[q] /\ ~ Running(q)
<1>1. run'[q] = run[q]
  BY DEF Work, Trouble, Load, Mark, Fingerprint, ReadItems, Open, Close, Publish, Fail,
         PublishFailure, Acknowledge, Raise, Die, Step, IInv, TypeOK
<1>2. CASE Load(r)
  <2>1. messages = 1
    BY <1>2 DEF Load, IInv, OneAtATime, TypeOK
  <2>2. QED  BY <1>1, <2>1 DEF IInv, OneAtATime
<1>3. CASE ~ Load(r)
  <2>1. Running(r)
    BY <1>3
    DEF Work, Trouble, Mark, Fingerprint, ReadItems, Open, Close, Publish, Fail,
        PublishFailure, Acknowledge, Raise, Die, At, Running
  <2>2. QED  BY <1>1, <2>1 DEF IInv, OneAtATime
<1>4. QED  BY <1>2, <1>3

OwnFacts(r) == NotReadyYet(r) /\ OwnFile(r) /\ PrintLoaded(r) /\ InOrder(r)

LEMMA Stays ==
    ASSUME IInv, NEW r \in Runs, Work(r) \/ Trouble(r)
    PROVE  /\ UNCHANGED row
           /\ overlap' = overlap
           /\ used'["undos"] = used["undos"]
<1>1. UsedTyped
  BY Parts DEF IInv
<1>2. QED
  BY <1>1, SpendKeeps
  DEF Work, Trouble, Load, Mark, Fingerprint, ReadItems, Open, Close, Publish, Fail,
      PublishFailure, Acknowledge, Raise, Die, Still, queue, Budgets

LEMMA OwnFactsKept ==
    ASSUME IInv, Undisturbed, NEW r \in Runs, Work(r) \/ Trouble(r)
    PROVE  OwnFacts(r)'
<1>1. /\ exists /\ OwnFacts(r) /\ run[r] \in Execution /\ run \in [Runs -> Execution]
      /\ items \in Nat /\ Now \in Prints
  BY Parts, NowTyped DEF IInv, RunsInOrder, Undisturbed, OwnFacts, TypeOK
<1>2. /\ UNCHANGED row /\ items' = items /\ used'["undos"] = used["undos"]
  BY Stays DEF row
<1>3. CASE Load(r)
  <2>1. /\ run'[r].step = "loaded" /\ run'[r].status = status /\ run'[r].was = print
        /\ status' = status /\ print' = print
    BY <1>1, <1>3 DEF Load, export, Execution
  <2>2. QED
    BY <2>1
    DEF OwnFacts, NotReadyYet, OwnFile, PrintLoaded, InOrder, At, Before, Unpublished
<1>4. CASE Mark(r)
  <2>1. /\ run'[r].step = "marked" /\ run'[r].was = run[r].was
        /\ status' = (IF run[r].status # "exporting" THEN "exporting" ELSE status)
        /\ print' = print /\ At(r, "loaded")
    BY <1>1, <1>4 DEF Mark, Step, Execution
  <2>2. NotReadyYet(r)'
    BY <1>1, <2>1 DEF OwnFacts, NotReadyYet
  <2>3. QED
    BY <1>1, <2>1, <2>2 DEF OwnFacts, OwnFile, PrintLoaded, InOrder, At, Before
<1>5. CASE Fingerprint(r)
  <2>1. /\ run'[r].step = "printed" /\ run'[r].was = run[r].was /\ run'[r].print = Now
        /\ status' = status /\ print' = print /\ run[r].step = "marked"
    BY <1>1, <1>5 DEF Fingerprint, export, At, Execution
  <2>2. InOrder(r)'
    BY <1>1, <1>2, <2>1 DEF InOrder, Now
  <2>3. QED
    BY <1>1, <2>1, <2>2
    DEF OwnFacts, NotReadyYet, OwnFile, PrintLoaded, At, Before, Unpublished
<1>6. CASE ReadItems(r)
  <2>1. /\ run'[r].step = "read" /\ run'[r].was = run[r].was /\ run'[r].print = run[r].print
        /\ run'[r].items = items
        /\ status' = status /\ print' = print /\ run[r].step = "printed"
    BY <1>1, <1>6 DEF ReadItems, export, At, Execution
  <2>2. InOrder(r)'
    BY <1>1, <1>2, <2>1 DEF OwnFacts, InOrder
  <2>3. QED
    BY <1>1, <2>1, <2>2
    DEF OwnFacts, NotReadyYet, OwnFile, PrintLoaded, At, Before, Unpublished
<1>7. CASE Open(r)
  <2>1. /\ run'[r].step = "writing" /\ run'[r].was = run[r].was
        /\ run'[r].print = run[r].print /\ run'[r].items = run[r].items
        /\ status' = status /\ print' = print /\ run[r].step = "read"
        /\ file' = {w \in file : At(w, "writing")} \cup {r}
    BY <1>1, <1>7 DEF Open, Step, export, At, Execution
  <2>2. \A w \in file : ~ At(w, "writing")
    BY <2>1, OthersRest DEF IInv, TypeOK, Undisturbed, Running, At
  <2>3. file' = {r}
    BY <2>1, <2>2
  <2>4. InOrder(r)'
    BY <1>1, <1>2, <2>1 DEF OwnFacts, InOrder
  <2>5. QED
    BY <1>1, <2>1, <2>3, <2>4
    DEF OwnFacts, NotReadyYet, OwnFile, PrintLoaded, At, Before, Unpublished
<1>8. CASE Close(r)
  <2>1. /\ run'[r].step = "written" /\ run'[r].was = run[r].was
        /\ run'[r].print = run[r].print /\ run'[r].items = run[r].items
        /\ status' = status /\ print' = print /\ run[r].step = "writing"
        /\ file' = file
    BY <1>1, <1>8 DEF Close, Step, export, At, Execution
  <2>2. InOrder(r)'
    BY <1>1, <1>2, <2>1 DEF OwnFacts, InOrder
  <2>3. QED
    BY <1>1, <2>1, <2>2
    DEF OwnFacts, NotReadyYet, OwnFile, PrintLoaded, At, Before, Unpublished
<1>9. CASE Fail(r)
  <2>1. /\ run'[r].step = "failing" /\ run'[r].was = run[r].was
        /\ status' = status /\ print' = print /\ run[r].step \in {"read", "writing"}
    BY <1>1, <1>9 DEF Fail, Step, export, At, Execution
  <2>2. QED
    BY <1>1, <2>1
    DEF OwnFacts, NotReadyYet, OwnFile, PrintLoaded, InOrder, At, Before, Unpublished
<1>10. CASE Publish(r) \/ PublishFailure(r) \/ Acknowledge(r) \/ Raise(r) \/ Die(r)
  <2>1. run'[r].step \in {"published", "ended", "dead"}
    <3>1. PICK step \in {"published", "ended", "dead"} : Step(r, step)
      BY <1>10 DEF Publish, PublishFailure, Acknowledge, Raise, Die
    <3>2. QED  BY <1>1, <3>1 DEF Step
  <2>2. QED
    BY <2>1
    DEF OwnFacts, NotReadyYet, OwnFile, PrintLoaded, InOrder, At, Before, Unpublished
<1>11. QED
  BY <1>3, <1>4, <1>5, <1>6, <1>7, <1>8, <1>9, <1>10 DEF Work, Trouble

LEMMA WorkKeepsRuns ==
    ASSUME IInv, NEW r \in Runs, Work(r) \/ Trouble(r)
    PROVE  RunsInOrder'
<1> SUFFICES ASSUME Undisturbed', NEW q \in Runs PROVE OwnFacts(q)'
  BY DEF RunsInOrder, OwnFacts
<1>1. Undisturbed
  BY Stays DEF row, Undisturbed
<1>2. CASE q = r
  BY <1>1, <1>2, OwnFactsKept
<1>3. CASE q # r
  <2>1. run'[q].step \in {"new", "ended", "dead"}
    BY <1>1, <1>3, OthersRest DEF Undisturbed, Running
  <2>2. QED
    BY <2>1
    DEF OwnFacts, NotReadyYet, OwnFile, PrintLoaded, InOrder, At, Before, Unpublished
<1>4. QED  BY <1>2, <1>3

(* What is said to be ready. *)
Backed(r) ==
    /\ WholeZip(r)
    /\ used["undos"] = 0 =>
         /\ print \in Prints /\ print.items <= run[r].items
         /\ run[r].items <= items

LEMMA PublishBacks ==
    ASSUME IInv, Undisturbed, NEW r \in Runs, Publish(r)
    PROVE  Backed(r)'
<1>1. /\ exists /\ OwnFacts(r) /\ run[r] \in Execution /\ run \in [Runs -> Execution]
  BY DEF IInv, RunsInOrder, Undisturbed, OwnFacts, TypeOK
<1>2. Work(r)
  BY DEF Work
<1>3. /\ items' = items /\ used'["undos"] = used["undos"]
  BY <1>2, Stays DEF row
<1>4. /\ run[r].step = "written" /\ file' = file
      /\ print' = (IF run[r].print = run[r].was THEN print ELSE run[r].print)
  BY <1>1 DEF Publish, Write, At
<1>5. /\ run'[r].step = "published" /\ run'[r].items = run[r].items
  BY <1>1 DEF Publish, Step, Execution
<1>6. file = {r} /\ print = run[r].was
  BY <1>1, <1>4 DEF OwnFacts, OwnFile, PrintLoaded, Before
<1>7. print' = run[r].print
  BY <1>4, <1>6
<1>8. used["undos"] = 0 =>
        /\ run[r].print \in Prints /\ run[r].print.items <= run[r].items
        /\ run[r].items <= items
  BY <1>1, <1>4 DEF OwnFacts, InOrder
<1>9. QED  BY <1>3, <1>4, <1>5, <1>6, <1>7, <1>8 DEF Backed, WholeZip

LEMMA WorkKeepsReady ==
    ASSUME IInv, NEW r \in Runs, Work(r) \/ Trouble(r)
    PROVE  ReadyInOrder'
<1> SUFFICES ASSUME Undisturbed', status' = "ready"
             PROVE  \E q \in Runs : Backed(q)'
  BY DEF ReadyInOrder, Backed
<1>1. /\ Undisturbed /\ items' = items /\ used'["undos"] = used["undos"]
  BY Stays DEF row, Undisturbed
<1>2. /\ exists /\ OwnFacts(r) /\ run[r] \in Execution /\ run \in [Runs -> Execution]
  BY <1>1 DEF IInv, RunsInOrder, Undisturbed, OwnFacts, TypeOK
<1>3. CASE Publish(r)
  BY <1>1, <1>3, PublishBacks
<1>4. CASE ~ Publish(r)
  <2>1. ~ Mark(r)
    BY <1>2 DEF Mark, OwnFacts, NotReadyYet
  <2>2. status' = status /\ UNCHANGED print
    BY <1>2, <1>4, <2>1
    DEF Work, Trouble, Load, Fingerprint, ReadItems, Open, Close, Fail, PublishFailure,
        Acknowledge, Raise, Die, export
  <2>3. run[r].step \notin Unpublished
    BY <1>2, <2>2 DEF OwnFacts, NotReadyYet
  <2>4. Load(r) \/ Acknowledge(r) \/ Raise(r) \/ Die(r)
    BY <1>4, <2>1, <2>3
    DEF Work, Trouble, Fingerprint, ReadItems, Open, Close, Fail, PublishFailure, At,
        Before, Unpublished
  <2>5. file' = file
    BY <2>4 DEF Load, Acknowledge, Raise, Die
  <2>6. PICK q \in Runs : Backed(q)
    BY <1>1, <2>2 DEF IInv, ReadyInOrder, Backed
  <2>7. run'[q].step \in {"written", "published", "ended"} /\ run'[q].items = run[q].items
    <3>1. CASE q # r
      BY <1>1, <2>6, <3>1, OthersRest DEF Undisturbed, Backed, WholeZip
    <3>2. CASE q = r
      <4>1. run[r].step \in {"written", "published", "ended"}
        BY <2>6, <3>2 DEF Backed, WholeZip
      <4>2. Acknowledge(r) \/ Die(r)
        BY <2>4, <4>1 DEF Load, Raise, At
      <4>3. Step(r, "ended")
        BY <4>1, <4>2 DEF Acknowledge, Die, Running
      <4>4. QED  BY <1>2, <3>2, <4>3 DEF Step, Execution
    <3>3. QED  BY <3>1, <3>2
  <2>8. QED  BY <1>1, <2>2, <2>5, <2>6, <2>7 DEF Backed, WholeZip
<1>5. QED  BY <1>3, <1>4

LEMMA NextInv == ASSUME IInv, [Next]_vars PROVE IInv'
<1>1. CASE Operator
  BY <1>1, OperatorKeeps
<1>2. ASSUME NEW c \in Clients, Ask(c) \/ Answer(c) PROVE IInv'
  BY <1>2, RequestKeeps
<1>3. ASSUME NEW r \in Runs, Work(r) \/ Trouble(r) PROVE IInv'
  BY <1>3, WorkTypes, WorkAlone, WorkKeepsRuns, WorkKeepsReady DEF IInv
<1>4. CASE UNCHANGED vars
  BY <1>4
  DEF vars, row, export, queue, IInv, TypeOK, OneAtATime, Running, Latest, RunsInOrder,
      ReadyInOrder, Undisturbed, NotReadyYet, OwnFile, PrintLoaded, InOrder, At, WholeZip
<1>5. QED  BY <1>1, <1>2, <1>3, <1>4 DEF Next

LEMMA Invariance == Spec => []IInv
BY InitInv, NextInv, PTL DEF Spec

(* Every variable keeps its type, whatever clients, executions, deaths and  *)
(* edits there are.                                                         *)
THEOREM TypeCorrect == Spec => []TypeOK
<1>1. IInv => TypeOK
  BY DEF IInv
<1>2. QED  BY <1>1, Invariance, PTL

(* While no two executions overlap, a listing that says "ready" has a whole *)
(* zip on disk: export_listing_zip never leaves a stale "ready" over a file *)
(* it is rewriting or has lost, wherever its worker dies.                   *)
THEOREM ReadyIsWholeAlways == Spec => []ReadyIsWhole
<1>1. IInv => ReadyIsWhole
  BY DEF IInv, ReadyInOrder, Undisturbed, ReadyIsWhole
<1>2. QED  BY <1>1, Invariance, PTL

(* While no two executions overlap and no edit is undone, a zip that the    *)
(* download takes for fresh was read from the items the listing has now,    *)
(* although digest and items are read at two moments.                       *)
THEOREM FreshItemsAlways == Spec => []FreshItems
<1>1. IInv => FreshItems
  <2> SUFFICES ASSUME IInv, exists, status = "ready", print = Now, ~ overlap,
                      used["undos"] = 0
               PROVE  \E r \in Runs : WholeZip(r) /\ run[r].items = items
    BY DEF FreshItems
  <2>1. PICK r \in Runs : Backed(r)
    BY DEF IInv, ReadyInOrder, Undisturbed, Backed
  <2>2. run[r].items \in Nat /\ items \in Nat
    BY DEF IInv, TypeOK, Execution
  <2>3. print.items = items
    BY DEF Now
  <2>4. QED  BY <2>1, <2>2, <2>3 DEF Backed
<1>2. QED  BY <1>1, Invariance, PTL

=============================================================================
