-------------------------- MODULE TranscribeProofs --------------------------
(* Invariance proofs for Transcribe, for any number of retries, queueings,  *)
(* messages and incidents and any ages in the proportions the code keeps.  *)
(*                                                                         *)
(* DeathsBounded counts rows without an outcome, and open holds no others:  *)
(* none is older than the window (TypeOK).  So the count is the length of  *)
(* open, which only Begin extends.  What Begin needs is that the preflight *)
(* before it saw room, and that nothing but Begin came between: the room a *)
(* cleared run has seen is still there (RoomForRun).                       *)
EXTENDS Transcribe, FiniteSetTheorems, SequenceTheorems, TLAPS

RoomForRun == slot.step = "cleared" => Len(open) < MaxDeaths
FewOpen    == Len(open) <= MaxDeaths
IInv       == TypeOK /\ FewOpen /\ RoomForRun

LEMMA Bounds == GiveUp \in Nat /\ MaxDeaths \in Nat
<1>1. Attempts \in Nat /\ Retries + 1 \in Nat
  BY TranscribeAssumption
<1>2. Attempts * (Retries + 1) \in Nat
  BY <1>1
<1>3. QED  BY <1>1, <1>2 DEF GiveUp, MaxDeaths

LEMMA IncidentCounts ==
    ASSUME incidents \in 0..MaxIncidents, Incident
    PROVE  incidents' \in 0..MaxIncidents
BY TranscribeAssumption DEF Incident

(* A row inside the window is still a row a tick later. *)
LEMMA RowAges ==
    ASSUME NEW row \in Row, row.age < Window
    PROVE  [row EXCEPT !.age = @ + 1] \in Row
BY TranscribeAssumption DEF Row

LEMMA CappedIsCount == ASSUME NEW n \in Nat PROVE Capped(n) \in 0..GiveUp
BY Bounds DEF Capped

(* No row is too old to count. *)
LEMMA YoungerIsAll ==
    ASSUME open \in Seq(Row)
    PROVE  Cardinality(Younger(Unfinished, Window + 1)) = Len(open)
<1>1. ASSUME NEW i \in 1..Len(open)
      PROVE  open[i].status \in Unfinished /\ open[i].age < Window + 1
  <2>1. open[i] \in Row
    OBVIOUS
  <2>2. QED  BY <2>1, TranscribeAssumption DEF Row, Unfinished
<1>2. Younger(Unfinished, Window + 1) = 1..Len(open)
  BY <1>1 DEF Younger
<1>3. Len(open) \in Nat
  OBVIOUS
<1>4. Cardinality(1..Len(open)) = IF 1 > Len(open) THEN 0 ELSE Len(open) - 1 + 1
  BY <1>3, FS_Interval, SMTT(30)
<1>5. QED  BY <1>2, <1>3, <1>4

(* The parts of the type invariant that the steps write. *)
RowsTyped ==
    /\ open \in Seq(Row) /\ failures \in 0..GiveUp
    /\ last \in Verdicts /\ succeeded \in BOOLEAN
MessagesTyped == msg \in [1..Messages -> Message]
SlotTyped     == slot \in Run \cup {Free}
ClipTyped ==
    /\ on \in BOOLEAN /\ stage \in {"pending", "ready", "done"}
    /\ incidents \in 0..MaxIncidents
TranscriptTyped == transcript \in {"none", "legacy", "heard"}

LEMMA Parts ==
    TypeOK <=> /\ RowsTyped /\ MessagesTyped /\ SlotTyped /\ ClipTyped
               /\ TranscriptTyped /\ workerUp \in BOOLEAN
BY DEF TypeOK, RowsTyped, MessagesTyped, SlotTyped, ClipTyped, TranscriptTyped

LEMMA PartsAfter ==
    ASSUME RowsTyped', MessagesTyped', SlotTyped', ClipTyped', TranscriptTyped',
           workerUp' \in BOOLEAN
    PROVE  TypeOK'
BY DEF TypeOK, RowsTyped, MessagesTyped, SlotTyped, ClipTyped, TranscriptTyped

(* A slot that is at some step of a run holds one. *)
LEMMA SlotHolds ==
    ASSUME SlotTyped, slot.step # "free"
    PROVE  slot \in Run /\ slot.message \in 1..Messages
BY DEF SlotTyped, Run, Free

LEMMA InitInv == Init => IInv
<1> SUFFICES ASSUME Init PROVE IInv
  OBVIOUS
<1>1. RowsTyped /\ Len(open) = 0
  <2>1. open = <<>> /\ failures = 0 /\ succeeded \in BOOLEAN
    BY DEF Init
  <2>2. last \in Verdicts
    BY DEF Init, Verdicts
  <2>3. 0 \in 0..GiveUp
    BY Bounds
  <2>4. QED  BY <2>1, <2>2, <2>3 DEF RowsTyped
<1>2. MessagesTyped
  BY TranscribeAssumption DEF Init, MessagesTyped, Blank, Message, Places
<1>3. SlotTyped /\ ClipTyped /\ TranscriptTyped /\ slot.step # "cleared"
  BY TranscribeAssumption DEF Init, SlotTyped, ClipTyped, TranscriptTyped, Free
<1>4. QED
  BY <1>1, <1>2, <1>3, Parts, Bounds DEF IInv, FewOpen, RoomForRun, Init

-----------------------------------------------------------------------------
(* Messages *)

LEMMA DelayKeeps == ASSUME MessagesTyped, Delay PROVE MessagesTyped'
<1>1. Spare \in 1..Messages
  BY DEF Delay, Spare, In
<1>2. [place |-> "queued", retries |-> 0, age |-> 0] \in Message
  BY TranscribeAssumption DEF Message, Places
<1>3. QED  BY <1>1, <1>2 DEF Delay, Sent, MessagesTyped

LEMMA FreedKeeps ==
    ASSUME MessagesTyped, NEW m \in 1..Messages
    PROVE  Freed(m) \in [1..Messages -> Message]
BY TranscribeAssumption DEF MessagesTyped, Freed, Blank, Message, Places

LEMMA PlaceKeeps ==
    ASSUME MessagesTyped, NEW m \in 1..Messages, NEW place \in Places
    PROVE  [msg EXCEPT ![m].place = place] \in [1..Messages -> Message]
BY DEF MessagesTyped, Message

-----------------------------------------------------------------------------
(* Steps that leave the rows alone, and do not clear a run *)

RowsAlone ==
    /\ UNCHANGED rows
    /\ slot'.step = "cleared" => slot.step = "cleared"

LEMMA Quiet == ASSUME IInv, RowsAlone PROVE RowsTyped' /\ FewOpen' /\ RoomForRun'
BY DEF IInv, RowsAlone, rows, TypeOK, RowsTyped, FewOpen, RoomForRun

LEMMA OutsideKeeps ==
    ASSUME IInv, Extraction \/ Operator \/ ExtractBlip \/ StartWorker
    PROVE  IInv'
<1>1. RowsAlone /\ UNCHANGED <<slot, transcript>>
  BY DEF Extraction, ExtractReady, ExtractQueues, Operator, Reprocess, Flip, ExtractBlip,
         StartWorker, RowsAlone, rows, broker, Delay
<1>2. MessagesTyped'
  <2>1. MessagesTyped
    BY Parts DEF IInv
  <2>2. CASE Delay
    BY <2>1, <2>2, DelayKeeps
  <2>3. CASE UNCHANGED msg
    BY <2>1, <2>3 DEF MessagesTyped
  <2>4. QED
    BY <2>2, <2>3 DEF Extraction, ExtractReady, ExtractQueues, Operator, Reprocess, Flip,
                      ExtractBlip, StartWorker, broker
<1>3. ClipTyped' /\ workerUp' \in BOOLEAN
  BY IncidentCounts
  DEF Extraction, ExtractReady, ExtractQueues, Operator, Reprocess, Flip, ExtractBlip,
      StartWorker, broker, Delay, ClipTyped, IInv, TypeOK
<1>4. SlotTyped' /\ TranscriptTyped'
  BY <1>1 DEF SlotTyped, TranscriptTyped, IInv, TypeOK
<1>5. QED  BY <1>1, <1>2, <1>3, <1>4, Quiet, PartsAfter DEF IInv

LEMMA BrokerKeeps == ASSUME IInv, Broker \/ StopWorker \/ ChildDies PROVE IInv'
<1>1. MessagesTyped /\ SlotTyped
  BY Parts DEF IInv
<1>2. UNCHANGED <<on, stage, transcript, rows>> /\ workerUp' \in BOOLEAN
  BY DEF Broker, Deliver, Resume, Restore, StopWorker, ChildDies, Clip, IInv, TypeOK
<1>3. incidents' \in 0..MaxIncidents
  BY IncidentCounts
  DEF Broker, Deliver, Resume, Restore, StopWorker, ChildDies, Clip, IInv, TypeOK
<1>4. MessagesTyped' /\ SlotTyped' /\ (slot'.step = "cleared" => slot.step = "cleared")
  <2>1. ASSUME NEW m \in 1..Messages, Deliver(m)
        PROVE  MessagesTyped' /\ SlotTyped' /\ slot'.step = "delivered"
    <3>1. MessagesTyped'
      <4>1. [msg[m] EXCEPT !.place = "held", !.age = 0] \in Message
        <5>1. msg[m] \in Message /\ 0 \in 0..Redelivery /\ "held" \in Places
          BY <1>1, TranscribeAssumption DEF MessagesTyped, Places
        <5>2. QED  BY <5>1 DEF Message
      <4>2. msg' = [msg EXCEPT ![m] = [msg[m] EXCEPT !.place = "held", !.age = 0]]
        BY <1>1, <2>1 DEF Deliver, MessagesTyped
      <4>3. QED  BY <1>1, <4>1, <4>2 DEF MessagesTyped
    <3>2. slot' \in Run /\ slot'.step = "delivered"
      BY <2>1 DEF Deliver, Run, Steps
    <3>3. QED  BY <3>1, <3>2 DEF SlotTyped
  <2>2. ASSUME NEW m \in 1..Messages, Resume(m)
        PROVE  MessagesTyped' /\ SlotTyped' /\ slot'.step = "delivered"
    <3>1. MessagesTyped'
      BY <1>1, <2>2, PlaceKeeps DEF Resume, MessagesTyped, Places
    <3>2. slot' \in Run /\ slot'.step = "delivered"
      BY <2>2 DEF Resume, Run, Steps
    <3>3. QED  BY <3>1, <3>2 DEF SlotTyped
  <2>3. ASSUME NEW m \in 1..Messages, Restore(m)
        PROVE  MessagesTyped' /\ UNCHANGED slot
    BY <1>1, <2>3, TranscribeAssumption, SMTT(30) DEF Restore, MessagesTyped, Message, Places
  <2>4. CASE StopWorker
    <3>1. MessagesTyped'
      BY <1>1, <2>4 DEF StopWorker, MessagesTyped, Message, Places
    <3>2. QED  BY <2>4, <3>1 DEF StopWorker, SlotTyped, Free
  <2>5. CASE ChildDies
    <3>1. slot.message \in 1..Messages
      BY <1>1, <2>5 DEF ChildDies, SlotTyped, Run
    <3>2. MessagesTyped'
      BY <1>1, <2>5, <3>1, PlaceKeeps DEF ChildDies, MessagesTyped, Places
    <3>3. QED  BY <2>5, <3>2 DEF ChildDies, SlotTyped, Free
  <2>6. QED
    BY <1>1, <2>1, <2>2, <2>3, <2>4, <2>5 DEF Broker, SlotTyped
<1>5. ClipTyped' /\ TranscriptTyped'
  BY <1>2, <1>3 DEF ClipTyped, TranscriptTyped, IInv, TypeOK
<1>6. QED  BY <1>2, <1>4, <1>5, Quiet, PartsAfter DEF IInv, RowsAlone

-----------------------------------------------------------------------------
(* Time and the scanner *)

LEMMA TickKeeps == ASSUME IInv, Tick PROVE IInv'
<1>1. PICK gone \in 0..Len(open) :
        /\ \A i \in 1..Len(open) : open[i].age >= Window <=> i <= gone
        /\ open' = [i \in 1..(Len(open) - gone) |-> [open[i + gone] EXCEPT !.age = @ + 1]]
        /\ failures' = Capped(failures + gone)
  BY DEF Tick
<1>2. open \in Seq(Row) /\ failures \in 0..GiveUp /\ Len(open) \in Nat
  BY DEF IInv, TypeOK
<1>3. open' \in Seq(Row) /\ Len(open') = Len(open) - gone
  <2>1. ASSUME NEW i \in 1..(Len(open) - gone)
        PROVE  [open[i + gone] EXCEPT !.age = @ + 1] \in Row
    <3>1. i + gone \in 1..Len(open) /\ ~ (i + gone <= gone)
      BY <1>2
    <3>2. open[i + gone] \in Row /\ ~ (open[i + gone].age >= Window)
      BY <1>1, <1>2, <3>1
    <3>3. open[i + gone].age \in Nat
      BY <3>2, TranscribeAssumption DEF Row
    <3>4. open[i + gone].age < Window
      BY <3>2, <3>3, TranscribeAssumption
    <3>5. QED  BY <3>2, <3>4, RowAges
  <2>2. Len(open) - gone \in Nat
    BY <1>2
  <2>3. open' \in [1..(Len(open) - gone) -> Row]
    BY <1>1, <2>1
  <2>4. QED  BY <2>2, <2>3, LenProperties
<1>4. RowsTyped'
  <2>1. failures' \in 0..GiveUp
    BY <1>1, <1>2, Bounds, CappedIsCount
  <2>2. QED  BY <1>3, <2>1 DEF Tick, RowsTyped, IInv, TypeOK
<1>5. FewOpen' /\ RoomForRun'
  BY <1>2, <1>3, Bounds DEF Tick, IInv, FewOpen, RoomForRun
<1>6. MessagesTyped'
  <2>1. ASSUME NEW m \in 1..Messages, msg[m].age < Redelivery
        PROVE  [msg[m] EXCEPT !.age = @ + 1] \in Message
    <3>1. msg[m] \in Message
      BY DEF IInv, TypeOK
    <3>2. msg[m].age + 1 \in 0..Redelivery
      BY <2>1, <3>1, TranscribeAssumption, SMTT(30) DEF Message
    <3>3. QED  BY <3>1, <3>2 DEF Message
  <2>2. QED  BY <2>1 DEF Tick, IInv, TypeOK, MessagesTyped
<1>7. SlotTyped' /\ ClipTyped' /\ TranscriptTyped' /\ workerUp' \in BOOLEAN
  BY DEF Tick, IInv, TypeOK, SlotTyped, ClipTyped, TranscriptTyped
<1>8. QED  BY <1>4, <1>5, <1>6, <1>7, PartsAfter DEF IInv

LEMMA ScannerKeeps == ASSUME IInv, Scanner PROVE IInv'
<1>1. CASE Sweep
  <2>1. RowsAlone /\ UNCHANGED <<on, stage, transcript, slot, workerUp, incidents>>
    BY <1>1 DEF Sweep, Delay, RowsAlone, rows
  <2>2. MessagesTyped'
    BY <1>1, DelayKeeps, Parts DEF Sweep, IInv
  <2>3. SlotTyped' /\ ClipTyped' /\ TranscriptTyped' /\ workerUp' \in BOOLEAN
    BY <2>1 DEF SlotTyped, ClipTyped, TranscriptTyped, IInv, TypeOK
  <2>4. QED  BY <2>1, <2>2, <2>3, Quiet, PartsAfter DEF IInv
<1>2. CASE Reap
  <2>1. open \in Seq(Row)
    BY DEF IInv, TypeOK
  <2>2. open' \in Seq(Row) /\ Len(open') = Len(open)
    <3>1. ASSUME NEW i \in 1..Len(open)
          PROVE  (IF open[i].age >= Orphan THEN [open[i] EXCEPT !.status = "abandoned"]
                  ELSE open[i]) \in Row
      <4>1. open[i] \in Row
        BY <2>1
      <4>2. [open[i] EXCEPT !.status = "abandoned"] \in Row
        BY <4>1 DEF Row
      <4>3. QED  BY <4>1, <4>2
    <3>2. QED  BY <1>2, <2>1, <3>1 DEF Reap
  <2>3. QED
    BY <1>2, <2>2, Parts, PartsAfter
    DEF Reap, broker, IInv, FewOpen, RoomForRun, RowsTyped, MessagesTyped, SlotTyped,
        ClipTyped, TranscriptTyped
<1>3. QED  BY <1>1, <1>2 DEF Scanner

-----------------------------------------------------------------------------
(* The run *)

(* A run moves on in its slot. *)
LEMMA ToKeeps ==
    ASSUME SlotTyped, slot.step # "free", NEW step \in Steps, To(step)
    PROVE  SlotTyped' /\ slot'.step = step
<1>1. slot \in Run
  BY SlotHolds
<1>2. slot' \in Run /\ slot'.step = step
  BY <1>1 DEF To, Run
<1>3. QED  BY <1>2 DEF SlotTyped

LEMMA AckKeeps ==
    ASSUME MessagesTyped, SlotTyped, slot.step # "free", Ack
    PROVE  MessagesTyped' /\ SlotTyped' /\ slot'.step # "cleared"
<1>1. slot.message \in 1..Messages
  BY SlotHolds
<1>2. MessagesTyped'
  BY <1>1, FreedKeeps DEF Ack, MessagesTyped
<1>3. QED  BY <1>2 DEF Ack, SlotTyped, Free

(* An outcome is one open row fewer. *)
LEMMA FinishKeeps ==
    ASSUME RowsTyped, FewOpen, NEW says \in Verdicts, Finish(says)
    PROVE  RowsTyped' /\ FewOpen'
<1>1. open \in Seq(Row) /\ Len(open) \in Nat
  BY DEF RowsTyped
<1>2. open' \in Seq(Row) /\ Len(open') <= Len(open)
  <2>1. CASE Len(open) = 0
    BY <1>1, <2>1 DEF Finish
  <2>2. CASE Len(open) # 0
    BY <1>1, <2>2 DEF Finish
  <2>3. QED  BY <2>1, <2>2
<1>3. failures' \in 0..GiveUp
  BY Bounds, CappedIsCount DEF Finish, RowsTyped
<1>4. last' \in Verdicts /\ succeeded' \in BOOLEAN
  BY DEF Finish, RowsTyped
<1>5. QED
  BY <1>1, <1>2, <1>3, <1>4, Bounds DEF RowsTyped, FewOpen

LEMMA PreflightKeeps == ASSUME IInv, Preflight PROVE IInv'
<1>1. MessagesTyped /\ SlotTyped /\ RowsTyped /\ slot.step # "free"
  BY Parts DEF IInv, Preflight
<1>2. ClipTyped' /\ TranscriptTyped' /\ workerUp' \in BOOLEAN
  BY DEF Preflight, Clip, ClipTyped, TranscriptTyped, IInv, TypeOK
<1>3. ASSUME NEW says \in {"failed", "skipped"}, Verdict(says), Ack
      PROVE  IInv'
  <2>1. RowsTyped'
    BY <1>1, <1>3, Bounds, CappedIsCount, SMTT(30) DEF Verdict, RowsTyped, Verdicts
  <2>2. FewOpen'
    BY <1>3 DEF Verdict, FewOpen, IInv
  <2>3. MessagesTyped' /\ SlotTyped' /\ slot'.step # "cleared"
    BY <1>1, <1>3, AckKeeps
  <2>4. QED  BY <1>2, <2>1, <2>2, <2>3, PartsAfter DEF IInv, RoomForRun
<1>4. ASSUME Cardinality(Younger(Unfinished, Window + 1)) < MaxDeaths,
             To("cleared"), UNCHANGED <<rows, msg>>
      PROVE  IInv'
  <2>1. Len(open) < MaxDeaths
    BY <1>1, <1>4, YoungerIsAll DEF RowsTyped
  <2>2. SlotTyped'
    BY <1>1, <1>4, ToKeeps DEF Steps
  <2>3. RowsTyped' /\ FewOpen' /\ RoomForRun' /\ MessagesTyped'
    BY <1>1, <1>4, <2>1 DEF rows, RowsTyped, FewOpen, RoomForRun, MessagesTyped, IInv
  <2>4. QED  BY <1>2, <2>2, <2>3, PartsAfter DEF IInv
<1>5. QED  BY <1>3, <1>4 DEF Preflight

LEMMA BeginKeeps == ASSUME IInv, Begin PROVE IInv'
<1>1. open \in Seq(Row) /\ Len(open) < MaxDeaths /\ SlotTyped
  BY Parts DEF IInv, Begin, RoomForRun, RowsTyped
<1>2. [status |-> "running", age |-> 0] \in Row
  BY TranscribeAssumption DEF Row
<1>3. open' \in Seq(Row) /\ Len(open') = Len(open) + 1
  BY <1>1, <1>2 DEF Begin
<1>4. RowsTyped' /\ FewOpen'
  BY <1>1, <1>3, Bounds DEF Begin, IInv, TypeOK, RowsTyped, FewOpen, Verdicts
<1>5. SlotTyped' /\ slot'.step = "begun"
  <2>1. slot \in Run /\ on \in BOOLEAN
    BY <1>1, SlotHolds DEF Begin, IInv, TypeOK
  <2>2. slot' \in Run /\ slot'.step = "begun"
    BY <2>1 DEF Begin, Run, Steps
  <2>3. QED  BY <2>2 DEF SlotTyped
<1>6. MessagesTyped' /\ ClipTyped' /\ TranscriptTyped' /\ workerUp' \in BOOLEAN
  BY DEF Begin, Clip, MessagesTyped, ClipTyped, TranscriptTyped, IInv, TypeOK
<1>7. QED  BY <1>4, <1>5, <1>6, PartsAfter DEF IInv, RoomForRun

LEMMA OutcomeKeeps == ASSUME IInv, Hear \/ Conclude \/ Raise PROVE IInv'
<1>1. SlotTyped /\ RowsTyped /\ FewOpen /\ slot.step # "free"
  BY Parts DEF IInv, Hear, Conclude, Raise
<1>2. RowsTyped' /\ FewOpen'
  BY <1>1, FinishKeeps DEF Hear, Conclude, Raise, rows, RowsTyped, FewOpen, Verdicts
<1>3. SlotTyped' /\ slot'.step # "cleared"
  BY <1>1, ToKeeps DEF Hear, Conclude, Raise, Steps
<1>4. MessagesTyped' /\ ClipTyped' /\ TranscriptTyped' /\ workerUp' \in BOOLEAN
  BY DEF Hear, Conclude, Raise, Clip, MessagesTyped, ClipTyped, TranscriptTyped, IInv, TypeOK
<1>5. QED  BY <1>2, <1>3, <1>4, PartsAfter DEF IInv, RoomForRun

LEMMA EndKeeps == ASSUME IInv, Retry \/ Acknowledge PROVE IInv'
<1>1. MessagesTyped /\ SlotTyped /\ slot.step # "free"
  BY Parts DEF IInv, Retry, Acknowledge
<1>2. MessagesTyped' /\ SlotTyped' /\ slot'.step # "cleared"
  <2>1. CASE Acknowledge
    BY <1>1, <2>1, AckKeeps DEF Acknowledge
  <2>2. CASE Retry
    <3>1. slot.message \in 1..Messages /\ SlotTyped' /\ slot'.step # "cleared"
      BY <1>1, <2>2, SlotHolds DEF Retry, SlotTyped, Free
    <3>2. MessagesTyped'
      <4>1. CASE msg[slot.message].retries < Retries
        BY <1>1, <2>2, <3>1, <4>1, TranscribeAssumption, SMTT(30)
        DEF Retry, MessagesTyped, Message, Places
      <4>2. CASE ~ (msg[slot.message].retries < Retries)
        BY <1>1, <2>2, <3>1, <4>2, FreedKeeps DEF Retry, MessagesTyped
      <4>3. QED  BY <4>1, <4>2
    <3>3. QED  BY <3>1, <3>2
  <2>3. QED  BY <2>1, <2>2
<1>3. UNCHANGED <<on, stage, incidents, transcript, workerUp, rows>>
  BY DEF Retry, Acknowledge, Clip
<1>4. ClipTyped' /\ TranscriptTyped' /\ workerUp' \in BOOLEAN
  BY <1>3 DEF ClipTyped, TranscriptTyped, IInv, TypeOK
<1>5. QED  BY <1>2, <1>3, <1>4, Quiet, PartsAfter DEF IInv, RowsAlone

-----------------------------------------------------------------------------
LEMMA NextInv == IInv /\ [Next]_vars => IInv'
<1> SUFFICES ASSUME IInv, [Next]_vars PROVE IInv'
  OBVIOUS
<1>1. CASE UNCHANGED vars
  BY <1>1 DEF vars, broker, rows, IInv, TypeOK, FewOpen, RoomForRun
<1>2. CASE Extraction \/ Operator \/ ExtractBlip \/ StartWorker
  BY <1>2, OutsideKeeps
<1>3. CASE Broker \/ StopWorker \/ ChildDies
  BY <1>3, BrokerKeeps
<1>4. CASE Tick
  BY <1>4, TickKeeps
<1>5. CASE Scanner
  BY <1>5, ScannerKeeps
<1>6. CASE Work
  BY <1>6, PreflightKeeps, BeginKeeps, OutcomeKeeps, EndKeeps DEF Work
<1>7. QED
  BY <1>1, <1>2, <1>3, <1>4, <1>5, <1>6 DEF Next, Trouble

LEMMA Invariance == Spec => []IInv
BY InitInv, NextInv, PTL DEF Spec

(* Every reachable state of the clip, its messages, its rows and the        *)
(* worker's slot is well typed; no row without an outcome is older than    *)
(* the window.                                                             *)
THEOREM TypeCorrect == Spec => []TypeOK
BY Invariance, PTL DEF IInv

(* No file gets to kill the worker more than TRANSCRIBE_RETRIES + 1 times   *)
(* within the window, whatever the broker, the retries, the sweep and the  *)
(* operator queue, and whatever the reaper has called abandoned.           *)
THEOREM DeathsAreBounded == Spec => []DeathsBounded
<1>1. IInv => DeathsBounded
  BY YoungerIsAll DEF IInv, TypeOK, FewOpen, DeathsBounded
<1>2. QED  BY <1>1, Invariance, PTL
-----------------------------------------------------------------------------
(* The sweep and the run.  What keeps the sweep off a clip that is being    *)
(* heard is the run's row, although nobody renews it: it is no older than  *)
(* the delivery of the message the run holds, and the broker's timeout is  *)
(* longer than any delivery is held.                                       *)

HeldIsYoung ==
    \A m \in 1..Messages : msg[m].place \in {"held", "waiting"} => msg[m].age < Redelivery
SlotIsHeld == slot.step # "free" => msg[slot.message].place = "held"
Hearing    == slot.step \in {"begun", "heard"}
RunHasRow ==
    Hearing => Len(open) > 0 /\ open[Len(open)].age <= msg[slot.message].age

SInv == IInv /\ HeldIsYoung /\ SlotIsHeld /\ RunHasRow

LEMMA Typed ==
    ASSUME IInv
    PROVE  /\ open \in Seq(Row) /\ Len(open) \in Nat
           /\ msg \in [1..Messages -> Message]
           /\ slot.step # "free" => slot \in Run /\ slot.message \in 1..Messages
BY SlotHolds, Parts DEF IInv, RowsTyped, MessagesTyped

LEMMA SInitInv == Init => SInv
<1> SUFFICES ASSUME Init PROVE SInv
  OBVIOUS
<1>1. HeldIsYoung /\ slot.step = "free"
  BY DEF Init, HeldIsYoung, Blank, Free
<1>2. QED  BY <1>1, InitInv DEF SInv, SlotIsHeld, RunHasRow, Hearing

(* A message more, or as before, beside a run that stays where it is. *)
LEMMA SAside ==
    ASSUME SInv, Delay \/ UNCHANGED <<msg, slot>>, UNCHANGED rows
    PROVE  HeldIsYoung' /\ SlotIsHeld' /\ RunHasRow'
<1>1. CASE UNCHANGED <<msg, slot>>
  BY <1>1 DEF SInv, HeldIsYoung, SlotIsHeld, RunHasRow, Hearing, rows
<1>2. CASE Delay
  <2>1. Spare \in 1..Messages /\ msg[Spare].place = "free"
    BY <1>2 DEF Delay, Spare, In
  <2>2. /\ msg' \in [1..Messages -> Message]
        /\ msg'[Spare].place = "queued"
        /\ \A m \in 1..Messages : m # Spare => msg'[m] = msg[m]
    BY <1>2, <2>1, DelayKeeps, Typed DEF Delay, Sent, SInv, MessagesTyped
  <2>3. HeldIsYoung'
    BY <2>1, <2>2 DEF SInv, HeldIsYoung
  <2>4. ASSUME slot.step # "free" PROVE msg'[slot.message] = msg[slot.message]
    BY <2>1, <2>2, <2>4, Typed DEF SInv, SlotIsHeld
  <2>5. SlotIsHeld' /\ RunHasRow'
    BY <1>2, <2>4 DEF Delay, SInv, SlotIsHeld, RunHasRow, Hearing, rows
  <2>6. QED  BY <2>3, <2>5
<1>3. QED  BY <1>1, <1>2

LEMMA STickKeeps ==
    ASSUME SInv, Tick
    PROVE  HeldIsYoung' /\ SlotIsHeld' /\ RunHasRow'
<1>1. \A m \in 1..Messages :
        /\ msg'[m].place = msg[m].place
        /\ msg[m].place \in {"held", "waiting"} =>
             msg[m].age + 1 < Redelivery /\ msg'[m].age = msg[m].age + 1
  <2>1. msg \in [1..Messages -> Message]
    BY Typed DEF SInv
  <2>2. ASSUME NEW m \in 1..Messages
        PROVE  /\ msg'[m].place = msg[m].place
               /\ msg[m].place \in {"held", "waiting"} =>
                    msg[m].age + 1 < Redelivery /\ msg'[m].age = msg[m].age + 1
    <3>1. msg[m] \in Message
      BY <2>1
    <3>2. msg'[m] = IF msg[m].place \in {"held", "waiting", "lost"} /\ msg[m].age < Redelivery
                    THEN [msg[m] EXCEPT !.age = @ + 1] ELSE msg[m]
      BY DEF Tick
    <3>3. msg[m].place \in {"held", "waiting"} => msg[m].age + 1 < Redelivery
      BY DEF Tick, In
    <3>4. msg[m].place \in {"held", "waiting"} => msg[m].age < Redelivery
      BY DEF SInv, HeldIsYoung
    <3>5. QED  BY <3>1, <3>2, <3>3, <3>4 DEF Message
  <2>3. QED  BY <2>2
<1>2. HeldIsYoung'
  BY <1>1 DEF HeldIsYoung
<1>3. UNCHANGED slot
  BY DEF Tick
<1>4. SlotIsHeld'
  BY <1>1, <1>3, Typed DEF SInv, SlotIsHeld
<1>5. RunHasRow'
  <2> SUFFICES ASSUME Hearing
               PROVE  Len(open') > 0 /\ open'[Len(open')].age <= msg'[slot.message].age
    BY <1>3 DEF RunHasRow, Hearing
  <2>1. slot.message \in 1..Messages /\ msg[slot.message].place = "held"
    BY Typed DEF SInv, SlotIsHeld, Hearing
  <2>2. /\ Len(open) > 0 /\ Len(open) \in Nat /\ open[Len(open)] \in Row
        /\ open[Len(open)].age <= msg[slot.message].age
    BY Typed DEF SInv, RunHasRow
  <2>3. msg[slot.message].age \in Nat /\ open[Len(open)].age \in Nat
    BY <2>1, <2>2, Typed, TranscribeAssumption DEF SInv, Message, Row
  <2>4. msg[slot.message].age < Redelivery
    BY <2>1 DEF SInv, HeldIsYoung
  <2>5. ~ (open[Len(open)].age >= Window)
    BY <2>2, <2>3, <2>4, TranscribeAssumption
  <2>6. PICK gone \in 0..Len(open) :
          /\ \A i \in 1..Len(open) : open[i].age >= Window <=> i <= gone
          /\ open' = [i \in 1..(Len(open) - gone) |-> [open[i + gone] EXCEPT !.age = @ + 1]]
    BY DEF Tick
  <2>7. gone < Len(open)
    BY <2>2, <2>5, <2>6
  <2>8. Len(open) - gone \in Nat /\ Len(open) - gone > 0
    BY <2>2, <2>7
  <2>9. Len(open') = Len(open) - gone
    <3>1. DOMAIN open' = 1..(Len(open) - gone)
      BY <2>6
    <3>2. open' \in Seq(Row)
      BY TickKeeps, Typed DEF SInv, IInv, TypeOK
    <3>3. QED  BY <2>8, <3>1, <3>2, LenProperties
  <2>10. open'[Len(open')] = [open[Len(open)] EXCEPT !.age = @ + 1]
    <3>1. Len(open') \in 1..(Len(open) - gone) /\ Len(open') + gone = Len(open)
      BY <2>2, <2>8, <2>9
    <3>2. open'[Len(open')] = [open[Len(open') + gone] EXCEPT !.age = @ + 1]
      BY <2>6, <3>1
    <3>3. QED  BY <3>1, <3>2
  <2>11. open'[Len(open')].age = open[Len(open)].age + 1
    BY <2>2, <2>10 DEF Row
  <2>12. msg'[slot.message].age = msg[slot.message].age + 1
    BY <1>1, <2>1
  <2>13. QED  BY <2>2, <2>3, <2>8, <2>9, <2>11, <2>12
<1>6. QED  BY <1>2, <1>4, <1>5

LEMMA SBrokerKeeps ==
    ASSUME SInv, Broker \/ StopWorker \/ ChildDies \/ Retry \/ Acknowledge
    PROVE  HeldIsYoung' /\ SlotIsHeld' /\ RunHasRow'
<1> DEFINE Others(n) == \A m \in 1..Messages : m # n => msg'[m] = msg[m]
<1>1. msg \in [1..Messages -> Message] /\ HeldIsYoung /\ SlotIsHeld /\ RunHasRow
  BY Typed DEF SInv
<1>2. ASSUME NEW m \in 1..Messages, Deliver(m)
      PROVE  HeldIsYoung' /\ SlotIsHeld' /\ RunHasRow'
  <2>1. Others(m) /\ msg'[m].place = "held" /\ msg'[m].age = 0
    BY <1>1, <1>2 DEF Deliver, Message
  <2>2. slot'.message = m /\ slot'.step = "delivered"
    BY <1>2 DEF Deliver
  <2>3. QED
    BY <1>1, <2>1, <2>2, TranscribeAssumption DEF HeldIsYoung, SlotIsHeld, RunHasRow, Hearing
<1>3. ASSUME NEW m \in 1..Messages, Resume(m)
      PROVE  HeldIsYoung' /\ SlotIsHeld' /\ RunHasRow'
  <2>1. /\ Others(m) /\ msg'[m].place = "held" /\ msg'[m].age = msg[m].age
        /\ msg[m].place = "waiting"
    BY <1>1, <1>3 DEF Resume, Message
  <2>2. slot'.message = m /\ slot'.step = "delivered"
    BY <1>3 DEF Resume
  <2>3. QED  BY <1>1, <2>1, <2>2 DEF HeldIsYoung, SlotIsHeld, RunHasRow, Hearing
<1>4. ASSUME NEW m \in 1..Messages, Restore(m)
      PROVE  HeldIsYoung' /\ SlotIsHeld' /\ RunHasRow'
  <2>1. Others(m) /\ msg[m].place = "lost" /\ msg'[m].place = "queued"
    BY <1>1, <1>4 DEF Restore, Message
  <2>2. UNCHANGED <<slot, open>>
    BY <1>4 DEF Restore, rows
  <2>3. ASSUME slot.step # "free" PROVE msg'[slot.message] = msg[slot.message]
    BY <1>1, <2>1, <2>3, Typed DEF SInv, SlotIsHeld
  <2>4. HeldIsYoung'
    BY <1>1, <2>1 DEF HeldIsYoung
  <2>5. QED  BY <1>1, <2>2, <2>3, <2>4 DEF SlotIsHeld, RunHasRow, Hearing
<1>5. CASE StopWorker
  <2>1. HeldIsYoung'
    BY <1>1, <1>5 DEF StopWorker, HeldIsYoung, In, Message
  <2>2. slot'.step = "free"
    BY <1>5 DEF StopWorker, Free
  <2>3. QED  BY <2>1, <2>2 DEF SlotIsHeld, RunHasRow, Hearing
<1>6. CASE ChildDies \/ Retry \/ Acknowledge
  <2>1. slot.step # "free" /\ slot'.step = "free"
    BY <1>6, Parts DEF ChildDies, Retry, Acknowledge, Ack, Free, SInv, IInv, SlotTyped, Run, Steps
  <2>2. slot.message \in 1..Messages
    BY <2>1, Typed DEF SInv
  <2>3. HeldIsYoung'
    <3>1. CASE ChildDies \/ Acknowledge
      <4>1. Others(slot.message)
        BY <1>1, <2>2, <3>1 DEF ChildDies, Acknowledge, Ack, Freed
      <4>2. msg'[slot.message].place \in {"queued", "free"}
        <5>1. CASE ChildDies
          BY <1>1, <2>2, <5>1 DEF ChildDies, Message
        <5>2. CASE Acknowledge
          BY <1>1, <2>2, <5>2 DEF Acknowledge, Ack, Freed, Blank
        <5>3. QED  BY <3>1, <5>1, <5>2
      <4>3. QED  BY <1>1, <4>1, <4>2 DEF HeldIsYoung
    <3>2. CASE Retry
      <4>1. Others(slot.message)
        BY <1>1, <2>2, <3>2 DEF Retry, Freed
      <4>2. msg'[slot.message].age = 0
        BY <1>1, <2>2, <3>2 DEF Retry, Freed, Blank, Message
      <4>3. QED  BY <1>1, <4>1, <4>2, TranscribeAssumption DEF HeldIsYoung
    <3>3. QED  BY <1>6, <3>1, <3>2
  <2>4. QED  BY <2>1, <2>3 DEF SlotIsHeld, RunHasRow, Hearing
<1>7. QED  BY <1>2, <1>3, <1>4, <1>5, <1>6 DEF Broker

LEMMA SRunKeeps ==
    ASSUME SInv, Preflight \/ Begin \/ Hear \/ Conclude \/ Raise
    PROVE  HeldIsYoung' /\ SlotIsHeld' /\ RunHasRow'
<1>1. msg \in [1..Messages -> Message] /\ HeldIsYoung /\ SlotIsHeld /\ RunHasRow
  BY Typed DEF SInv
<1>2. slot.step # "free" /\ slot \in Run /\ slot.message \in 1..Messages
  BY Typed DEF SInv, Preflight, Begin, Hear, Conclude, Raise
<1>3. CASE Preflight /\ Ack
  <2>1. slot'.step = "free"
    BY <1>3 DEF Ack, Free
  <2>2. HeldIsYoung'
    BY <1>1, <1>2, <1>3 DEF Ack, Freed, Blank, HeldIsYoung, Message
  <2>3. QED  BY <2>1, <2>2 DEF SlotIsHeld, RunHasRow, Hearing
<1>4. CASE Preflight /\ To("cleared") /\ UNCHANGED msg
  <2>1. slot'.message = slot.message /\ slot'.step = "cleared"
    BY <1>2, <1>4 DEF To, Run
  <2>2. QED  BY <1>1, <1>2, <1>4, <2>1 DEF HeldIsYoung, SlotIsHeld, RunHasRow, Hearing
<1>5. CASE Begin
  <2>1. slot'.message = slot.message /\ slot'.step = "begun" /\ UNCHANGED msg
    BY <1>2, <1>5 DEF Begin, Run
  <2>2. Len(open') > 0 /\ open'[Len(open')].age = 0
    BY <1>5, Typed DEF Begin, SInv
  <2>3. msg[slot.message].age >= 0
    BY <1>1, <1>2, TranscribeAssumption DEF Message
  <2>4. QED  BY <1>1, <1>2, <2>1, <2>2, <2>3 DEF HeldIsYoung, SlotIsHeld, RunHasRow
<1>6. CASE Hear
  <2>1. /\ slot'.message = slot.message /\ slot'.step = "heard" /\ slot.step = "begun"
        /\ UNCHANGED <<msg, open>>
    BY <1>2, <1>6 DEF Hear, To, Run, rows
  <2>2. QED  BY <1>1, <1>2, <2>1 DEF HeldIsYoung, SlotIsHeld, RunHasRow, Hearing
<1>7. CASE Conclude \/ Raise
  <2>1. /\ slot'.message = slot.message /\ slot'.step \in {"concluded", "raised"}
        /\ UNCHANGED msg
    BY <1>2, <1>7 DEF Conclude, Raise, To, Run
  <2>2. QED  BY <1>1, <1>2, <2>1 DEF HeldIsYoung, SlotIsHeld, RunHasRow, Hearing
<1>8. QED  BY <1>3, <1>4, <1>5, <1>6, <1>7 DEF Preflight

LEMMA SReapKeeps ==
    ASSUME SInv, Reap
    PROVE  HeldIsYoung' /\ SlotIsHeld' /\ RunHasRow'
<1>1. UNCHANGED <<msg, slot>> /\ open \in Seq(Row) /\ Len(open) \in Nat
  BY Typed DEF Reap, broker, SInv
<1>2. DOMAIN open' = 1..Len(open) /\ open' \in Seq(Row)
  BY ScannerKeeps, Typed DEF Reap, Scanner, SInv, IInv, TypeOK
<1>3. Len(open') = Len(open)
  BY <1>1, <1>2, LenProperties
<1>4. ASSUME NEW i \in 1..Len(open) PROVE open'[i].age = open[i].age
  <2>1. open[i] \in Row
    BY <1>1
  <2>2. open'[i] = IF open[i].age >= Orphan THEN [open[i] EXCEPT !.status = "abandoned"]
                   ELSE open[i]
    BY DEF Reap
  <2>3. QED  BY <2>1, <2>2 DEF Row
<1>5. RunHasRow'
  BY <1>1, <1>3, <1>4 DEF SInv, RunHasRow, Hearing
<1>6. QED  BY <1>1, <1>5 DEF SInv, HeldIsYoung, SlotIsHeld

LEMMA SNextInv == SInv /\ [Next]_vars => SInv'
<1> SUFFICES ASSUME SInv, [Next]_vars PROVE SInv'
  OBVIOUS
<1>1. IInv'
  BY NextInv DEF SInv
<1>2. CASE Extraction \/ Operator \/ ExtractBlip \/ StartWorker \/ Sweep \/ UNCHANGED vars
  <2>1. (Delay \/ UNCHANGED <<msg, slot>>) /\ UNCHANGED rows
    BY <1>2 DEF Extraction, ExtractReady, ExtractQueues, Operator, Reprocess, Flip,
                ExtractBlip, StartWorker, Sweep, vars, broker
  <2>2. QED  BY <1>1, <2>1, SAside DEF SInv
<1>3. CASE Tick
  BY <1>1, <1>3, STickKeeps DEF SInv
<1>4. CASE Broker \/ StopWorker \/ ChildDies \/ Retry \/ Acknowledge
  BY <1>1, <1>4, SBrokerKeeps DEF SInv
<1>5. CASE Preflight \/ Begin \/ Hear \/ Conclude \/ Raise
  BY <1>1, <1>5, SRunKeeps DEF SInv
<1>6. CASE Reap
  BY <1>1, <1>6, SReapKeeps DEF SInv
<1>7. QED
  BY <1>2, <1>3, <1>4, <1>5, <1>6 DEF Next, Trouble, Scanner, Work

LEMMA SweepFindsNoRun == SInv /\ [Next]_vars => [Sweep => ~ Hearing]_vars
<1> SUFFICES ASSUME SInv, Sweep, Hearing PROVE FALSE
  OBVIOUS
<1>1. slot.message \in 1..Messages /\ msg[slot.message].place = "held"
  BY Typed DEF SInv, SlotIsHeld, Hearing
<1>2. msg[slot.message].age < Redelivery /\ msg[slot.message].age \in Nat
  BY <1>1, Typed, TranscribeAssumption DEF SInv, HeldIsYoung, Message
<1>3. Len(open) \in 1..Len(open) /\ open[Len(open)] \in Row
      /\ open[Len(open)].age <= msg[slot.message].age
  BY Typed DEF SInv, RunHasRow
<1>4. open[Len(open)].age \in Nat /\ open[Len(open)].status \in Unfinished
  BY <1>3, TranscribeAssumption DEF Row, Unfinished
<1>5. Len(open) \in Younger(Unfinished, Redelivery)
  BY <1>2, <1>3, <1>4, TranscribeAssumption DEF Younger
<1>6. QED  BY <1>5 DEF Sweep

(* The sweep never queues a clip while a run is hearing it, however long    *)
(* the run takes and although the reaper may have called its row abandoned: *)
(* for any timeouts with ORPHAN_JOB_AGE < BROKER_REDELIVERY_AGE.            *)
THEOREM RunsAreNotRequeued == Spec => RunNotRequeued
<1>1. SInv /\ [Next]_vars => [Sweep => slot.step \notin {"begun", "heard"}]_vars
  BY SweepFindsNoRun DEF Hearing
<1>2. QED  BY <1>1, SInitInv, SNextInv, PTL DEF Spec, RunNotRequeued

=============================================================================
