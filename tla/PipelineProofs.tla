--------------------------- MODULE PipelineProofs ---------------------------
(***************************************************************************)
(* Pipeline.tla for every number of workers, versions, retries, attempts   *)
(* and incidents: its type, an asset is never left in "processing", and    *)
(* what is there when nothing is left to do is of the file as it is.       *)
(*                                                                         *)
(* QuietIsFresh says nothing of the way there, so the invariant does: each *)
(* product is as the file is, or the stage that makes it is due - owed by  *)
(* the scanner, waiting, in hand, or about to be sent by the stage before  *)
(* (ExtractDue to ResultDue) - and what a delivery in hand has read is of  *)
(* the file as it is (ReadsFresh).  A still is sampled from its thumbnail, *)
(* so every sampling waiting or in hand finds that fresh (SamplesFresh).   *)
(* Nothing of this is claimed once a stage was given up or the file        *)
(* changed under a task; the Base holds even then.                         *)
(***************************************************************************)
EXTENDS Pipeline, TLAPS

(* A delivery in hand is at a step of its own stage, and carries only what *)
(* the step needs.                                                         *)
Fits(d) ==
    /\ d.step \in {"marked", "probed"} => d.stage = "extract"
    /\ d.step = "decoded" => d.stage = "visuals"
    /\ d.step \in {"deleting", "deleted", "sampled"} => d.stage = "sample"
    /\ d.step \in {"loaded", "seen"} => d.stage \in {"embed", "detect"} /\ d.row # 0
    /\ d.step = "chain" => d.stage \in {"extract", "visuals", "sample"}
    /\ d.step \in {"begun", "deleting", "deleted", "retry", "again"} => d.saw = 0
StepsFit == \A w \in Slots : Fits(run[w])

(* What is left of a stage: waiting, or in hand at one of the steps.       *)
Ahead   == {"begun", "marked", "probed", "decoded", "deleting", "deleted", "sampled", "retry", "again"}
InHand(stage, steps) == \E w \in Slots : run[w].stage = stage /\ run[w].step \in steps
Left(stage) == queued[stage] > 0 \/ InHand(stage, Ahead)
Sending(stage) == InHand(stage, {"chain"})
(* An execution that has read the frame that is there now.                 *)
OnFrame(stage) == \E w \in Slots : /\ run[w].stage = stage /\ run[w].step \in {"loaded", "seen"}
                                   /\ run[w].row = frame.id

ExtractDue == indexed # file \/ status = "pending" \/ Left("extract")
VisualsDue == ExtractDue \/ Sending("extract") \/ Left("visuals")
SampleDue  == \/ ExtractDue \/ Sending("extract") \/ Left("sample")
              \/ kind = "still" /\ (Left("visuals") \/ Sending("visuals"))
ResultDue(stage) == SampleDue \/ Sending("sample") \/ Left(stage) \/ OnFrame(stage)

ThumbFresh == thumb = [file |-> file, row |-> "ready"]
ImageFresh == IF frame.src = "thumb" THEN thumb.file = file ELSE jpeg = file

(* Each product is as the file is, or its stage is still to come.          *)
MetaHolds   == ExtractDue \/ (status = "ready" /\ meta = file)
ThumbHolds  == VisualsDue \/ ThumbFresh
FrameHolds  == SampleDue \/ /\ frame # NoFrame
                            /\ frame.vector \in {0, file}
                            /\ faces.rows > 0 => faces.of = file
VectorHolds == ResultDue("embed") \/ frame.vector # 0
FacesHold   == ResultDue("detect") \/ faces.rows > 0

(* What is read of the file, of the thumbnail and of the clip's image is of *)
(* the file as it is.                                                      *)
ReadsFresh ==
    \A w \in Slots :
        /\ run[w].step \in {"probed", "decoded"} => run[w].saw = file
        /\ run[w].step = "sampled" => IF kind = "still" THEN run[w].saw = 0
                                      ELSE run[w].saw = file /\ jpeg = file
        /\ run[w].step = "loaded" /\ run[w].row = frame.id =>
              ImageFresh /\ (run[w].saw = 1 <=> frame.src = "thumb")
        /\ run[w].step = "seen" /\ run[w].row = frame.id => run[w].saw = file
SamplesFresh ==
    kind = "still" /\ (Left("sample") \/ Sending("visuals") \/ Sending("sample")) => ThumbFresh
FirstIsFresh == frame = NoFrame /\ thumb.row = "ready" => thumb.file = file
FrameIsRow   == frame # NoFrame => frame.id \in RowIds
WantedFresh  == frame # NoFrame /\ (frame.vector = 0 \/ faces.rows = 0) => ImageFresh

Fresh ==
    /\ MetaHolds /\ ThumbHolds /\ FrameHolds /\ VectorHolds /\ FacesHold
    /\ ReadsFresh /\ SamplesFresh /\ FirstIsFresh /\ WantedFresh

Base == TypeOK /\ StepsFit /\ FrameIsRow /\ ProcessingIsWorked
Inv  == Base /\ (~ disturbed /\ kind # "raw" => Fresh)

-----------------------------------------------------------------------------
(* A send adds to what waits and takes nothing away.                       *)
LEMMA Sent ==
    ASSUME TypeOK, NEW stages, Send(stages)
    PROVE  /\ queued' \in [Stages -> 0..MaxQueued]
           /\ \A s \in Stages : queued'[s] > 0 <=> queued[s] > 0 \/ s \in stages
<1>1. MaxQueued \in Nat /\ MaxQueued > 0
  BY PipelineAssumption DEF PipelineAssumption
<1>2. ASSUME NEW s \in Stages
      PROVE  /\ queued'[s] = Capped(queued[s] + (IF s \in stages THEN 1 ELSE 0), MaxQueued)
             /\ queued[s] \in 0..MaxQueued
  BY <1>2 DEF Send, With, TypeOK
<1>3. ASSUME NEW s \in Stages
      PROVE  queued'[s] \in 0..MaxQueued /\ (queued'[s] > 0 <=> queued[s] > 0 \/ s \in stages)
  <2>1. CASE s \in stages
    BY <1>1, <1>2, <2>1 DEF Capped
  <2>2. CASE s \notin stages
    BY <1>1, <1>2, <2>2 DEF Capped
  <2> QED BY <2>1, <2>2
<1>4. queued' = [s \in Stages |-> queued'[s]]
  BY DEF Send, With
<1> QED BY <1>3, <1>4

(* The counters stay within their bounds.                                  *)
LEMMA Numbers ==
    ASSUME TypeOK
    PROVE  /\ \A s : Counts(s) => jobs' \in [Counted -> 0..MaxAttempts]
           /\ Incident => used' \in 0..MaxIncidents
           /\ Swept => used' \in 0..MaxIncidents
<1>1. MaxAttempts \in Nat /\ MaxIncidents \in Nat
  BY PipelineAssumption DEF PipelineAssumption
<1>2. ASSUME NEW s, Counts(s) PROVE jobs' \in [Counted -> 0..MaxAttempts]
  <2>1. \A t \in Counted : Capped(jobs[t] + 1, MaxAttempts) \in 0..MaxAttempts /\ jobs[t] \in 0..MaxAttempts
    BY <1>1 DEF Capped, TypeOK
  <2> QED BY <1>2, <2>1 DEF Counts
<1>3. Incident => used' \in 0..MaxIncidents
  BY <1>1 DEF Incident, TypeOK
<1> QED BY <1>2, <1>3 DEF Swept, TypeOK

(* What one delivery becoming f does to what is left, sent and read.       *)
Becomes(w, f) == f \in Delivery /\ Fits(f) /\ run' = [run EXCEPT ![w] = f]

(* One delivery becomes f, the others stay as they are.                    *)
LEMMA Turn ==
    ASSUME TypeOK, StepsFit, NEW w \in Slots, NEW f, Becomes(w, f)
    PROVE  /\ run' \in [Slots -> Delivery] /\ StepsFit'
           /\ run'[w] = f /\ \A v \in Slots \ {w} : run'[v] = run[v]
  BY DEF Becomes, TypeOK, StepsFit, Fits

(* What is left, sent and on its frame after one delivery became f.        *)
LEMMA LeftAfter ==
    ASSUME TypeOK, StepsFit, NEW w \in Slots, NEW f, Becomes(w, f),
           \A s \in Stages : queued[s] > 0 => queued'[s] > 0 \/ (f.stage = s /\ f.step \in Ahead)
    PROVE  /\ \A s \in Stages :
                 /\ Left(s) => Left(s)' \/ (run[w].stage = s /\ run[w].step \in Ahead)
                 /\ Sending(s) => Sending(s)' \/ (run[w].stage = s /\ run[w].step = "chain")
                 /\ Left(s)' => Left(s) \/ queued'[s] > 0 \/ (f.stage = s /\ f.step \in Ahead)
                 /\ Sending(s)' => Sending(s) \/ (f.stage = s /\ f.step = "chain")
           /\ f.step \in Ahead => Left(f.stage)'
           /\ f.step = "chain" => Sending(f.stage)'
           /\ f.step \in {"loaded", "seen"} /\ f.row = frame'.id => OnFrame(f.stage)'
           /\ \A s \in Stages : frame'.id = frame.id /\ OnFrame(s) =>
                 OnFrame(s)' \/ (/\ run[w].stage = s /\ run[w].step \in {"loaded", "seen"}
                                  /\ run[w].row = frame.id)
<1>1. run'[w] = f /\ f.stage \in Stages /\ \A v \in Slots \ {w} : run'[v] = run[v]
  BY Turn DEF Becomes, Delivery
<1> USE DEF Left, Sending, InHand, OnFrame
<1>2. ASSUME NEW s \in Stages, Left(s), ~ (run[w].stage = s /\ run[w].step \in Ahead)
      PROVE  Left(s)'
  BY <1>1, <1>2
<1>3. ASSUME NEW s \in Stages, Sending(s), ~ (run[w].stage = s /\ run[w].step = "chain")
      PROVE  Sending(s)'
  BY <1>1, <1>3
<1>4. ASSUME NEW s \in Stages, Left(s)', ~ (f.stage = s /\ f.step \in Ahead), ~ queued'[s] > 0
      PROVE  Left(s)
  BY <1>1, <1>4
<1>5. ASSUME NEW s \in Stages, Sending(s)', ~ (f.stage = s /\ f.step = "chain")
      PROVE  Sending(s)
  BY <1>1, <1>5
<1>6. ASSUME NEW s \in Stages, OnFrame(s), frame'.id = frame.id,
             ~ (/\ run[w].stage = s /\ run[w].step \in {"loaded", "seen"}
                /\ run[w].row = frame.id)
      PROVE  OnFrame(s)'
  BY <1>1, <1>6
<1>7. /\ f.step \in Ahead => Left(f.stage)'
      /\ f.step = "chain" => Sending(f.stage)'
      /\ f.step \in {"loaded", "seen"} /\ f.row = frame'.id => OnFrame(f.stage)'
  BY <1>1
<1> HIDE DEF Left, Sending, InHand, OnFrame
<1> QED BY <1>2, <1>3, <1>4, <1>5, <1>6, <1>7

Extracting(d) == d.stage = "extract" /\ d.step \in {"again", "begun", "marked", "probed"}

(* Where the file is and what the catalogue says of that, as one delivery  *)
(* becomes f; "abandoned" is only taken back by an extraction that begins. *)
Around(f) ==
    /\ reach' \in {"here", "away", "down"} /\ online' \in BOOLEAN /\ abandoned' \in BOOLEAN
    /\ abandoned => abandoned' \/ Extracting(f)

Elsewhere == UNCHANGED <<reach, online, abandoned>>

LEMMA AroundKept ==
    ASSUME TypeOK, Elsewhere, NEW f
    PROVE  Around(f)
  BY DEF TypeOK, Elsewhere, Around

(* The part of the invariant that holds whatever was given up.             *)
LEMMA BaseKept ==
    ASSUME Base, NEW w \in Slots, NEW f, Becomes(w, f),
           UNCHANGED <<kind, file, indexed>>, Around(f),
           status' \in {"pending", "processing", "ready", "metadata_failed"},
           meta' \in Seen, jpeg' \in Seen,
           thumb' \in [file : Seen, row : {"none", "ready", "failed"}],
           frame' \in [id : RowIds \cup {0}, src : {"thumb", "jpeg"}, vector : Seen],
           faces' \in [rows : 0..2, of : Seen],
           queued' \in [Stages -> 0..MaxQueued],
           jobs' \in [Counted -> 0..MaxAttempts],
           used' \in 0..MaxIncidents,
           disturbed' \in BOOLEAN,
           frame' = frame \/ frame' = NoFrame \/ frame'.id \in RowIds,
           status' = "processing" =>
               Extracting(f) \/ abandoned' \/ (status = "processing" /\ ~ Extracting(run[w]))
    PROVE  Base'
<1>1. run' \in [Slots -> Delivery] /\ StepsFit'
      /\ run'[w] = f /\ \A v \in Slots \ {w} : run'[v] = run[v]
  BY Turn DEF Base
<1>2. TypeOK'
  BY <1>1 DEF Base, TypeOK, Seen, Around
<1>3. FrameIsRow'
  BY DEF Base, FrameIsRow
<1>4. ProcessingIsWorked'
  BY <1>1 DEF Base, ProcessingIsWorked, Extracting, Around
<1> QED BY <1>1, <1>2, <1>3, <1>4 DEF Base

(* What the steps before a stage's commit leave alone.                     *)
Still == UNCHANGED <<kind, file, indexed, meta, products>>

(* A delivery in hand goes on with what is ahead of its stage's commit, or *)
(* back to it; nothing is lost from the queues, and no sampling added.     *)
LEMMA AheadKeeps ==
    ASSUME Inv, NEW w \in Slots, NEW f, Becomes(w, f), Still, Around(f),
           f.stage = run[w].stage, run[w].step # "idle", f.step \in Ahead,
           status' = status \/ (/\ f.stage = "extract" /\ status' \in {"processing", "metadata_failed"}
                                /\ status' = "processing" => Extracting(f)),
           Extracting(run[w]) => Extracting(f) \/ status' # "processing",
           queued' \in [Stages -> 0..MaxQueued],
           \A s \in Stages : queued[s] > 0 => queued'[s] > 0,
           queued'["sample"] > 0 => queued["sample"] > 0,
           jobs' \in [Counted -> 0..MaxAttempts], used' \in 0..MaxIncidents,
           disturbed' \in BOOLEAN, disturbed => disturbed',
           ~ disturbed /\ kind # "raw" =>
              /\ f.step \in {"probed", "decoded"} => f.saw = file
              /\ f.step = "sampled" => IF kind = "still" THEN f.saw = 0
                                       ELSE f.saw = file /\ jpeg = file
    PROVE  Inv'
<1>0. /\ kind' = kind /\ file' = file /\ meta' = meta /\ thumb' = thumb /\ jpeg' = jpeg
      /\ frame' = frame /\ faces' = faces /\ indexed' = indexed
  BY DEF Still, products
<1>1. Base'
  BY <1>0, BaseKept DEF Inv, Base, TypeOK
<1> SUFFICES ASSUME ~ disturbed, kind # "raw", Fresh PROVE Fresh'
  BY <1>0, <1>1 DEF Inv, Base, TypeOK
<1>2. "extract" \in Stages /\ "visuals" \in Stages /\ "sample" \in Stages
      /\ "embed" \in Stages /\ "detect" \in Stages
  BY DEF Stages
<1>3. /\ \A s \in Stages : /\ Left(s) => Left(s)'
                           /\ Sending(s) => Sending(s)' \/ Left(s)'
                           /\ Sending(s)' => Sending(s)
                           /\ OnFrame(s) => OnFrame(s)' \/ Left(s)'
      /\ Left("sample")' => Left("sample") \/ Sending("sample")
      /\ Left(f.stage)'
  <2>1. f.step # "chain" /\ f.step \notin {"loaded", "seen"}
    BY DEF Ahead
  <2>2. frame'.id = frame.id /\ TypeOK /\ StepsFit
    BY <1>0 DEF Inv, Base
  <2>3. queued'["sample"] > 0 => Left("sample")
    BY DEF Left
  <2>4. f.stage = "sample" => Left("sample") \/ Sending("sample")
    <3>1. run[w] \in Delivery /\ Fits(run[w])
      BY <2>2 DEF TypeOK, StepsFit
    <3> QED BY <3>1 DEF Delivery, Steps, Fits, Left, Sending, InHand, Ahead
  <2> QED BY <1>2, <2>1, <2>2, <2>3, <2>4, LeftAfter
<1>4. status' = status \/ ExtractDue'
  BY <1>3 DEF ExtractDue
<1>5. ExtractDue => ExtractDue'
  BY <1>0, <1>2, <1>3, <1>4 DEF ExtractDue
<1>6. VisualsDue => VisualsDue'
  BY <1>2, <1>3, <1>5 DEF VisualsDue, ExtractDue
<1>7. SampleDue => SampleDue'
  BY <1>0, <1>2, <1>3, <1>5 DEF SampleDue, ExtractDue
<1>8. \A s \in {"embed", "detect"} : ResultDue(s) => ResultDue(s)'
  BY <1>2, <1>3, <1>7 DEF ResultDue, SampleDue
<1>10. MetaHolds' /\ ThumbHolds'
  BY <1>0, <1>4, <1>5, <1>6 DEF Fresh, MetaHolds, ThumbHolds, ThumbFresh
<1>11. FrameHolds'
  BY <1>0, <1>7 DEF Fresh, FrameHolds
<1>12. VectorHolds' /\ FacesHold'
  BY <1>0, <1>8 DEF Fresh, VectorHolds, FacesHold
<1>13. ReadsFresh'
  <2>1. run'[w] = f /\ \A v \in Slots \ {w} : run'[v] = run[v]
    BY Turn DEF Inv, Base
  <2>2. f.step \notin {"loaded", "seen"}
    BY DEF Ahead
  <2>3. ReadsFresh
    BY DEF Fresh
  <2>4. ImageFresh' = ImageFresh
    BY <1>0 DEF ImageFresh
  <2> QED BY <1>0, <2>1, <2>2, <2>3, <2>4 DEF ReadsFresh
<1>14. SamplesFresh'
  <2>1. kind = "still" /\ (Left("sample")' \/ Sending("visuals")' \/ Sending("sample")')
          => Left("sample") \/ Sending("visuals") \/ Sending("sample")
    BY <1>2, <1>3
  <2>2. SamplesFresh /\ ThumbFresh' = ThumbFresh
    BY <1>0 DEF Fresh, ThumbFresh
  <2> QED BY <1>0, <2>1, <2>2 DEF SamplesFresh
<1>15. FirstIsFresh' /\ WantedFresh'
  <2>1. FirstIsFresh /\ WantedFresh /\ ImageFresh' = ImageFresh
    BY <1>0 DEF Fresh, ImageFresh
  <2> QED BY <1>0, <2>1 DEF FirstIsFresh, WantedFresh
<1> QED BY <1>10, <1>11, <1>12, <1>13, <1>14, <1>15 DEF Fresh

(* A step whose work is given up on needs no more than its type.           *)
LEMMA GivenUpKeeps ==
    ASSUME Inv, NEW w \in Slots, NEW f, Becomes(w, f),
           UNCHANGED <<kind, file, indexed, meta, jpeg, frame, faces>>, Around(f),
           thumb' \in [file : Seen, row : {"none", "ready", "failed"}],
           status' = status \/ status' = "metadata_failed",
           Extracting(run[w]) => Extracting(f) \/ abandoned' \/ status' # "processing",
           queued' \in [Stages -> 0..MaxQueued],
           jobs' \in [Counted -> 0..MaxAttempts], used' \in 0..MaxIncidents, disturbed' = TRUE
    PROVE  Inv'
<1>1. Base'
  BY BaseKept DEF Inv, Base, TypeOK
<1> QED BY <1>1 DEF Inv

(* A retry waits for its countdown, or the stage is given up.              *)
LEMMA RetryIs ==
    ASSUME Inv, NEW w \in Slots, Retry(w)
    PROVE  \E f : /\ Becomes(w, f)
                  /\ \/ f.stage = run[w].stage /\ f.step = "retry" /\ disturbed' = disturbed
                     \/ f = Idle /\ disturbed' = TRUE
<1>0. run[w] \in Delivery /\ Retries \in Nat /\ 0 \in Seen
  BY PipelineAssumption DEF PipelineAssumption, Inv, Base, TypeOK, Seen
<1>1. CASE run[w].tries < Retries
  <2> DEFINE n == run[w].tries + 1
             f == [Idle EXCEPT !.stage = run[w].stage, !.step = "retry", !.tries = n]
  <2>1. run' = [run EXCEPT ![w] = f] /\ disturbed' = disturbed
    BY <1>1 DEF Retry
  <2>2. n \in 0..Retries
    BY <1>0, <1>1 DEF Delivery
  <2>3. f \in Delivery /\ f.stage = run[w].stage /\ f.step = "retry" /\ f.saw = 0
    <3> HIDE DEF n
    <3> QED BY <1>0, <2>2 DEF Delivery, Idle, Steps
  <2> HIDE DEF f
  <2> QED BY <2>1, <2>3 DEF Becomes, Fits
<1>2. CASE ~ run[w].tries < Retries
  <2>1. Idle \in Delivery /\ Fits(Idle)
    BY <1>0 DEF Delivery, Idle, Steps, Fits, Stages
  <2> QED BY <1>2, <2>1 DEF Retry, Finish, Becomes
<1> QED BY <1>1, <1>2

LEMMA FailureIs ==
    ASSUME TypeOK, NEW w, Failure(w)
    PROVE  used' \in 0..MaxIncidents
  BY Numbers DEF Failure, TypeOK

(* A task that raises.                                                     *)
LEMMA RaiseKeeps ==
    ASSUME Inv, NEW w \in Slots, Raise(w)
    PROVE  Inv'
<1>1. PICK f : /\ Becomes(w, f)
               /\ \/ f.stage = run[w].stage /\ f.step = "retry" /\ disturbed' = disturbed
                  \/ f = Idle /\ disturbed' = TRUE
  BY RetryIs DEF Raise
<1>2. /\ UNCHANGED <<kind, file, indexed, meta, products, queued, jobs>>
      /\ used' \in 0..MaxIncidents /\ run[w].step # "idle" /\ Around(f)
      /\ Extracting(run[w]) => status' = "metadata_failed"
      /\ status' = status \/ (run[w].stage = "extract" /\ status' = "metadata_failed")
  <2>1. Elsewhere /\ TypeOK
    BY DEF Raise, Aside, Elsewhere, Inv, Base
  <2>2. used' \in 0..MaxIncidents
    BY <2>1, FailureIs DEF Raise
  <2> QED BY <2>1, <2>2, AroundKept DEF Raise, Raises, Aside, Extracting
<1>3. /\ queued' \in [Stages -> 0..MaxQueued] /\ jobs' \in [Counted -> 0..MaxAttempts]
      /\ \A s \in Stages : queued[s] > 0 => queued'[s] > 0
      /\ queued'["sample"] > 0 => queued["sample"] > 0
      /\ disturbed \in BOOLEAN /\ thumb \in [file : Seen, row : {"none", "ready", "failed"}]
  BY <1>2 DEF Inv, Base, TypeOK
<1>4. CASE f.stage = run[w].stage /\ f.step = "retry" /\ disturbed' = disturbed
  BY <1>1, <1>2, <1>3, <1>4, AheadKeeps DEF Still, Ahead
<1>5. CASE f = Idle /\ disturbed' = TRUE
  BY <1>1, <1>2, <1>3, <1>5, GivenUpKeeps DEF products
<1> QED BY <1>1, <1>4, <1>5

(* A worker that dies.                                                     *)
LEMMA DieKeeps ==
    ASSUME Inv, NEW w \in Slots, Die(w)
    PROVE  Inv'
<1> DEFINE f == [run[w] EXCEPT !.step = "again", !.saw = 0, !.row = 0]
<1>1. run' = [run EXCEPT ![w] = f]
  BY DEF Die
<1>2. f \in Delivery /\ f.stage = run[w].stage /\ f.step = "again" /\ f.saw = 0
  <2>1. 0 \in Seen /\ run[w] \in Delivery
    BY PipelineAssumption DEF PipelineAssumption, Inv, Base, TypeOK, Seen
  <2> QED BY <2>1 DEF Delivery, Steps
<1> HIDE DEF f
<1>3. /\ queued' \in [Stages -> 0..MaxQueued]
      /\ \A s \in Stages : queued[s] > 0 => queued'[s] > 0
      /\ queued'["sample"] > 0 => queued["sample"] > 0
  <2>1. CASE UNCHANGED queued
    BY <2>1 DEF Inv, Base, TypeOK
  <2>2. CASE \E sent \in PartlySent(w) : Send(sent)
    <3>1. PICK sent \in PartlySent(w) : Send(sent)
      BY <2>2
    <3>2. "sample" \notin sent /\ "sample" \in Stages
      BY DEF PartlySent, Stages
    <3> QED BY <3>1, <3>2, Sent DEF Inv, Base
  <2> QED BY <2>1, <2>2 DEF Die
<1>4. /\ UNCHANGED <<kind, file, indexed, meta, products, status, jobs, disturbed>>
      /\ used' \in 0..MaxIncidents /\ run[w].step # "idle"
      /\ Extracting(run[w]) => Extracting(f)
      /\ jobs' \in [Counted -> 0..MaxAttempts] /\ disturbed' \in BOOLEAN /\ Around(f)
  BY <1>2, Numbers DEF Die, Inv, Base, Extracting, TypeOK, Around
<1> QED BY <1>1, <1>2, <1>3, <1>4, AheadKeeps DEF Becomes, Fits, Still, Ahead, products

(* A delivery begun again.                                                 *)
LEMMA AgainKeeps ==
    ASSUME Inv, NEW w \in Slots, Again(w)
    PROVE  Inv'
<1> DEFINE f == [run[w] EXCEPT !.step = "begun"]
<1>1. run' = [run EXCEPT ![w] = f]
  BY DEF Again, Step
<1>2. f \in Delivery /\ f.stage = run[w].stage /\ f.step = "begun" /\ f.saw = 0
  BY DEF Inv, Base, TypeOK, StepsFit, Fits, Again, Delivery, Steps, Seen
<1> HIDE DEF f
<1>3. /\ queued' \in [Stages -> 0..MaxQueued] /\ queued' = queued
      /\ jobs' \in [Counted -> 0..MaxAttempts] /\ used' \in 0..MaxIncidents
      /\ disturbed' \in BOOLEAN /\ disturbed' = disturbed
  BY Numbers DEF Inv, Base, TypeOK, Again
<1>4. /\ UNCHANGED <<kind, file, indexed, meta, products, status>>
      /\ run[w].step # "idle" /\ (Extracting(run[w]) => Extracting(f)) /\ Around(f)
  BY <1>2, AroundKept DEF Again, asset, Extracting, Elsewhere, Inv, Base
<1> QED BY <1>1, <1>2, <1>3, <1>4, AheadKeeps DEF Becomes, Fits, Still, Ahead

(* The steps before a commit, one by one.                                  *)
LEMMA EarlyKeeps ==
    ASSUME Inv, NEW w \in Slots,
           Mark(w) \/ Probe(w) \/ Decode(w) \/ DeleteFrames(w)
    PROVE  Inv'
<1>0. /\ run[w] \in Delivery /\ Fits(run[w]) /\ 0 \in Seen /\ file \in Seen
      /\ frame.id \in RowIds \cup {0}
  BY PipelineAssumption DEF PipelineAssumption, Inv, Base, TypeOK, StepsFit, Seen
<1>1. /\ queued' \in [Stages -> 0..MaxQueued] /\ queued' = queued
      /\ jobs' \in [Counted -> 0..MaxAttempts] /\ used' \in 0..MaxIncidents
      /\ disturbed' \in BOOLEAN /\ disturbed' = disturbed
  BY DEF Inv, Base, TypeOK, Apart, Aside, Mark, Probe, Decode, DeleteFrames
<1>2. UNCHANGED <<kind, file, indexed, meta, products>>
  BY DEF Apart, Aside, Mark, Probe, Decode, DeleteFrames
<1>a. Probe(w) \/ Decode(w) \/ DeleteFrames(w) => \A f : Around(f)
  BY AroundKept DEF Apart, Aside, Probe, Decode, DeleteFrames, Elsewhere, Inv, Base
<1>3. CASE Mark(w)
  <2> DEFINE f == [run[w] EXCEPT !.step = "marked"]
  <2>1. run' = [run EXCEPT ![w] = f] /\ status' = "processing"
        /\ run[w].stage = "extract" /\ run[w].step = "begun"
    BY <1>3 DEF Mark, Step, At
  <2>2. f \in Delivery /\ f.stage = "extract" /\ f.step = "marked"
    BY <1>0, <2>1 DEF Delivery, Steps
  <2>3. Around(f)
    BY <1>3, <2>2 DEF Mark, Around, Extracting, Inv, Base, TypeOK
  <2> HIDE DEF f
  <2> QED BY <1>1, <1>2, <2>1, <2>2, <2>3, AheadKeeps DEF Becomes, Fits, Still, Ahead, Extracting
<1>4. CASE Probe(w)
  <2> DEFINE f == [run[w] EXCEPT !.step = "probed", !.saw = file]
  <2>1. run' = [run EXCEPT ![w] = f] /\ status' = status
        /\ run[w].stage = "extract" /\ run[w].step = "marked"
    BY <1>4 DEF Probe, At
  <2>2. f \in Delivery /\ f.stage = "extract" /\ f.step = "probed" /\ f.saw = file
    BY <1>0, <2>1 DEF Delivery, Steps
  <2> HIDE DEF f
  <2> QED BY <1>1, <1>2, <1>4, <1>a, <2>1, <2>2, AheadKeeps DEF Becomes, Fits, Still, Ahead, Extracting
<1>5. CASE Decode(w)
  <2> DEFINE f == [run[w] EXCEPT !.step = "decoded", !.saw = file]
  <2>1. run' = [run EXCEPT ![w] = f] /\ status' = status
        /\ run[w].stage = "visuals" /\ run[w].step = "begun"
    BY <1>5 DEF Decode, At
  <2>2. f \in Delivery /\ f.stage = "visuals" /\ f.step = "decoded" /\ f.saw = file
    BY <1>0, <2>1 DEF Delivery, Steps
  <2> HIDE DEF f
  <2> QED BY <1>1, <1>2, <1>5, <1>a, <2>1, <2>2, AheadKeeps DEF Becomes, Fits, Still, Ahead, Extracting
<1>6. CASE DeleteFrames(w)
  <2> DEFINE row == IF run[w].row = frame.id THEN run[w].row ELSE 0
             f == [run[w] EXCEPT !.step = "deleted", !.row = row]
  <2>1. run' = [run EXCEPT ![w] = f] /\ status' = status
        /\ run[w].stage = "sample" /\ run[w].step = "deleting"
    BY <1>6 DEF DeleteFrames, At
  <2>2. row \in RowIds \cup {0}
    BY <1>0 DEF Delivery
  <2>3. f \in Delivery /\ f.stage = "sample" /\ f.step = "deleted" /\ f.saw = 0
    <3> HIDE DEF row
    <3> QED BY <1>0, <2>1, <2>2 DEF Delivery, Steps, Fits
  <2> HIDE DEF f
  <2> QED BY <1>1, <1>2, <1>6, <1>a, <2>1, <2>3, AheadKeeps DEF Becomes, Fits, Still, Ahead, Extracting
<1> QED BY <1>3, <1>4, <1>5, <1>6

(* Steps after which nobody will look for what they did not do.            *)
LEMMA LostKeeps ==
    ASSUME Inv, NEW w \in Slots,
           \/ ThumbFails(w) \/ LowDisk(w) \/ NoImage(w) \/ Unreadable(w) \/ ChainRefused(w)
           \/ Skip(w)
    PROVE  Inv'
<1>0. run[w] \in Delivery /\ Fits(run[w]) /\ 0 \in Seen
  BY PipelineAssumption DEF PipelineAssumption, Inv, Base, TypeOK, StepsFit, Seen
<1>1. Idle \in Delivery /\ Fits(Idle)
  BY <1>0, PipelineAssumption DEF PipelineAssumption, Delivery, Idle, Steps, Fits, Stages
<1>2. /\ TypeOK /\ jobs \in [Counted -> 0..MaxAttempts]
      /\ queued \in [Stages -> 0..MaxQueued]
      /\ thumb \in [file : Seen, row : {"none", "ready", "failed"}]
  BY DEF Inv, Base, TypeOK
<1>a. ThumbFails(w) \/ LowDisk(w) \/ NoImage(w) \/ Unreadable(w) \/ ChainRefused(w)
        => \A f : Around(f)
  BY <1>2, AroundKept
     DEF ThumbFails, LowDisk, NoImage, Unreadable, ChainRefused, Aside, asset, Elsewhere
<1>3. CASE ThumbFails(w)
  <2> DEFINE f == [run[w] EXCEPT !.step = "chain", !.saw = 0]
  <2>1. run' = [run EXCEPT ![w] = f] /\ run[w].stage = "visuals" /\ disturbed' = TRUE
    BY <1>3 DEF ThumbFails, At, Fits
  <2>2. f \in Delivery /\ f.stage = "visuals" /\ f.step = "chain"
    BY <1>0, <2>1 DEF Delivery, Steps
  <2>3. /\ thumb' \in [file : Seen, row : {"none", "ready", "failed"}]
        /\ used' \in 0..MaxIncidents /\ queued' = queued /\ jobs' = jobs /\ status' = status
        /\ UNCHANGED <<kind, file, indexed, meta, jpeg, frame, faces>>
    BY <1>2, <1>3, FailureIs DEF ThumbFails, Aside
  <2> HIDE DEF f
  <2> QED BY <1>2, <1>3, <1>a, <2>1, <2>2, <2>3, GivenUpKeeps DEF Becomes, Fits, Extracting
<1>4. CASE LowDisk(w) \/ Unreadable(w)
  <2>1. /\ run' = [run EXCEPT ![w] = Idle] /\ run[w].stage # "extract" /\ disturbed' = TRUE
        /\ UNCHANGED <<kind, file, indexed, meta, products, queued, jobs, status>>
        /\ used' \in 0..MaxIncidents
    BY <1>2, <1>4, Numbers DEF LowDisk, Unreadable, At, Aside, Finish
  <2> QED BY <1>1, <1>2, <1>4, <1>a, <2>1, GivenUpKeeps DEF Becomes, Extracting, products
<1>5. CASE NoImage(w)
  <2> DEFINE f == [run[w] EXCEPT !.step = "sampled"]
  <2>1. /\ run' = [run EXCEPT ![w] = f] /\ run[w].stage = "sample" /\ disturbed' = TRUE
        /\ UNCHANGED <<kind, file, indexed, meta, products, queued, jobs, status>>
        /\ used' \in 0..MaxIncidents
    BY <1>2, <1>5, FailureIs DEF NoImage, At, Aside, Step
  <2>2. f \in Delivery /\ f.stage = "sample" /\ f.step = "sampled"
    BY <1>0, <2>1 DEF Delivery, Steps
  <2> HIDE DEF f
  <2> QED BY <1>2, <1>5, <1>a, <2>1, <2>2, GivenUpKeeps DEF Becomes, Fits, Extracting, products
<1>6. CASE ChainRefused(w)
  <2>1. PICK sent \in PartlySent(w) : Send(sent)
    BY <1>6 DEF ChainRefused
  <2>2. /\ UNCHANGED <<kind, file, indexed, meta, products, jobs, status>>
        /\ used' \in 0..MaxIncidents /\ run[w].step = "chain"
    BY <1>2, <1>6, Numbers DEF ChainRefused, asset
  <2>3. /\ queued' \in [Stages -> 0..MaxQueued]
        /\ \A s \in Stages : queued[s] > 0 => queued'[s] > 0
        /\ queued'["sample"] > 0 => queued["sample"] > 0
    <3>1. "sample" \notin sent /\ "sample" \in Stages
      BY DEF PartlySent, Stages
    <3> QED BY <1>2, <2>1, <3>1, Sent
  <2>4. CASE run[w].stage = "extract"
    BY <1>1, <1>2, <1>6, <1>a, <2>2, <2>3, <2>4, GivenUpKeeps
       DEF ChainRefused, Finish, Becomes, Extracting, products
  <2>5. CASE run[w].stage # "extract"
    <3>1. PICK f : /\ Becomes(w, f)
                   /\ \/ f.stage = run[w].stage /\ f.step = "retry" /\ disturbed' = disturbed
                      \/ f = Idle /\ disturbed' = TRUE
      BY <1>6, <2>5, RetryIs DEF ChainRefused
    <3>2. CASE f.stage = run[w].stage /\ f.step = "retry" /\ disturbed' = disturbed
      <4>1. disturbed' \in BOOLEAN /\ jobs' \in [Counted -> 0..MaxAttempts]
        BY <1>2, <2>2, <3>2 DEF TypeOK
      <4> QED BY <1>6, <1>a, <2>2, <2>3, <2>5, <3>1, <3>2, <4>1, AheadKeeps DEF Still, Ahead, Extracting
    <3>3. CASE f = Idle /\ disturbed' = TRUE
      BY <1>2, <1>6, <1>a, <2>2, <2>3, <2>5, <3>1, <3>3, GivenUpKeeps DEF Extracting, products
    <3> QED BY <3>1, <3>2, <3>3
  <2> QED BY <2>4, <2>5
<1>7. CASE Skip(w)
  <2>1. /\ run' = [run EXCEPT ![w] = Idle] /\ disturbed' = TRUE
        /\ UNCHANGED <<kind, file, indexed, meta, products, queued, jobs, status, used>>
    BY <1>7 DEF Skip, Finish
  <2>2. Around(Idle)
    BY <1>2, <1>7 DEF Skip, Around, TypeOK
  <2>3. Extracting(run[w]) => abandoned' \/ status' # "processing"
    BY <1>7 DEF Skip, Extracting
  <2>4. used' \in 0..MaxIncidents
    BY <1>2, <2>1 DEF TypeOK
  <2> QED BY <1>1, <1>2, <2>1, <2>2, <2>3, <2>4, GivenUpKeeps DEF Becomes, products
<1> QED BY <1>3, <1>4, <1>5, <1>6, <1>7

-----------------------------------------------------------------------------
(* The commits.  What a step of one stage leaves of the others.            *)
LEMMA OthersDue ==
    ASSUME TypeOK, StepsFit, NEW w \in Slots, NEW f, Becomes(w, f),
           UNCHANGED <<kind, file, indexed>>,
           status' = status \/ (status # "pending" /\ status' # "pending"),
           \A s \in Stages : queued[s] > 0 => queued'[s] > 0 \/ (f.stage = s /\ f.step \in Ahead)
    PROVE  /\ run[w].stage # "extract" => (ExtractDue => ExtractDue')
           /\ run[w].stage \notin {"extract", "visuals"} => (VisualsDue => VisualsDue')
           /\ run[w].stage \in {"embed", "detect"} => (SampleDue => SampleDue')
           /\ \A s \in {"embed", "detect"} :
                 run[w].stage \in {"embed", "detect"} \ {s} /\ frame'.id = frame.id
                     => (ResultDue(s) => ResultDue(s)')
<1>1. "extract" \in Stages /\ "visuals" \in Stages /\ "sample" \in Stages
      /\ "embed" \in Stages /\ "detect" \in Stages
  BY DEF Stages
<1>2. \A s \in Stages : run[w].stage # s =>
          /\ Left(s) => Left(s)'
          /\ Sending(s) => Sending(s)'
          /\ frame'.id = frame.id /\ OnFrame(s) => OnFrame(s)'
  BY LeftAfter
<1>3. run[w].stage # "extract" => (ExtractDue => ExtractDue')
  BY <1>1, <1>2 DEF ExtractDue
<1>4. run[w].stage \notin {"extract", "visuals"} => (VisualsDue => VisualsDue')
  BY <1>1, <1>2, <1>3 DEF VisualsDue
<1>5. run[w].stage \in {"embed", "detect"} => (SampleDue => SampleDue')
  BY <1>1, <1>2, <1>3 DEF SampleDue
<1> QED BY <1>1, <1>2, <1>3, <1>4, <1>5 DEF ResultDue

(* The commit of extract_metadata.                                         *)
LEMMA StoreFieldsKeeps ==
    ASSUME Inv, NEW w \in Slots, StoreFields(w)
    PROVE  Inv'
<1> DEFINE f == [run[w] EXCEPT !.step = "chain", !.saw = 0]
<1>1. /\ run' = [run EXCEPT ![w] = f] /\ status' = "ready" /\ meta' = run[w].saw
      /\ run[w].stage = "extract" /\ run[w].step = "probed"
      /\ kind' = kind /\ file' = file /\ indexed' = indexed /\ jobs' = jobs /\ used' = used
      /\ UNCHANGED products /\ queued' = queued /\ disturbed' = disturbed /\ Elsewhere
  BY DEF StoreFields, At, Apart, Aside, Elsewhere
<1>2. run[w] \in Delivery /\ 0 \in Seen /\ TypeOK /\ StepsFit
  BY PipelineAssumption DEF PipelineAssumption, Inv, Base, TypeOK, Seen
<1>3. /\ f \in Delivery /\ f.stage = "extract" /\ f.step = "chain" /\ Fits(f)
      /\ run[w].saw \in Seen
  BY <1>1, <1>2 DEF Delivery, Steps, Fits
<1> HIDE DEF f
<1>4. Base'
  BY <1>1, <1>2, <1>3, BaseKept, AroundKept DEF Becomes, Inv, Base, TypeOK, products, Seen
<1> SUFFICES ASSUME ~ disturbed, kind # "raw", Fresh PROVE Fresh'
  BY <1>1, <1>4 DEF Inv
<1>5. thumb' = thumb /\ jpeg' = jpeg /\ frame' = frame /\ faces' = faces
  BY <1>1 DEF products
<1>6. Sending("extract")' /\ \A s \in {"sample", "visuals"} :
          (Left(s)' => Left(s)) /\ (Sending(s)' => Sending(s))
  <2>1. \A s \in Stages : queued'[s] > 0 => Left(s)
    BY <1>1 DEF Left
  <2>2. f.stage \notin {"sample", "visuals"} /\ "sample" \in Stages /\ "visuals" \in Stages
    BY <1>3 DEF Stages
  <2>3. \A s \in Stages : queued[s] > 0 => queued'[s] > 0
    BY <1>1
  <2>4. Becomes(w, f)
    BY <1>1, <1>3 DEF Becomes
  <2> QED BY <1>2, <1>3, <2>1, <2>2, <2>3, <2>4, LeftAfter
<1>7. VisualsDue' /\ SampleDue' /\ \A s : ResultDue(s)'
  BY <1>6 DEF VisualsDue, SampleDue, ResultDue
<1>8. ReadsFresh
  BY DEF Fresh
<1>9. MetaHolds'
  BY <1>1, <1>8 DEF MetaHolds, ReadsFresh
<1>10. ThumbHolds' /\ FrameHolds' /\ VectorHolds' /\ FacesHold'
  BY <1>7 DEF ThumbHolds, FrameHolds, VectorHolds, FacesHold
<1>11. ReadsFresh'
  <2>1. run'[w] = f /\ \A v \in Slots \ {w} : run'[v] = run[v]
    BY <1>1, <1>2, <1>3, Turn DEF Becomes
  <2>2. ImageFresh' = ImageFresh
    BY <1>1, <1>5 DEF ImageFresh
  <2> QED BY <1>1, <1>3, <1>5, <1>8, <2>1, <2>2 DEF ReadsFresh
<1>12. SamplesFresh' /\ FirstIsFresh' /\ WantedFresh'
  <2>1. SamplesFresh /\ FirstIsFresh /\ WantedFresh
    BY DEF Fresh
  <2>2. ImageFresh' = ImageFresh /\ ThumbFresh' = ThumbFresh
    BY <1>1, <1>5 DEF ImageFresh, ThumbFresh
  <2> QED BY <1>1, <1>5, <1>6, <2>1, <2>2 DEF SamplesFresh, FirstIsFresh, WantedFresh
<1> QED BY <1>9, <1>10, <1>11, <1>12 DEF Fresh

(* The commit of the thumbnail.                                            *)
LEMMA StoreThumbKeeps ==
    ASSUME Inv, NEW w \in Slots, StoreThumb(w)
    PROVE  Inv'
<1> DEFINE f == [run[w] EXCEPT !.step = "chain", !.saw = 0]
<1>1. /\ run' = [run EXCEPT ![w] = f] /\ thumb' = [file |-> run[w].saw, row |-> "ready"]
      /\ run[w].stage = "visuals" /\ run[w].step = "decoded"
      /\ kind' = kind /\ file' = file /\ indexed' = indexed /\ jobs' = jobs /\ used' = used
      /\ status' = status /\ meta' = meta /\ jpeg' = jpeg /\ frame' = frame /\ faces' = faces
      /\ queued' = queued /\ disturbed' = disturbed /\ Elsewhere
  BY DEF StoreThumb, At, Apart, Aside, Elsewhere
<1>2. run[w] \in Delivery /\ 0 \in Seen /\ TypeOK /\ StepsFit
  BY PipelineAssumption DEF PipelineAssumption, Inv, Base, TypeOK, Seen
<1>3. /\ f \in Delivery /\ f.stage = "visuals" /\ f.step = "chain" /\ Fits(f)
      /\ run[w].saw \in Seen
  BY <1>1, <1>2 DEF Delivery, Steps, Fits
<1> HIDE DEF f
<1>4. Base'
  BY <1>1, <1>2, <1>3, BaseKept, AroundKept DEF Becomes, Inv, Base, TypeOK, Extracting
<1> SUFFICES ASSUME ~ disturbed, kind # "raw", Fresh PROVE Fresh'
  BY <1>1, <1>4 DEF Inv
<1>5. ReadsFresh /\ run[w].saw = file
  BY <1>1 DEF Fresh, ReadsFresh
<1>6. ThumbFresh'
  BY <1>1, <1>5 DEF ThumbFresh
<1>7. /\ ExtractDue => ExtractDue'
      /\ "sample" \in Stages /\ "visuals" \in Stages /\ "extract" \in Stages
      /\ "embed" \in Stages /\ "detect" \in Stages
  BY <1>1, <1>2, <1>3, OthersDue DEF Becomes, Stages
<1>8. /\ Sending("visuals")'
      /\ \A s \in Stages \ {"visuals"} : /\ Left(s) => Left(s)'
                                         /\ Sending(s) => Sending(s)'
                                         /\ OnFrame(s) => OnFrame(s)'
  <2>1. (\A s \in Stages : queued[s] > 0 => queued'[s] > 0) /\ frame'.id = frame.id
    BY <1>1
  <2>2. Becomes(w, f)
    BY <1>1, <1>3 DEF Becomes
  <2> QED BY <1>1, <1>2, <1>3, <2>1, <2>2, LeftAfter
<1>9. SampleDue => SampleDue'
  BY <1>1, <1>7, <1>8 DEF SampleDue
<1>10. \A s \in {"embed", "detect"} : ResultDue(s) => ResultDue(s)'
  BY <1>7, <1>8, <1>9 DEF ResultDue
<1>11. MetaHolds' /\ ThumbHolds'
  BY <1>1, <1>6, <1>7 DEF Fresh, MetaHolds, ThumbHolds
<1>12. FrameHolds' /\ VectorHolds' /\ FacesHold'
  BY <1>1, <1>9, <1>10 DEF Fresh, FrameHolds, VectorHolds, FacesHold
<1>13. ImageFresh => ImageFresh'
  BY <1>1, <1>5 DEF ImageFresh
<1>14. ReadsFresh'
  <2>1. run'[w] = f /\ \A v \in Slots \ {w} : run'[v] = run[v]
    BY <1>1, <1>2, <1>3, Turn DEF Becomes
  <2> QED BY <1>1, <1>3, <1>5, <1>13, <2>1 DEF ReadsFresh
<1>15. SamplesFresh' /\ FirstIsFresh' /\ WantedFresh'
  BY <1>1, <1>5, <1>6, <1>13 DEF Fresh, SamplesFresh, FirstIsFresh, WantedFresh
<1> QED BY <1>11, <1>12, <1>14, <1>15 DEF Fresh

(* The plan of a sampling: a still that is due for one has its thumbnail.  *)
LEMMA PlanKeeps ==
    ASSUME Inv, NEW w \in Slots, PlanSamples(w)
    PROVE  Inv'
<1>1. /\ run[w].stage = "sample" /\ run[w].step = "begun"
      /\ UNCHANGED <<kind, file, indexed, meta, products, status, queued, jobs, used, disturbed>>
      /\ Elsewhere
  BY DEF PlanSamples, At, Apart, Aside, Elsewhere
<1>2. /\ run[w] \in Delivery /\ 0 \in Seen /\ TypeOK /\ StepsFit /\ Fits(run[w])
      /\ frame.id \in RowIds \cup {0} /\ jobs' \in [Counted -> 0..MaxAttempts]
      /\ queued' \in [Stages -> 0..MaxQueued] /\ used' \in 0..MaxIncidents /\ disturbed' \in BOOLEAN
  BY <1>1, PipelineAssumption DEF PipelineAssumption, Inv, Base, TypeOK, StepsFit, Seen
<1>3. CASE run' = [run EXCEPT ![w].step = "deleting", ![w].row = frame.id]
  <2> DEFINE f == [run[w] EXCEPT !.step = "deleting", !.row = frame.id]
  <2>1. run' = [run EXCEPT ![w] = f]
    BY <1>3
  <2>2. f \in Delivery /\ f.stage = "sample" /\ f.step = "deleting" /\ f.saw = 0
    BY <1>1, <1>2 DEF Delivery, Steps, Fits
  <2> HIDE DEF f
  <2> QED BY <1>1, <1>2, <2>1, <2>2, AheadKeeps, AroundKept
          DEF Becomes, Fits, Still, Ahead, Extracting
<1>4. CASE kind # "clip" /\ thumb.file = 0 /\ Finish(w)
  <2>1. Idle \in Delivery /\ Fits(Idle)
    BY <1>2, PipelineAssumption DEF PipelineAssumption, Delivery, Idle, Steps, Fits, Stages
  <2>2. Base'
    BY <1>1, <1>2, <1>4, <2>1, BaseKept, AroundKept DEF Finish, Becomes, Inv, Base, TypeOK, products, Extracting
  <2>3. ASSUME ~ disturbed, kind # "raw", Fresh PROVE FALSE
    <3>1. Left("sample")
      BY <1>1 DEF Left, InHand, Ahead
    <3>2. kind = "still" /\ file > 0
      BY <1>4, <2>3, PipelineAssumption DEF Inv, Base, TypeOK, PipelineAssumption
    <3>3. ThumbFresh
      BY <2>3, <3>1, <3>2 DEF Fresh, SamplesFresh
    <3> QED BY <1>4, <3>2, <3>3 DEF ThumbFresh
  <2> QED BY <1>1, <2>2, <2>3 DEF Inv
<1> QED BY <1>3, <1>4 DEF PlanSamples

(* The image of a sampling.                                                *)
LEMMA TakeImageKeeps ==
    ASSUME Inv, NEW w \in Slots, TakeImage(w)
    PROVE  Inv'
<1>1. /\ run[w].stage = "sample" /\ run[w].step = "deleted"
      /\ kind' = kind /\ file' = file /\ indexed' = indexed /\ jobs' = jobs /\ used' = used
      /\ status' = status /\ meta' = meta /\ thumb' = thumb /\ frame' = frame /\ faces' = faces
      /\ queued' = queued /\ disturbed' = disturbed /\ Elsewhere
  BY DEF TakeImage, At, Apart, Aside, Elsewhere
<1>2. /\ run[w] \in Delivery /\ 0 \in Seen /\ file \in Seen /\ TypeOK /\ StepsFit /\ Fits(run[w])
      /\ jobs' \in [Counted -> 0..MaxAttempts] /\ used' \in 0..MaxIncidents /\ disturbed' \in BOOLEAN
      /\ queued' \in [Stages -> 0..MaxQueued]
      /\ \A s \in Stages : queued[s] > 0 => queued'[s] > 0
  BY <1>1, PipelineAssumption DEF PipelineAssumption, Inv, Base, TypeOK, StepsFit, Seen
<1>3. CASE kind # "clip"
  <2> DEFINE f == [run[w] EXCEPT !.step = "sampled"]
  <2>1. run' = [run EXCEPT ![w] = f] /\ jpeg' = jpeg
    BY <1>3 DEF TakeImage, Step
  <2>2. f \in Delivery /\ f.stage = "sample" /\ f.step = "sampled" /\ f.saw = 0
    BY <1>1, <1>2 DEF Delivery, Steps, Fits
  <2>3. kind # "raw" => kind = "still"
    BY <1>3, PipelineAssumption DEF PipelineAssumption, Inv, Base, TypeOK
  <2> HIDE DEF f
  <2>4. Becomes(w, f) /\ Still
    BY <1>1, <2>1, <2>2 DEF Becomes, Fits, Still, products
  <2> QED BY <1>1, <1>2, <2>2, <2>3, <2>4, AheadKeeps, AroundKept DEF Ahead, Extracting
<1>4. CASE kind = "clip"
  <2> DEFINE f == [run[w] EXCEPT !.step = "sampled", !.saw = file]
  <2>1. run' = [run EXCEPT ![w] = f] /\ jpeg' = file
    BY <1>4 DEF TakeImage
  <2>2. f \in Delivery /\ f.stage = "sample" /\ f.step = "sampled" /\ f.saw = file
    BY <1>1, <1>2 DEF Delivery, Steps
  <2> HIDE DEF f
  <2>3. Becomes(w, f)
    BY <2>1, <2>2 DEF Becomes, Fits
  <2>4. Base'
    BY <1>1, <1>2, <2>1, <2>2, <2>3, BaseKept, AroundKept DEF Inv, Base, TypeOK, Extracting
  <2> SUFFICES ASSUME ~ disturbed, kind # "raw", Fresh PROVE Fresh'
    BY <1>1, <2>4 DEF Inv
  <2>5. /\ \A s \in Stages : /\ Left(s) => Left(s)'
                             /\ Sending(s) => Sending(s)'
                             /\ OnFrame(s) => OnFrame(s)'
        /\ "sample" \in Stages /\ "visuals" \in Stages /\ "extract" \in Stages
        /\ "embed" \in Stages /\ "detect" \in Stages
    BY <1>1, <1>2, <2>2, <2>3, LeftAfter DEF Ahead, Stages
  <2>6. (ExtractDue => ExtractDue') /\ (VisualsDue => VisualsDue') /\ (SampleDue => SampleDue')
    BY <1>1, <2>5 DEF ExtractDue, VisualsDue, SampleDue
  <2>7. \A s \in {"embed", "detect"} : ResultDue(s) => ResultDue(s)'
    BY <2>5, <2>6 DEF ResultDue
  <2>8. MetaHolds' /\ ThumbHolds' /\ FrameHolds'
    BY <1>1, <2>6 DEF Fresh, MetaHolds, ThumbHolds, ThumbFresh, FrameHolds
  <2>9. VectorHolds' /\ FacesHold'
    BY <1>1, <2>7 DEF Fresh, VectorHolds, FacesHold
  <2>10. ImageFresh => ImageFresh'
    BY <1>1, <2>1 DEF ImageFresh
  <2>11. ReadsFresh'
    <3>1. run'[w] = f /\ \A v \in Slots \ {w} : run'[v] = run[v]
      BY <1>2, <2>3, Turn
    <3>2. ReadsFresh
      BY DEF Fresh
    <3> QED BY <1>1, <1>4, <2>1, <2>2, <2>10, <3>1, <3>2 DEF ReadsFresh
  <2>12. SamplesFresh' /\ FirstIsFresh' /\ WantedFresh'
    BY <1>1, <1>4, <2>10 DEF Fresh, SamplesFresh, FirstIsFresh, WantedFresh
  <2> QED BY <2>8, <2>9, <2>11, <2>12 DEF Fresh
<1> QED BY <1>3, <1>4

(* A new row has an identity nobody holds.                                 *)
LEMMA FreshRowIs ==
    ASSUME TypeOK, NEW w \in Slots
    PROVE  /\ FreshRow(w) \in RowIds /\ FreshRow(w) # frame.id
           /\ \A v \in Slots \ {w} : run[v].row # FreshRow(w)
<1> DEFINE held == [v \in Slots |-> IF v = w THEN frame.id ELSE run[v].row]
<1>1. held \in [Slots -> RowIds \cup {0}]
  BY DEF TypeOK, Delivery
<1>2. PICK id \in RowIds : \A v \in Slots : held[v] # id
  BY <1>1, PipelineAssumption DEF PipelineAssumption
<1>3. id # frame.id /\ \A v \in Slots \ {w} : run[v].row # id
  BY <1>2
<1> QED BY <1>3 DEF FreshRow

(* The commit of sample_frames.                                            *)
LEMMA StoreFramesKeeps ==
    ASSUME Inv, NEW w \in Slots, StoreFrames(w)
    PROVE  Inv'
<1>1. /\ run[w].stage = "sample" /\ run[w].step = "sampled"
      /\ kind' = kind /\ file' = file /\ indexed' = indexed /\ jobs' = jobs /\ used' = used
      /\ status' = status /\ meta' = meta /\ thumb' = thumb /\ jpeg' = jpeg
      /\ queued' = queued /\ Elsewhere
  BY DEF StoreFrames, At, Apart, Aside, Elsewhere
<1>2. /\ run[w] \in Delivery /\ 0 \in Seen /\ TypeOK /\ StepsFit /\ Fits(run[w])
      /\ jobs' \in [Counted -> 0..MaxAttempts] /\ used' \in 0..MaxIncidents
      /\ thumb \in [file : Seen, row : {"none", "ready", "failed"}]
      /\ queued' \in [Stages -> 0..MaxQueued] /\ disturbed \in BOOLEAN
      /\ \A s \in Stages : queued[s] > 0 => queued'[s] > 0
  BY <1>1, PipelineAssumption DEF PipelineAssumption, Inv, Base, TypeOK, StepsFit, Seen
<1>3. CASE frame.id # run[w].row
  <2>1. PICK f : /\ Becomes(w, f)
                 /\ \/ f.stage = run[w].stage /\ f.step = "retry" /\ disturbed' = disturbed
                    \/ f = Idle /\ disturbed' = TRUE
    BY <1>3, RetryIs DEF StoreFrames
  <2>2. frame' = frame /\ faces' = faces /\ disturbed' \in BOOLEAN
    BY <1>2, <1>3, <2>1 DEF StoreFrames
  <2>3. CASE f.stage = run[w].stage /\ f.step = "retry" /\ disturbed' = disturbed
    BY <1>1, <1>2, <2>1, <2>2, <2>3, AheadKeeps, AroundKept DEF Still, Ahead, Extracting, products
  <2>4. CASE f = Idle /\ disturbed' = TRUE
    BY <1>1, <1>2, <2>1, <2>2, <2>4, GivenUpKeeps, AroundKept DEF Extracting
  <2> QED BY <2>1, <2>3, <2>4
<1>4. CASE frame.id = run[w].row /\ run[w].saw = 0 /\ thumb.file = 0
  <2>1. run' = [run EXCEPT ![w] = Idle] /\ frame' = NoFrame /\ faces' = NoFaces
        /\ disturbed' = disturbed
    BY <1>4 DEF StoreFrames, Finish
  <2>2. Idle \in Delivery /\ Fits(Idle)
    BY <1>2, PipelineAssumption DEF PipelineAssumption, Delivery, Idle, Steps, Fits, Stages
  <2>3. /\ frame' \in [id : RowIds \cup {0}, src : {"thumb", "jpeg"}, vector : Seen]
        /\ faces' \in [rows : 0..2, of : Seen]
    BY <1>2, <2>1 DEF NoFrame, NoFaces
  <2>4. Base'
    BY <1>1, <1>2, <2>1, <2>2, <2>3, BaseKept, AroundKept DEF Becomes, Inv, Base, TypeOK, Extracting
  <2>5. ASSUME ~ disturbed, kind # "raw", Fresh PROVE FALSE
    <3>1. Left("sample")
      BY <1>1 DEF Left, InHand, Ahead
    <3>2. file > 0
      BY PipelineAssumption DEF Inv, Base, TypeOK, PipelineAssumption
    <3>3. kind = "still"
      BY <1>1, <1>4, <2>5, <3>2 DEF Fresh, ReadsFresh
    <3>4. ThumbFresh
      BY <2>5, <3>1, <3>3 DEF Fresh, SamplesFresh
    <3> QED BY <1>4, <3>2, <3>4 DEF ThumbFresh
  <2> QED BY <1>1, <2>1, <2>4, <2>5 DEF Inv
<1>5. CASE frame.id = run[w].row /\ ~ (run[w].saw = 0 /\ thumb.file = 0)
  <2> DEFINE f == [run[w] EXCEPT !.step = "chain", !.saw = 0, !.row = 0]
             src == IF run[w].saw = 0 THEN "thumb" ELSE "jpeg"
  <2>1. /\ run' = [run EXCEPT ![w] = f] /\ faces' = NoFaces /\ disturbed' = disturbed
        /\ frame' = [id |-> FreshRow(w), vector |-> 0, src |-> src]
    BY <1>5 DEF StoreFrames
  <2>2. f \in Delivery /\ f.stage = "sample" /\ f.step = "chain"
    BY <1>1, <1>2 DEF Delivery, Steps
  <2> HIDE DEF f
  <2>3. Becomes(w, f)
    BY <2>1, <2>2 DEF Becomes, Fits
  <2>4. /\ frame' \in [id : RowIds \cup {0}, src : {"thumb", "jpeg"}, vector : Seen]
        /\ faces' \in [rows : 0..2, of : Seen] /\ frame'.id \in RowIds
        /\ frame'.src = src /\ frame'.vector = 0 /\ faces'.rows = 0
    BY <1>2, <2>1, FreshRowIs DEF NoFaces
  <2>5. Base'
    BY <1>1, <1>2, <2>1, <2>2, <2>3, <2>4, BaseKept, AroundKept DEF Inv, Base, TypeOK, Extracting
  <2> SUFFICES ASSUME ~ disturbed, kind # "raw", Fresh PROVE Fresh'
    BY <1>1, <2>1, <2>5 DEF Inv
  <2>6. /\ ExtractDue => ExtractDue'
        /\ VisualsDue => VisualsDue'
    BY <1>1, <1>2, <2>3, OthersDue
  <2>7. Sending("sample")'
    BY <1>2, <2>2, <2>3, LeftAfter
  <2>8. MetaHolds' /\ ThumbHolds'
    BY <1>1, <2>6 DEF Fresh, MetaHolds, ThumbHolds, ThumbFresh
  <2>9. frame' # NoFrame
    BY <2>4, PipelineAssumption DEF NoFrame, PipelineAssumption
  <2>10. FrameHolds' /\ VectorHolds' /\ FacesHold'
    BY <2>4, <2>7, <2>9 DEF FrameHolds, VectorHolds, FacesHold, ResultDue
  <2>11. ImageFresh'
    <3>1. CASE kind = "still"
      <4>1. run[w].saw = 0
        BY <1>1, <3>1 DEF Fresh, ReadsFresh
      <4>2. Left("sample")
        BY <1>1 DEF Left, InHand, Ahead
      <4>3. thumb.file = file
        BY <3>1, <4>2 DEF Fresh, SamplesFresh, ThumbFresh
      <4> QED BY <1>1, <2>4, <4>1, <4>3 DEF ImageFresh
    <3>2. CASE kind # "still"
      <4>1. run[w].saw = file /\ jpeg = file
        BY <1>1, <3>2 DEF Fresh, ReadsFresh
      <4>2. file # 0
        BY PipelineAssumption DEF Inv, Base, TypeOK, PipelineAssumption
      <4> QED BY <1>1, <2>4, <4>1, <4>2 DEF ImageFresh
    <3> QED BY <3>1, <3>2
  <2>12. ReadsFresh'
    <3>1. run'[w] = f /\ \A v \in Slots \ {w} : run'[v] = run[v]
      BY <1>2, <2>3, Turn
    <3>2. ReadsFresh
      BY DEF Fresh
    <3>3. \A v \in Slots \ {w} : run[v].row # frame'.id
      BY <1>2, <2>1, FreshRowIs
    <3> QED BY <1>1, <2>2, <3>1, <3>2, <3>3 DEF ReadsFresh
  <2>13. SamplesFresh'
    <3>1. SamplesFresh /\ ThumbFresh' = ThumbFresh
      BY <1>1 DEF Fresh, ThumbFresh
    <3>2. Left("sample")
      BY <1>1 DEF Left, InHand, Ahead
    <3> QED BY <1>1, <3>1, <3>2 DEF SamplesFresh
  <2>14. FirstIsFresh' /\ WantedFresh'
    BY <2>9, <2>11 DEF FirstIsFresh, WantedFresh
  <2> QED BY <2>8, <2>10, <2>12, <2>13, <2>14 DEF Fresh
<1> QED BY <1>3, <1>4, <1>5

(* A step of an execution that has nothing to send: what must be shown of  *)
(* it is what it knows now, and what became of its own result.             *)
LEMMA ResultKeeps ==
    ASSUME Inv, NEW w \in Slots, NEW f, Becomes(w, f), run[w].stage \in {"embed", "detect"},
           f.step \in {"idle", "loaded", "seen"}, Elsewhere,
           UNCHANGED <<kind, file, indexed, status, meta, thumb, jpeg, queued, jobs, used, disturbed>>,
           frame' \in [id : RowIds \cup {0}, src : {"thumb", "jpeg"}, vector : Seen],
           faces' \in [rows : 0..2, of : Seen],
           frame' = frame \/ (frame.id \in RowIds /\ frame'.id = frame.id /\ frame'.src = frame.src),
           ~ disturbed /\ kind # "raw" /\ Fresh =>
              /\ frame' = frame \/ frame'.vector = file
              /\ faces' = faces \/ (faces'.rows > 0 /\ faces'.of = file)
              /\ f.step = "loaded" /\ f.row = frame.id =>
                    ImageFresh /\ (f.saw = 1 <=> frame.src = "thumb")
              /\ f.step = "seen" /\ f.row = frame.id => f.saw = file
              /\ run[w].stage = "embed" => VectorHolds'
              /\ run[w].stage = "detect" => FacesHold'
    PROVE  Inv'
<1>1. /\ kind' = kind /\ file' = file /\ indexed' = indexed /\ status' = status /\ meta' = meta
      /\ thumb' = thumb /\ jpeg' = jpeg /\ queued' = queued /\ disturbed' = disturbed
      /\ frame'.id = frame.id /\ frame'.src = frame.src /\ TypeOK /\ StepsFit
      /\ file # 0
  BY PipelineAssumption DEF PipelineAssumption, Inv, Base, TypeOK
<1>2. Base'
  BY <1>1, BaseKept, AroundKept DEF Inv, Base, TypeOK, Extracting
<1>3. frame = NoFrame <=> frame' = NoFrame
  BY <1>1, PipelineAssumption DEF PipelineAssumption, NoFrame
<1> SUFFICES ASSUME ~ disturbed, kind # "raw", Fresh PROVE Fresh'
  BY <1>1, <1>2 DEF Inv
<1>4. \A s \in Stages : queued[s] > 0 => queued'[s] > 0
  BY <1>1
<1>5. /\ ExtractDue => ExtractDue'
      /\ VisualsDue => VisualsDue'
      /\ SampleDue => SampleDue'
      /\ \A s \in {"embed", "detect"} \ {run[w].stage} : ResultDue(s) => ResultDue(s)'
  BY <1>1, <1>4, OthersDue
<1>6. \A s \in {"sample", "visuals"} : (Left(s)' => Left(s)) /\ (Sending(s)' => Sending(s))
  <2>1. \A s \in Stages : queued'[s] > 0 => Left(s)
    BY <1>1 DEF Left
  <2>2. f.step \notin Ahead /\ f.step # "chain" /\ "sample" \in Stages /\ "visuals" \in Stages
    BY DEF Stages, Ahead
  <2> QED BY <1>1, <1>4, <2>1, <2>2, LeftAfter
<1>7. MetaHolds' /\ ThumbHolds'
  BY <1>1, <1>5 DEF Fresh, MetaHolds, ThumbHolds, ThumbFresh
<1>8. FrameHolds'
  BY <1>1, <1>3, <1>5 DEF Fresh, FrameHolds
<1>9. VectorHolds'
  <2>1. CASE run[w].stage = "embed"
    BY <2>1
  <2>2. CASE run[w].stage # "embed"
    BY <1>1, <1>5, <2>2 DEF Fresh, VectorHolds
  <2> QED BY <2>1, <2>2
<1>10. FacesHold'
  <2>1. CASE run[w].stage = "detect"
    BY <2>1
  <2>2. CASE run[w].stage # "detect"
    <3>1. faces' = faces \/ faces'.rows > 0
      OBVIOUS
    <3> QED BY <1>5, <2>2, <3>1 DEF Fresh, FacesHold
  <2> QED BY <2>1, <2>2
<1>11. ImageFresh' = ImageFresh
  BY <1>1 DEF ImageFresh
<1>12. ReadsFresh'
  <2>1. run'[w] = f /\ \A v \in Slots \ {w} : run'[v] = run[v]
    BY <1>1, Turn
  <2>2. ReadsFresh
    BY DEF Fresh
  <2> QED BY <1>1, <1>11, <2>1, <2>2 DEF ReadsFresh
<1>13. SamplesFresh'
  BY <1>1, <1>6 DEF Fresh, SamplesFresh, ThumbFresh
<1>14. FirstIsFresh' /\ WantedFresh'
  <2>1. FirstIsFresh /\ WantedFresh
    BY DEF Fresh
  <2>2. /\ frame'.vector = 0 => frame.vector = 0
        /\ faces'.rows = 0 => faces.rows = 0
    BY <1>1
  <2> QED BY <1>1, <1>3, <1>11, <2>1, <2>2 DEF FirstIsFresh, WantedFresh
<1> QED BY <1>7, <1>8, <1>9, <1>10, <1>12, <1>13, <1>14 DEF Fresh

(* embed_frames and detect_faces read the row: due, or nothing to do.      *)
LEMMA LoadFrameKeeps ==
    ASSUME Inv, NEW w \in Slots, LoadFrame(w)
    PROVE  Inv'
<1>1. /\ run[w].stage \in {"embed", "detect"} /\ run[w].step = "begun"
      /\ UNCHANGED <<kind, file, indexed, status, meta, thumb, jpeg, queued, jobs, used, disturbed>>
      /\ frame' = frame /\ faces' = faces /\ Elsewhere
  BY DEF LoadFrame, Apart, Aside, products, Elsewhere
<1>2. /\ run[w] \in Delivery /\ 0 \in Seen /\ 1 \in Seen /\ TypeOK /\ StepsFit
      /\ frame \in [id : RowIds \cup {0}, src : {"thumb", "jpeg"}, vector : Seen]
      /\ faces \in [rows : 0..2, of : Seen]
      /\ \A s \in Stages : queued[s] > 0 => queued'[s] > 0
  BY <1>1, PipelineAssumption DEF PipelineAssumption, Inv, Base, TypeOK, Seen
<1>3. CASE ToDo(run[w].stage)
  <2> DEFINE saw == IF frame.src = "thumb" THEN 1 ELSE 0
             f == [run[w] EXCEPT !.step = "loaded", !.row = frame.id, !.saw = saw]
  <2>1. run' = [run EXCEPT ![w] = f]
    BY <1>3 DEF LoadFrame
  <2>2. frame # NoFrame /\ frame.id \in RowIds /\ frame.id # 0
    BY <1>3, PipelineAssumption DEF ToDo, Inv, Base, FrameIsRow, PipelineAssumption
  <2>a. saw \in Seen /\ (saw = 1 <=> frame.src = "thumb")
    BY <1>2
  <2> HIDE DEF saw
  <2>3. /\ f \in Delivery /\ f.stage = run[w].stage /\ f.step = "loaded" /\ f.row = frame.id
        /\ f.saw = saw
    BY <1>1, <1>2, <2>2, <2>a DEF Delivery, Steps
  <2> HIDE DEF f
  <2>4. Becomes(w, f)
    BY <1>1, <2>1, <2>2, <2>3 DEF Becomes, Fits
  <2>5. PICK s \in {"embed", "detect"} : s = run[w].stage /\ OnFrame(s)'
    BY <1>1, <1>2, <2>3, <2>4, LeftAfter
  <2>6. Fresh => ImageFresh
    BY <1>1, <1>2, <1>3 DEF Fresh, WantedFresh, ToDo, TypeOK
  <2>7. /\ run[w].stage = "embed" => VectorHolds'
        /\ run[w].stage = "detect" => FacesHold'
    BY <2>5 DEF VectorHolds, FacesHold, ResultDue
  <2> QED BY <1>1, <1>2, <2>3, <2>a, <2>4, <2>6, <2>7, ResultKeeps
<1>4. CASE ~ ToDo(run[w].stage)
  <2>1. run' = [run EXCEPT ![w] = Idle]
    BY <1>4 DEF LoadFrame, Finish
  <2>2. Idle \in Delivery /\ Fits(Idle) /\ Idle.step = "idle"
    BY <1>2, PipelineAssumption DEF PipelineAssumption, Delivery, Idle, Steps, Fits, Stages
  <2>3. Becomes(w, Idle)
    BY <2>1, <2>2 DEF Becomes
  <2>4. SampleDue => SampleDue'
    BY <1>1, <1>2, <2>3, OthersDue
  <2>5. ASSUME Fresh
        PROVE  /\ run[w].stage = "embed" => VectorHolds'
               /\ run[w].stage = "detect" => FacesHold'
    <3>1. CASE frame = NoFrame
      BY <2>4, <2>5, <3>1 DEF Fresh, FrameHolds, VectorHolds, FacesHold, ResultDue
    <3>2. CASE frame # NoFrame
      BY <1>1, <1>2, <1>4, <3>2 DEF ToDo, VectorHolds, FacesHold
    <3> QED BY <3>1, <3>2
  <2> QED BY <1>1, <1>2, <2>2, <2>3, <2>5, ResultKeeps
<1> QED BY <1>3, <1>4

(* The model reads the image of the row.                                   *)
LEMMA ReadImageKeeps ==
    ASSUME Inv, NEW w \in Slots, ReadImage(w)
    PROVE  Inv'
<1> DEFINE saw == IF run[w].saw = 1 THEN thumb.file ELSE jpeg
           f == [run[w] EXCEPT !.step = "seen", !.saw = saw]
<1>1. /\ run[w].stage \in {"embed", "detect"} /\ run[w].step = "loaded"
      /\ run' = [run EXCEPT ![w] = f]
      /\ UNCHANGED <<kind, file, indexed, status, meta, thumb, jpeg, queued, jobs, used, disturbed>>
      /\ frame' = frame /\ faces' = faces /\ Elsewhere
  BY DEF ReadImage, Apart, Aside, products, Elsewhere
<1>2. /\ run[w] \in Delivery /\ Fits(run[w]) /\ TypeOK /\ StepsFit
      /\ frame \in [id : RowIds \cup {0}, src : {"thumb", "jpeg"}, vector : Seen]
      /\ faces \in [rows : 0..2, of : Seen] /\ saw \in Seen
      /\ \A s \in Stages : queued[s] > 0 => queued'[s] > 0
  BY <1>1 DEF Inv, Base, TypeOK, StepsFit
<1>3. /\ f \in Delivery /\ f.stage = run[w].stage /\ f.step = "seen" /\ f.row = run[w].row
      /\ f.saw = saw
  BY <1>1, <1>2 DEF Delivery, Steps
<1> HIDE DEF f
<1>4. Becomes(w, f)
  BY <1>1, <1>2, <1>3 DEF Becomes, Fits
<1>5. Fresh /\ run[w].row = frame.id => saw = file
  BY <1>1 DEF Fresh, ReadsFresh, ImageFresh
<1> HIDE DEF saw
<1>s. PICK s \in {"embed", "detect"} : s = run[w].stage
  BY <1>1
<1>6. ResultDue(s) => ResultDue(s)'
  <2>1. SampleDue => SampleDue'
    BY <1>1, <1>2, <1>4, OthersDue
  <2>2. Sending("sample") => Sending("sample")'
    BY <1>1, <1>2, <1>4, LeftAfter DEF Stages
  <2>3. Left(s) => Left(s)'
    BY <1>1, <1>2, <1>4, <1>s, LeftAfter DEF Stages, Ahead
  <2>4. OnFrame(s) => OnFrame(s)'
    <3>1. CASE run[w].row = frame.id
      BY <1>1, <1>2, <1>3, <1>4, <3>1, <1>s, LeftAfter
    <3>2. CASE run[w].row # frame.id
      BY <1>1, <1>2, <1>3, <1>4, <3>2, <1>s, LeftAfter DEF Stages
    <3> QED BY <3>1, <3>2
  <2> QED BY <2>1, <2>2, <2>3, <2>4 DEF ResultDue
<1>7. Fresh => /\ run[w].stage = "embed" => VectorHolds'
               /\ run[w].stage = "detect" => FacesHold'
  BY <1>1, <1>s, <1>6 DEF Fresh, VectorHolds, FacesHold
<1> QED BY <1>1, <1>2, <1>3, <1>4, <1>5, <1>7, ResultKeeps

(* An execution that found its row gone: it ends, or it is tried again.    *)
LEMMA RowGoneKeeps ==
    ASSUME Inv, NEW w \in Slots, run[w].stage \in {"embed", "detect"}, run[w].step = "seen",
           frame.id # run[w].row, (Finish(w) /\ UNCHANGED disturbed) \/ Retry(w),
           UNCHANGED <<kind, file, indexed, status, meta, products, queued, jobs, used>>, Elsewhere
    PROVE  Inv'
<1>1. /\ UNCHANGED <<kind, file, indexed, status, meta, thumb, jpeg, queued, jobs, used>>
      /\ frame' = frame /\ faces' = faces
  BY DEF products
<1>2. /\ 0 \in Seen /\ TypeOK /\ StepsFit /\ disturbed \in BOOLEAN
      /\ thumb \in [file : Seen, row : {"none", "ready", "failed"}]
      /\ frame \in [id : RowIds \cup {0}, src : {"thumb", "jpeg"}, vector : Seen]
      /\ faces \in [rows : 0..2, of : Seen] /\ queued' \in [Stages -> 0..MaxQueued]
      /\ jobs' \in [Counted -> 0..MaxAttempts] /\ used' \in 0..MaxIncidents
      /\ \A s \in Stages : queued[s] > 0 => queued'[s] > 0
  BY <1>1, PipelineAssumption DEF PipelineAssumption, Inv, Base, TypeOK, Seen
<1>s. PICK s \in {"embed", "detect"} : s = run[w].stage
  OBVIOUS
<1>3. CASE Finish(w) /\ UNCHANGED disturbed
  <2>1. Idle \in Delivery /\ Fits(Idle) /\ Idle.step = "idle"
    BY <1>2, PipelineAssumption DEF PipelineAssumption, Delivery, Idle, Steps, Fits, Stages
  <2>2. Becomes(w, Idle)
    BY <1>3, <2>1 DEF Becomes, Finish
  <2>3. ResultDue(s) => ResultDue(s)'
    <3>1. SampleDue => SampleDue'
      BY <1>1, <1>2, <2>2, OthersDue
    <3>2. /\ Sending("sample") => Sending("sample")'
          /\ Left(s) => Left(s)'
          /\ OnFrame(s) => OnFrame(s)'
      BY <1>1, <1>2, <1>s, <2>2, LeftAfter DEF Stages, Ahead
    <3> QED BY <3>1, <3>2 DEF ResultDue
  <2>4. Fresh => /\ run[w].stage = "embed" => VectorHolds'
                 /\ run[w].stage = "detect" => FacesHold'
    BY <1>1, <1>s, <2>3 DEF Fresh, VectorHolds, FacesHold
  <2> QED BY <1>1, <1>2, <1>3, <2>1, <2>2, <2>4, ResultKeeps
<1>4. CASE Retry(w)
  <2>1. PICK f : /\ Becomes(w, f)
                 /\ \/ f.stage = run[w].stage /\ f.step = "retry" /\ disturbed' = disturbed
                    \/ f = Idle /\ disturbed' = TRUE
    BY <1>4, RetryIs
  <2>2. CASE f.stage = run[w].stage /\ f.step = "retry" /\ disturbed' = disturbed
    BY <1>1, <1>2, <2>1, <2>2, AheadKeeps, AroundKept DEF Still, Ahead, Extracting, products
  <2>3. CASE f = Idle /\ disturbed' = TRUE
    BY <1>1, <1>2, <2>1, <2>3, GivenUpKeeps, AroundKept DEF Extracting
  <2> QED BY <2>1, <2>2, <2>3
<1> QED BY <1>3, <1>4

(* The commit of embed_frames.                                             *)
LEMMA StoreVectorKeeps ==
    ASSUME Inv, NEW w \in Slots, StoreVector(w)
    PROVE  Inv'
<1>1. /\ run[w].stage = "embed" /\ run[w].step = "seen"
      /\ UNCHANGED <<kind, file, indexed, status, meta, thumb, jpeg, queued, jobs, used>>
      /\ faces' = faces /\ Elsewhere
  BY DEF StoreVector, At, Apart, Aside, Elsewhere
<1>2. /\ run[w] \in Delivery /\ 0 \in Seen /\ TypeOK /\ StepsFit /\ Fits(run[w])
      /\ frame \in [id : RowIds \cup {0}, src : {"thumb", "jpeg"}, vector : Seen]
      /\ faces \in [rows : 0..2, of : Seen] /\ file # 0
  BY PipelineAssumption DEF PipelineAssumption, Inv, Base, TypeOK, StepsFit, Seen
<1>3. CASE frame.id # run[w].row
  <2>1. frame' = frame /\ ((Finish(w) /\ UNCHANGED disturbed) \/ Retry(w))
    BY <1>3 DEF StoreVector
  <2> QED BY <1>1, <1>3, <2>1, RowGoneKeeps DEF products
<1>4. CASE frame.id = run[w].row
  <2> DEFINE saw == run[w].saw
  <2>1. /\ run' = [run EXCEPT ![w] = Idle] /\ frame' = [frame EXCEPT !.vector = saw]
        /\ disturbed' = disturbed /\ saw \in Seen
    BY <1>2, <1>4 DEF StoreVector, Finish, Delivery
  <2>2. Idle \in Delivery /\ Fits(Idle) /\ Idle.step = "idle"
    BY <1>2, PipelineAssumption DEF PipelineAssumption, Delivery, Idle, Steps, Fits, Stages
  <2>3. Becomes(w, Idle)
    BY <2>1, <2>2 DEF Becomes
  <2>4. frame.id \in RowIds
    BY <1>1, <1>2, <1>4 DEF Fits
  <2>5. Fresh => saw = file
    BY <1>1, <1>4 DEF Fresh, ReadsFresh
  <2> HIDE DEF saw
  <2>6. /\ frame' \in [id : RowIds \cup {0}, src : {"thumb", "jpeg"}, vector : Seen]
        /\ frame'.id = frame.id /\ frame'.src = frame.src /\ frame'.vector = saw
    BY <1>2, <2>1
  <2>7. Fresh => VectorHolds'
    BY <1>2, <2>5, <2>6 DEF VectorHolds
  <2> QED BY <1>1, <1>2, <2>1, <2>2, <2>3, <2>4, <2>5, <2>6, <2>7, ResultKeeps
<1> QED BY <1>3, <1>4

(* The commit of detect_faces.                                             *)
LEMMA StoreFacesKeeps ==
    ASSUME Inv, NEW w \in Slots, StoreFaces(w)
    PROVE  Inv'
<1>1. /\ run[w].stage = "detect" /\ run[w].step = "seen"
      /\ UNCHANGED <<kind, file, indexed, status, meta, thumb, jpeg, queued, jobs, used>>
      /\ frame' = frame /\ Elsewhere
  BY DEF StoreFaces, At, Apart, Aside, Elsewhere
<1>2. /\ run[w] \in Delivery /\ 0 \in Seen /\ TypeOK /\ StepsFit /\ Fits(run[w])
      /\ frame \in [id : RowIds \cup {0}, src : {"thumb", "jpeg"}, vector : Seen]
      /\ faces \in [rows : 0..2, of : Seen]
  BY PipelineAssumption DEF PipelineAssumption, Inv, Base, TypeOK, StepsFit, Seen
<1>3. CASE frame.id # run[w].row
  <2>1. faces' = faces /\ Retry(w)
    BY <1>3 DEF StoreFaces
  <2> QED BY <1>1, <1>3, <2>1, RowGoneKeeps DEF products
<1>4. CASE frame.id = run[w].row
  <2> DEFINE saw == run[w].saw
             rows == Capped(faces.rows + 1, 2)
  <2>1. /\ run' = [run EXCEPT ![w] = Idle] /\ faces' = [rows |-> rows, of |-> saw]
        /\ disturbed' = disturbed /\ saw \in Seen
    BY <1>2, <1>4 DEF StoreFaces, Finish, Delivery
  <2>2. Idle \in Delivery /\ Fits(Idle) /\ Idle.step = "idle"
    BY <1>2, PipelineAssumption DEF PipelineAssumption, Delivery, Idle, Steps, Fits, Stages
  <2>3. Becomes(w, Idle)
    BY <2>1, <2>2 DEF Becomes
  <2>4. rows \in 0..2 /\ rows > 0
    BY <1>2 DEF Capped
  <2>5. Fresh => saw = file
    BY <1>1, <1>4 DEF Fresh, ReadsFresh
  <2> HIDE DEF saw, rows
  <2>6. faces' \in [rows : 0..2, of : Seen] /\ faces'.rows = rows /\ faces'.of = saw
    BY <2>1, <2>4
  <2>7. FacesHold'
    BY <2>4, <2>6 DEF FacesHold
  <2> QED BY <1>1, <1>2, <2>1, <2>2, <2>3, <2>4, <2>5, <2>6, <2>7, ResultKeeps
<1> QED BY <1>3, <1>4

(* The sends: what the stage owed is now waiting.                          *)
LEMMA ChainKeeps ==
    ASSUME Inv, NEW w \in Slots, Chain(w)
    PROVE  Inv'
<1>1. /\ run[w].step = "chain" /\ run' = [run EXCEPT ![w] = Idle]
      /\ kind' = kind /\ file' = file /\ indexed' = indexed /\ jobs' = jobs /\ used' = used
      /\ status' = status /\ meta' = meta /\ thumb' = thumb /\ jpeg' = jpeg
      /\ frame' = frame /\ faces' = faces /\ disturbed' = disturbed /\ Elsewhere
  BY DEF Chain, Finish, Apart, Aside, products, Elsewhere
<1>2. /\ TypeOK /\ StepsFit /\ run[w].stage \in {"extract", "visuals", "sample"}
      /\ "extract" \in Stages /\ "visuals" \in Stages /\ "sample" \in Stages
      /\ "embed" \in Stages /\ "detect" \in Stages
  BY <1>1 DEF Inv, Base, StepsFit, Fits, Stages
<1>3. Idle \in Delivery /\ Fits(Idle) /\ Idle.step = "idle"
  BY PipelineAssumption DEF PipelineAssumption, Delivery, Idle, Steps, Fits, Stages, Seen, Inv, Base, TypeOK
<1>4. Becomes(w, Idle)
  BY <1>1, <1>3 DEF Becomes
<1> DEFINE sent == NextStages(run[w].stage)
<1>5. /\ queued' \in [Stages -> 0..MaxQueued]
      /\ \A s \in Stages : queued'[s] > 0 <=> queued[s] > 0 \/ s \in sent
  BY <1>2, Sent DEF Chain
<1>6. Base'
  BY <1>1, <1>2, <1>4, <1>5, BaseKept, AroundKept DEF Inv, Base, TypeOK, Extracting
<1> SUFFICES ASSUME ~ disturbed, kind # "raw", Fresh PROVE Fresh'
  BY <1>1, <1>6 DEF Inv
<1>k. kind = "still" \/ kind = "clip"
  BY PipelineAssumption DEF PipelineAssumption, Inv, Base, TypeOK
<1>7. \A s \in Stages : /\ Left(s) => Left(s)'
                        /\ Sending(s) => Sending(s)' \/ run[w].stage = s
                        /\ Left(s)' => Left(s) \/ s \in sent
                        /\ Sending(s)' => Sending(s)
                        /\ OnFrame(s) => OnFrame(s)'
                        /\ s \in sent => Left(s)'
  <2>1. \A s \in Stages : queued[s] > 0 => queued'[s] > 0
    BY <1>5
  <2>2. \A s \in Stages : queued'[s] > 0 => Left(s) \/ s \in sent
    BY <1>5 DEF Left
  <2>3. \A s \in Stages : s \in sent => Left(s)'
    BY <1>5 DEF Left
  <2> QED BY <1>1, <1>2, <1>3, <1>4, <2>1, <2>2, <2>3, LeftAfter DEF Ahead
<1>8. /\ run[w].stage = "extract" => "visuals" \in sent /\ (kind = "clip" => "sample" \in sent)
      /\ run[w].stage = "visuals" /\ kind = "still" => "sample" \in sent
      /\ run[w].stage = "sample" => "embed" \in sent /\ "detect" \in sent
      /\ kind = "still" /\ "sample" \in sent => Sending("visuals")
  <2>1. run[w].stage = "visuals" => Sending("visuals")
    BY <1>1 DEF Sending, InHand
  <2> QED BY <1>2, <1>k, <2>1 DEF NextStages
<1> HIDE DEF sent
<1>9. ExtractDue => ExtractDue'
  BY <1>1, <1>2, <1>7 DEF ExtractDue
<1>10. VisualsDue => VisualsDue'
  BY <1>2, <1>7, <1>8, <1>9 DEF VisualsDue
<1>11. SampleDue => SampleDue'
  BY <1>1, <1>2, <1>k, <1>7, <1>8, <1>9 DEF SampleDue
<1>12. \A s \in {"embed", "detect"} : ResultDue(s) => ResultDue(s)'
  BY <1>2, <1>7, <1>8, <1>11 DEF ResultDue
<1>13. MetaHolds' /\ ThumbHolds' /\ FrameHolds' /\ VectorHolds' /\ FacesHold'
  BY <1>1, <1>9, <1>10, <1>11, <1>12
     DEF Fresh, MetaHolds, ThumbHolds, ThumbFresh, FrameHolds, VectorHolds, FacesHold
<1>14. ImageFresh' = ImageFresh /\ ThumbFresh' = ThumbFresh
  BY <1>1 DEF ImageFresh, ThumbFresh
<1>15. ReadsFresh'
  <2>1. run'[w] = Idle /\ \A v \in Slots \ {w} : run'[v] = run[v]
    BY <1>2, <1>4, Turn
  <2>2. ReadsFresh
    BY DEF Fresh
  <2> QED BY <1>1, <1>3, <1>14, <2>1, <2>2 DEF ReadsFresh
<1>16. SamplesFresh'
  BY <1>1, <1>2, <1>7, <1>8, <1>14 DEF Fresh, SamplesFresh
<1>17. FirstIsFresh' /\ WantedFresh'
  BY <1>1, <1>14 DEF Fresh, FirstIsFresh, WantedFresh
<1> QED BY <1>13, <1>15, <1>16, <1>17 DEF Fresh

(* A delivery taken: what waited of its stage is in hand.                  *)
LEMMA BeginKeeps ==
    ASSUME Inv, NEW stage \in Stages, Begin(stage)
    PROVE  Inv'
<1>1. PICK w \in Slots : run[w].step = "idle"
           /\ run' = [run EXCEPT ![w] = [Idle EXCEPT !.stage = stage, !.step = "begun"]]
  BY DEF Begin
<1> DEFINE f == [Idle EXCEPT !.stage = stage, !.step = "begun"]
<1>2. /\ kind' = kind /\ file' = file /\ indexed' = indexed /\ used' = used
      /\ status' = status /\ meta' = meta /\ thumb' = thumb /\ jpeg' = jpeg
      /\ frame' = frame /\ faces' = faces /\ disturbed' = disturbed
      /\ queued' = [queued EXCEPT ![stage] = @ - 1] /\ queued[stage] > 0 /\ Elsewhere
  BY DEF Begin, asset, products, Elsewhere
<1>3. /\ TypeOK /\ StepsFit /\ 0 \in Seen /\ MaxQueued \in Nat
      /\ "extract" \in Stages /\ "visuals" \in Stages /\ "sample" \in Stages
      /\ "embed" \in Stages /\ "detect" \in Stages
  BY PipelineAssumption DEF PipelineAssumption, Inv, Base, Stages, TypeOK, Seen
<1>4. jobs' \in [Counted -> 0..MaxAttempts]
  BY <1>3, Numbers DEF Begin
<1>5. /\ queued' \in [Stages -> 0..MaxQueued]
      /\ \A s \in Stages : queued[s] > 0 => queued'[s] > 0 \/ s = stage
      /\ \A s \in Stages : queued'[s] > 0 => queued[s] > 0
  <2>1. \A s \in Stages : queued'[s] = (IF s = stage THEN queued[s] - 1 ELSE queued[s])
                          /\ queued[s] \in 0..MaxQueued
    BY <1>2, <1>3 DEF TypeOK
  <2>2. \A s \in Stages : queued'[s] \in 0..MaxQueued
    BY <1>2, <1>3, <2>1
  <2>3. queued' = [s \in Stages |-> queued'[s]]
    BY <1>2, <1>3 DEF TypeOK
  <2> QED BY <1>2, <2>1, <2>2, <2>3
<1>6. f \in Delivery /\ f.stage = stage /\ f.step = "begun" /\ f.saw = 0
  <2>1. Idle \in Delivery /\ Idle.saw = 0
    BY <1>3, PipelineAssumption DEF PipelineAssumption, Delivery, Idle, Steps
  <2> QED BY <2>1 DEF Delivery, Steps
<1>7. run' = [run EXCEPT ![w] = f]
  BY <1>1
<1> HIDE DEF f
<1>8. Becomes(w, f)
  BY <1>6, <1>7 DEF Becomes, Fits
<1>9. Base'
  BY <1>1, <1>2, <1>3, <1>4, <1>5, <1>8, BaseKept, AroundKept DEF Inv, Base, TypeOK, Extracting
<1> SUFFICES ASSUME ~ disturbed, kind # "raw", Fresh PROVE Fresh'
  BY <1>2, <1>9 DEF Inv
<1>10. \A s \in Stages : /\ Left(s) => Left(s)'
                         /\ Sending(s) => Sending(s)'
                         /\ Left(s)' => Left(s)
                         /\ Sending(s)' => Sending(s)
                         /\ OnFrame(s) => OnFrame(s)'
  <2>1. \A s \in Stages : queued[s] > 0 => queued'[s] > 0 \/ (f.stage = s /\ f.step \in Ahead)
    BY <1>5, <1>6 DEF Ahead
  <2>2. \A s \in Stages : queued'[s] > 0 \/ s = stage => Left(s)
    BY <1>2, <1>5 DEF Left
  <2>3. run[w].step \notin Ahead /\ run[w].step # "chain" /\ run[w].step \notin {"loaded", "seen"}
    BY <1>1 DEF Ahead
  <2>4. frame'.id = frame.id /\ f.step # "chain"
    BY <1>2, <1>6
  <2> QED BY <1>3, <1>6, <1>8, <2>1, <2>2, <2>3, <2>4, LeftAfter
<1>11. (ExtractDue => ExtractDue') /\ (VisualsDue => VisualsDue') /\ (SampleDue => SampleDue')
  BY <1>2, <1>3, <1>10 DEF ExtractDue, VisualsDue, SampleDue
<1>12. \A s \in {"embed", "detect"} : ResultDue(s) => ResultDue(s)'
  BY <1>3, <1>10, <1>11 DEF ResultDue
<1>13. MetaHolds' /\ ThumbHolds' /\ FrameHolds' /\ VectorHolds' /\ FacesHold'
  BY <1>2, <1>11, <1>12
     DEF Fresh, MetaHolds, ThumbHolds, ThumbFresh, FrameHolds, VectorHolds, FacesHold
<1>14. ImageFresh' = ImageFresh /\ ThumbFresh' = ThumbFresh
  BY <1>2 DEF ImageFresh, ThumbFresh
<1>15. ReadsFresh'
  <2>1. run'[w] = f /\ \A v \in Slots \ {w} : run'[v] = run[v]
    BY <1>3, <1>8, Turn
  <2>2. ReadsFresh
    BY DEF Fresh
  <2> QED BY <1>2, <1>6, <1>14, <2>1, <2>2 DEF ReadsFresh
<1>16. SamplesFresh'
  BY <1>2, <1>3, <1>10, <1>14 DEF Fresh, SamplesFresh
<1>17. FirstIsFresh' /\ WantedFresh'
  BY <1>2, <1>14 DEF Fresh, FirstIsFresh, WantedFresh
<1> QED BY <1>13, <1>15, <1>16, <1>17 DEF Fresh

(* What happens beside the deliveries in hand: a send, a change of status. *)
LEMMA OutsideKeeps ==
    ASSUME Inv, run' = run, UNCHANGED <<kind, file, meta, products>>,
           indexed' \in 1..Versions,
           status' = status \/ status' = "pending",
           ExtractDue => ExtractDue',
           queued' \in [Stages -> 0..MaxQueued],
           \A s \in Stages : queued[s] > 0 => queued'[s] > 0,
           queued'["sample"] > 0 =>
               queued["sample"] > 0 \/ (thumb.row = "ready" /\ frame = NoFrame),
           jobs' \in [Counted -> 0..MaxAttempts], used' \in 0..MaxIncidents,
           disturbed' = disturbed,
           reach' \in {"here", "away", "down"}, online' \in BOOLEAN, abandoned' = abandoned
    PROVE  Inv'
<1>1. /\ kind' = kind /\ file' = file /\ meta' = meta /\ thumb' = thumb /\ jpeg' = jpeg
      /\ frame' = frame /\ faces' = faces /\ run' = run
  BY DEF products
<1>2. Base'
  <2>1. TypeOK'
    BY <1>1 DEF Inv, Base, TypeOK, Seen
  <2>2. StepsFit' /\ FrameIsRow' /\ ProcessingIsWorked'
    BY <1>1 DEF Inv, Base, StepsFit, FrameIsRow, ProcessingIsWorked
  <2> QED BY <2>1, <2>2 DEF Base
<1> SUFFICES ASSUME ~ disturbed, kind # "raw", Fresh PROVE Fresh'
  BY <1>1, <1>2 DEF Inv
<1>3. \A s \in Stages : /\ Left(s) => Left(s)'
                        /\ Left(s)' => Left(s) \/ queued'[s] > 0
  BY <1>1 DEF Left, InHand
<1>4. \A s : /\ Sending(s)' = Sending(s)
             /\ OnFrame(s)' = OnFrame(s)
  BY <1>1 DEF Sending, OnFrame, InHand
<1>5. "extract" \in Stages /\ "visuals" \in Stages /\ "sample" \in Stages
      /\ "embed" \in Stages /\ "detect" \in Stages
  BY DEF Stages
<1>6. (VisualsDue => VisualsDue') /\ (SampleDue => SampleDue')
  BY <1>1, <1>3, <1>4, <1>5 DEF VisualsDue, SampleDue
<1>7. \A s \in {"embed", "detect"} : ResultDue(s) => ResultDue(s)'
  BY <1>3, <1>4, <1>5, <1>6 DEF ResultDue
<1>8. status' = status \/ ExtractDue'
  BY DEF ExtractDue
<1>9. MetaHolds' /\ ThumbHolds' /\ FrameHolds' /\ VectorHolds' /\ FacesHold'
  BY <1>1, <1>6, <1>7, <1>8
     DEF Fresh, MetaHolds, ThumbHolds, ThumbFresh, FrameHolds, VectorHolds, FacesHold
<1>10. ImageFresh' = ImageFresh /\ ThumbFresh' = ThumbFresh
  BY <1>1 DEF ImageFresh, ThumbFresh
<1>11. ReadsFresh' /\ FirstIsFresh' /\ WantedFresh'
  BY <1>1, <1>10 DEF Fresh, ReadsFresh, FirstIsFresh, WantedFresh
<1>12. SamplesFresh'
  <2>1. CASE thumb.row = "ready" /\ frame = NoFrame
    <3>1. thumb.file = file /\ thumb \in [file : Seen, row : {"none", "ready", "failed"}]
      BY <2>1 DEF Fresh, FirstIsFresh, Inv, Base, TypeOK
    <3>2. ThumbFresh
      BY <2>1, <3>1 DEF ThumbFresh
    <3> QED BY <1>10, <3>2 DEF SamplesFresh
  <2>2. CASE ~ (thumb.row = "ready" /\ frame = NoFrame)
    <3>1. Left("sample")' => Left("sample")
      BY <1>3, <1>5, <2>2 DEF Left
    <3> QED BY <1>1, <1>4, <1>10, <3>1 DEF Fresh, SamplesFresh
  <2> QED BY <2>1, <2>2
<1> QED BY <1>9, <1>11, <1>12 DEF Fresh

(* The scanner notices, the sweeps and the administrator send.             *)
LEMMA OutsideActsKeep ==
    ASSUME Inv, Notice \/ SweepStuck \/ SweepVisuals \/ Reprocess
                \/ Vanish \/ Return \/ FlagGone \/ FindAgain
    PROVE  Inv'
<1>1. TypeOK /\ queued \in [Stages -> 0..MaxQueued] /\ jobs \in [Counted -> 0..MaxAttempts]
      /\ used \in 0..MaxIncidents /\ indexed \in 1..Versions /\ file \in 1..Versions
      /\ "sample" \in Stages
  BY DEF Inv, Base, TypeOK, Stages
<1>a. reach' \in {"here", "away", "down"} /\ online' \in BOOLEAN /\ abandoned' = abandoned
  BY DEF Inv, Base, TypeOK, Notice, SweepStuck, SweepVisuals, Reprocess, Vanish, Return, FlagGone,
         FindAgain, asset
<1>2. ASSUME NEW stages, Send(stages)
      PROVE  /\ queued' \in [Stages -> 0..MaxQueued]
             /\ \A s \in Stages : queued[s] > 0 => queued'[s] > 0
             /\ queued'["sample"] > 0 => queued["sample"] > 0 \/ "sample" \in stages
  BY <1>1, <1>2, Sent
<1>3. ASSUME run' = run, indexed' = indexed, file' = file, status' = status,
             \A s \in Stages : queued[s] > 0 => queued'[s] > 0
      PROVE  ExtractDue => ExtractDue'
  BY <1>3 DEF ExtractDue, Left, InHand, Stages
<1>4. CASE Notice
  <2>1. /\ run' = run /\ UNCHANGED <<kind, file, meta, products>> /\ jobs' = jobs
        /\ disturbed' = disturbed /\ indexed' = file /\ status' = "pending"
    BY <1>4 DEF Notice
  <2>2. ExtractDue'
    BY <2>1 DEF ExtractDue
  <2>3. CASE Send({"extract"}) /\ UNCHANGED used
    BY <1>1, <1>2, <2>1, <2>2, <2>3, <1>a, OutsideKeeps
  <2>4. CASE Incident /\ UNCHANGED queued
    <3>1. used' \in 0..MaxIncidents
      BY <1>1, <2>4, Numbers
    <3> QED BY <1>1, <2>1, <2>2, <2>4, <3>1, <1>a, OutsideKeeps
  <2> QED BY <1>4, <2>3, <2>4 DEF Notice
<1>5. CASE SweepStuck
  <2>1. /\ run' = run /\ UNCHANGED <<kind, file, meta, products>> /\ jobs' = jobs
        /\ disturbed' = disturbed /\ indexed' = indexed /\ status' = status /\ file' = file
        /\ Send({"extract"}) /\ Swept
    BY <1>5 DEF SweepStuck, asset
  <2>2. used' \in 0..MaxIncidents
    BY <1>1, <2>1, Numbers
  <2> QED BY <1>1, <1>2, <1>3, <2>1, <2>2, <1>a, OutsideKeeps
<1>6. CASE SweepVisuals
  <2>1. /\ run' = run /\ UNCHANGED <<kind, file, meta, products>> /\ jobs' = jobs
        /\ disturbed' = disturbed /\ indexed' = indexed /\ status' = status /\ file' = file
        /\ Swept
    BY <1>6 DEF SweepVisuals, asset
  <2>2. PICK due \in SUBSET Missing : Send(due)
    BY <1>6 DEF SweepVisuals
  <2>3. "sample" \in due => thumb.row = "ready" /\ frame = NoFrame
    BY <2>2 DEF Missing, Lacks
  <2>4. used' \in 0..MaxIncidents
    BY <1>1, <2>1, Numbers
  <2> QED BY <1>1, <1>2, <1>3, <2>1, <2>2, <2>3, <2>4, <1>a, OutsideKeeps
<1>7. CASE Reprocess
  <2>1. /\ run' = run /\ UNCHANGED <<kind, file, meta, products>> /\ jobs' = jobs
        /\ disturbed' = disturbed /\ indexed' = indexed /\ status' = status /\ file' = file
        /\ Send({"visuals"}) /\ Incident
    BY <1>7 DEF Reprocess, asset
  <2>2. used' \in 0..MaxIncidents
    BY <1>1, <2>1, Numbers
  <2> QED BY <1>1, <1>2, <1>3, <2>1, <2>2, <1>a, OutsideKeeps
<1>8. CASE Vanish \/ Return \/ FlagGone \/ FindAgain
  <2>1. /\ run' = run /\ UNCHANGED <<kind, file, meta, products>> /\ jobs' = jobs
        /\ disturbed' = disturbed /\ indexed' = indexed /\ status' = status /\ file' = file
        /\ queued' = queued
    BY <1>8 DEF Vanish, Return, FlagGone, FindAgain, broker
  <2>2. used' \in 0..MaxIncidents
    BY <1>1, <1>8, Numbers DEF Vanish, Return, FlagGone, FindAgain
  <2> QED BY <1>1, <1>3, <1>a, <2>1, <2>2, OutsideKeeps
<1> QED BY <1>4, <1>5, <1>6, <1>7, <1>8

(* Nothing left to do and nothing in hand: every "or it is still to come"  *)
(* of the invariant falls away.                                            *)
LEMMA QuietHolds ==
    ASSUME Inv
    PROVE  QuietIsFresh
<1> SUFFICES ASSUME Quiet, ~ disturbed, kind # "raw"
             PROVE  /\ status = "ready" /\ meta = file
                    /\ thumb = [file |-> file, row |-> "ready"]
                    /\ frame # NoFrame /\ frame.vector = file
                    /\ faces.rows > 0 /\ faces.of = file
  BY DEF QuietIsFresh
<1>1. Fresh
  BY DEF Inv
<1>2. \A s \in Stages : ~ Left(s) /\ ~ Sending(s) /\ ~ OnFrame(s)
  <2>1. \A s \in Stages : ~ queued[s] > 0
    BY DEF Quiet
  <2>2. \A w \in Slots : run[w].step = "idle"
    BY DEF Quiet
  <2> QED BY <2>1, <2>2 DEF Left, Sending, OnFrame, InHand, Ahead
<1>3. ~ ExtractDue /\ ~ VisualsDue /\ ~ SampleDue /\ ~ ResultDue("embed") /\ ~ ResultDue("detect")
  BY <1>2 DEF Quiet, ExtractDue, VisualsDue, SampleDue, ResultDue, Stages
<1>4. file # 0 /\ faces.rows \in 0..2
  BY PipelineAssumption DEF PipelineAssumption, Inv, Base, TypeOK
<1> QED BY <1>1, <1>3, <1>4
        DEF Fresh, MetaHolds, ThumbHolds, ThumbFresh, FrameHolds, VectorHolds, FacesHold

(* The file changes; with nothing under way an extraction is owed at once. *)
LEMMA RewriteKeeps ==
    ASSUME Inv, Rewrite
    PROVE  Inv'
<1>1. /\ kind' = kind /\ indexed' = indexed /\ status' = status /\ meta' = meta
      /\ thumb' = thumb /\ jpeg' = jpeg /\ frame' = frame /\ faces' = faces
      /\ queued' = queued /\ run' = run /\ jobs' = jobs /\ file' = file + 1 /\ file < Versions
      /\ reach' = reach /\ online' = online /\ abandoned' = abandoned
  BY DEF Rewrite, products, broker
<1>2. file \in Nat /\ file' \in 1..Versions /\ file' # file /\ Versions \in Nat
  BY <1>1, PipelineAssumption DEF PipelineAssumption, Inv, Base, TypeOK
<1>3. used' \in 0..MaxIncidents /\ disturbed' \in BOOLEAN
  BY Numbers DEF Rewrite, Inv, Base, TypeOK
<1>4. Base'
  <2>1. TypeOK'
    BY <1>1, <1>2, <1>3 DEF Inv, Base, TypeOK, Seen
  <2>2. StepsFit' /\ FrameIsRow' /\ ProcessingIsWorked'
    BY <1>1 DEF Inv, Base, StepsFit, FrameIsRow, ProcessingIsWorked
  <2> QED BY <2>1, <2>2 DEF Base
<1>5. CASE ~ Quiet
  BY <1>4, <1>5 DEF Rewrite, Inv
<1>6. CASE Quiet
  <2>1. disturbed' = disturbed
    BY <1>6 DEF Rewrite
  <2> SUFFICES ASSUME ~ disturbed, kind # "raw" PROVE Fresh'
    BY <1>1, <1>4, <2>1 DEF Inv
  <2>2. frame # NoFrame /\ frame.vector # 0 /\ faces.rows # 0
    <3>1. faces.rows \in 0..2
      BY DEF Inv, Base, TypeOK
    <3> QED BY <1>6, <3>1, QuietHolds, PipelineAssumption
            DEF QuietIsFresh, PipelineAssumption, Inv, Base, TypeOK
  <2>3. ExtractDue'
    BY <1>1, <1>2, <1>6 DEF Quiet, ExtractDue
  <2>4. MetaHolds' /\ ThumbHolds' /\ FrameHolds' /\ VectorHolds' /\ FacesHold'
    BY <2>3 DEF MetaHolds, ThumbHolds, FrameHolds, VectorHolds, FacesHold,
                VisualsDue, SampleDue, ResultDue
  <2>5. ReadsFresh' /\ SamplesFresh'
    <3>1. \A w \in Slots : run'[w].step = "idle"
      BY <1>1, <1>6 DEF Quiet
    <3>2. ~ queued'["sample"] > 0
      BY <1>1, <1>6 DEF Quiet, Stages
    <3> QED BY <3>1, <3>2 DEF ReadsFresh, SamplesFresh, Left, Sending, InHand, Ahead
  <2>6. FirstIsFresh' /\ WantedFresh'
    BY <1>1, <2>2 DEF FirstIsFresh, WantedFresh
  <2> QED BY <2>4, <2>5, <2>6 DEF Fresh
<1> QED BY <1>5, <1>6

-----------------------------------------------------------------------------
(* The invariant holds of a file just indexed.                             *)
LEMMA InvStarts ==
    ASSUME Init
    PROVE  Inv
<1>1. /\ 0 \in Seen /\ Versions \in Nat \ {0} /\ MaxQueued \in Nat \ {0} /\ MaxAttempts \in Nat
      /\ MaxIncidents \in Nat /\ Retries \in Nat
  BY PipelineAssumption DEF PipelineAssumption, Seen
<1>2. \A w \in Slots : run[w] = Idle
  BY DEF Init
<1>3. Idle \in Delivery /\ Fits(Idle) /\ Idle.step = "idle"
  BY <1>1 DEF Delivery, Idle, Steps, Fits, Stages
<1>4. TypeOK
  <2>1. run \in [Slots -> Delivery] /\ queued \in [Stages -> 0..MaxQueued]
    BY <1>1, <1>3 DEF Init
  <2>2. jobs \in [Counted -> 0..MaxAttempts] /\ used \in 0..MaxIncidents
    BY <1>1 DEF Init
  <2>3. /\ frame \in [id : RowIds \cup {0}, src : {"thumb", "jpeg"}, vector : Seen]
        /\ faces \in [rows : 0..2, of : Seen]
        /\ thumb \in [file : Seen, row : {"none", "ready", "failed"}]
    BY <1>1 DEF Init, NoFrame, NoFaces
  <2>4. /\ kind \in Kinds /\ file \in 1..Versions /\ indexed \in 1..Versions
        /\ status = "pending" /\ meta \in Seen /\ jpeg \in Seen
    BY <1>1 DEF Init
  <2>5. /\ disturbed \in BOOLEAN /\ online \in BOOLEAN /\ abandoned \in BOOLEAN
        /\ reach \in {"here", "away", "down"}
    BY DEF Init
  <2> QED BY <2>1, <2>2, <2>3, <2>4, <2>5 DEF TypeOK
<1>5. StepsFit /\ FrameIsRow /\ ProcessingIsWorked
  BY <1>2, <1>3 DEF Init, StepsFit, FrameIsRow, ProcessingIsWorked
<1>6. ExtractDue
  BY DEF Init, ExtractDue
<1>7. MetaHolds /\ ThumbHolds /\ FrameHolds /\ VectorHolds /\ FacesHold
  BY <1>6 DEF MetaHolds, ThumbHolds, FrameHolds, VectorHolds, FacesHold,
              VisualsDue, SampleDue, ResultDue
<1>8. ReadsFresh /\ SamplesFresh
  <2>1. ~ queued["sample"] > 0
    BY DEF Init, Stages
  <2> QED BY <1>2, <1>3, <2>1 DEF ReadsFresh, SamplesFresh, Left, Sending, InHand, Ahead
<1>9. FirstIsFresh /\ WantedFresh
  BY DEF Init, FirstIsFresh, WantedFresh
<1> QED BY <1>4, <1>5, <1>7, <1>8, <1>9 DEF Inv, Base, Fresh

(* Every step keeps the invariant.                                         *)
LEMMA InvKept ==
    ASSUME Inv, [Next]_vars
    PROVE  Inv'
<1>1. ASSUME NEW w \in Slots, Work(w), ~ Skip(w)
      PROVE  Inv'
  BY <1>1, AgainKeeps, EarlyKeeps, StoreFieldsKeeps, StoreThumbKeeps, PlanKeeps, TakeImageKeeps,
     StoreFramesKeeps, LoadFrameKeeps, ReadImageKeeps, StoreVectorKeeps, StoreFacesKeeps, ChainKeeps
     DEF Work
<1>2. ASSUME NEW w \in Slots,
             \/ ThumbFails(w) \/ LowDisk(w) \/ NoImage(w) \/ Unreadable(w)
             \/ Raise(w) \/ ChainRefused(w) \/ Die(w) \/ Skip(w)
      PROVE  Inv'
  BY <1>2, LostKeeps, RaiseKeeps, DieKeeps
<1>3. CASE UNCHANGED vars
  <2>1. /\ kind' = kind /\ indexed' = indexed /\ status' = status /\ meta' = meta /\ file' = file
        /\ thumb' = thumb /\ jpeg' = jpeg /\ frame' = frame /\ faces' = faces
        /\ queued' = queued /\ run' = run /\ jobs' = jobs /\ used' = used /\ disturbed' = disturbed
        /\ reach' = reach /\ online' = online /\ abandoned' = abandoned
    BY <1>3 DEF vars, asset, products, broker
  <2>2. ExtractDue' = ExtractDue
    BY <2>1 DEF ExtractDue, Left, InHand
  <2> QED BY <2>1, <2>2, OutsideKeeps DEF products, Inv, Base, TypeOK
<1> QED BY <1>1, <1>2, <1>3, OutsideActsKeep, RewriteKeeps, BeginKeeps DEF Next

(* The invariant holds throughout.                                         *)
LEMMA Invariance == Spec => []Inv
  BY InvStarts, InvKept, PTL DEF Spec

(* Every variable keeps its type.                                          *)
THEOREM Typed == Spec => []TypeOK
<1>1. Inv => TypeOK
  BY DEF Inv, Base
<1> QED BY <1>1, Invariance, PTL

(* An asset in "processing" has an extraction in hand, or killed and due to *)
(* be delivered again, whatever fails, is moved aside or goes down, and    *)
(* however many run (_with_asset) - unless an extraction brought back, its *)
(* "processing" committed, found no file and was skipped.                  *)
THEOREM NeverLeftProcessing == Spec => []ProcessingIsWorked
<1>1. Inv => ProcessingIsWorked
  BY DEF Inv, Base
<1> QED BY <1>1, Invariance, PTL

(* When nothing waits, runs or is owed, no stage was given up and no file  *)
(* changed under a task, every product of a still and of a clip is of the  *)
(* file as it is, whatever was retried, killed, sent twice or swept on the *)
(* way (the chain of sends, the deletes of _sample_frames, the two sweeps). *)
THEOREM FreshWhenQuiet == Spec => []QuietIsFresh
<1>1. Inv => QuietIsFresh
  BY QuietHolds
<1> QED BY <1>1, Invariance, PTL

=============================================================================
