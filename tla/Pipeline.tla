------------------------------ MODULE Pipeline ------------------------------
(***************************************************************************)
(* One photograph or clip on its way through the stages, several of them   *)
(* at once, while its file is rewritten, moved aside or behind a share     *)
(* that is down, tasks fail, workers are killed, sends are refused and the *)
(* sweeps look for what fell between them.                                 *)
(*                                                                         *)
(*   processing/tasks.py        _with_asset and the stages                 *)
(*   processing/derivatives.py  the thumbnail                              *)
(*   scanner/__main__.py        the two sweeps                             *)
(*   scanner/scan.py            what makes an asset pending                *)
(*                                                                         *)
(* A version is what the file holds, 1 to Versions; 0 is no version at all.*)
(* A thumbnail, an image of a frame, a vector or a face has the version it *)
(* was made from.  The frames of one sampling stand and fall together, so  *)
(* there is one.  Rows are locked by what was deleted and not committed.   *)
(* It shows a face.  Previews, proxies and transcripts are left out: the   *)
(* library has no proxies.  Time is arbitrary: a sweep's hour may be over.  *)
(***************************************************************************)
EXTENDS Naturals, FiniteSets

CONSTANTS
    Kinds,       \* of "still", "clip" and "raw" (Blackmagic RAW), what may come
    Slots,       \* deliveries in hand at once (bound)
    Versions,    \* bound: contents the file ever has
    Retries,     \* a stage's retries (the code: 1 to 3)
    MaxAttempts, \* MAX_VISUAL_ATTEMPTS
    MaxQueued,   \* bound: deliveries of one stage waiting; more are like these
    RowIds,      \* identities of frame rows (bound: those in use at once)
    MaxIncidents \* bound: failures, deaths, refusals, early sweeps and the like

ASSUME PipelineAssumption ==
    /\ Kinds \subseteq {"still", "clip", "raw"}
    /\ Versions \in Nat \ {0} /\ Retries \in Nat /\ MaxAttempts \in Nat /\ MaxQueued \in Nat \ {0}
    /\ 0 \notin RowIds
    /\ \A held \in [Slots -> RowIds \cup {0}] : \E id \in RowIds : \A w \in Slots : held[w] # id
    /\ MaxIncidents \in Nat

VARIABLES
    kind,
    file,      \* version on disk
    indexed,   \* version the scanner has seen
    status,    \* processing_status
    meta,      \* version the technical fields are of
    thumb,     \* thumbnail: version in the file, status of the derivative row
    jpeg,      \* version of the image sampled out of a clip
    frame,     \* frame row: identity, where its image is, version of its vector
    faces,     \* face rows of the frame: how many, of which version
    queued,    \* deliveries waiting, by stage
    run,       \* deliveries in hand
    jobs,      \* job rows, by stage, up to MaxAttempts
    reach,     \* the file is here, was moved aside, or its share is down
    online,    \* availability: "online", or one of the others
    abandoned, \* history: an extraction was skipped and left "processing"
    used,      \* incidents so far
    disturbed  \* history: the file changed under a task, or a stage was given up

asset    == <<kind, file, indexed, status, meta, reach, online, abandoned>>
products == <<thumb, jpeg, frame, faces>>
broker   == <<queued, run, jobs>>
vars     == <<asset, products, broker, used, disturbed>>

Stages   == {"extract", "visuals", "sample", "embed", "detect"}
Counted  == {"visuals", "sample", "embed"}     \* stages the visual sweep repairs
Steps    == {"idle", "begun", "marked", "probed", "decoded", "deleting", "deleted",
             "sampled", "loaded", "seen", "chain", "retry", "again"}
Seen     == 0..Versions
NoFrame  == [id |-> 0, src |-> "thumb", vector |-> 0]
NoFaces  == [rows |-> 0, of |-> 0]
Idle     == [stage |-> "extract", step |-> "idle", tries |-> 0, saw |-> 0, row |-> 0]
Delivery == [stage : Stages, step : Steps, tries : 0..Retries, saw : Seen, row : RowIds \cup {0}]

TypeOK ==
    /\ kind \in Kinds
    /\ file \in 1..Versions /\ indexed \in 1..Versions
    /\ status \in {"pending", "processing", "ready", "metadata_failed"}
    /\ meta \in Seen /\ jpeg \in Seen
    /\ thumb \in [file : Seen, row : {"none", "ready", "failed"}]
    /\ frame \in [id : RowIds \cup {0}, src : {"thumb", "jpeg"}, vector : Seen]
    /\ faces \in [rows : 0..2, of : Seen]
    /\ queued \in [Stages -> 0..MaxQueued]
    /\ run \in [Slots -> Delivery]
    /\ jobs \in [Counted -> 0..MaxAttempts]
    /\ reach \in {"here", "away", "down"}
    /\ online \in BOOLEAN /\ abandoned \in BOOLEAN
    /\ used \in 0..MaxIncidents
    /\ disturbed \in BOOLEAN

(* A file just indexed, its extraction queued. *)
Init ==
    /\ kind \in Kinds
    /\ file = 1 /\ indexed = 1 /\ status = "pending" /\ meta = 0
    /\ thumb = [file |-> 0, row |-> "none"] /\ jpeg = 0
    /\ frame = NoFrame /\ faces = NoFaces
    /\ queued = [s \in Stages |-> IF s = "extract" THEN 1 ELSE 0]
    /\ run = [w \in Slots |-> Idle]
    /\ jobs = [s \in Counted |-> 0]
    /\ reach = "here" /\ online = TRUE /\ abandoned = FALSE
    /\ used = 0
    /\ disturbed = FALSE

Capped(n, bound) == IF n < bound THEN n ELSE bound
With(stages)     == [s \in Stages |-> Capped(queued[s] + (IF s \in stages THEN 1 ELSE 0), MaxQueued)]
Send(stages)     == queued' = With(stages)
Incident         == used < MaxIncidents /\ used' = used + 1
Here             == reach = "here"

(* Nothing waits, runs or is owed by the scanner. *)
Quiet ==
    /\ indexed = file /\ status # "pending"
    /\ \A s \in Stages : queued[s] = 0
    /\ \A w \in Slots : run[w].step = "idle"

-----------------------------------------------------------------------------
(* The file, the scanner, the administrator *)

(* While anything is under way this is an incident, and nothing is promised. *)
Rewrite ==
    /\ file < Versions
    /\ file' = file + 1
    /\ IF Quiet THEN UNCHANGED <<used, disturbed>> ELSE Incident /\ disturbed' = TRUE
    /\ UNCHANGED <<kind, indexed, status, meta, reach, online, abandoned, products, broker>>

(* Somebody moves the file aside, or the share goes down.                  *)
Vanish ==
    /\ Here
    /\ Incident
    /\ reach' \in {"away", "down"}
    /\ UNCHANGED <<kind, file, indexed, status, meta, online, abandoned, products, broker, disturbed>>

Return ==
    /\ ~ Here
    /\ reach' = "here"
    /\ UNCHANGED <<kind, file, indexed, status, meta, online, abandoned, products, broker, used, disturbed>>

(* A scan, or the watcher, finds the file or the whole share gone.         *)
FlagGone ==
    /\ ~ Here /\ online
    /\ online' = FALSE
    /\ UNCHANGED <<kind, file, indexed, status, meta, reach, abandoned, products, broker, used, disturbed>>

(* A scan finds it again, as it was; nothing is queued.                    *)
FindAgain ==
    /\ Here /\ ~ online /\ indexed = file
    /\ online' = TRUE
    /\ UNCHANGED <<kind, file, indexed, status, meta, reach, abandoned, products, broker, used, disturbed>>

(* _apply_change, the commit and the enqueue after it; a refused enqueue is *)
(* logged.                                                                 *)
Notice ==
    /\ Here /\ indexed # file
    /\ indexed' = file /\ status' = "pending" /\ online' = TRUE
    /\ \/ Send({"extract"}) /\ UNCHANGED used
       \/ Incident /\ UNCHANGED queued
    /\ UNCHANGED <<kind, file, meta, reach, abandoned, products, run, jobs, disturbed>>

(* A sweep that finds work in hand is an incident too: ten minutes or an    *)
(* hour of grace make it rare.                                             *)
Swept == IF \A w \in Slots : run[w].step = "idle" THEN UNCHANGED used ELSE Incident

(* _requeue_stuck_assets *)
SweepStuck ==
    /\ queued["extract"] = 0
    /\ status = "pending" /\ online
    /\ Send({"extract"})
    /\ Swept
    /\ UNCHANGED <<asset, products, run, jobs, disturbed>>

(* What the asset is without, of what the sweep looks for. *)
Lacks(s) ==
    CASE s = "visuals" -> thumb.row # "ready"
      [] s = "sample"  -> thumb.row = "ready" /\ frame = NoFrame
      [] s = "embed"   -> frame # NoFrame /\ frame.vector = 0

(* Defect: an asset with a thumbnail is taken to be complete. *)
MissingThumbOnly == {s \in {"visuals"} : jobs[s] < MaxAttempts /\ Lacks(s)}

(* The queries of _requeue_missing_visuals. *)
Missing == {s \in Counted : jobs[s] < MaxAttempts /\ Lacks(s)}

(* Those of them whose last job is not too recent. *)
SweepVisuals ==
    /\ \A s \in {"visuals", "sample", "embed", "detect"} : queued[s] = 0
    /\ status = "ready" /\ online /\ reach # "down"
    /\ \E due \in SUBSET Missing : due # {} /\ Send(due)
    /\ Swept
    /\ UNCHANGED <<asset, products, run, jobs, disturbed>>

(* reprocess_asset *)
Reprocess ==
    /\ Incident
    /\ Send({"visuals"})
    /\ UNCHANGED <<asset, products, run, jobs, disturbed>>

-----------------------------------------------------------------------------
(* A delivery: taken, retried, given up, lost with its worker *)

At(w, stage, step) == run[w].stage = stage /\ run[w].step = step
Step(w, step)      == run' = [run EXCEPT ![w].step = step]
Finish(w)          == run' = [run EXCEPT ![w] = Idle]
Aside              == UNCHANGED <<kind, file, indexed, reach, online, abandoned, jobs>>
Apart              == Aside /\ UNCHANGED used

(* The job row is committed before anything else; detect_faces has none. *)
Counts(s) == jobs' = [t \in Counted |-> IF t = s THEN Capped(jobs[t] + 1, MaxAttempts) ELSE jobs[t]]

Begin(s) ==
    /\ queued[s] > 0
    /\ \E w \in Slots : run[w].step = "idle"
    /\ LET w == CHOOSE w \in Slots : run[w].step = "idle"   \* one is like another
       IN  run' = [run EXCEPT ![w] = [Idle EXCEPT !.stage = s, !.step = "begun"]]
    /\ queued' = [queued EXCEPT ![s] = @ - 1]
    /\ Counts(s)
    /\ UNCHANGED <<asset, products, used, disturbed>>

(* A retry's countdown is over, or the broker delivers again. *)
Again(w) ==
    /\ run[w].step \in {"retry", "again"}
    /\ Step(w, "begun")
    /\ Counts(run[w].stage)
    /\ UNCHANGED <<asset, products, queued, used, disturbed>>

(* _with_asset finds no file: the task ends, and says so in its job row     *)
(* only.  A share that is down is no reason to call the file missing.  An   *)
(* extraction killed after Mark has left "processing", and leaves it now.   *)
(* detect_faces does not look.                                             *)
Skip(w) ==
    /\ run[w].step = "begun" /\ run[w].stage # "detect"
    /\ ~ Here
    /\ Finish(w) /\ disturbed' = TRUE
    /\ online' = (online /\ reach = "down")
    /\ abandoned' = (abandoned \/ (run[w].stage = "extract" /\ status = "processing"))
    /\ UNCHANGED <<kind, file, indexed, status, meta, reach, products, queued, jobs, used>>

(* An exception leaves the task: it is tried again until its retries are spent. *)
Retry(w) ==
    IF run[w].tries < Retries
    THEN /\ run' = [run EXCEPT ![w] = [Idle EXCEPT !.stage = run[w].stage, !.step = "retry",
                                                   !.tries = run[w].tries + 1]]
         /\ UNCHANGED disturbed
    ELSE Finish(w) /\ disturbed' = TRUE

Raises(w) == run[w].step \notin {"idle", "retry", "again", "chain"}

(* A step that reads the file after _with_asset saw it there.              *)
ReadsFile(w) ==
    \/ At(w, "extract", "marked") \/ At(w, "visuals", "begun")
    \/ At(w, "sample", "deleted") /\ kind = "clip"

(* A failure is an incident, unless it comes of the file being gone.       *)
Failure(w) == IF ReadsFile(w) /\ ~ Here THEN UNCHANGED used ELSE Incident

(* Defect: the asset is left in "processing". *)
RaiseSilently(w) ==
    /\ Raises(w)
    /\ Failure(w)
    /\ Retry(w)
    /\ UNCHANGED <<status, meta, products, queued>> /\ Aside

(* A failed extraction takes the asset out of "processing". *)
Raise(w) ==
    /\ Raises(w)
    /\ Failure(w)
    /\ Retry(w)
    /\ status' = IF run[w].stage = "extract" THEN "metadata_failed" ELSE status
    /\ UNCHANGED <<meta, products, queued>> /\ Aside

-----------------------------------------------------------------------------
(* The sends at the end of a stage *)

(* Defect: a still is sampled without waiting for its thumbnail. *)
NextAtOnce(stage) ==
    CASE stage = "extract" -> {"visuals", "sample"}
      [] stage = "sample"  -> {"embed", "detect"}
      [] OTHER             -> {}

NextStages(stage) ==
    CASE stage = "extract" -> IF kind = "still" THEN {"visuals"} ELSE {"visuals", "sample"}
      [] stage = "visuals" -> IF kind = "still" THEN {"sample"} ELSE {}
      [] stage = "sample"  -> {"embed", "detect"}

Chain(w) ==
    /\ run[w].step = "chain"
    /\ Send(NextStages(run[w].stage))
    /\ Finish(w)
    /\ UNCHANGED <<status, meta, products, disturbed>> /\ Apart

(* What is sent when the sends stop half way: they are made in this order. *)
PartlySent(w) ==
    {sent \in {{}, {"visuals"}, {"embed"}} :
        sent \subseteq NextStages(run[w].stage) /\ sent # NextStages(run[w].stage)}

(* The broker refuses a send: after an extraction that is logged, elsewhere *)
(* it is an exception like any other.                                       *)
ChainRefused(w) ==
    /\ run[w].step = "chain"
    /\ Incident
    /\ \E sent \in PartlySent(w) : Send(sent)
    /\ IF run[w].stage = "extract" THEN Finish(w) /\ disturbed' = TRUE ELSE Retry(w)
    /\ UNCHANGED <<asset, products, jobs>>

(* The session is gone, what was not committed with it, and with the power  *)
(* perhaps the share.                                                      *)
Die(w) ==
    /\ run[w].step \notin {"idle", "retry", "again"}
    /\ Incident
    /\ IF run[w].step = "chain" THEN \E sent \in PartlySent(w) : Send(sent) ELSE UNCHANGED queued
    /\ run' = [run EXCEPT ![w].step = "again", ![w].saw = 0, ![w].row = 0]
    /\ reach' \in {reach, "down"}
    /\ UNCHANGED <<kind, file, indexed, status, meta, online, abandoned, products, jobs, disturbed>>

-----------------------------------------------------------------------------
(* extract_metadata *)

Mark(w) ==
    /\ At(w, "extract", "begun") /\ Here
    /\ status' = "processing" /\ abandoned' = FALSE
    /\ Step(w, "marked")
    /\ UNCHANGED <<kind, file, indexed, meta, reach, online, products, queued, jobs, used, disturbed>>

Probe(w) ==
    /\ At(w, "extract", "marked") /\ Here
    /\ run' = [run EXCEPT ![w].step = "probed", ![w].saw = file]
    /\ UNCHANGED <<status, meta, products, queued, disturbed>> /\ Apart

StoreFields(w) ==
    /\ At(w, "extract", "probed")
    /\ meta' = run[w].saw /\ status' = "ready"
    /\ run' = [run EXCEPT ![w].step = "chain", ![w].saw = 0]
    /\ UNCHANGED <<products, queued, disturbed>> /\ Apart

-----------------------------------------------------------------------------
(* generate_derivatives: the thumbnail.  Its row is inserted before the file *)
(* is read and committed with the result; a second insert waits for the     *)
(* first, and may then fail (Raise).                                        *)

Decode(w) ==
    /\ At(w, "visuals", "begun") /\ Here
    /\ thumb.row # "none" \/ \A v \in Slots : ~ At(v, "visuals", "decoded")
    /\ run' = [run EXCEPT ![w].step = "decoded", ![w].saw = file]
    /\ UNCHANGED <<status, meta, products, queued, disturbed>> /\ Apart

(* Defect: the row is left "pending", as _upsert made it. *)
StoreThumbPending(w) ==
    /\ At(w, "visuals", "decoded")
    /\ thumb' = [file |-> run[w].saw, row |-> "pending"]
    /\ run' = [run EXCEPT ![w].step = "chain", ![w].saw = 0]
    /\ UNCHANGED <<status, meta, jpeg, frame, faces, queued, disturbed>> /\ Apart

StoreThumb(w) ==
    /\ At(w, "visuals", "decoded")
    /\ thumb' = [file |-> run[w].saw, row |-> "ready"]
    /\ run' = [run EXCEPT ![w].step = "chain", ![w].saw = 0]
    /\ UNCHANGED <<status, meta, jpeg, frame, faces, queued, disturbed>> /\ Apart

(* ThumbnailError, FfmpegError: the row says so - of a clip it is the       *)
(* poster's, and the thumbnail's stays - and the chain goes on.            *)
ThumbFails(w) ==
    /\ At(w, "visuals", "decoded") \/ (At(w, "visuals", "begun") /\ ~ Here)
    /\ Failure(w)
    /\ \/ thumb' = [thumb EXCEPT !.row = "failed"]
       \/ kind # "still" /\ UNCHANGED thumb
    /\ run' = [run EXCEPT ![w].step = "chain", ![w].saw = 0]
    /\ disturbed' = TRUE
    /\ UNCHANGED <<status, meta, jpeg, frame, faces, queued>> /\ Aside

(* OutOfSpace: no retry. *)
LowDisk(w) ==
    /\ At(w, "visuals", "begun") /\ Here
    /\ Incident
    /\ Finish(w) /\ disturbed' = TRUE
    /\ UNCHANGED <<status, meta, products, queued>> /\ Aside

-----------------------------------------------------------------------------
(* sample_frames *)

Locked(row, w) ==
    /\ row # 0
    /\ \E v \in Slots \ {w} :
         run[v].stage = "sample" /\ run[v].step \in {"deleted", "sampled"} /\ run[v].row = row

(* The rows the DELETE finds; without a thumbnail a still has no plan. *)
PlanSamples(w) ==
    /\ At(w, "sample", "begun") /\ Here
    /\ IF kind # "clip" /\ thumb.file = 0
       THEN Finish(w)
       ELSE run' = [run EXCEPT ![w].step = "deleting", ![w].row = frame.id]
    /\ UNCHANGED <<status, meta, products, queued, disturbed>> /\ Apart

(* The DELETE waits for another's, and finds what that one left of its rows. *)
DeleteFrames(w) ==
    /\ At(w, "sample", "deleting")
    /\ ~ Locked(run[w].row, w)
    /\ run' = [run EXCEPT ![w].step = "deleted",
                          ![w].row = IF @ = frame.id THEN @ ELSE 0]
    /\ UNCHANGED <<status, meta, products, queued, disturbed>> /\ Apart

(* The image: of a clip, decoded onto the path every sampling uses. *)
TakeImage(w) ==
    /\ At(w, "sample", "deleted")
    /\ kind = "clip" => Here
    /\ IF kind = "clip"
       THEN jpeg' = file /\ run' = [run EXCEPT ![w].step = "sampled", ![w].saw = file]
       ELSE UNCHANGED jpeg /\ Step(w, "sampled")
    /\ UNCHANGED <<status, meta, thumb, frame, faces, queued, disturbed>> /\ Apart

(* Nothing of the clip can be decoded. *)
NoImage(w) ==
    /\ At(w, "sample", "deleted") /\ kind = "clip"
    /\ Failure(w)
    /\ Step(w, "sampled") /\ disturbed' = TRUE
    /\ UNCHANGED <<status, meta, products, queued>> /\ Aside

FreshRow(w) ==
    CHOOSE id \in RowIds : id # frame.id /\ \A v \in Slots \ {w} : run[v].row # id

(* The commit.  A frame it did not delete is at the same ts_ms, which is    *)
(* unique.  The faces of a deleted frame go with it.                        *)
StoreFrames(w) ==
    /\ At(w, "sample", "sampled")
    /\ IF frame.id # run[w].row
       THEN Retry(w) /\ UNCHANGED <<frame, faces>>
       ELSE /\ faces' = NoFaces
            /\ UNCHANGED disturbed
            /\ IF run[w].saw = 0 /\ thumb.file = 0
               THEN frame' = NoFrame /\ Finish(w)
               ELSE /\ frame' = [id |-> FreshRow(w), vector |-> 0,
                                 src |-> IF run[w].saw = 0 THEN "thumb" ELSE "jpeg"]
                    /\ run' = [run EXCEPT ![w].step = "chain", ![w].saw = 0, ![w].row = 0]
    /\ UNCHANGED <<status, meta, thumb, jpeg, queued>> /\ Apart

-----------------------------------------------------------------------------
(* embed_frames and detect_faces *)

(* Frames without a vector; frames of an asset without a face. *)
ToDo(stage) == frame # NoFrame /\ IF stage = "embed" THEN frame.vector = 0 ELSE faces.rows = 0

(* The row is read, and with it where its image is: 1 for the thumbnail. *)
LoadFrame(w) ==
    /\ run[w].stage \in {"embed", "detect"} /\ run[w].step = "begun"
    /\ run[w].stage = "embed" => Here
    /\ IF ToDo(run[w].stage)
       THEN run' = [run EXCEPT ![w].step = "loaded", ![w].row = frame.id,
                               ![w].saw = IF frame.src = "thumb" THEN 1 ELSE 0]
       ELSE Finish(w)
    /\ UNCHANGED <<status, meta, products, queued, disturbed>> /\ Apart

(* The model reads the image the row named. *)
ReadImage(w) ==
    /\ run[w].stage \in {"embed", "detect"} /\ run[w].step = "loaded"
    /\ run' = [run EXCEPT ![w].step = "seen", ![w].saw = IF @ = 1 THEN thumb.file ELSE jpeg]
    /\ UNCHANGED <<status, meta, products, queued, disturbed>> /\ Apart

(* It cannot: the task ends well, without a result. *)
Unreadable(w) ==
    /\ run[w].stage \in {"embed", "detect"} /\ run[w].step = "loaded"
    /\ Incident
    /\ Finish(w) /\ disturbed' = TRUE
    /\ UNCHANGED <<status, meta, products, queued>> /\ Aside

(* The UPDATE of a row no longer there is an error or nothing at all, as    *)
(* the driver counts rows.                                                 *)
StoreVector(w) ==
    /\ At(w, "embed", "seen")
    /\ ~ Locked(run[w].row, w)
    /\ IF frame.id = run[w].row
       THEN frame' = [frame EXCEPT !.vector = run[w].saw] /\ Finish(w) /\ UNCHANGED disturbed
       ELSE UNCHANGED frame /\ \/ Finish(w) /\ UNCHANGED disturbed
                               \/ Retry(w)
    /\ UNCHANGED <<status, meta, thumb, jpeg, faces, queued>> /\ Apart

(* A face refers to its frame, which must be there. *)
StoreFaces(w) ==
    /\ At(w, "detect", "seen")
    /\ ~ Locked(run[w].row, w)
    /\ IF frame.id = run[w].row
       THEN /\ faces' = [rows |-> Capped(faces.rows + 1, 2), of |-> run[w].saw]
            /\ Finish(w) /\ UNCHANGED disturbed
       ELSE Retry(w) /\ UNCHANGED faces
    /\ UNCHANGED <<status, meta, thumb, jpeg, frame, queued>> /\ Apart

-----------------------------------------------------------------------------
Work(w) ==
    \/ Mark(w) \/ Probe(w) \/ StoreFields(w)
    \/ Decode(w) \/ StoreThumb(w)
    \/ PlanSamples(w) \/ DeleteFrames(w) \/ TakeImage(w) \/ StoreFrames(w)
    \/ LoadFrame(w) \/ ReadImage(w) \/ StoreVector(w) \/ StoreFaces(w)
    \/ Chain(w) \/ Again(w) \/ Skip(w)

Next ==
    \/ Rewrite \/ Vanish \/ Return \/ FlagGone \/ FindAgain
    \/ Notice \/ SweepStuck \/ SweepVisuals \/ Reprocess
    \/ \E s \in Stages : Begin(s)
    \/ \E w \in Slots :
         \/ Work(w)
         \/ ThumbFails(w) \/ LowDisk(w) \/ NoImage(w) \/ Unreadable(w)
         \/ Raise(w) \/ ChainRefused(w) \/ Die(w)

Spec == Init /\ [][Next]_vars

(* Celery starts what waits and ends what it starts; the scanner's loop,   *)
(* its scans and its sweeps come round.  Nothing brings a file back.       *)
FairSpec ==
    /\ Spec
    /\ WF_vars(Notice \/ FindAgain) /\ WF_vars(SweepStuck \/ SweepVisuals)
    /\ SF_vars(\E s \in Stages : Begin(s))
    /\ \A w \in Slots : WF_vars(Work(w))

-----------------------------------------------------------------------------
(* "processing" means that somebody is at it, or was killed at it and the   *)
(* broker brings it back: an asset is never left there by an extraction     *)
(* that failed, not while it waits for its retry either, nor by one that    *)
(* met another (tasks.py, _with_asset: "died and nobody noticed").  The one *)
(* exception is an extraction brought back to find no file: it is skipped.  *)
ProcessingIsWorked ==
    status = "processing" /\ ~ abandoned =>
        \E w \in Slots : run[w].stage = "extract" /\ run[w].step \in {"again", "begun", "marked", "probed"}

(* When the pipeline has nothing left to do, and nothing was given up on    *)
(* the way and no file changed under a task, every product of a still and   *)
(* of a clip was made from the file as it is: the thumbnail, the frame, its *)
(* vector and its faces (the order _extract and _visuals send in, the       *)
(* deletes of _sample_frames, the checks of embed and detect).              *)
QuietIsFresh ==
    Quiet /\ ~ disturbed /\ kind # "raw" =>
        /\ status = "ready" /\ meta = file
        /\ thumb = [file |-> file, row |-> "ready"]
        /\ frame # NoFrame /\ frame.vector = file
        /\ faces.rows > 0 /\ faces.of = file

(* The work comes to an end once the file stays where it is, and what is    *)
(* then missing of the thumbnail, the frame and the vector was tried as     *)
(* often as the sweep tries (_requeue_stuck_assets,                         *)
(* _requeue_missing_visuals); but no sweep looks for "processing".          *)
Settled ==
    /\ Quiet /\ online
    /\ status \in {"ready", "metadata_failed"} \/ (status = "processing" /\ abandoned)
    /\ status = "ready" => \A s \in Counted : Lacks(s) => jobs[s] = MaxAttempts
Settles == <>[](Here => Settled)

=============================================================================
