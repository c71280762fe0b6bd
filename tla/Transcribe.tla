----------------------------- MODULE Transcribe -----------------------------
(***************************************************************************)
(* One clip on its way to a transcript: the message in the transcribe      *)
(* queue, the single worker slot, the job rows, and the four parties that  *)
(* queue it on clocks of their own - extraction, Celery's retries, the     *)
(* broker's redelivery and the scanner's sweep - with the reaper and the   *)
(* operator's switch.                                                      *)
(*                                                                         *)
(*   processing/tasks.py      _extract, _transcribe_preflight, _transcribe *)
(*                            _with_asset, transcribe_asset                *)
(*   scanner/__main__.py      _requeue_missing_transcripts,                *)
(*                            _reap_orphaned_jobs                          *)
(*   api/v1/assets.py         _transcript_state, reprocess_asset           *)
(*   celery_app.py            acks_late, reject_on_worker_lost, 12 h       *)
(*                                                                         *)
(* Time passes in ticks; what happens between two ticks happens in any     *)
(* order.  Worker deaths and failing runs are not bounded.                 *)
(***************************************************************************)
EXTENDS Naturals, Sequences, FiniteSets

CONSTANTS
    Retries,     \* TRANSCRIBE_RETRIES
    Attempts,    \* MAX_TRANSCRIBE_ATTEMPTS
    Orphan,      \* ORPHAN_JOB_AGE in ticks
    Redelivery,  \* visibility timeout and BROKER_REDELIVERY_AGE
    Window,      \* TRANSCRIBE_DEATH_WINDOW_S
    Messages,    \* bound: messages outstanding at once
    MaxIncidents \* bound: containers stopped, sends lost to the broker,
                 \* changes of the library's switch and reprocess requests

ASSUME TranscribeAssumption ==
    /\ Retries \in Nat /\ Attempts \in Nat \ {0} /\ Messages \in Nat \ {0}
    /\ Orphan \in Nat /\ Redelivery \in Nat /\ Window \in Nat
    /\ 0 < Orphan /\ Orphan < Redelivery /\ Redelivery <= Window
    /\ MaxIncidents \in Nat

MaxDeaths == Retries + 1              \* TRANSCRIBE_MAX_WORKER_DEATHS
GiveUp    == Attempts * (Retries + 1) \* failed rows at which the sweep stops

VARIABLES
    on,         \* library.transcribe_enabled
    stage,      \* of the extraction: pending, ready and about to send, done
    transcript, \* none, the old code's placeholder, or heard
    msg,        \* messages
    slot,       \* the run in the worker, or free
    workerUp,
    open,       \* rows left running or abandoned, oldest first
    failures,   \* failed rows, and abandoned ones out of the window; saturates
    succeeded,  \* a succeeded row exists
    last,       \* what the newest row says; if "open", it is open's last
    incidents   \* budget spent

broker == <<msg, slot, workerUp>>
rows   == <<open, failures, succeeded, last>>
vars   == <<on, stage, transcript, broker, rows, incidents>>

Places  == {"free", "queued", "held", "waiting", "lost"}
Message == [place : Places, retries : 0..Retries, age : 0..Redelivery]
Blank   == [place |-> "free", retries |-> 0, age |-> 0]
Row     == [status : {"running", "abandoned"}, age : 0..Window]
Steps   == {"delivered", "cleared", "begun", "heard", "raised", "concluded"}
Run     == [message : 1..Messages, step : Steps, on : BOOLEAN]
Free    == [message |-> 0, step |-> "free", on |-> FALSE]
Verdicts == {"none", "open", "succeeded", "failed", "skipped"}
Incident == incidents < MaxIncidents /\ incidents' = incidents + 1

TypeOK ==
    /\ on \in BOOLEAN /\ workerUp \in BOOLEAN /\ succeeded \in BOOLEAN
    /\ stage \in {"pending", "ready", "done"}
    /\ transcript \in {"none", "legacy", "heard"}
    /\ msg \in [1..Messages -> Message]
    /\ slot \in Run \cup {Free}
    /\ open \in Seq(Row)
    /\ failures \in 0..GiveUp
    /\ last \in Verdicts
    /\ incidents \in 0..MaxIncidents

(* A new file, or one the old code has listened to. *)
Init ==
    /\ on \in BOOLEAN
    /\ \/ stage = "pending" /\ transcript = "none" /\ succeeded = FALSE
          /\ last = "none"
       \/ stage = "done" /\ transcript = "legacy" /\ succeeded = TRUE
          /\ last = "succeeded"
    /\ msg = [m \in 1..Messages |-> Blank]
    /\ slot = Free /\ workerUp = TRUE
    /\ open = <<>> /\ failures = 0
    /\ incidents = 0

-----------------------------------------------------------------------------
(* Messages and rows *)

In(place)   == {m \in 1..Messages : msg[m].place = place}
Spare       == CHOOSE m \in In("free") : TRUE
Sent(place, retries) ==
    [msg EXCEPT ![Spare] = [place |-> place, retries |-> retries, age |-> 0]]

(* transcribe_asset.delay; when the bound leaves no room, it waits. *)
Delay == In("free") # {} /\ msg' = Sent("queued", 0) /\ UNCHANGED <<slot, workerUp>>

Freed(m)  == [msg EXCEPT ![m] = Blank]
Ack       == msg' = Freed(slot.message) /\ slot' = Free
Capped(n) == IF n > GiveUp THEN GiveUp ELSE n

(* Rows in the statuses given, younger than the age given. *)
Younger(statuses, age) ==
    {i \in 1..Len(open) : open[i].status \in statuses /\ open[i].age < age}
Unfinished == {"running", "abandoned"}

(* Preflight's own row, written and finished at once. *)
Verdict(says) ==
    /\ last' = says
    /\ failures' = IF says = "failed" THEN Capped(failures + 1) ELSE failures
    /\ UNCHANGED <<open, succeeded>>

-----------------------------------------------------------------------------
(* Extraction, the operator, the clock *)

(* _extract commits "ready" ... *)
ExtractReady ==
    /\ stage = "pending"
    /\ stage' = "ready"
    /\ UNCHANGED <<on, transcript, broker, rows, incidents>>

(* ... and then queues the clip if its library, as loaded, wants it; a     *)
(* broker that is not there is logged.                                     *)
ExtractQueues ==
    /\ stage = "ready"
    /\ stage' = "done"
    /\ IF on THEN Delay ELSE UNCHANGED broker
    /\ UNCHANGED <<on, transcript, rows, incidents>>

ExtractBlip ==
    /\ stage = "ready" /\ on
    /\ stage' = "done"
    /\ Incident
    /\ UNCHANGED <<on, transcript, broker, rows>>

Reprocess ==
    /\ stage = "done"
    /\ Delay
    /\ Incident
    /\ UNCHANGED <<on, stage, transcript, rows>>

Flip ==
    /\ on' = ~ on
    /\ Incident
    /\ UNCHANGED <<stage, transcript, broker, rows>>

(* What a live worker holds it is done with inside the visibility timeout, *)
(* which celery_app.py chose for that; and the scanner's five-minute pass   *)
(* is short against a tick, so that no row is left for it that was there    *)
(* to reap a tick ago.  The oldest rows leave the window: they are         *)
(* abandoned ones by then, and count as failures from now on.              *)
Tick ==
    /\ \A i \in 1..Len(open) : open[i].status = "running" => open[i].age <= Orphan
    /\ \A m \in In("held") \cup In("waiting") : msg[m].age + 1 < Redelivery
    /\ msg' = [m \in 1..Messages |->
                 IF msg[m].place \in {"held", "waiting", "lost"} /\ msg[m].age < Redelivery
                 THEN [msg[m] EXCEPT !.age = @ + 1] ELSE msg[m]]
    /\ \E gone \in 0..Len(open) :
         /\ \A i \in 1..Len(open) : open[i].age >= Window <=> i <= gone
         /\ open' = [i \in 1..(Len(open) - gone) |-> [open[i + gone] EXCEPT !.age = @ + 1]]
         /\ failures' = Capped(failures + gone)
    /\ UNCHANGED <<on, stage, transcript, slot, workerUp, succeeded, last, incidents>>

-----------------------------------------------------------------------------
(* The worker: transcribe_asset *)

Deliver(m) ==
    /\ workerUp /\ slot = Free /\ msg[m].place = "queued"
    /\ msg' = [msg EXCEPT ![m].place = "held", ![m].age = 0]
    /\ slot' = [message |-> m, step |-> "delivered", on |-> FALSE]
    /\ UNCHANGED <<on, stage, transcript, workerUp, rows, incidents>>

(* The countdown of a retry is over. *)
Resume(m) ==
    /\ workerUp /\ slot = Free /\ msg[m].place = "waiting"
    /\ msg' = [msg EXCEPT ![m].place = "held"]
    /\ slot' = [message |-> m, step |-> "delivered", on |-> FALSE]
    /\ UNCHANGED <<on, stage, transcript, workerUp, rows, incidents>>

To(step) == slot' = [slot EXCEPT !.step = step]
Clip     == UNCHANGED <<on, stage, incidents>>

(* Defect: a death the reaper has seen is no longer counted. *)
PreflightRunningOnly ==
    /\ slot.step = "delivered"
    /\ \/ /\ Cardinality(Younger({"running"}, Window + 1)) >= MaxDeaths
          /\ Verdict("failed") /\ Ack
       \/ /\ Cardinality(Younger({"running"}, Window + 1)) < MaxDeaths /\ ~ on
          /\ Verdict("skipped") /\ Ack
       \/ /\ Cardinality(Younger({"running"}, Window + 1)) < MaxDeaths /\ on
          /\ To("cleared") /\ UNCHANGED <<rows, msg>>
    /\ Clip /\ UNCHANGED <<transcript, workerUp>>

(* _transcribe_preflight: too many deaths on this file; switched off; go.  *)
Preflight ==
    LET deaths == Cardinality(Younger(Unfinished, Window + 1)) IN
    /\ slot.step = "delivered"
    /\ \/ /\ deaths >= MaxDeaths
          /\ Verdict("failed") /\ Ack
       \/ /\ deaths < MaxDeaths /\ ~ on
          /\ Verdict("skipped") /\ Ack
       \/ /\ deaths < MaxDeaths /\ on
          /\ To("cleared") /\ UNCHANGED <<rows, msg>>
    /\ Clip /\ UNCHANGED <<transcript, workerUp>>

(* _with_asset adds the row, and loads the library again. *)
Begin ==
    /\ slot.step = "cleared"
    /\ open' = Append(open, [status |-> "running", age |-> 0])
    /\ last' = "open"
    /\ slot' = [slot EXCEPT !.step = "begun", !.on = on]
    /\ Clip /\ UNCHANGED <<transcript, msg, workerUp, failures, succeeded>>

(* The run's row is the newest: its outcome replaces "running", or         *)
(* "abandoned" if the reaper was there first.                              *)
Finish(says) ==
    /\ open' = SubSeq(open, 1, Len(open) - 1)
    /\ last' = says
    /\ succeeded' = (succeeded \/ says = "succeeded")
    /\ failures' = IF says = "failed" THEN Capped(failures + 1) ELSE failures

(* _transcribe: the transcript replaces what was there, committed, ... *)
Hear ==
    /\ slot.step = "begun" /\ slot.on
    /\ transcript' = "heard"
    /\ To("heard")
    /\ Clip /\ UNCHANGED <<msg, workerUp, rows>>

(* ... or nothing is done, the switch being off by now; succeeded.  An     *)
(* original that is not there is skipped.                                  *)
Conclude ==
    /\ \/ slot.step = "heard" /\ Finish("succeeded")
       \/ slot.step = "begun" /\ ~ slot.on /\ Finish("succeeded")
    /\ To("concluded")
    /\ Clip /\ UNCHANGED <<transcript, msg, workerUp>>

(* Speech recognition, ffmpeg or a query raises. *)
Raise ==
    /\ slot.step = "begun" /\ slot.on
    /\ Finish("failed")
    /\ To("raised")
    /\ Clip /\ UNCHANGED <<transcript, msg, workerUp>>

(* autoretry_for: a new message with a countdown, then the acknowledgement *)
(* of the old one; without retries left, the acknowledgement.              *)
Retry ==
    /\ slot.step = "raised"
    /\ msg' = IF msg[slot.message].retries < Retries
              THEN [msg EXCEPT ![slot.message].place = "waiting",
                               ![slot.message].retries = @ + 1,
                               ![slot.message].age = 0]
              ELSE Freed(slot.message)
    /\ slot' = Free
    /\ Clip /\ UNCHANGED <<transcript, workerUp, rows>>

Acknowledge ==
    /\ slot.step = "concluded" /\ Ack
    /\ Clip /\ UNCHANGED <<transcript, workerUp, rows>>

(* The child is killed: the message goes straight back.  Listening to a    *)
(* file may kill it every time; at other moments it is an incident.        *)
ChildDies ==
    /\ slot # Free
    /\ IF slot.step = "begun" THEN UNCHANGED incidents ELSE Incident
    /\ msg' = [msg EXCEPT ![slot.message].place = "queued"]
    /\ slot' = Free
    /\ UNCHANGED <<on, stage, transcript, workerUp, rows>>

(* The container is stopped: what it holds is the broker's to redeliver. *)
StopWorker ==
    /\ workerUp
    /\ workerUp' = FALSE
    /\ msg' = [m \in 1..Messages |-> IF msg[m].place \in {"held", "waiting"}
                                     THEN [msg[m] EXCEPT !.place = "lost"] ELSE msg[m]]
    /\ slot' = Free
    /\ Incident
    /\ UNCHANGED <<on, stage, transcript, rows>>

StartWorker ==
    /\ ~ workerUp
    /\ workerUp' = TRUE
    /\ UNCHANGED <<on, stage, transcript, msg, slot, rows, incidents>>

(* The visibility timeout, noticed by a worker that polls. *)
Restore(m) ==
    /\ workerUp /\ msg[m].place = "lost" /\ msg[m].age >= Redelivery
    /\ msg' = [msg EXCEPT ![m].place = "queued", ![m].age = 0]
    /\ Clip /\ UNCHANGED <<transcript, slot, workerUp, rows>>

-----------------------------------------------------------------------------
(* The scanner's maintenance pass *)

(* _requeue_missing_transcripts' conditions on the clip. *)
Due ==
    /\ on /\ stage # "pending"
    /\ ~ succeeded \/ transcript = "legacy"
    /\ failures + Cardinality(Younger({"abandoned"}, Window + 1)) < GiveUp

(* Defects: an abandoned row holds nothing; a run that was skipped or      *)
(* failed is a turn like any other.                                        *)
SweepReaped ==
    /\ In("queued") = {} /\ Due
    /\ Younger({"running"}, Redelivery) = {}
    /\ Delay
    /\ UNCHANGED <<on, stage, transcript, rows, incidents>>
SweepNeverTried ==
    /\ In("queued") = {} /\ Due /\ last = "none"
    /\ Delay
    /\ UNCHANGED <<on, stage, transcript, rows, incidents>>

(* The queue is idle, and no row younger than the broker's copy is there.  *)
Sweep ==
    /\ In("queued") = {} /\ Due
    /\ Younger(Unfinished, Redelivery) = {}
    /\ Delay
    /\ UNCHANGED <<on, stage, transcript, rows, incidents>>

(* Defect: a status nobody knows. *)
ReapMisspelt ==
    /\ \E i \in 1..Len(open) : open[i].status = "running" /\ open[i].age >= Orphan
    /\ open' = [i \in 1..Len(open) |->
                  IF open[i].age >= Orphan THEN [open[i] EXCEPT !.status = "orphaned"]
                  ELSE open[i]]
    /\ UNCHANGED <<on, stage, transcript, broker, failures, succeeded, last, incidents>>

(* _reap_orphaned_jobs, a live run's row included. *)
Reap ==
    /\ \E i \in 1..Len(open) : open[i].status = "running" /\ open[i].age >= Orphan
    /\ open' = [i \in 1..Len(open) |->
                  IF open[i].age >= Orphan THEN [open[i] EXCEPT !.status = "abandoned"]
                  ELSE open[i]]
    /\ UNCHANGED <<on, stage, transcript, broker, failures, succeeded, last, incidents>>

-----------------------------------------------------------------------------
Extraction == ExtractReady \/ ExtractQueues
Work ==
    \/ Preflight \/ Begin \/ Conclude \/ Retry \/ Acknowledge
    \/ Hear \/ Raise
Broker   == \E m \in 1..Messages : Deliver(m) \/ Resume(m) \/ Restore(m)
Scanner  == Sweep \/ Reap
Operator == Reprocess \/ Flip
Trouble  == ExtractBlip \/ ChildDies \/ StopWorker

Next ==
    \/ Extraction \/ Operator \/ Tick \/ Work \/ Broker
    \/ Trouble \/ StartWorker \/ Scanner

Spec == Init /\ [][Next]_vars

(* The clock runs, a worker comes back, takes what is queued and goes on,  *)
(* the scanner makes its pass.  No run need end well: each may fail, and    *)
(* each may kill its worker.                                               *)
FairSpec ==
    /\ Spec
    /\ WF_vars(Extraction) /\ WF_vars(Tick) /\ WF_vars(StartWorker)
    /\ WF_vars(Work) /\ WF_vars(Broker) /\ WF_vars(Sweep) /\ WF_vars(Reap)

-----------------------------------------------------------------------------
(* Properties *)

(* _transcript_state: what the asset page says. *)
State ==
    CASE transcript = "heard" -> "heard"
      [] transcript # "heard" /\ ~ on -> "off"
      [] OTHER ->
           CASE last = "none" -> "queued"
             [] last = "open" -> IF Younger(Unfinished, Redelivery) # {} THEN "queued" ELSE "failed"
             [] last = "succeeded" ->
                  IF transcript = "legacy" THEN "queued" ELSE "no_speech"
             [] last = "failed" -> "failed"
             [] last = "skipped" -> "queued"

(* A file that kills the worker is not tried more than MaxDeaths times      *)
(* within the window, however its message came back and whether or not the *)
(* reaper has been at its rows.                                            *)
DeathsBounded == Cardinality(Younger(Unfinished, Window + 1)) <= MaxDeaths

(* "The clip being transcribed is not queued again" (docs/roadmap.md): not  *)
(* by the sweep, although a long run's row has been called abandoned.      *)
RunNotRequeued ==
    [][Sweep => slot.step \notin {"begun", "heard"}]_vars

(* No clip is forgotten: from some time on it has been heard, or its        *)
(* library does not want it, or it is given up - after lost sends, killed  *)
(* workers, failures and deaths without number.                            *)
GivenUp == failures + Cardinality(Younger({"abandoned"}, Window + 1)) >= GiveUp
Settles == <>[](transcript = "heard" \/ succeeded \/ ~ on \/ GivenUp)

(* "queued" on the page is no empty promise: something else follows.       *)
QueuedComes == (State = "queued") ~> (State # "queued")

(* Neither the clip nor what its page promises is forgotten. *)
NothingForgotten == Settles /\ QueuedComes

(* "Switching transcription back on brings the asset back here" (the        *)
(* sweep's docstring): a clip whose library wants it from some time on is  *)
(* heard, or given up.                                                     *)
BackOnIsHeard == <>[]on => <>(transcript = "heard" \/ GivenUp)

=============================================================================
