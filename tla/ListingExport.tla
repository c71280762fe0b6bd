--------------------------- MODULE ListingExport ---------------------------
(***************************************************************************)
(* One listing's zip: edited, exported, downloaded and deleted by several  *)
(* clients at once while a worker reads the listing and writes the file.   *)
(*                                                                         *)
(*   api/v1/listings.py     export, download, delete, and what edits       *)
(*   processing/tasks.py    export_listing_zip                             *)
(*   media/export_state.py  listing_fingerprint                            *)
(*                                                                         *)
(* A listing is two numbers.  Each rename (or new suffix or notes) gives   *)
(* the header the next one, each edit (order, room, name, recipe, removal, *)
(* item added or removed) gives the items the next one, and an undo takes  *)
(* the items back to one they were.  A fingerprint is the pair: the digest *)
(* is taken to be injective.  Delivery is at least once.                   *)
(***************************************************************************)
EXTENDS Naturals, FiniteSets

CONSTANTS
    Clients,    \* requests in flight
    Exporters,  \* of these, the ones that ask for an export
    Runs,       \* executions of the task (bound)
    MaxRenames, MaxEdits, MaxUndos, \* bounds on what operators do
    Empty,      \* the numbers that stand for items without a photograph
    MaxExports, \* bound: exports asked for
    MaxOutages, \* bound: sends the broker refuses
    MaxDeaths,  \* bound: workers killed
    MaxErrors,  \* bound: exceptions before the zip is opened
    NoPrint

ASSUME ListingExportAssumption ==
    /\ Exporters \subseteq Clients
    /\ MaxRenames \in Nat /\ MaxEdits \in Nat /\ MaxUndos \in Nat
    /\ MaxExports \in Nat /\ MaxOutages \in Nat /\ MaxDeaths \in Nat /\ MaxErrors \in Nat
    /\ Empty \subseteq 0..MaxEdits
    /\ NoPrint \notin [header : 0..MaxRenames, items : 0..MaxEdits]

VARIABLES
    exists,   \* the row is there
    header, items,
    latest,   \* the last number given to the items
    status,   \* export_status
    relpath,  \* export_relpath is set
    print,    \* export_fingerprint
    file,     \* runs whose bytes are in the file at zip_path; {}: no file
    run,      \* executions
    messages, \* deliveries waiting in the media queue
    client,   \* requests
    used,     \* budgets spent
    overlap   \* history: two executions or deliveries at once, ever

row     == <<exists, header, items, latest>>
export  == <<status, relpath, print>>
queue   == <<messages, overlap>>
vars    == <<row, export, file, run, queue, client, used>>

Statuses == {"none", "queued", "exporting", "ready", "failed"}
Prints   == [header : 0..MaxRenames, items : 0..MaxEdits]
Now      == [header |-> header, items |-> items]      \* listing_fingerprint

(* step, then what the session holds: the status and fingerprint loaded,   *)
(* the header loaded with them, the digest, the items read after it.       *)
RunSteps == {"new", "loaded", "marked", "printed", "read", "writing",
             "written", "failing", "published", "ended", "dead"}
Execution == [step : RunSteps, status : Statuses, was : Prints \cup {NoPrint},
              header : 0..MaxRenames, print : Prints \cup {NoPrint}, items : 0..MaxEdits]
Running(r) == run[r].step \notin {"new", "ended", "dead"}

RequestSteps == {"idle", "checked", "queued", "refused", "ready", "fresh"}
Request == [step : RequestSteps, print : Prints \cup {NoPrint}]
Idle    == [step |-> "idle", print |-> NoPrint]

Budgets == {"renames", "undos", "exports", "outages", "deaths", "errors"}
Max == [b \in Budgets |->
          CASE b = "renames" -> MaxRenames [] b = "undos"   -> MaxUndos
            [] b = "exports" -> MaxExports [] b = "outages" -> MaxOutages
            [] b = "deaths"  -> MaxDeaths  [] b = "errors"  -> MaxErrors]
Spend(b) == used[b] < Max[b] /\ used' = [used EXCEPT ![b] = @ + 1]

TypeOK ==
    /\ exists \in BOOLEAN /\ relpath \in BOOLEAN
    /\ header \in 0..MaxRenames
    /\ items \in 0..MaxEdits /\ latest \in 0..MaxEdits
    /\ status \in Statuses
    /\ print \in Prints \cup {NoPrint}
    /\ file \subseteq Runs
    /\ run \in [Runs -> Execution]
    /\ messages \in Nat
    /\ client \in [Clients -> Request]
    /\ used \in [Budgets -> Nat] /\ \A b \in Budgets : used[b] <= Max[b]
    /\ overlap \in BOOLEAN

Init ==
    /\ exists = TRUE /\ relpath = FALSE
    /\ header = 0 /\ items = 0 /\ latest = 0
    /\ status = "none" /\ print = NoPrint
    /\ file = {}
    /\ run = [r \in Runs |-> [step |-> "new", status |-> "none", was |-> NoPrint,
                              header |-> 0, print |-> NoPrint, items |-> 0]]
    /\ messages = 0
    /\ client = [c \in Clients |-> Idle]
    /\ used = [b \in Budgets |-> 0]
    /\ overlap = FALSE

-----------------------------------------------------------------------------
(* What operators do to the listing *)

(* update_listing *)
Rename ==
    /\ exists /\ header < MaxRenames
    /\ header' = header + 1
    /\ Spend("renames")
    /\ UNCHANGED <<exists, items, latest, export, file, run, queue, client>>

(* add_items, remove_item, set_room, set_naming, reorder, arrange, classify, *)
(* a new recipe, a removal: the items are what they never were before.      *)
Edit ==
    /\ exists /\ latest < MaxEdits
    /\ latest' = latest + 1
    /\ items' = latest'
    /\ UNCHANGED <<exists, header, export, file, run, queue, client, used>>

(* ... or are again what they were: dragged back, reverted, undone. *)
Undo ==
    /\ exists
    /\ \E n \in 0..latest : n # items /\ items' = n
    /\ Spend("undos")
    /\ UNCHANGED <<exists, header, latest, export, file, run, queue, client>>

(* delete_listing *)
Delete ==
    /\ exists
    /\ exists' = FALSE
    /\ file' = IF relpath THEN {} ELSE file
    /\ UNCHANGED <<header, items, latest, export, run, queue, client, used>>

-----------------------------------------------------------------------------
(* export_listing *)

To(c, step) == client' = [client EXCEPT ![c] = [@ EXCEPT !.step = step]]
Done(c)     == client' = [client EXCEPT ![c] = Idle]

(* The row is loaded; refused without photographs (400) and while an export *)
(* is queued or running (409).                                             *)
Check(c) ==
    /\ client[c] = Idle /\ exists
    /\ items \notin Empty
    /\ status \notin {"queued", "exporting"}
    /\ To(c, "checked")
    /\ Spend("exports")
    /\ UNCHANGED <<row, export, file, run, queue>>

(* export_status = "queued", committed; a row deleted since is an error. *)
Queue(c) ==
    /\ client[c].step = "checked"
    /\ IF exists THEN status' = "queued" /\ To(c, "queued")
       ELSE Done(c) /\ UNCHANGED status
    /\ UNCHANGED <<row, relpath, print, file, run, queue, used>>

Send(c) ==
    /\ client[c].step = "queued"
    /\ messages' = messages + 1
    /\ overlap' = (overlap \/ messages > 0 \/ \E r \in Runs : Running(r))
    /\ Done(c)
    /\ UNCHANGED <<row, export, file, run, used>>

BrokerDown(c) ==
    /\ client[c].step = "queued"
    /\ To(c, "refused")
    /\ Spend("outages")
    /\ UNCHANGED <<row, export, file, run, queue>>

Refuse(c) ==
    /\ client[c].step = "refused"
    /\ status' = IF exists THEN "failed" ELSE status
    /\ Done(c)
    /\ UNCHANGED <<row, relpath, print, file, run, queue, used>>

-----------------------------------------------------------------------------
(* download_export *)

(* A ready export that has a fingerprint. *)
AskZip(c) ==
    /\ client[c] = Idle /\ exists
    /\ status = "ready" /\ relpath /\ print # NoPrint
    /\ client' = [client EXCEPT ![c] = [step |-> "ready", print |-> print]]
    /\ UNCHANGED <<row, export, file, run, queue, used>>

(* _export_stale: the fingerprint loaded above against the listing now. *)
CheckFresh(c) ==
    /\ client[c].step = "ready"
    /\ IF client[c].print = Now THEN To(c, "fresh") ELSE Done(c)
    /\ UNCHANGED <<row, export, file, run, queue, used>>

(* is_file() and FileResponse, or 404 *)
Serve(c) ==
    /\ client[c].step = "fresh"
    /\ Done(c)
    /\ UNCHANGED <<row, export, file, run, queue, used>>

-----------------------------------------------------------------------------
(* export_listing_zip *)

At(r, step)   == run[r].step = step
Step(r, step) == run' = [run EXCEPT ![r].step = step]
Still         == UNCHANGED <<row, queue, client, used>>

(* db.get: the row, its name, notes and suffix with it.  Gone: nothing to do. *)
Load(r) ==
    /\ At(r, "new") /\ messages > 0
    /\ messages' = messages - 1
    /\ run' = [run EXCEPT ![r] = IF exists
                 THEN [@ EXCEPT !.step = "loaded", !.status = status, !.was = print,
                                !.header = header]
                 ELSE [@ EXCEPT !.step = "ended"]]
    /\ UNCHANGED <<row, export, file, client, used, overlap>>

(* Defect: the row stays as it was until the zip is done. *)
MarkNothing(r) ==
    /\ At(r, "loaded") /\ Step(r, "marked")
    /\ UNCHANGED <<export, file>> /\ Still

(* export_status = "exporting": written only if it was loaded as another;   *)
(* a row deleted since is an error, which ends the run.                     *)
Mark(r) ==
    /\ At(r, "loaded")
    /\ status' = IF run[r].status # "exporting" /\ exists THEN "exporting" ELSE status
    /\ Step(r, IF run[r].status # "exporting" /\ ~ exists THEN "ended" ELSE "marked")
    /\ UNCHANGED <<relpath, print, file>> /\ Still

Fingerprint(r) ==
    /\ At(r, "marked")
    /\ run' = [run EXCEPT ![r].step = "printed", ![r].print = Now]
    /\ UNCHANGED <<export, file>> /\ Still

(* rows, recipes, _render_sources *)
ReadItems(r) ==
    /\ At(r, "printed")
    /\ run' = [run EXCEPT ![r].step = "read", ![r].items = items]
    /\ UNCHANGED <<export, file>> /\ Still

(* ZipFile(zip_path, "w") truncates what is there, under a run that is     *)
(* still writing it too.                                                   *)
Open(r) ==
    /\ At(r, "read")
    /\ file' = {w \in file : At(w, "writing")} \cup {r}
    /\ Step(r, "writing")
    /\ UNCHANGED export /\ Still

(* The last entry is written and the archive closed. *)
Close(r) ==
    /\ At(r, "writing") /\ run[r].items \notin Empty
    /\ Step(r, "written")
    /\ UNCHANGED <<export, file>> /\ Still

(* Columns whose value is what was loaded are not written; a row deleted   *)
(* since is an error.                                                      *)
Write(r, fingerprint) ==
    IF exists
    THEN /\ status' = "ready" /\ relpath' = TRUE
         /\ print' = IF fingerprint = run[r].was THEN print ELSE fingerprint
    ELSE UNCHANGED export

(* Defect: the digest is taken when the zip is done. *)
PublishLate(r) ==
    /\ At(r, "written") /\ Write(r, Now) /\ Step(r, "published")
    /\ UNCHANGED file /\ Still

Publish(r) ==
    /\ At(r, "written") /\ Write(r, run[r].print) /\ Step(r, "published")
    /\ UNCHANGED file /\ Still

(* No photograph could be read, or writing failed: the file goes first ... *)
Fail(r) ==
    /\ At(r, "read") \/ At(r, "writing")
    /\ file' = {}
    /\ Step(r, "failing")
    /\ UNCHANGED export /\ Still

(* Defects: the exception is raised before the status is written; or the   *)
(* status is one nobody knows.                                             *)
PublishNothing(r) ==
    /\ At(r, "failing") /\ Step(r, "published")
    /\ UNCHANGED <<export, file>> /\ Still
PublishError(r) ==
    /\ At(r, "failing") /\ status' = "error" /\ Step(r, "published")
    /\ UNCHANGED <<relpath, print, file>> /\ Still

(* ... then the status says so. *)
PublishFailure(r) ==
    /\ At(r, "failing")
    /\ status' = IF exists THEN "failed" ELSE status
    /\ Step(r, "published")
    /\ UNCHANGED <<relpath, print, file>> /\ Still

(* The message is acknowledged when the task has returned or raised. *)
Acknowledge(r) ==
    /\ At(r, "published")
    /\ Step(r, "ended")
    /\ UNCHANGED <<export, file>> /\ Still

(* A query before the zip is opened raises: acknowledged all the same. *)
Raise(r) ==
    /\ run[r].step \in {"loaded", "marked", "printed"}
    /\ Step(r, "ended")
    /\ Spend("errors")
    /\ UNCHANGED <<row, export, file, queue, client>>

(* The worker is killed; its message is delivered again.  What it had       *)
(* written stays: "dead" is a run whose zip, if it opened one, was not      *)
(* closed.                                                                 *)
Die(r) ==
    /\ Running(r)
    /\ Step(r, IF run[r].step \in {"written", "published"} THEN "ended" ELSE "dead")
    /\ messages' = messages + 1
    /\ Spend("deaths")
    /\ UNCHANGED <<row, export, file, client, overlap>>

-----------------------------------------------------------------------------
Operator == Rename \/ Edit \/ Undo \/ Delete

Answer(c) ==
    \/ Queue(c) \/ Send(c) \/ Refuse(c)
    \/ CheckFresh(c) \/ Serve(c)

Ask(c) == (c \in Exporters /\ Check(c)) \/ BrokerDown(c) \/ AskZip(c)

Work(r) ==
    \/ Load(r) \/ Mark(r) \/ Fingerprint(r) \/ ReadItems(r)
    \/ Open(r) \/ Close(r) \/ Publish(r)
    \/ Fail(r) \/ PublishFailure(r) \/ Acknowledge(r)

Trouble(r) == Raise(r) \/ Die(r)

Next ==
    \/ Operator
    \/ \E c \in Clients : Ask(c) \/ Answer(c)
    \/ \E r \in Runs : Work(r) \/ Trouble(r)

Spec == Init /\ [][Next]_vars

(* A request is answered, a message is delivered to a free worker, and a   *)
(* task goes on until it returns or its worker is killed.                  *)
FairSpec ==
    /\ Spec
    /\ \A c \in Clients : WF_vars(Answer(c))
    /\ \A r \in Runs : WF_vars(Work(r))

-----------------------------------------------------------------------------
(* Properties *)

(* The file is the closed zip of r alone. *)
WholeZip(r) == file = {r} /\ run[r].step \in {"written", "published", "ended"}

(* While no two executions overlap, "ready" is never said of a zip that is *)
(* not there or cut short, whichever worker died half way or after it had  *)
(* said so.                                                                *)
ReadyIsWhole ==
    exists /\ status = "ready" /\ ~ overlap => \E r \in Runs : WholeZip(r)

(* The point of the fingerprint: while no two executions overlap and no     *)
(* edit is undone, an export the download would accept holds the            *)
(* photographs, order, rooms, names and edits the listing has now, however  *)
(* it was edited while the export ran.                                     *)
FreshItems ==
    exists /\ status = "ready" /\ print = Now /\ ~ overlap /\ used["undos"] = 0 =>
        \E r \in Runs : WholeZip(r) /\ run[r].items = items

(* export_listing_zip: "Digested before the inputs are read, so a change   *)
(* made while this runs leaves the finished zip stale".  The same of all   *)
(* that is in the zip, the title, notes and suffix with it.                *)
FreshZip ==
    exists /\ status = "ready" /\ print = Now /\ ~ overlap =>
        \E r \in Runs : WholeZip(r) /\ run[r].header = header /\ run[r].items = items

(* An export that was asked for ends in ready or failed, overlapped or not: *)
(* the page that answers 409 "already running" does not do so for ever.     *)
ExportEnds ==
    (exists /\ status \in {"queued", "exporting"}) ~>
        (~ exists \/ status \in {"ready", "failed"})

=============================================================================
