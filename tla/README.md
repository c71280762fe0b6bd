# FrameFound in TLA+

FrameFound is a self-hosted catalogue of photographs and video. A FastAPI
application and a web client show the catalogue, a scanner process reads the
libraries' folders, and Celery workers turn files into metadata, derivatives,
transcripts, frames, embeddings and faces. All of them share one PostgreSQL
database; nothing is locked in it, every session is read-committed and keeps what
it loaded (`expire_on_commit=False`), and tasks are delivered at least once. The
hard part of the program is therefore what is read, when it is written back, and
what happened in between. This directory models that.

The server's source is `src/apps/server/framefound`; paths below are relative to it.

## Inventory

| part | state it keeps | operations | what makes it hard |
| --- | --- | --- | --- |
| scan control: `scanner/__main__.py`, `scanner/scan.py`, `api/v1/libraries.py` | library and scan rows; the loop's place, pending list and current scan | create, enable, remove a library; trigger, pause, resume, cancel a scan; execute; schedule; recover at start | the scanner and the API write the same row blindly; a pass works off a list hours old; a process death |
| scan engine: `scanner/scan.py`, `identity.py`, `stability.py`, `storage/reachability.py` | asset rows: path, size, mtime, hashes, availability, processing status | walk, index, rebind a move, apply a change, flag missing or unmounted | the disk changes under the walk; shares vanish and come back; copies look like moves |
| watcher: `scanner/watcher.py`, drains in `__main__.py` | queue of observed paths and departures | offer, depart, due, requeue, drain | event threads against the loop; events lost, duplicated, out of order |
| task shell and pipeline: `processing/tasks.py`, `celery_app.py`, `derivatives.py` | job rows, processing status, derivatives, frames, embeddings, faces | extract, derive, sample, embed, detect, cluster, infer | at-least-once delivery, worker death, retries, a stage that runs on what another stage replaced |
| transcription: `processing/tasks.py`, `ai/transcription.py`, sweep in `__main__.py` | job rows, transcripts, the broker's unacknowledged message | preflight, transcribe, retry, reap, sweep | three parties requeue the same clip on different clocks |
| repair sweeps: `scanner/__main__.py` | nothing of their own; read job and asset rows | stuck assets, missing transcripts, missing visuals, orphan jobs, clustering, training pairs | must neither repeat work in flight nor forget work lost |
| listings and export: `api/v1/listings.py`, `media/export_state.py`, `processing/tasks.py` | listing, order, room, edits, export status and fingerprint, the zip | edit, export, download, remove, AI edit | the zip is built from what was read before the fingerprint was |
| AI editing and develop: `ai/recipe_picker.py`, `api/v1/develop.py`, `media/develop.py`, `looks.py` | edit versions, the run's progress | pick recipes, describe, save naming, undo | a run taken for dead that still writes |
| AI spend: `ai/spend.py` | the ledger and the month's cap | check, call, record | check and record are a paid call apart |
| tag learning and review: `ai/tagging.py`, `tag_review.py`, `processing/tag_tasks.py`, `tag_review_tasks.py`, `api/v1/tags.py` | tags, links, prototypes, evidence | tag, accept, reject, learn, suggest, review | learning from evidence that changes while it is read |
| people: `ai/faces.py`, `ai/people.py`, `api/v1/people.py` | faces, people, suggestions | cluster, name, merge, confirm, reject | clustering writes over what the operator decided meanwhile |
| search and ranking: `api/v1/search.py`, `search/ranking.py` | none | fuse rankings, page | an algorithm with a reference definition |
| assets, media, streaming: `api/v1/assets.py`, `media.py`, `media/streaming.py`, `signing.py` | none | browse, sign, serve a byte range | range arithmetic at the boundaries, expiry |
| places, geocoding, maps: `media/geo.py`, `places.py`, `geocoding.py`, `maps_store.py`, `api/v1/places.py`, `basemaps.py` | geocode cache, monthly call count, basemap file | infer, cluster, look up, fetch a basemap | a budget counted by concurrent requests; a download replaced while served |
| slideshows, rendering: `media/slideshow.py`, `render.py`, `pipeline.py`, `theming.py`, `api/v1/slideshows.py` | slideshow row and file | propose, create, render, download | render state against a dead worker |
| showcase, curation, photo naming, duplicates: `media/showcase.py`, `curate.py`, `photo_index.py`, `compare.py`, `api/v1/showcase.py`, `duplicates.py`, `ai/rooms.py` | picks | rank, group, name | algorithms |
| authentication: `auth/*`, `api/public_gate.py` | users, sessions, TOTP, panel tokens, attempts | set up, log in, lock out, revoke, elevate | counters and expiry under concurrent requests |
| remote access: `ddns/*`, `api/v1/remote_access.py` | settings, last published address | detect, publish, switch off | publish and remember are two steps, one outside |
| storage: `storage/mounter.py`, `spec.py`, `api/v1/storage.py` | mount requests and results on disk | request, mount, unmount, report | two processes share a directory of files |
| Google Drive organiser: `integrations/gdrive.py`, `organize.py`, `api/v1/gdrive.py` | rename log | preview, apply, undo | a batch of remote renames that fails half way |
| MCP connector, panels, timelines: `mcp/*`, `api/v1/panel.py`, `nle/fcp7.py` | none of their own | tools over the same tables, FCP7 XML | time code arithmetic |
| training pairs: `training/pairs.py` | the manifest and downloads on disk | collect, nightly | a kill in the middle of a line or a download; a pass beside a pass |
| operations: `ops/*` | none | merge libraries, bake-off, benchmark | merge moves rows between libraries in one transaction |
| web client, Premiere panel, Lightroom plug-in: `apps/web`, `apps/panel-premiere`, `apps/plugin-lightroom` | view state | call the API | presentation |

How they meet. The API and the scanner share the library and scan rows. The
scanner, the watcher and the workers share the asset rows. The scanner hands
assets to the workers through Redis queues, workers chain further tasks, and the
scanner's sweeps look for work that fell between them. Listings read asset rows
and derivatives and have tasks of their own. Operators change anything at any
time through the API.

What would make each part correct: no status is overwritten by somebody who read
an older one; work asked for is done or reported, once where once matters;
nothing on disk or paid for is lost track of; what is called ready, fresh,
missing or queued is so; money and attempts stay within their caps.

## Plan

Done, most important first: the life of a scan (`ScanControl`), what it does to
the catalogue (`Reconcile`), the zip of a listing (`ListingExport`), the media
pipeline and its sweeps (`Transcribe`, `Pipeline`); then every part in which
requests, workers or processes overlap, joined in four composites so that each
is one run: `Studio` (edits, tag reviews and tag learning round one ledger, with
`SpendCap` as the abstract specification it implements), `House` (people,
object removal, watcher, remote access), `Front` (listing items, sign-in, search,
stills, Drive organiser, curation) and `Backroom` (slideshows, the merge of
libraries, training pairs, showcase, positions and addresses, maps). Proofs
followed the same order.

Left, in this order:

1. `ShowcaseCorrect` and `CurateCorrect` as theorems: their sorts and folds as
   recursive functions first, as `Slideshow` and `TrainingPairs` have them.
2. `Reconcile` as an implementation of "a catalogue that mirrors the disk"
   between scans, and `Reconcile`'s drains taking their paths from the queue of
   `Watcher`.
3. The parts without a module that keep state: mount requests
   (`storage/mounter.py`), panel tokens, looks and skies.

## Modules

Each of the first five is a specification of its own. The others are parts of a
composite: a part has its variables, its `Next` and its properties, and the
composite gives a behaviour to each (`busyPart`), in which the other parts stay
as they began. Nothing is lost by that: the parts of `House`, `Front` and
`Backroom` share no state, so their interleavings say nothing about each other,
while a run over the product would only multiply states. `Studio` is the
exception: edits and reviews share the ledger, the cap and the key, and
`busyPart = "claude"` is the behaviours in which both move.

`MC*` modules hold the data of the instances (what looks alike, who is in which
picture, which folder is where) and nothing else. Operators marked *Defect* are
not part of any specification: each is a definition as a plausible mistake would
have it, and the run it belongs to must then fail.

### ScanControl

One action per handler half: an API request *reads* (`TriggerRead`,
`TransitionRead` through `Pause`, `Resume`, `Cancel`) and later *commits*
(`TriggerCommit`, `TransitionCommit`), since `_transition_scan` selects a row and
updates it by primary key. The scanner's loop is `pc`: `Boot` is
`_requeue_interrupted_scans`, `LoadPending` the query of `_run_pending_scans`,
`TakeDeleted`, `TakeDisabled` and `StartScan` what it does with the next row of
the list (`todo`), `Probe*`, `Poll*`, `CommitBatch` and `Complete` `run_scan`,
`PlanLibrary` and `CommitPlan` the schedule. `Crash`, `LoopError` and `BootFails`
are a dead process and the loop's catch-all. `held` is the library row the
session still has from an earlier read (`expire_on_commit=False`): a library
disabled during a pass is not seen to be.

### Reconcile

`disk` and `up` are the truth; `place`, `stamp`, `hash` and `avail` are the rows.
`ScanStart`/`ScanUnmounted`, `ListDir`, `StatFile`, `HashFile`, `SeeUnchanged`,
`Defer`, `IndexFile`, `ApplyChange` and `ScanEnd` are `run_scan` step by step, and
people's moves, copies, removals and rewrites, dropped shares, tasks
(`WorkerLoad`, `WorkerLook`, `WorkerFlag` of `_with_asset`) come between any two.
The watcher's drains may be given any path whenever the scanner is free. A file's
content stands for its size, mtime and bytes together; a batch is one file.
`absent` is a history variable: the paths that have been without a file since the
scan started.

### ListingExport

A listing is a header number and an items number, its fingerprint the pair.
`Check`/`Queue`/`Send` is `export_listing`, `AskZip`/`CheckFresh`/`Serve`
`download_export`; `Load` to `Acknowledge` is `export_listing_zip`, whose
executions (`run`) share one `file`, the set of executions whose bytes are in it.
`Die` and `Raise` are a killed worker, whose message comes back, and an exception
before the zip is opened, which ends the task. Columns whose value is what the
session loaded are not written, as the ORM does it. `overlap` is a history
variable: a message was sent while another was waiting or running.

### Transcribe

One clip. `msg` is its messages (queued, held, waiting for a retry's countdown,
lost with a container), `slot` the worker's single place, `open` the job rows
without an outcome with their ages, `failures` the count the sweep's give-up
looks at. `Preflight`, `Begin`, `Hear`, `Conclude`, `Raise`, `Retry` and
`Acknowledge` are one run of `transcribe_asset`; `Sweep` and `Reap` the scanner's
maintenance; `Restore` the visibility timeout. Time is `Tick`: six hours, so that
`ORPHAN_JOB_AGE`, `BROKER_REDELIVERY_AGE` and `TRANSCRIBE_DEATH_WINDOW_S` are 1, 2
and 4. Other clips only delay this one (a busy queue keeps the sweep away), which
the asynchrony already allows, so they are left out.

### Pipeline

One still, clip or BRAW clip. The file has a version, and every product the
version it was made from. `queued` is what waits for each stage, `run` the
deliveries in hand, each at a step of its stage: `Mark`, `Probe`, `StoreFields` of
`_extract`; `Decode`, `StoreThumb` of `generate_visuals`; `PlanSamples`,
`DeleteFrames`, `TakeImage`, `StoreFrames` of `_sample_frames`; `LoadFrame`,
`ReadImage`, then `StoreVector` of `_embed_frames` or `StoreFaces` of
`detect_faces`; `Chain` the sends at the end. `Begin` and `Again` write the job row
the sweep counts. A deletion not yet committed holds the row's lock (`Locked`);
what meets its absence afterwards - a second sampling's insert, a face's reference,
an update of no row - fails as the database and the ORM make it fail. The file may
also be moved aside, or its share go down (`reach`): a scan finds it gone or back
(`FlagGone`, `FindAgain`), a step that reads it fails, and a task that begins, or
comes back, while it is away ends as `_with_asset` ends it, its job row *skipped*,
the asset *missing* if its share answers, its status as it stands (`Skip`).
`disturbed` is a history variable: the file was rewritten while something was under
way, or a stage was given up or skipped, so that freshness is not promised. `abandoned` is another: an extraction was skipped and the
asset says *processing* of one that was killed before it.

### Studio: AICalls, AIEdit, TagReview, Tagging, SpendCap

`AICalls` is the ledger (`month`), the cap and the key as settings, and what an
answered, refused or unusable call leaves in it; a call costs one of `Costs`, nothing
where the model has no listed price. `AIEdit` is one listing:
presses of the button as check and commit (`PressCheck`, `PressQueue`), the runs
photograph by photograph (`Start`, `Load`, `Check`, `Answered`, `RecordEdit`,
`ReadVersion`, `Insert`, `Name`, `End`), the operator's own names, saves and
clearings beside them, and the 45 minutes after which a press replaces a run that
may still be at work. `TagReview` has requests and the nightly sweep, which pick
pictures, and executions that ask, write and may be killed and delivered again.
`Tagging` is one tag: what the operator says of each asset one by one or from a
page loaded earlier, the learner that turns answers into a prototype and
suggestions, arrivals scored by it, and proposals. The nightly pass (`SuggestAll`)
takes tags that were learned once; relearning by hand asks for no more than the
tag. `SpendCap` is what the budget
promises whoever calls: no call is made whose estimate the cap does not hold, and
the ledger passes the cap by less than one call for each caller. `Studio` maps
its runs and reviews to `SpendCap`'s callers (`Cap`), and `CallersKeepCap` is the
refinement.

### House: People, Develop, Watcher, RemoteAccess

`People` names a face row by the detection that inserted it and a prototype by the rows
it is the mean of; naming, confirming, refusing, assigning, merging, discovering and
forgetting are read and write halves of requests from browser tabs, beside detection,
matching and the clustering pass with its memo of counts. `claimed` is the history of
rows that a match or a clustering, written by key, took from somebody. `Develop` is one
photograph's rounds of object removal: asking, painting (file, row, acknowledgement,
with a death after any of them), undoing the newest (file, then row, with a failure
between), and the previews and masks that are cached by version number. `raced` is the
history of rounds undone at work, run again under a newer one or queued beside an open
one, `cut` of those whose file an undo removed. `Watcher` is events of files and of the
folder, the walk of a folder that appeared on its own thread, the queue of candidates
and departures, and the loop that drains them. What the loop took from the queue is in
its hands alone: `PassOver` is an item left out (a disabled library, a file that cannot
be read), `PassFails` an exception, `ScannerStops` a restart, `WalkStops` the limit of a
walk, and a change may come with no event at all. `overlooked` is the history of the
paths whose last change was lost so, or to an outage, to an offer older than the
deletion, or to a folder of the same name. `RemoteAccess` is the settings row that each
request loads and saves whole, the sidecar that detects an address, sends it and
remembers that it did (`Publish`, `SaveState`, with `AnswerLost` between, which
`forgotten` remembers), and the gate with what it remembers for some seconds.

### Front: ListingItems, Accounts, Search, Grabs, Organizer, Curate

`ListingItems` has every request as a read of the rows and a commit that writes only the
columns that differ from what was read, as the ORM does; `lapped` is the history of two
requests at a time. `Accounts` has first-run setup, sign-in behind the limiter with its
doubling lock, enrolment of the second factor, recovery codes and sessions whose expiry
slides, on a clock of ticks. `Search` is one search as its queries one after another
over a catalogue that changes between them, with the fusion of ranked lists, each clip
put in below those that score no less. `Sublists` is the part of a list at some places,
as a recursive function. `Grabs` is the still the panel asks for: lock, count, free
space, slot, extraction beside the final name, and a process that dies. `Organizer` is
propose, apply and undo, one Drive call at a time, each answered, refused or dropped,
and the manifests in the folder. `Curate` is what is offered to be left out of a
listing, by kind and room, with the operator following it in any order.

### Backroom: Slideshow, MergeLibraries, TrainingPairs, Showcase, Locations, Basemaps

`Slideshow` goes from the choice of photographs to the film: frames, bodies and
fades in whole frames, the working directory that two renders of one row share,
joining, moving into place, download and deletion. `MergeLibraries` is the plan
read earlier and the one transaction that re-parents assets, mappings and scans.
`TrainingPairs` is the nightly pass over shoots, downloads, the manifest that is
appended to, and passes that overlap or die at the end of a line, in the middle of
one or just before its newline (`unended`). `Showcase`
is the places, what they offer, and the numbers of what is saved. `Locations`
reads positions from files, lends them to neighbours and looks up addresses;
`crossed` is the history of an extraction committed inside an inference.
`Basemaps` keeps files as inodes, so that one can lose its name while it is still
being written; `together` is the history of two executions at one map.

## What is checked

| run | shows | bounds |
| --- | --- | --- |
| `scan_control` | type; `ExecutedScanIsHeld`: nobody gives the executing scan's row a status `run_scan` does not expect; `PromptControl`: at most one batch after a pause or cancel; `ScansEnd`: what waits, is cancelled or is executed comes to its end unless the scanner sits in a pause | one scheduled library, two scan rows, one request in flight, two batches, one fault |
| `reconcile` | type; `OneRowPerPath`; `Converges`: the catalogue comes to mirror the disk for good; `CalmlyGone`: until a first rewrite or dropped share, missing means gone at some time during the scan | two directories, three rows, two contents; two changes, one rewrite, one dropped share, one abort, two of these together (`MaxTogether`) |
| `reconcile_deferred` | *violated*: `MissingWasGone`, the same without "until", with a rewrite | one rewrite |
| `export` | type; `ReadyIsWhole`, `FreshItems` | two exports, three executions, one each of rename, edit, undo, death, error |
| `export_live` | `ExportEnds`, overlapping executions included | two clients, three executions, a refused send, a death |
| `transcribe` | type; `DeathsBounded`, `RunNotRequeued`, `NothingForgotten`: the clip is heard or given up | one retry, two queueings before giving up, two messages, one incident |
| `pipeline` | type; `ProcessingIsWorked`: *processing* means somebody is at it, or an extraction brought back found no file; `QuietIsFresh`: at rest, every product was made from the file as it is; `Settles`: work ends, and what is missing was tried as often as the sweep tries | any of three kinds, two deliveries in hand, one rewrite, one incident (a death may take the share with it), one retry, two attempts |
| `studio` | `CallersKeepCap`: the refinement of `SpendCap`; `EditKept`, `TagsKept`; `StudioEnds` | a cap of two calls, a call that costs nothing or two where one was estimated, two edit runs, two reviews, three incidents of one part or one of each, five assets of a tag, two learners |
| `house` | `PeopleCorrect`, `DevelopCorrect`, `RemoteCorrect`, which are safety, and `HouseSettles`, the type of the watcher and all that must come in the end | two faces that look alike, two people, a tab; three rounds, two editors; a folder of two paths, two events waiting; two records, two addresses, two requests; three to five incidents each |
| `house_cover` | *violated*: `NoGuessedCover`, no card shows a guess beside confirmed faces | three alike faces, two people, one tab, three requests; symmetric; the other parts empty |
| `front` | `ItemsCorrect`, `AccountsCorrect`, `SearchCorrect`, `GrabsCorrect`, `OrganizerCorrect`, `CurateCorrect` | three photographs, two tabs; two visitors, sessions, secrets and codes over three ticks; three clips, two searches; five stills of three videos, three requests; two files, two operators; two shoots, two editors |
| `backroom` | `SlidesCorrect`, `MergeCorrect`, `PairsCorrect`, `ShowcaseCorrect`, `MapsCorrect`, which are safety; `BackroomEnds`: a render ends, and every pair by name is collected | three photographs, fitting in two degrees (`Merits`), one or two slides asked for, two renderers, a death; three nested shares, four files; two houses of one street, two passes; six views of five folders; three shots; two maps, two executions |

Why the bounds are enough to be worth running. A hazard here needs one stale
reader, one writer and one disturbance; each passing run has at least that, and
where a scenario needs two (a copy and a removal for a false move, two exports
for an overlap, a second scan behind a cancelled one, a third round of removals
whose number is given out again) it has two. Three rows over two or three paths
leave room for an insert, a rebind and a row left behind. Worker deaths and
failing runs in `Transcribe` are not bounded at all: its rows leave the window
with time and its counter saturates at the value it is compared with. `export`
sends two messages and allows one redelivery, hence three executions. In
`Pipeline` an incident is a failure, a death, a refused send, a reprocessing, a
rewrite, a file or share that goes away or a sweep that comes while something is in
hand; without any of them two
deliveries meet all the same, since a stage sends two. In the composites an
incident is anything that comes from outside or goes wrong - a request, an edit of
the operator's, a failure, a death, the end of a month - so that three of them are
for instance two requests that overlap and a confirmation between. The bound on
rows to be created (`Scans`, `Assets`) makes an insert that finds no identity left
do nothing, which only removes behaviours. Safety runs use symmetry where their
data is symmetric; runs with a liveness property do not.

`export*`, `pipeline` and the four composites run without deadlock checking: with
the budgets spent and everything answered, the system has nothing to do.
`transcribe`, `scan_control` and `reconcile*` never stop.

Each property of a run is a conjunction where its part has several things to say.
The mutant listed in `PROJECT.json` breaks one of them; the others have a defect
of their own beside the definition it stands for, each found by TLC in the same
run:

| part | property: defect |
| --- | --- |
| scans | `ScansEnd`: also `PollOnlyRunning` |
| edits, reviews, tags | `ConfirmedNamesStay`: `NameAnyway`; `ReviewEnds`: `CloseDone`; `PendingBounded`: `ReadLinksOnly`; `SettledStays`: `DecideNamed` |
| people | `CoverAgreed`: `NameOnly`; `LearnedAtRest`: `AssignForward`; `GroupsForm`: `TickFirst` |
| removals | `PreviewsAgree`: `DecodeAnyVersion`; `RoundsEnd`: `NotMarked` |
| watcher, remote access | `GoneIsFlagged`: `DepartDropsCandidate`; `PresentIsIndexed`: `DrainKeepsFirst`; `RecordFollows`: `PublishUnconfirmed`; `GateFollows`: `GateKeepsOpen` |
| listing items, curation | `PositionsApart`: `AddAfterCount`; `NearOnesGo`: `JoinOne` |
| accounts | `OneFirstAdmin`: `SetupKeepsToken`; `ActiveIsProven`: `ActivateStored`; `ActiveStaysIn`: `UseUnsaved`; `GuessesBounded`: `FailsLate` |
| search, stills | `VisualIsExact`: `FirstWindow`; `FoundIsThere`: `LoadAsFound`; `CapHeld`: `NoLock`; `FloorHeld`: `NoLimit`; `NotGrabbedTwice`: `NoSecondLook` |
| organiser | `StemKept`: `StemAsIs`; `UndoRestores`: `FindAny` |
| slideshows | `FilmIsWhole`: `BodyWithoutStart`; `WatchedIsFinished`: `StitchInPlace`; `DeletedIsGone`: `DeleteIfReady`; `RendersEnd`: `FailQuietly` |
| merge, pairs | `OneActiveScan`: `ScansKept`; `MappingsHold`: `CutAnyway`; `RecordedOnce`: `LoadNothing`; `DoneIsWhole`: `OpenInPlace`; `SameHouse`: `NumbersIgnored`; `CollectedAtLast`: `LoadStrictly` |
| showcase | `OfferedOnce`: `AnyGround`; `GroundToo`: `GroundInFront`; `PlacesApart`: `MergeNeighbours` |
| positions, maps | `ExifStands`: `Replaceable`; `AddressStays`: `StoreAll`; `InstalledStays`: `ExtractAgain` |

### Fairness

- `ScanControl`: the scanner's loop steps on, and a request that has read goes on
  to write. The loop is one `while True` that waits only in a pause's poll.
- `Reconcile`: a walk goes on; each library is scanned again and again
  (strongly fair: scans of other libraries come between; `ScanControl`'s
  `ScansEnd` and the schedule are why); shares come back and files come to
  rest. No event or task need ever come.
- `ListingExport`: a request is answered, an execution goes on, a waiting message
  is delivered. `Die`, `Raise` and `BrokerDown` are not fair.
- `Transcribe`: time passes, the container is started again, what is queued is
  taken, the maintenance pass is made. Nothing obliges a run to end well: each may
  fail or kill its worker for ever, and `NothingForgotten` holds all the same.
- `Pipeline`: a waiting delivery is begun (strongly fair: others take the slots
  meanwhile), one in hand goes on, the scanner notices a change or a file that is
  back, and its sweeps come round, of which one with something to do is taken.
  Nothing brings a file back, and incidents are not fair: `Settles` is about a file
  that stays where it is.
- `Studio`: runs and reviews with a message go on, a press that passed its check
  commits, learners go on and the nightly pass comes round for a tag that was learned
  once; nobody need press to relearn one.
- `House`: requests finish, workers detect, cluster and paint, the watcher's
  threads and the scanner's loop go on, the sidecar and the gate act. Failures,
  deaths, outages and what people do are not fair.
- `Backroom`: a queued render is begun and each renderer goes on; cataloguing, the
  nightly collection and its passes go on. The other parts have safety only.
- `Front` has safety only.

Fairness is weak but for the two places named: a step that stays possible is
taken, which is what an event loop, a Celery worker and a broker that redelivers
give.

## Findings

- `reconcile_deferred`: a file rewritten within a minute of the scan is deferred
  without being stamped as seen, and the end of the same scan flags it missing.
- `house_cover`: a group's cover is its first face. A match of that face that is
  still under way is written by key and takes it to somebody else; the group is
  named, which confirms the faces it has; and a merge with that somebody brings the
  face back, unreviewed, as the cover of a named person with confirmed faces. The
  attempt to prove `CoverAgreed` as it was first stated, without the exemption of
  `claimed` rows, found this; it takes three faces and 18 steps, and the two faces
  of `house` had hidden it.

### Known limits

What the models reach, or what came up while they were written, and no run is
about. A name in `code` is a definition in the module of the part that states what
the quoted text promises and that its instances violate; it is kept out of the
runs.

Scans and the catalogue:

- A pause that read *running* and is written after *failed* or *completed* leaves
  a paused row; resumed, it is a running row nobody executes
  (`RunningIsExecuted`, `libraries.py:283` against `scanner/__main__.py:128`).
- A cancel written after the scanner loaded its list, or after the last poll, is
  overwritten with *running* or *completed* (`StartScan`, `Complete`,
  `scan.py:352`); a scan queued meanwhile is then a second active one, and
  `scalar_one_or_none` in the endpoints raises for that library
  (`libraries.py:243`).
- `delete_library` on a library with assets is refused by the database: the ORM
  nulls `library_id` first (`libraries.py:236`).
- A share that drops after the probe and before the end of the walk has its files
  flagged missing; while a share is down, a copy elsewhere takes over the row of
  an original. Both are undone by a later scan only in the sense of `Converges`:
  the rows mirror the disk, the first row's identity is lost. An offer that saw a
  file before it went cancels its departure (`watcher.py:117`); the next scan
  finds it.
- `_verify_hash` stores the hash of bytes read before a rewrite beside the new
  size (`tasks.py:579`, `scan.py:216`), and the full hashes a verification of
  duplicates asks for (`duplicates.py:190`) are compared by nobody.

Listings and export:

- Title, notes and suffix of a zip come from the row as loaded, the digest from
  the row as selected after (`FreshZip`, `tasks.py:1483` against `1487`).
- Two requests past the 409 run two executions on one file, and the first to
  finish says *ready* of a zip the second is writing; this is what `~ overlap`
  leaves out of `ReadyIsWhole` and `FreshItems`. A download that has passed its
  checks can be handed a truncated file (`tasks.py:1529`). An edit undone after
  the export read it leaves a zip of what nobody asked for with a fresh
  fingerprint (`used["undos"] = 0` in `FreshItems`). A listing deleted while it is
  exported leaves its zip behind. A query that raises before the zip is opened
  (`tasks.py:1489`), or an API process that dies between the commit and the send
  (`listings.py:726`), leaves *exporting* or *queued* for good.
- A reclassification that read a room before it was confirmed writes over it
  (`OnlyTheOperatorConfirms`; `ConfirmedRoomHeld` says how far it goes).
- Two answers of curation, or one and a removal, together empty a room; the frame
  kept as the sharpest of its group may be offered as soft (`listings.py:871`,
  `curate.py:98-129`).
- A run taken for dead after 45 minutes goes on beside its successor (`OneRun`,
  `listings.py:787`).

Pipeline and transcription:

- An extraction that is killed and delivered again while the file or its share is
  away is skipped, and *processing* stays: the sweep for stuck assets takes *pending*
  only and the visual sweep *ready* only (`tasks.py:141-152`, `scanner/__main__.py:308`
  and `546`), although `tasks.py:156-166` says of its own path that an asset must not be
  left there. `ProcessingIsWorked` and `Settles` leave it out as `abandoned`. A task skipped
  so is one of the attempts the visual sweep counts. Of `_with_asset`'s other early
  ends, an asset or library deleted leaves nothing to be right about, and a rejected
  path would take a root that moved; neither is modelled.
- A library switched off between the preflight and the run gives the clip a
  *succeeded* row without a transcript; switched on again, it is never queued
  (`BackOnIsHeard`, `tasks.py:264` against `scanner/__main__.py:422`).
- Three worker deaths in a day on a clip, and the sweep, which takes it up again
  after twelve hours, has nine refusals written within the hour: the clip is given
  up although the window was to let it go (`scanner/__main__.py:444`).
- `detect_faces` looks for faces before the model runs and inserts after: two at
  once both insert (`tasks.py:905`, which its own comment fears).
- The visual sweep asks whether a product exists, not what it was made from
  (`scanner/__main__.py:556`). A send refused after a change leaves the old
  thumbnail, vector and faces for good, and a BRAW clip is sampled beside its
  thumbnail, so after a change from the old one: `QuietIsFresh` is about stills and
  other clips, and about what was not given up. `detect_faces` is swept by nobody.

AI spend, tags, people:

- An answer that was billed and could not be used, or whose worker died before the
  commit, is in no ledger row (`EveryCallRecorded`, `spend.py:3`).
- A review that raises, a clash of two inserts for one (`tag_review_tasks.py:145`),
  leaves its row *running* (`ReviewFinishes`, `tags.py:497`). Arrivals read
  prototype and bar in two queries (`NeverAMix`, `tag_tasks.py:163`).
- A tag whose first learning was lost or refused has no prototype, and the nightly
  pass takes only tags that have one (`tag_tasks.py:459`): its answers teach nothing
  until the operator gives another or relearns it by hand. `AnswersTeach` is about a
  tag once learned.
- Two tabs naming faces alike make two people (`OnePersonPerName`); two detections
  of one picture make two rows (`OneRowPerFace`); a pass is skipped when other
  faces come to the same two counts (`GroupsAlwaysForm`).

Removals, slideshows, showcase, positions, maps:

- Two rounds of one photograph can be open at a time (`OneRoundAtATime`,
  `develop.py:407`). A worker killed between the commit of a round and its
  acknowledgement has it painted again (`tasks.py:1664`), under newer rounds that are
  ready by then and were painted on the one before; both are `raced` in `ChainHolds`. An
  undo cut off between file and row (`develop.py:518-520`) leaves a ready row without
  its file: previews fall back to the original, and a next round fails, until the undo
  is asked for again. One undo at a time is modelled. A preview can put back a base that
  was cleared (`BaseIsCurrent`, `develop.py:364-369`).
- Two renders of one slideshow share a working directory, and what one serves may
  be half written by the other (`pipeline.py:148`; `doubled` in
  `WatchedIsFinished`). A choice collapsed from near-duplicates can show one moment
  twice (`slideshow.py:5`); a pace whose times round to fewer frames than the fade
  passes the check of `slideshows.py:330`.
- The showcase can offer near-duplicates of what left-out listings hold and
  another frame of a left-out video; extending the first batch after the second,
  or two saves that overlap, repeat numbers.
- An inference that commits after an extraction writes over what EXIF says
  (`crossed` in `ExifStands`; `docs/location.md`: "never overwritten"). A refused
  lookup is not cached, though `geocoding.py:16-17` says failures are. The map
  settings row is saved whole by overlapping requests (`basemaps.py:417`).
- Two executions at one map and a kill install a file that is not whole
  (`together` in `InstalledIsWhole`; `fetch_basemap`'s docstring).

Watcher, accounts outside, Drive, training pairs, operations:

- A folder moved away whose name another has taken before the departure is due is not
  looked into: what was below it stays online until a scan
  (`scanner/__main__.py:255-262`). So does what the drain held when it raised, was
  restarted or met a disabled library (`scanner/__main__.py:202-237`), and what a walk
  past its limit left. `GoneIsFlagged` and `PresentIsIndexed` leave those paths out
  (`overlooked`) until they change again; `Converges` of `Reconcile` is what a scan
  makes of them. Duplicated and reordered events are not in `Watcher`, and the row a
  moved file keeps is `Reconcile`'s.
- A record sent whose answer or state was lost is not known here: if the address then
  goes back to the one last saved, it is taken for published and the record points
  elsewhere (`ddns/__main__.py:49-77`; `forgotten` in `RecordFollows`). A request to
  the provider that takes effect after a later one is not modelled.
- A row loaded before the kill switch and saved after it turns public access on
  again (`KillSwitchHolds`, `remote_access.py:162`); a record renamed after a
  publication keeps the old address (`ConfiguredRecordFollows`,
  `ddns/__main__.py:1`).
- A connection that drops before the manifest is uploaded leaves renames nobody
  recorded (`RenamesAreRecorded`, `gdrive.py:306`). An old manifest that was not
  removed is called harmless (`gdrive.py:337`); a second undo uses it and can leave
  a mixture.
- Two passes over training pairs can leave a download that looks done and is not whole
  (`gdrive.py:175`). The pair written after a torn line is lost with it, and a line that
  is whole but for its newline, which is read until then, with the next that is appended
  (`pairs.py:22`: "never lost", against `pairs.py:238-240`); `ReadableStays` allows for
  the latter and `CollectedAtLast` has both collected again. Two passes that append at
  once are taken to write one after the other, not buffer by buffer.
- `merge_libraries.py:137` strips dots from the ends of what is below the new root:
  a library in `.raw` moves to `raw/...`, where its files are not. The run has no
  such folder, and `MergeHolds` says so (`NothingDotted`); with one, `SameFile` is
  violated. A temporary still that a
  dead process left counts towards the cap of its video, and the panel's
  `_raw_twins` keeps one owner for a stem that two have. "An asset that
  ranks moderately in two strategies beats one that tops a single list"
  (`ranking.py:11-13`) is so down to rank 62 only.

## What is proved

Proofs are about every value of the constants that meets the named assumptions;
these say that bounds are naturals, that a "none" value is not one of what it
stands beside, and what the code or its configuration guarantees of the data, such
as that every asset has a capture time. A theorem about a part of a composite is
about the composite's specification, the other parts moving or not.

`ScanControlProofs`, for any number of libraries, scan rows, requests, batches
and faults: `TypeCorrect`, `ExecutionHeld` (`ExecutedScanIsHeld`) and
`ControlIsPrompt` (`PromptControl`). Neither property is inductive. The
strengthening says that what refers to a row - the pass's list, the execution, a
request in flight - refers to one that was inserted (`RowsOwned`, `TodoKnown`,
`RequestKnown`), without which a late transition could "pause" a row yet to be
created; and that a batch in hand was begun by a poll that set `late` to zero
(`BatchIsPolled`). There is one lemma per group of actions; `InsertKeeps` is the
one about new rows, shared by creation, trigger and schedule.

`ListingExportProofs`, for any clients, executions, edits, deaths, redeliveries
and errors: `TypeCorrect`, `ReadyIsWholeAlways` (`ReadyIsWhole`) and
`FreshItemsAlways` (`FreshItems`). Unless two sends ever met, there is one delivery
or one execution at a time (`OneAtATime`): a death puts back the message of the
execution it ends. Then nobody publishes between an execution's load and its own
publication, so the status is not *ready* while it writes (`NotReadyYet`), the file
is its own (`OwnFile`), and the fingerprint it loaded is the row's (`PrintLoaded`) -
which is needed because a column equal to what was loaded is not written. Without
an undo the items only grow, so digest, items read and items now are in order
(`InOrder`), and a digest of now leaves no room between them.

`TranscribeProofs`, for any retries, queueings, messages, incidents and ages in the
proportions the code keeps: `TypeCorrect`, `DeathsAreBounded` (`DeathsBounded`) and
`RunsAreNotRequeued` (`RunNotRequeued`). Rows without an outcome leave the window
with time, so their count is the length of `open`, which only `Begin` extends; what
the preflight saw is still true then, because nothing comes between (`RoomForRun`).
For the sweep, a run in the slot has a message that is not yet old enough to be
redelivered (`HeldIsYoung`, `SlotIsHeld`) and a row that the sweep's query finds,
reaped or not (`RunHasRow`).

`PipelineProofs`, for any slots, versions, retries, attempts and incidents: `Typed`,
`NeverLeftProcessing` (`ProcessingIsWorked`) and `FreshWhenQuiet` (`QuietIsFresh`). The
last says nothing of the way there, so the invariant does: each product is as the file
is or the stage that makes it is due - owed by the scanner, waiting, in hand, or about
to be sent by the stage before (`ExtractDue` to `ResultDue`) - and what a delivery in
hand has read is of the file as it is (`ReadsFresh`, `SamplesFresh`). None of this is
claimed once a stage was given up or skipped or the file changed under a task.
`NeverLeftProcessing` has the exception that was found in the code, an extraction
skipped when it came back (`abandoned`), and no other.

`StudioProofs`, for any runs, reviews, photographs, pictures, assets, cap and
costs. `CallersFollowCap` is the refinement: initial states map to initial states,
each step of an edit or a review, a death or a retry to a step of `SpendCap` or to
a stutter, which needs of the parts only that a call is made straight from its
check and that records fit their types (`CapInv`). `CapKept` is about the abstract
ledger: what it holds and what its callers still owe never pass the cap by a call
for each (`CapFits`). `CallersKept` puts the two together and is the run's
`CallersKeepCap`. `EditsHold` (`EditKept`) adds that what a run counts as edited or
is about to count has a version of that run (`OwedIsSaved`); `TagsHold`
(`TagsKept`) that pictures in hand of a review that is alone are unpaid
(`AloneUnpaid`) and that queue and shares taken fit together (`QueueFits`,
`ShareFits`), arrivals and learners sharing the two vision slots (`WorkFits`).

`FrontProofs`. `AccountsHold` (`AccountsCorrect`): token and account are made
together, a request that is alone holds the row as it is, and for the limiter the
sign-ins let in before the lock may all still fail within the bound (`MayFail`) and
by the end of a lock there is room for as many again (`MayCome`); it assumes that
the base lock is not longer than the longest one. `GrabsHold` (`GrabsCorrect`): one
request of a video holds its lock (`OneEach`), slots are not overrun (`SlotsHeld`),
whoever holds a slot wants a still that is not there (`LookedAgain`), and a count
once taken stays good until the writing (`RoomLeft`). `OrganizerHolds`
(`OrganizerCorrect`): one request at work (`OneBusy`), the new manifest stays while
the old one is removed (`NewStays`), and while nothing went wrong manifests chain
from names to names (`Told`, `Chained`, `UpToDate`) and a request knows what it has
done and has yet to do. The proof attempt corrected the model's `UndoRestores`: it
had claimed the names back also where a manifest that came between had been removed
by an undo, for which an old one that stayed behind is taken. `ItemsHold`
(`ItemsCorrect`): without an overlap a request's target is still apart and of the
rows of now (`InTurn`), and a classification leaves alone what it read as confirmed.

`BackroomProofs`. `MapsHold` (`MapsCorrect`) is two theorems. `BasemapsHold`, for any
maps, executions and incidents: unless two ever met at a map, the execution at one
writes the inode that `.part` names, which is nobody else's and installed nowhere, and
nothing is installed of the map meanwhile (`OneWriterEach`, `OneEachMap`,
`PartIsWritten`). `LocationsHold`, for any assets, inferences and page loads: what lent
a position has one of its own from its camera (`LentByCamera`), and what an inference
decided is still lent by such an asset to one that is none and whose file says nothing
(`DecisionHolds`), because only an extraction could change that, and then `crossed`
holds; rows that a page load read say nothing of an address (`AddressesTyped`), so none
that was found is written over.

The same module has the catalogue of `Reconcile`, for any directories, files, rows
and budgets: `CatalogueTyped`,
`PathsDistinct` (`OneRowPerPath`) and `FlaggedWasGone` (`CalmlyGone`). Distinct
paths are inductive: only `IndexFile`, `ApplyChange` and `DrainCandidate` write a
row's path, the first and the drain's insert only where no row has it
(`IndexKeeps`), the others the path the row has (`WriteKeeps`). For what is flagged
the invariant is about the walk (`SearchInv`): a path it has not come to is still
ahead of it - its directory or the root on the stack, its name listed, its file in
hand - or was empty at some time since the start, or the row that has it is stamped
(`Accounted`). It holds while `Calm`, nothing rewritten and no share dropped so
far, and calm cannot come back (`CalmBefore`); without it the property is false
(`reconcile_deferred`).

`MergeHolds` (`MergeCorrect`), for any shares, files, profiles and merges. Every
root is above the share it began as (`RootsAbove`), and a workstation prefix leads
from that root to where the share was mapped (`MapsLead`): what a merge cuts off
the prefix is what it cuts off the root, name by name, and what it puts before the
paths. A plan is still of the libraries as they are when it is applied
(`PlanStands`), files found since included, because only a merge changes roots,
mappings and members. The target goes first, so no row is moved twice
(`Reparented`). The premise is `NothingDotted`, without which it is false.

`PairsHold` (`PairsCorrect`), for any pictures, shoots, likenesses, passes, kills and
torn lines. That what is readable stays (but for a line without its newline, which was
readable until the next joined it) and that no pair mixes two house numbers needs only
what matching returns, pairs of the originals and finals it is given, and that these are
of one shoot or of shoots found alike. Matching by content goes through a list, each
step with what the last left over, and is a recursive function whose values are shown to
exist and to be such (`Unfolds`, `GoesOn`). Unless two passes ever overlapped, a pass is
alone (`ByItself`): when it pairs it knows every line that can be read, so it writes
none twice, and the file it is writing was opened by nobody since. The attempt corrected
`KillPass`: a killed pass had taken back its opening of a `.part`, whereas the file
stays, and what that opening cut off is still missing.

`SlidesHold` (`SlidesCorrect`), for any photographs, people, merits, numbers of
slides, paces, workers, presses and deaths. The choice is lists: sorting keeps what
it is given and repeats nothing (`SortedIs`), the collapse of near-duplicates
changes a slot only for a photograph that is in none (`CollapseIs`), and once the
required people have been gone through, whoever is in a photograph that was left is
in one that was chosen, whatever the target (`ChooseIs`). A film is the plan of its
row (`FilmAsPlanned`), because the row's slides and pace never change, and a plan
whose bodies have frames plays every slide whole and once (`PlanWhole`): by halves
of odd and even piece numbers. A render that is alone has nothing half written to
move (`RenderByItself`); a film the row does not name yet has a worker about to name
it, and a deleted row has nobody at work, if no worker died and no deletion came
between (`FilmNamed`). Messages are bounded by the presses, deaths and the creation
they come of (`MessagesCome`).

`HouseProofs`. `PeopleHolds` (`PeopleCorrect`), for any detections, photographs, people,
names, tabs and incidents. The invariant has three parts. `PeopleTyped` is more than the
run's type invariant: whoever a row names exists, and a request at work is about one or
two different people. `CoversStay` says that a row and a cover are of a detection that
has inserted its row, so that a new row is nobody's cover, and that a cover nobody
reviewed and nobody claimed is still in its group, which has no name; that makes
`CoverAgreed` inductive. `Learned` says that a named person whose evidence did not go
unlearned is the mean of it or has a request still to learn it, that what a request has
read and not yet written is the evidence, and that a request whose person is gone
teaches nobody; at rest this is `LearnedAtRest`. `MergeKeepsRefusals` holds of a merge
by what it writes (`MergeGives`), and no other step removes a person and leaves a
request with one other. `DevelopHolds` (`DevelopCorrect`), for any rounds, editors and
viewers: what a row says fits where its execution is (`RowsFollow`); while nothing
raced, one round is open, the newest, it is at work only while it has its row and paints
on what is below it (`OneOpen`), a result's file carries its own round and those of the
ready ones below (`DiskCarries`), and a ready row without its file is the one an undo
cut off (`Unlinked`), on which nothing can be built; what a viewer resolved or cached is
of the number it resolved, as long as that number was given once (`OnePicture`).
`RemoteHolds` (`RemoteCorrect`): what a request is about to save has public access on
only if it loaded it so or asks for it.

`SearchHolds` (`SearchCorrect`), for any clips, frames, passages, limits and
searches. `LookingInv` says of a search whose catalogue stayed as it was that every
list it has was drawn from the catalogue as it is (`OfNow`). `Those`, what is at some
places of a list, is a recursive function: that it exists for lists of any length
(`Unfolds`), what it holds (`ThoseAre`) and that the part of a beginning is a
beginning of the part (`ThoseFirst`) are proved from the well-founded order of the
naturals. From the last come that a window that fills the limit already ends with
the nearest clips of the widest one (`EnoughIsAll`), and that what is said as a
whole is heard first (`FilledUp`). The proof needs the frames of a window in the
order of their distance: an earlier model took the first frame of a clip in time,
which satisfied every run and was not what `_best_frame_per_asset` selects.

Only model-checked, and why:

- Every liveness property (`ScansEnd`, `Converges`, `ExportEnds`, `NothingForgotten`,
  `Settles`, `StudioEnds`, `HouseSettles`, `BackroomEnds`): fairness and ENABLED are out
  of the prover's reach.
- `CurateCorrect`, `ShowcaseCorrect`: medians, merges of folders and shortlists are
  folds and selections with operators for arguments, which the provers do not
  expand.

## Not modelled

Of the pipeline: proxies and previews, and several frames of a clip, which one
sampling replaces together. Storage mounts are requests and results exchanged as
files with a helper outside the program; `Reconcile` has the shares that come and
go. Assets, media and streaming, the MCP connector's tools, the web client, panel
and plug-in read and return what is modelled elsewhere and keep no state. See
`PROJECT.json` for the reason beside each part. What files contain, what a model
hears or sees, image processing and pages are data here. PostgreSQL's transactions
are taken as read committed; Redis keeps its queues.
