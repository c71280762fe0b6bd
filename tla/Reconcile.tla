----------------------------- MODULE Reconcile -----------------------------
(***************************************************************************)
(* The catalogue against the disk: what a scan, the watcher's drains and a *)
(* worker's look at a file do to the asset rows while people move, copy,   *)
(* rewrite and delete files and network shares drop and come back.         *)
(*                                                                         *)
(*   scanner/scan.py          the walk, indexing, moves, the missing check *)
(*   scanner/identity.py      partial hash      scanner/stability.py       *)
(*   scanner/__main__.py      _drain_watch_queue, _drain_departures        *)
(*   storage/reachability.py  is the share there?                          *)
(*   processing/tasks.py      _with_asset's check of the original          *)
(*                                                                         *)
(* A file's content stands for its size, its mtime and its bytes: rewriting*)
(* it gives it another.  A row keeps two, the stat that was indexed and the*)
(* hash that was read later.  A batch of the walk is one file.  The scanner*)
(* is one sequential process, so its scan and its drains do not overlap.   *)
(***************************************************************************)
EXTENDS Naturals, FiniteSets

CONSTANTS
    Assets,      \* identities of asset rows (bound: rows ever created)
    Libraries,
    Dirs,        \* directories; each library's root is one of them
    Paths,       \* file paths
    LibraryOf,   \* [Dirs -> Libraries]
    RootOf,      \* [Libraries -> Dirs]
    DirOf,       \* [Paths -> Dirs]
    Contents,
    MaxChanges,  \* bound: what people do to the disk
    MaxRewrites, \* bound: of these, rewrites and copies in progress
    MaxDrops,    \* bound: times a share drops
    MaxAborts,   \* bound: scans cancelled or killed half way
    MaxTogether, \* bound: all of these in one behaviour
    NoFile, NoPath, NoLibrary, NoItem

ASSUME ReconcileAssumption ==
    /\ LibraryOf \in [Dirs -> Libraries]
    /\ RootOf \in [Libraries -> Dirs]
    /\ \A l \in Libraries : LibraryOf[RootOf[l]] = l
    /\ DirOf \in [Paths -> Dirs]
    /\ MaxChanges \in Nat /\ MaxRewrites \in Nat /\ MaxDrops \in Nat /\ MaxAborts \in Nat
    /\ MaxTogether \in Nat
    /\ NoFile \notin Contents /\ NoPath \notin Paths /\ NoLibrary \notin Libraries

VARIABLES
    disk,      \* the files that are really there
    hot,       \* paths written to within the quiet period
    up,        \* is the library's share mounted?
    place,     \* row: library_id and relative_path
    stamp,     \* row: size_bytes and mtime
    hash,      \* row: partial_hash
    avail,     \* row: availability
    scanning,  \* library run_scan is walking
    dirs,      \* directories pushed and not yet listed
    names,     \* files listed and not yet stat'd
    unread,    \* directories that could not be listed
    item,      \* the file in hand: its stat, then its hash
    verified,  \* rows with last_verified_at >= the start of the scan
    worker,    \* _with_asset between its read, its look and its write
    used,      \* budgets spent
    absent     \* history: paths that had no file at some time in the scan

files   == <<disk, hot, absent>>
rowVars == <<place, stamp, hash, avail>>
walk    == <<scanning, dirs, names, unread, item, verified>>
vars    == <<files, up, rowVars, walk, worker, used>>

LibOf(p)      == LibraryOf[DirOf[p]]
FilesOf(l)    == {p \in Paths : LibOf(p) = l /\ disk[p] # NoFile}
There(p)      == up[LibOf(p)] /\ disk[p] # NoFile    \* path.exists(), is_file()
Rows          == {a \in Assets : place[a] # NoPath}
RowsOf(l)     == {a \in Rows : LibOf(place[a]) = l}
RowsAt(p)     == {a \in Rows : place[a] = p}

Item    == [path : Paths, stat : Contents, atRest : BOOLEAN, hash : Contents \cup {NoFile}]
Look    == [asset : Assets, path : Paths, was : {"online", "missing", "unmounted"},
            step : {"loaded", "gone"}]
Budgets == [changes : 0..MaxChanges, rewrites : 0..MaxRewrites,
            drops : 0..MaxDrops, aborts : 0..MaxAborts]

ASSUME NothingInHand == NoItem \notin Item

TypeOK ==
    /\ disk \in [Paths -> Contents \cup {NoFile}]
    /\ hot \subseteq Paths
    /\ up \in [Libraries -> BOOLEAN]
    /\ place \in [Assets -> Paths \cup {NoPath}]
    /\ stamp \in [Assets -> Contents \cup {NoFile}]
    /\ hash \in [Assets -> Contents \cup {NoFile}]
    /\ avail \in [Assets -> {"online", "missing", "unmounted"}]
    /\ scanning \in Libraries \cup {NoLibrary}
    /\ dirs \subseteq Dirs /\ unread \subseteq Dirs
    /\ names \subseteq Paths
    /\ item \in Item \cup {NoItem}
    /\ verified \subseteq Assets
    /\ worker \in Look \cup {NoItem}
    /\ used \in Budgets
    /\ absent \subseteq Paths

Init ==
    /\ disk \in [Paths -> Contents \cup {NoFile}]
    /\ hot = {}
    /\ up = [l \in Libraries |-> TRUE]
    /\ place = [a \in Assets |-> NoPath]
    /\ stamp = [a \in Assets |-> NoFile]
    /\ hash = [a \in Assets |-> NoFile]
    /\ avail = [a \in Assets |-> "online"]
    /\ scanning = NoLibrary /\ dirs = {} /\ names = {} /\ unread = {}
    /\ item = NoItem /\ verified = {}
    /\ worker = NoItem
    /\ used = [changes |-> 0, rewrites |-> 0, drops |-> 0, aborts |-> 0]
    /\ absent = {}

-----------------------------------------------------------------------------
(* People and the network *)

Idle == scanning = NoLibrary

Spend(budget, max) ==
    /\ used[budget] < max
    /\ used.changes + used.rewrites + used.drops + used.aborts < MaxTogether
    /\ used' = [used EXCEPT ![budget] = @ + 1]

(* What people do leaves the database alone; a running scan could have     *)
(* witnessed the paths it leaves empty.                                    *)
DiskOnly ==
    /\ absent' = IF Idle THEN {} ELSE absent \cup {p \in Paths : disk'[p] = NoFile}
    /\ UNCHANGED <<up, rowVars, walk, worker>>

(* A rename keeps size and mtime: the file is at rest where it arrives. *)
MoveFile(p, q) ==
    /\ disk[p] # NoFile /\ disk[q] = NoFile
    /\ disk' = [disk EXCEPT ![q] = disk[p], ![p] = NoFile]
    /\ hot' = hot \ {p}
    /\ Spend("changes", MaxChanges) /\ DiskOnly

DeleteFile(p) ==
    /\ disk[p] # NoFile
    /\ disk' = [disk EXCEPT ![p] = NoFile]
    /\ hot' = hot \ {p}
    /\ Spend("changes", MaxChanges) /\ DiskOnly

(* A copy that keeps the times of its source (cp -p, robocopy). *)
CopyFile(p, q) ==
    /\ disk[p] # NoFile /\ disk[q] = NoFile
    /\ disk' = [disk EXCEPT ![q] = disk[p]]
    /\ UNCHANGED hot
    /\ Spend("changes", MaxChanges) /\ DiskOnly

(* A file is written, or written over: its mtime is now. *)
WriteFile(p, c) ==
    /\ disk[p] # c
    /\ disk' = [disk EXCEPT ![p] = c]
    /\ hot' = hot \cup {p}
    /\ Spend("rewrites", MaxRewrites) /\ DiskOnly

Settle(p) ==
    /\ p \in hot
    /\ hot' = hot \ {p}
    /\ UNCHANGED <<disk, used>> /\ DiskOnly

ShareDown(l) ==
    /\ up[l]
    /\ up' = [up EXCEPT ![l] = FALSE]
    /\ Spend("drops", MaxDrops)
    /\ UNCHANGED <<files, rowVars, walk, worker>>

ShareUp(l) ==
    /\ ~ up[l]
    /\ up' = [up EXCEPT ![l] = TRUE]
    /\ UNCHANGED <<files, rowVars, walk, worker, used>>

-----------------------------------------------------------------------------
(* Reachability *)

(* root_state: a share that is down leaves its mountpoint, empty, or       *)
(* nothing; one that is up may hold empty directories only.                *)
RootStates(l) ==
    IF ~ up[l] THEN {"absent", "empty"}
    ELSE IF FilesOf(l) # {} THEN {"ok"} ELSE {"ok", "empty"}

(* unreachable_reason for a library known to hold `known' rows. *)
Unreachable(state, known) == state = "absent" \/ (state = "empty" /\ known > 0)

-----------------------------------------------------------------------------
(* run_scan: probe and walk *)

(* Defect: an availability nobody knows. *)
ScanUnmountedMisspelt(l) ==
    /\ Idle
    /\ \E state \in RootStates(l) : Unreachable(state, Cardinality(RowsOf(l)))
    /\ avail' = [a \in Assets |-> IF a \in RowsOf(l) THEN "unmount" ELSE avail[a]]
    /\ UNCHANGED <<files, up, place, stamp, hash, walk, worker, used>>

(* The root is not reachable: mark_library_unmounted, and the scan fails. *)
ScanUnmounted(l) ==
    /\ Idle
    /\ \E state \in RootStates(l) : Unreachable(state, Cardinality(RowsOf(l)))
    /\ avail' = [a \in Assets |-> IF a \in RowsOf(l) /\ avail[a] = "online"
                                  THEN "unmounted" ELSE avail[a]]
    /\ UNCHANGED <<files, up, place, stamp, hash, walk, worker, used>>

ScanStart(l) ==
    /\ Idle
    /\ \E state \in RootStates(l) : ~ Unreachable(state, Cardinality(RowsOf(l)))
    /\ scanning' = l
    /\ dirs' = {RootOf[l]}
    /\ names' = {} /\ unread' = {} /\ item' = NoItem /\ verified' = {}
    /\ absent' = {p \in Paths : disk[p] = NoFile}
    /\ UNCHANGED <<disk, hot, up, rowVars, worker, used>>

(* os.scandir on the next directory of the stack: its entries, or an        *)
(* OSError.  An empty mountpoint lists as an empty directory; a directory   *)
(* without files may have been removed since it was pushed.                 *)
ListDir(d) ==
    LET here == {p \in Paths : DirOf[p] = d}
        subdirs == IF d = RootOf[scanning]
                   THEN {DirOf[p] : p \in FilesOf(scanning)} \ {d} ELSE {}
        fails == /\ unread' = unread \cup {d}
                 /\ dirs' = dirs \ {d}
                 /\ UNCHANGED names
    IN
    /\ ~ Idle /\ item = NoItem /\ names = {} /\ d \in dirs
    /\ \/ /\ up[scanning]
          /\ names' = {p \in here : disk[p] # NoFile}
          /\ dirs' = (dirs \ {d}) \cup subdirs
          /\ UNCHANGED unread
       \/ ~ up[scanning] /\ fails
       \/ ~ up[scanning] /\ d = RootOf[scanning]
          /\ dirs' = dirs \ {d} /\ UNCHANGED <<names, unread>>
       \/ d # RootOf[scanning] /\ (\A p \in here : disk[p] = NoFile) /\ fails
    /\ UNCHANGED <<files, up, rowVars, scanning, item, verified, worker, used>>

(* entry.stat(): the file is in hand, or skipped without a word. *)
StatFile(p) ==
    /\ ~ Idle /\ item = NoItem /\ p \in names
    /\ names' = names \ {p}
    /\ item' = IF There(p)
               THEN [path |-> p, stat |-> disk[p], atRest |-> p \notin hot, hash |-> NoFile]
               ELSE NoItem
    /\ UNCHANGED <<files, up, rowVars, scanning, dirs, unread, verified, worker, used>>

-----------------------------------------------------------------------------
(* What is done with a file, by a scan or by the watcher *)

(* partial_hash of what is there by now, or an OSError. *)
HashNow(p) == IF There(p) THEN disk[p] ELSE NoFile

(* _index_new_file's choice: a row of the same size and hash whose file is  *)
(* not to be seen where it was, this library's rows first.                  *)
Movable(p, s, h) ==
    {a \in Rows : stamp[a] = s /\ hash[a] = h /\ s = h /\ ~ There(place[a])}
Preferred(p, s, h) ==
    LET own == {a \in Movable(p, s, h) : LibOf(place[a]) = LibOf(p)}
    IN  IF own # {} THEN own ELSE Movable(p, s, h)

(* Writes path p, stat s, hash h into row a, online. *)
Write(a, p, s, h) ==
    /\ place' = [place EXCEPT ![a] = p]
    /\ stamp' = [stamp EXCEPT ![a] = s]
    /\ hash'  = [hash EXCEPT ![a] = h]
    /\ avail' = [avail EXCEPT ![a] = "online"]

(* _index_new_file once the hash is there: rebind a row, or insert one.     *)
(* When the bound on rows leaves none, the file is left for a later pass.   *)
Index(p, s, h) ==
    \/ \E a \in Preferred(p, s, h) : Write(a, p, s, h) /\ verified' = verified \cup {a}
    \/ /\ Movable(p, s, h) = {}
       /\ IF Rows = Assets THEN UNCHANGED <<rowVars, verified>>
          ELSE \E a \in Assets \ Rows : Write(a, p, s, h) /\ verified' = verified \cup {a}

(* Defects: only rows that were not online are stamped; or they are         *)
(* stamped and stay as they were.                                           *)
See(stamped, shown) ==
    /\ item # NoItem
    /\ \E a \in RowsAt(item.path) :
         /\ stamp[a] = item.stat
         /\ verified' = IF stamped \/ avail[a] # "online" THEN verified \cup {a} ELSE verified
         /\ avail' = IF shown THEN [avail EXCEPT ![a] = "online"] ELSE avail
    /\ item' = NoItem
    /\ UNCHANGED <<files, up, place, stamp, hash, scanning, dirs, names, unread, worker, used>>
SeeUnstamped == See(FALSE, TRUE)
SeeHidden    == See(TRUE, FALSE)

(* A file the catalogue has, unchanged: verified, and online again. *)
SeeUnchanged ==
    /\ item # NoItem
    /\ \E a \in RowsAt(item.path) :
         /\ stamp[a] = item.stat
         /\ verified' = verified \cup {a}
         /\ avail' = [avail EXCEPT ![a] = "online"]
    /\ item' = NoItem
    /\ UNCHANGED <<files, up, place, stamp, hash, scanning, dirs, names, unread, worker, used>>

Changed == \E a \in RowsAt(item.path) : stamp[a] # item.stat
New     == RowsAt(item.path) = {}

(* Not at rest, new or changed: deferred to the next pass. *)
Defer ==
    /\ item # NoItem /\ (New \/ Changed) /\ ~ item.atRest
    /\ item' = NoItem
    /\ UNCHANGED <<files, up, rowVars, scanning, dirs, names, unread, verified, worker, used>>

(* The file is read for its hash; if it cannot be, it is deferred too. *)
HashFile ==
    /\ item # NoItem /\ (New \/ Changed) /\ item.atRest /\ item.hash = NoFile
    /\ item' = IF There(item.path) THEN [item EXCEPT !.hash = HashNow(item.path)] ELSE NoItem
    /\ UNCHANGED <<files, up, rowVars, scanning, dirs, names, unread, verified, worker, used>>

IndexFile ==
    /\ item # NoItem /\ New /\ item.hash # NoFile
    /\ Index(item.path, item.stat, item.hash)
    /\ item' = NoItem
    /\ UNCHANGED <<files, up, scanning, dirs, names, unread, worker, used>>

(* _apply_change *)
ApplyChange ==
    /\ item # NoItem /\ Changed /\ item.hash # NoFile
    /\ \E a \in RowsAt(item.path) :
         Write(a, item.path, item.stat, item.hash) /\ verified' = verified \cup {a}
    /\ item' = NoItem
    /\ UNCHANGED <<files, up, scanning, dirs, names, unread, worker, used>>

-----------------------------------------------------------------------------
(* run_scan: the end *)

(* Rows the missing check is about: online, not verified by this scan, and *)
(* not beneath a directory that could not be listed.                       *)
Unseen ==
    {a \in RowsOf(scanning) :
       avail[a] = "online" /\ a \notin verified /\ DirOf[place[a]] \notin unread}

ScanEnd ==
    /\ ~ Idle /\ dirs = {} /\ names = {} /\ item = NoItem
    /\ avail' = IF RootOf[scanning] \in unread THEN avail
                ELSE [a \in Assets |-> IF a \in Unseen THEN "missing" ELSE avail[a]]
    /\ scanning' = NoLibrary /\ unread' = {} /\ verified' = {} /\ absent' = {}
    /\ UNCHANGED <<disk, hot, up, place, stamp, hash, dirs, names, item, worker, used>>

(* Cancelled, killed, or an exception: what was committed stays. *)
ScanAbort ==
    /\ ~ Idle
    /\ scanning' = NoLibrary
    /\ dirs' = {} /\ names' = {} /\ unread' = {} /\ item' = NoItem /\ verified' = {}
    /\ absent' = {}
    /\ Spend("aborts", MaxAborts)
    /\ UNCHANGED <<disk, hot, up, rowVars, worker>>

-----------------------------------------------------------------------------
(* The watcher's drains.  Events are hints - lost, duplicated, late - so   *)
(* any path may come up for either drain whenever the scanner is free.     *)

(* Defect: an event is taken for a new file. *)
DrainInserts(p) ==
    /\ Idle /\ There(p) /\ p \notin hot
    /\ Index(p, disk[p], disk[p])
    /\ UNCHANGED <<files, up, scanning, dirs, names, unread, item, worker, used>>

(* _drain_watch_queue: two equal observations, then the scan's own upsert, *)
(* for a row that is there whether it changed or not.                      *)
DrainCandidate(p) ==
    /\ Idle /\ There(p) /\ p \notin hot
    /\ IF RowsAt(p) = {} THEN Index(p, disk[p], disk[p])
       ELSE \E a \in RowsAt(p) : Write(a, p, disk[p], disk[p]) /\ UNCHANGED verified
    /\ UNCHANGED <<files, up, scanning, dirs, names, unread, item, worker, used>>

(* _drain_departures: the share answers, the path does not exist. *)
DrainDeparture(p) ==
    /\ Idle
    /\ \E state \in RootStates(LibOf(p)) : ~ Unreachable(state, 1)
    /\ ~ There(p)
    /\ \E a \in RowsAt(p) : avail[a] = "online"
    /\ avail' = [a \in Assets |-> IF a \in RowsAt(p) /\ avail[a] = "online"
                                  THEN "missing" ELSE avail[a]]
    /\ UNCHANGED <<files, up, place, stamp, hash, walk, worker, used>>

-----------------------------------------------------------------------------
(* A worker's task on an asset: _with_asset *)

WorkerLoad(a) ==
    /\ worker = NoItem /\ a \in Rows
    /\ worker' = [asset |-> a, path |-> place[a], was |-> avail[a], step |-> "loaded"]
    /\ UNCHANGED <<files, up, rowVars, walk, used>>

(* path.is_file(): the task proper, which leaves these columns alone, or not *)
WorkerLook ==
    /\ worker # NoItem /\ worker.step = "loaded"
    /\ worker' = IF There(worker.path) THEN NoItem ELSE [worker EXCEPT !.step = "gone"]
    /\ UNCHANGED <<files, up, rowVars, walk, used>>

(* ... and the share answers: the row is flagged, unless it already was    *)
(* when it was loaded.                                                     *)
WorkerFlag ==
    /\ worker # NoItem /\ worker.step = "gone"
    /\ \E state \in RootStates(LibOf(worker.path)) :
         avail' = IF Unreachable(state, 1) \/ worker.was = "missing" THEN avail
                  ELSE [avail EXCEPT ![worker.asset] = "missing"]
    /\ worker' = NoItem
    /\ UNCHANGED <<files, up, place, stamp, hash, walk, used>>

-----------------------------------------------------------------------------
People ==
    \/ \E p, q \in Paths : MoveFile(p, q) \/ CopyFile(p, q)
    \/ \E p \in Paths : DeleteFile(p)
    \/ \E p \in Paths, c \in Contents : WriteFile(p, c)

Walk ==
    \/ \E d \in Dirs : ListDir(d)
    \/ \E p \in Paths : StatFile(p)
    \/ SeeUnchanged \/ Defer \/ HashFile \/ IndexFile \/ ApplyChange \/ ScanEnd

Scan(l) == ScanUnmounted(l) \/ ScanStart(l)

Drains == \E p \in Paths : DrainCandidate(p) \/ DrainDeparture(p)

Worker == (\E a \in Assets : WorkerLoad(a)) \/ WorkerLook \/ WorkerFlag

Next ==
    \/ People \/ Walk \/ ScanAbort \/ Drains \/ Worker
    \/ \E p \in Paths : Settle(p)
    \/ \E l \in Libraries : ShareDown(l) \/ ShareUp(l) \/ Scan(l)

Spec == Init /\ [][Next]_vars

(* Every library is on a schedule, so it is scanned again and again        *)
(* (ScanControl); a started walk goes on.  Files come to rest and shares   *)
(* come back.  A watcher event or a task may never come.                   *)
FairSpec ==
    /\ Spec
    /\ WF_vars(Walk)
    /\ \A l \in Libraries : SF_vars(Scan(l)) /\ WF_vars(ShareUp(l))
    /\ \A p \in Paths : WF_vars(Settle(p))

-----------------------------------------------------------------------------
(* Properties *)

(* No step tries to give two rows the same path, which the unique          *)
(* constraint on (library_id, relative_path) would answer by failing the   *)
(* whole pass - whatever moves, copies and rewrites happen between a walk's *)
(* stat, its hash and its bind.                                            *)
OneRowPerPath == \A a, b \in Rows : place[a] = place[b] => a = b

(* Once people leave the disk alone and the shares are back, repeated scans *)
(* bring the catalogue to it for good: every file is online under its path  *)
(* with its content and every online row has its file, whatever happened    *)
(* while earlier walks, drains and tasks were half way.                     *)
Mirrors ==
    /\ \A p \in Paths : disk[p] # NoFile =>
         \E a \in RowsAt(p) : avail[a] = "online" /\ stamp[a] = disk[p] /\ hash[a] = disk[p]
    /\ \A a \in Rows : avail[a] = "online" => disk[place[a]] # NoFile

Converges == <>[]Mirrors

(* "Anything online that this scan never touched is gone from disk": a      *)
(* scan flags a row missing only when its path had no file at some time     *)
(* while the scan ran.                                                      *)
FlagsTheGone == \A a \in Rows : ScanEnd /\ avail'[a] # avail[a] => place[a] \in absent
MissingWasGone == [][FlagsTheGone]_vars

(* ... and so it is as long as nothing was rewritten and no share dropped,  *)
(* however files are moved, copied and removed around the walk.             *)
Calm == used.rewrites = 0 /\ used.drops = 0
CalmlyGone == [][Calm => FlagsTheGone]_vars

=============================================================================
