------------------------------ MODULE Watcher -------------------------------
(***************************************************************************)
(* The file watcher between scans (scanner/watcher.py): the observer's      *)
(* thread and a walk of a moved folder feed the queue, which the scanner's  *)
(* loop drains (_drain_watch_queue, _drain_departures).  A file is the      *)
(* number of its last write, 0 when it is absent; what is old enough to be  *)
(* due is left open.  What is dropped on the way is the next scan's, and    *)
(* remembered in overlooked until the path changes again.                   *)
(***************************************************************************)
EXTENDS Integers, Sequences, FiniteSets, SequencesExt

CONSTANTS
    Paths,              \* files under one folder of the library
    WatchIncidents,     \* bound: writes, deletions, moves and outages
    MaxEvents           \* bound: events the observer has not handled

Folder == "folder"      \* the folder itself, which can leave with all it holds

ASSUME WatcherAssumption ==
    IsFiniteSet(Paths) /\ Folder \notin Paths /\ {WatchIncidents, MaxEvents} \subseteq Nat

VARIABLES
    file,           \* path -> its last write, 0 when absent
    folder,         \* a folder of that name is there
    shareUp,        \* the mount answers
    events,         \* what watchdog reported and the observer has not handled
    observer,       \* the observer's offer between its stat and the lock
    walk,           \* the walk of a folder that appeared: paths to offer, and one observed
    candidates,     \* WatchQueue._items: path -> the first observation
    departures,     \* WatchQueue._departures, of files and of the folder
    taken,          \* candidates the loop took: path -> the first observation
    leaving,        \* departures the loop took: path -> "due" or "gone"
    asset,          \* path -> [write, availability] of the row there
    overlooked,     \* history: paths whose last change was lost between its event and the catalogue
    watchBudget

watchVars == <<file, folder, shareUp, events, observer, walk, candidates, departures, taken, leaving,
               asset, overlooked, watchBudget>>
world == <<file, folder, shareUp, events>>
queue == <<candidates, departures>>
loop == <<taken, leaving, asset>>

Nobody == [path |-> "none", write |-> 0]
NoRow == [write |-> 0, availability |-> "absent"]

WatcherInit ==
    /\ file = [p \in Paths |-> 0] /\ folder = FALSE /\ shareUp = TRUE /\ events = << >>
    /\ observer = Nobody /\ walk = [todo |-> {}, seen |-> Nobody]
    /\ candidates = << >> /\ departures = {} /\ taken = << >> /\ leaving = << >>
    /\ asset = [p \in Paths |-> NoRow]
    /\ overlooked = {} /\ watchBudget = WatchIncidents

WatcherTypeOK ==
    /\ \A p \in Paths : file[p] \in 0..WatchIncidents
    /\ departures \cup DOMAIN leaving \subseteq Paths \cup {Folder}
    /\ DOMAIN candidates \cup DOMAIN taken \cup overlooked \subseteq Paths
    /\ \A p \in Paths : file[p] # 0 => folder
    /\ \A p \in Paths : asset[p].availability \in {"absent", "online", "missing"}
    /\ watchBudget \in 0..WatchIncidents

Incident == watchBudget > 0 /\ watchBudget' = watchBudget - 1
With(f, p, x) == [q \in DOMAIN f \cup {p} |-> IF q = p THEN x ELSE f[q]]
Without(f, p) == [q \in DOMAIN f \ {p} |-> f[q]]
ASlot(p) == observer = Nobody /\ events # << >> /\ Head(events).path = p

-----------------------------------------------------------------------------
(* The share.  A change of some paths comes with an event, which supersedes *)
(* what was overlooked of them before; or with none, as network mounts do.  *)
Changes(paths, e) ==
    /\ \/ /\ Len(events) < MaxEvents /\ events' = Append(events, e)
          /\ overlooked' = overlooked \ paths
       \/ UNCHANGED events /\ overlooked' = overlooked \cup paths
    /\ UNCHANGED <<shareUp, observer, walk, queue, loop>>

WriteFile(p) ==
    /\ shareUp /\ Incident
    /\ file' = [file EXCEPT ![p] = watchBudget] /\ folder' = TRUE
    /\ Changes({p}, [kind |-> "changed", path |-> p])

DeleteFile(p) ==
    /\ shareUp /\ file[p] # 0 /\ Incident
    /\ file' = [file EXCEPT ![p] = 0] /\ UNCHANGED folder
    /\ Changes({p}, [kind |-> "deleted", path |-> p])

(* A folder that appears, or that is moved away, is one event, whatever it  *)
(* holds.                                                                   *)
FolderAppears ==
    /\ shareUp /\ ~folder /\ Incident /\ folder' = TRUE
    /\ \E P \in (SUBSET Paths) \ {{}} :
          /\ file' = [p \in Paths |-> IF p \in P THEN watchBudget ELSE 0]
          /\ Changes(P, [kind |-> "folder", path |-> Folder])

FolderLeaves ==
    /\ shareUp /\ folder /\ Incident /\ folder' = FALSE
    /\ file' = [p \in Paths |-> 0]
    /\ Changes(Paths, [kind |-> "deleted", path |-> Folder])

ShareDrops ==
    /\ shareUp /\ Incident /\ shareUp' = FALSE
    /\ UNCHANGED <<file, folder, events, observer, walk, queue, loop, overlooked>>

ShareReturns ==
    /\ ~shareUp /\ shareUp' = TRUE
    /\ UNCHANGED <<file, folder, events, observer, walk, queue, loop, overlooked, watchBudget>>

Exists(p) == shareUp /\ file[p] # 0
Unseen(P) == {p \in P : ~shareUp /\ file[p] # 0}

-----------------------------------------------------------------------------
(* offer, in two steps: the file is observed outside the lock ...           *)
Observe(p) == IF Exists(p) THEN [path |-> p, write |-> file[p]] ELSE Nobody

ObserverReads ==
    /\ \E p \in Paths : /\ ASlot(p) /\ Head(events).kind = "changed"
                         /\ observer' = Observe(p) /\ overlooked' = overlooked \cup Unseen({p})
    /\ events' = Tail(events)
    /\ UNCHANGED <<file, folder, shareUp, walk, queue, loop, watchBudget>>

(* ... and under it queued, restarting the wait when its size is another    *)
(* one (a new write may or may not change it); it is no departure any more. *)
Queue(o) ==
    /\ \E restart \in BOOLEAN :
          candidates' = IF o.path \in DOMAIN candidates /\ ~restart THEN candidates
                        ELSE With(candidates, o.path, o.write)
    /\ departures' = departures \ {o.path}
    /\ overlooked' = IF o.path \in departures /\ file[o.path] = 0
                     THEN overlooked \cup {o.path} ELSE overlooked

ObserverQueues ==
    /\ observer # Nobody /\ Queue(observer) /\ observer' = Nobody
    /\ UNCHANGED <<world, walk, loop, watchBudget>>

(* Defect: a deletion that finds a candidate only drops it. *)
DepartDropsCandidate ==
    /\ \E p \in Paths :
          /\ ASlot(p) /\ Head(events).kind = "deleted"
          /\ candidates' = Without(candidates, p)
          /\ departures' = IF p \in DOMAIN candidates THEN departures ELSE departures \cup {p}
    /\ events' = Tail(events)
    /\ UNCHANGED <<file, folder, shareUp, observer, walk, loop, overlooked, watchBudget>>

(* A file's departure, or a folder's, in one and the same lane. *)
Depart ==
    /\ \E p \in Paths \cup {Folder} :
          /\ ASlot(p) /\ Head(events).kind = "deleted"
          /\ candidates' = Without(candidates, p)
          /\ departures' = departures \cup {p}
    /\ events' = Tail(events)
    /\ UNCHANGED <<file, folder, shareUp, observer, walk, loop, overlooked, watchBudget>>

(* on_moved of a folder: its files are offered from a thread of their own.  *)
StartWalk ==
    /\ observer = Nobody /\ events # << >> /\ Head(events).kind = "folder"
    /\ events' = Tail(events)
    /\ walk' = [walk EXCEPT !.todo = @ \cup {p \in Paths : Exists(p)}]
    /\ overlooked' = overlooked \cup Unseen(Paths)
    /\ UNCHANGED <<file, folder, shareUp, observer, queue, loop, watchBudget>>

WalkReads ==
    /\ walk.seen = Nobody
    /\ \E p \in walk.todo : /\ walk' = [todo |-> walk.todo \ {p}, seen |-> Observe(p)]
                           /\ overlooked' = overlooked \cup Unseen({p})
    /\ UNCHANGED <<world, observer, queue, loop, watchBudget>>

WalkQueues ==
    /\ walk.seen # Nobody /\ Queue(walk.seen) /\ walk' = [walk EXCEPT !.seen = Nobody]
    /\ UNCHANGED <<world, observer, loop, watchBudget>>

(* The walk stops at MAX_MOVED_TREE_FILES. *)
WalkStops ==
    /\ walk.todo # {} /\ Incident /\ walk' = [walk EXCEPT !.todo = {}]
    /\ overlooked' = overlooked \cup walk.todo
    /\ UNCHANGED <<world, observer, queue, loop>>

-----------------------------------------------------------------------------
(* due: the loop takes them out of the queue. *)
TakeDue ==
    /\ taken = << >> /\ leaving = << >> /\ candidates # << >>
    /\ taken' = candidates /\ candidates' = << >>
    /\ UNCHANGED <<world, observer, walk, departures, leaving, asset, overlooked, watchBudget>>

(* Defect: an unstable file waits on with the observation it had. *)
DrainKeepsFirst(p) ==
    /\ p \in DOMAIN taken /\ taken' = Without(taken, p)
    /\ overlooked' = overlooked \cup Unseen({p})
    /\ IF ~Exists(p) THEN UNCHANGED <<candidates, asset>>
       ELSE IF file[p] # taken[p]
       THEN candidates' = With(candidates, p, taken[p]) /\ UNCHANGED asset
       ELSE /\ asset' = [asset EXCEPT ![p] = [write |-> file[p], availability |-> "online"]]
            /\ UNCHANGED candidates
    /\ UNCHANGED <<world, observer, walk, departures, leaving, watchBudget>>

(* One candidate of _drain_watch_queue: vanished, still unstable (requeued  *)
(* over whatever was offered meanwhile), or indexed as it is now.           *)
Drain(p) ==
    /\ p \in DOMAIN taken /\ taken' = Without(taken, p)
    /\ overlooked' = overlooked \cup Unseen({p})
    /\ IF ~Exists(p) THEN UNCHANGED <<queue, asset>>
       ELSE IF file[p] # taken[p]
       THEN candidates' = With(candidates, p, file[p]) /\ UNCHANGED <<departures, asset>>
       ELSE /\ asset' = [asset EXCEPT ![p] = [write |-> file[p], availability |-> "online"]]
            /\ UNCHANGED queue
    /\ UNCHANGED <<world, observer, walk, leaving, watchBudget>>

(* departures_due. *)
TakeDepartures ==
    /\ taken = << >> /\ leaving = << >> /\ departures # {}
    /\ leaving' = [p \in departures |-> "due"] /\ departures' = {}
    /\ UNCHANGED <<world, observer, walk, candidates, taken, asset, overlooked, watchBudget>>

(* A share that dropped makes every file look departed: the claim is let    *)
(* go.  So is that of a folder when one of its name is there again, even if *)
(* it holds other files than the one that left.                             *)
There(p) == IF p = Folder THEN folder ELSE file[p] # 0
Under(p) == IF p = Folder THEN Paths ELSE {p}
Absent(P) == {p \in P : file[p] = 0}

CheckGone(p) ==
    /\ p \in DOMAIN leaving /\ leaving[p] = "due"
    /\ IF shareUp /\ ~There(p)
       THEN leaving' = With(leaving, p, "gone") /\ UNCHANGED overlooked
       ELSE leaving' = Without(leaving, p) /\ overlooked' = overlooked \cup Absent(Under(p))
    /\ UNCHANGED <<world, observer, walk, queue, taken, asset, watchBudget>>

FlagMissing(p) ==
    /\ p \in DOMAIN leaving /\ leaving[p] = "gone" /\ leaving' = Without(leaving, p)
    /\ asset' = [q \in Paths |-> IF q \in Under(p) /\ asset[q].availability = "online"
                                 THEN [asset[q] EXCEPT !.availability = "missing"] ELSE asset[q]]
    /\ UNCHANGED <<world, observer, walk, queue, taken, overlooked, watchBudget>>

-----------------------------------------------------------------------------
(* What the loop took out of the queue is in its hands alone.  One item is  *)
(* passed over: its library is disabled, or the file cannot be read.        *)
PassOver(p) ==
    /\ p \in DOMAIN taken \cup DOMAIN leaving /\ Incident
    /\ taken' = Without(taken, p) /\ leaving' = Without(leaving, p)
    /\ overlooked' = overlooked \cup Under(p)
    /\ UNCHANGED <<world, observer, walk, queue, asset>>

InHand == UNION {Under(p) : p \in DOMAIN taken \cup DOMAIN leaving}
Waiting ==
    UNION {Under(p) : p \in DOMAIN candidates \cup departures}
      \cup UNION {IF e.kind = "folder" THEN Paths ELSE Under(e.path) : e \in ToSet(events)}
      \cup walk.todo \cup ({observer.path, walk.seen.path} \cap Paths)

(* An exception ends the pass: the rest of what it took is gone. *)
PassFails ==
    /\ InHand # {} /\ Incident
    /\ taken' = << >> /\ leaving' = << >>
    /\ overlooked' = overlooked \cup InHand
    /\ UNCHANGED <<world, observer, walk, queue, asset>>

(* The queue is the scanner process's memory. *)
ScannerStops ==
    /\ InHand \cup Waiting # {} /\ Incident
    /\ events' = << >> /\ observer' = Nobody /\ walk' = [todo |-> {}, seen |-> Nobody]
    /\ candidates' = << >> /\ departures' = {} /\ taken' = << >> /\ leaving' = << >>
    /\ overlooked' = overlooked \cup InHand \cup Waiting
    /\ UNCHANGED <<file, folder, shareUp, asset>>

ObserverActs == ObserverReads \/ ObserverQueues \/ Depart \/ StartWalk
WalkActs == WalkReads \/ WalkQueues
LoopActs ==
    \/ TakeDue \/ TakeDepartures
    \/ \E p \in Paths : Drain(p)
    \/ \E p \in Paths \cup {Folder} : CheckGone(p) \/ FlagMissing(p)

WatcherNext ==
    \/ \E p \in Paths : WriteFile(p) \/ DeleteFile(p)
    \/ FolderAppears \/ FolderLeaves \/ ShareDrops \/ ShareReturns
    \/ WalkStops \/ PassFails \/ ScannerStops \/ \E p \in Paths \cup {Folder} : PassOver(p)
    \/ ObserverActs \/ WalkActs \/ LoopActs

WatcherFairness ==
    /\ WF_watchVars(ObserverActs) /\ WF_watchVars(WalkActs) /\ WF_watchVars(LoopActs)
    /\ WF_watchVars(TakeDepartures) /\ WF_watchVars(TakeDue)

WatcherSpec == WatcherInit /\ [][WatcherNext]_watchVars /\ WatcherFairness

-----------------------------------------------------------------------------
(* Once the share is quiet, no file that is gone is online in the catalogue,*)
(* unless its departure was lost since: to an offer that had observed the   *)
(* file before it went, to an outage or a folder of the same name when it   *)
(* was due, or to a pass, an event or a scanner that was lost with it.      *)
GoneIsFlagged ==
    <>[](\A p \in Paths \ overlooked :
             file[p] = 0 /\ shareUp => asset[p].availability # "online")

(* A file that stays as it is, on a share that stays up, is indexed as it   *)
(* is, however the writes, moves, offers and drains before were ordered,    *)
(* unless its last change was lost on the way (overlooked).                 *)
PresentIsIndexed ==
    <>[](\A p \in Paths \ overlooked :
             file[p] # 0 /\ shareUp => asset[p] = [write |-> file[p], availability |-> "online"])

=============================================================================
