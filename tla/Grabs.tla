-------------------------------- MODULE Grabs --------------------------------
(***************************************************************************)
(* Full-size stills of videos, extracted when the panel asks for one        *)
(* (api/v1/panel.py, frame_grab).  Requests run side by side in one         *)
(* process; each await lets another go on.  A still takes one unit of the   *)
(* disk, whose other use is left out.                                       *)
(***************************************************************************)
EXTENDS Integers, FiniteSets

CONSTANTS
    Stills,             \* <<video, ms>>
    Asks,               \* requests under way
    MaxGrabs,           \* MAX_GRABS_PER_VIDEO
    GrabSlots,          \* GRAB_SLOTS
    DiskUnits, FreeFloor, \* the disk, and min_free_gb
    GrabIncidents       \* bound: requests, and deaths of the process

ASSUME GrabsAssumption ==
    /\ MaxGrabs \in Nat \ {0} /\ GrabSlots \in Nat \ {0} /\ GrabIncidents \in Nat
    /\ DiskUnits \in Nat /\ FreeFloor \in 0..DiskUnits /\ IsFiniteSet(Stills) /\ IsFiniteSet(Asks)

VARIABLES
    stills,             \* stills with a file of their name
    complete,           \* those whose file is whole
    leaked,             \* partial files nobody writes any more: <<video, n>>
    ask,                \* request -> [at, want, answer]
    grabBudget

grabVars == <<stills, complete, leaked, ask, grabBudget>>

VideoOf(still) == still[1]
NoAsk == [at |-> "idle", want |-> << >>, answer |-> "none"]

GrabsInit ==
    /\ stills = {} /\ complete = {} /\ leaked = {} /\ ask = [r \in Asks |-> NoAsk]
    /\ grabBudget = GrabIncidents

GrabIncident == grabBudget > 0 /\ grabBudget' = grabBudget - 1
Goes(r, at) == ask' = [ask EXCEPT ![r].at = at]
Answered(r, answer) == ask' = [ask EXCEPT ![r].at = "idle", ![r].answer = answer]
Unwritten == UNCHANGED <<stills, complete, leaked, grabBudget>>

(* A video's lock covers its slot, its checks and its extraction. *)
Slotted == {r \in Asks : ask[r].at \in {"counting", "measuring", "writing"}}
Locked == Slotted \cup {r \in Asks : ask[r].at = "locked"}
Writing == {r \in Asks : ask[r].at = "writing"}

(* _count_grabs: partial files have the suffix too. *)
FilesOf(v) ==
    Cardinality({s \in stills : VideoOf(s) = v}) + Cardinality({l \in leaked : l[1] = v})
    + Cardinality({r \in Writing : VideoOf(ask[r].want) = v /\ ask[r].want \notin stills})

(* What is being written has not taken its place yet.                       *)
FreeUnits == DiskUnits - Cardinality(stills) - Cardinality(leaked)

-----------------------------------------------------------------------------
(* A still that is there is served at once. *)
AskFor(r, s) ==
    /\ ask[r].at = "idle" /\ GrabIncident
    /\ ask' = [ask EXCEPT ![r] = IF s \in stills THEN [at |-> "idle", want |-> s, answer |-> "still"]
                                 ELSE [at |-> "waiting", want |-> s, answer |-> "none"]]
    /\ UNCHANGED <<stills, complete, leaked>>

(* Defect: there is no lock. *)
NoLock(v) == TRUE

LockIsFree(v) == \A q \in Locked : VideoOf(ask[q].want) # v

TakeLock(r) ==
    /\ ask[r].at = "waiting" /\ LockIsFree(VideoOf(ask[r].want))
    /\ Goes(r, "locked") /\ Unwritten

(* Defect: extractions are not counted across videos. *)
NoLimit == TRUE

SlotIsFree == Cardinality(Slotted) < GrabSlots

(* Defect: what another request wrote meanwhile is not looked for. *)
NoSecondLook(r) == FALSE

WrittenMeanwhile(r) == ask[r].want \in stills

TakeSlot(r) ==
    /\ ask[r].at = "locked" /\ SlotIsFree /\ Unwritten
    /\ IF WrittenMeanwhile(r) THEN Answered(r, "still") ELSE Goes(r, "counting")

Count(r) ==
    /\ ask[r].at = "counting" /\ Unwritten
    /\ IF FilesOf(VideoOf(ask[r].want)) >= MaxGrabs THEN Answered(r, "too many") ELSE Goes(r, "measuring")

(* Defect: ffmpeg writes to the still's own name. *)
ExtractInto(s) == stills' = stills \cup {s} /\ complete' = complete \ {s}

(* A partial of its own name. *)
ExtractBeside(s) == UNCHANGED <<stills, complete>>

(* ensure_space, and the extraction begins. *)
Measure(r) ==
    /\ ask[r].at = "measuring" /\ UNCHANGED <<leaked, grabBudget>>
    /\ IF FreeUnits < FreeFloor THEN Answered(r, "no space") /\ UNCHANGED <<stills, complete>>
       ELSE Goes(r, "writing") /\ ExtractBeside(ask[r].want)

Extracted(r) ==
    /\ ask[r].at = "writing" /\ Answered(r, "still")
    /\ stills' = stills \cup {ask[r].want} /\ complete' = complete \cup {ask[r].want}
    /\ UNCHANGED <<leaked, grabBudget>>

ExtractionFails(r) == ask[r].at = "writing" /\ Answered(r, "failed") /\ Unwritten

(* The process dies; what it was writing stays. *)
GrabberDies ==
    /\ GrabIncident /\ \E r \in Asks : ask[r].at # "idle"
    /\ leaked' = leaked \cup {<<VideoOf(ask[r].want), Cardinality(leaked) + 1>> :
                                r \in {q \in Writing : ask[q].want \notin stills}}
    /\ ask' = [r \in Asks |-> NoAsk] /\ UNCHANGED <<stills, complete>>

GrabsNext ==
    \/ \E r \in Asks : \/ \E s \in Stills : AskFor(r, s)
                       \/ TakeLock(r) \/ TakeSlot(r) \/ Count(r) \/ Measure(r)
                       \/ Extracted(r) \/ ExtractionFails(r)
    \/ GrabberDies

GrabsSpec == GrabsInit /\ [][GrabsNext]_grabVars

-----------------------------------------------------------------------------
GrabsTypeOK ==
    /\ complete \subseteq stills /\ stills \subseteq Stills
    /\ \A r \in Asks : ask[r].at \in {"idle", "waiting", "locked", "counting", "measuring", "writing"}
    /\ grabBudget \in 0..GrabIncidents

(* "A burst of concurrent GETs all ran their checks before any ffmpeg had   *)
(* written a byte": a video never has more files than the cap, those being  *)
(* written and those a dead process left included.                          *)
CapHeld == \A s \in Stills : FilesOf(VideoOf(s)) <= MaxGrabs

(* The slots bound "how far past the floor the writes in flight can go".    *)
FloorHeld == FreeUnits - Cardinality(Writing) >= FreeFloor - GrabSlots

(* "Asked again while this request waited for the lock: serve it": a still  *)
(* that is there is never extracted again.                                  *)
NotGrabbedTwice ==
    [][\A r \in Asks : ask[r].at = "measuring" /\ ask'[r].at = "writing" => ask[r].want \notin stills]_grabVars

(* "A request that dies mid-write must never leave a truncated TIFF where   *)
(* the next import would be served it."                                     *)
ServedIsWhole ==
    [][\A r \in Asks : ask'[r].answer = "still" /\ ask'[r] # ask[r] => ask'[r].want \in complete']_grabVars

=============================================================================
