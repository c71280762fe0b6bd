----------------------------- MODULE Organizer -----------------------------
(***************************************************************************)
(* The Google Drive organiser (api/v1/gdrive.py, integrations/organize.py, *)
(* integrations/gdrive.py): propose names in walk-through order, apply the  *)
(* approved ones one call at a time, leave a manifest in the folder, undo   *)
(* from the newest manifest.  Drive answers each call, refuses it, or the   *)
(* connection drops, which no caller catches.                               *)
(***************************************************************************)
EXTENDS Integers, Sequences, FiniteSets, SequencesExt

CONSTANTS
    Files,              \* the photographs of one Drive folder
    RoomRank,           \* file -> place of the room it classifies to (distinct scores: no ties)
    Operators,          \* requests under way at a time
    OrganizeIncidents   \* bound: previews and undos asked for

ASSUME OrganizerAssumption ==
    /\ IsFiniteSet(Files) /\ RoomRank \in [Files -> Nat]
    /\ \A f, g \in Files : RoomRank[f] = RoomRank[g] => f = g
    /\ OrganizeIncidents \in Nat

VARIABLES
    names,          \* file -> [prefixes, stem]: "07 - Kitchen - IMG_1731" has one prefix
    manifests,      \* id -> [renames: entries of a plan, before]: in order of creation
    newestId,
    drive,          \* request -> where it is
    refused,        \* history: Drive refused the upload of a manifest
    muddled,        \* history: what went wrong: "overlap", "stale" (plan), "lost" (manifest, call),
                    \*   "gap" (a manifest removed between older and newer ones)
    lastUndo,       \* history: the names before the apply that was undone without failures
    organizes,      \* history: applies begun
    organizeBudget

organizerVars == <<names, manifests, newestId, drive, refused, muddled, lastUndo, organizes,
                   organizeBudget>>

Camera == [f \in Files |-> [prefixes |-> << >>, stem |-> f]]
NoUndo == << >>
NoRequest == [pc |-> "free", plan |-> << >>, done |-> << >>, found |-> 0, failed |-> FALSE,
             before |-> Camera]

OrganizerInit ==
    /\ names = Camera /\ manifests = << >> /\ newestId = 0
    /\ drive = [o \in Operators |-> NoRequest]
    /\ refused = FALSE /\ muddled = {} /\ lastUndo = NoUndo /\ organizes = 0
    /\ organizeBudget = OrganizeIncidents

Quiet == \A o \in Operators : drive[o].pc \in {"free", "shown"}
Overlap == IF Quiet THEN {} ELSE {"overlap"}
Newest == Max({0} \cup DOMAIN manifests)

-----------------------------------------------------------------------------
(* Defect: a sorted name is taken for the camera's. *)
StemAsIs(name) == name

(* original_stem: without the prefix an earlier pass gave it. *)
OriginalStem(name) ==
    IF name.prefixes = << >> THEN name ELSE [name EXCEPT !.prefixes = Tail(@)]

ProposedName(index, f) ==
    [OriginalStem(names[f]) EXCEPT !.prefixes = <<[index |-> index, room |-> RoomRank[f]]>> \o @]

(* organize_preview: the files that could be placed, in walk-through order; *)
(* the others are left alone.                                               *)
Preview(o) ==
    /\ drive[o].pc = "free" /\ organizeBudget > 0 /\ organizeBudget' = organizeBudget - 1
    /\ \E n \in 1..Cardinality(Files) : \E order \in [1..n -> Files] :
          /\ \A i, j \in 1..n : i < j => RoomRank[order[i]] < RoomRank[order[j]]
          /\ drive' = [drive EXCEPT ![o].pc = "shown", ![o].plan =
                         [i \in 1..n |-> [file |-> order[i], old |-> names[order[i]],
                                          new |-> ProposedName(i, order[i])]]]
    /\ UNCHANGED <<names, manifests, newestId, refused, muddled, lastUndo, organizes>>

(* organize_apply takes the plan the client sends back. *)
ApplyBegins(o) ==
    /\ drive[o].pc = "shown"
    /\ drive' = [drive EXCEPT ![o].pc = "rename", ![o].before = names]
    /\ organizes' = organizes + 1 /\ lastUndo' = NoUndo
    /\ muddled' = muddled \cup Overlap
                  \cup {"stale" : e \in {e \in ToSet(drive[o].plan) : e.old # names[e.file]}}
    /\ UNCHANGED <<names, manifests, newestId, refused, organizeBudget>>

(* _apply_renames: one call per file; one that Drive refuses is skipped. *)
RenameOne(o) ==
    /\ drive[o].pc = "rename" /\ drive[o].plan # << >>
    /\ LET e == Head(drive[o].plan)
       IN  \/ /\ names' = [names EXCEPT ![e.file] = e.new]
              /\ drive' = [drive EXCEPT ![o].plan = Tail(@), ![o].done = Append(@, e)]
           \/ drive' = [drive EXCEPT ![o].plan = Tail(@)] /\ UNCHANGED names
    /\ UNCHANGED <<manifests, newestId, refused, muddled, lastUndo, organizes, organizeBudget>>

(* The manifest that is there is looked up before the new one is written. *)
FindOld(o) ==
    /\ drive[o].pc = "rename" /\ drive[o].plan = << >>
    /\ drive' = IF drive[o].done = << >> THEN [drive EXCEPT ![o] = NoRequest]
               ELSE [drive EXCEPT ![o].pc = "upload", ![o].found = Newest]
    /\ UNCHANGED <<names, manifests, newestId, refused, muddled, lastUndo, organizes,
                   organizeBudget>>

Without(id) == [m \in DOMAIN manifests \ {id} |-> manifests[m]]
Written(o) ==
    [m \in DOMAIN manifests \cup {newestId + 1} |->
       IF m \in DOMAIN manifests THEN manifests[m]
       ELSE [renames |-> drive[o].done, before |-> drive[o].before]]

(* Defect: the old manifest is removed first. *)
UploadAfterDelete(o) ==
    /\ drive[o].pc = "upload"
    /\ IF drive[o].found # 0
       THEN /\ manifests' = Without(drive[o].found) /\ drive' = [drive EXCEPT ![o].found = 0]
            /\ UNCHANGED newestId
       ELSE /\ newestId' = newestId + 1
            /\ manifests' = Written(o)
            /\ drive' = [drive EXCEPT ![o].pc = "remove"]
    /\ UNCHANGED <<names, refused, muddled, lastUndo, organizes, organizeBudget>>

Upload(o) ==
    /\ drive[o].pc = "upload"
    /\ newestId' = newestId + 1 /\ manifests' = Written(o)
    /\ drive' = [drive EXCEPT ![o].pc = "remove"]
    /\ UNCHANGED <<names, refused, muddled, lastUndo, organizes, organizeBudget>>

(* A refused upload is logged: the renames stand. *)
UploadRefused(o) ==
    /\ drive[o].pc = "upload" /\ drive' = [drive EXCEPT ![o] = NoRequest]
    /\ refused' = TRUE /\ muddled' = muddled \cup {"lost"}
    /\ UNCHANGED <<names, manifests, newestId, lastUndo, organizes, organizeBudget>>

(* The old one is removed, or kept when Drive refuses: the newest counts. *)
RemoveOld(o) ==
    /\ drive[o].pc = "remove" /\ drive' = [drive EXCEPT ![o] = NoRequest]
    /\ \/ UNCHANGED <<manifests, muddled>>
       \/ /\ manifests' = Without(drive[o].found)
          /\ muddled' = muddled \cup {"gap" : m \in {m \in DOMAIN manifests : m < drive[o].found}}
    /\ UNCHANGED <<names, newestId, refused, lastUndo, organizes, organizeBudget>>

-----------------------------------------------------------------------------
(* Defect: any manifest of that name will do. *)
FindAny == IF manifests = << >> THEN 0 ELSE Min(DOMAIN manifests)

(* find_file: by creation time, newest first. *)
FindManifest == Newest

(* organize_undo: the old names of the newest manifest, in its order. *)
UndoBegins(o) ==
    /\ drive[o].pc = "free" /\ organizeBudget > 0 /\ organizeBudget' = organizeBudget - 1
    /\ FindManifest # 0
    /\ LET m == manifests[FindManifest]
       IN  drive' = [drive EXCEPT ![o] = [NoRequest EXCEPT
              !.pc = "restore", !.found = FindManifest, !.before = m.before, !.plan = m.renames]]
    /\ muddled' = muddled \cup Overlap /\ lastUndo' = NoUndo
    /\ UNCHANGED <<names, manifests, newestId, refused, organizes>>

RestoreOne(o) ==
    /\ drive[o].pc = "restore" /\ drive[o].plan # << >>
    /\ LET e == Head(drive[o].plan)
       IN  \/ /\ names' = [names EXCEPT ![e.file] = e.old]
              /\ drive' = [drive EXCEPT ![o].plan = Tail(@)]
           \/ drive' = [drive EXCEPT ![o].plan = Tail(@), ![o].failed = TRUE] /\ UNCHANGED names
    /\ UNCHANGED <<manifests, newestId, refused, muddled, lastUndo, organizes, organizeBudget>>

(* Without failures the manifest goes; with some it stays for another try. *)
UndoEnds(o) ==
    /\ drive[o].pc = "restore" /\ drive[o].plan = << >>
    /\ IF drive[o].failed THEN UNCHANGED <<manifests, lastUndo>>
       ELSE /\ manifests' = Without(drive[o].found)
            /\ lastUndo' = drive[o].before
    /\ drive' = [drive EXCEPT ![o] = NoRequest]
    /\ UNCHANGED <<names, newestId, refused, muddled, organizes, organizeBudget>>

(* _request lets the client's own errors through: the request ends there. *)
ConnectionDrops(o) ==
    /\ drive[o].pc \in {"rename", "upload", "remove", "restore"}
    /\ drive' = [drive EXCEPT ![o] = NoRequest] /\ muddled' = muddled \cup {"lost"}
    /\ UNCHANGED <<names, manifests, newestId, refused, lastUndo, organizes, organizeBudget>>

OrganizerNext ==
    \E o \in Operators :
        \/ Preview(o) \/ ApplyBegins(o) \/ RenameOne(o) \/ FindOld(o)
        \/ Upload(o) \/ UploadRefused(o) \/ RemoveOld(o)
        \/ UndoBegins(o) \/ RestoreOne(o) \/ UndoEnds(o) \/ ConnectionDrops(o)

OrganizerSpec == OrganizerInit /\ [][OrganizerNext]_organizerVars

-----------------------------------------------------------------------------
OrganizerTypeOK ==
    /\ DOMAIN names = Files /\ DOMAIN manifests \subseteq 1..newestId
    /\ \A o \in Operators : drive[o].pc \in {"free", "shown", "rename", "upload", "remove", "restore"}
    /\ organizeBudget \in 0..OrganizeIncidents /\ organizes \in Nat

(* The name keeps the camera's stem, under one prefix at most, however many *)
(* passes and undos the folder goes through: it is the join key to the RAW. *)
StemKept == \A f \in Files : names[f].stem = f /\ Len(names[f].prefixes) <= 1

(* Undo without failures gives back every name as it was before the apply   *)
(* it undoes, though older manifests could not be removed, unless one that  *)
(* came between was; requests that overlap, lost manifests and out-of-date  *)
(* plans are excepted.                                                      *)
UndoRestores == lastUndo # NoUndo /\ muddled = {} => names = lastUndo

(* Once the folder has a manifest it has one until an undo has put back     *)
(* every name in it, whatever is refused or dropped in between (an undo     *)
(* beside an apply may leave none).                                         *)
ManifestSurvives ==
    []["overlap" \notin muddled /\ manifests # << >> /\ manifests' = << >> =>
          \E o \in Operators : drive[o].pc = "restore" /\ drive[o].plan = << >> /\ ~drive[o].failed
      ]_organizerVars

(* "A manifest written into the folder records old to new so undo is one    *)
(* call": what the first apply renamed is in a manifest when it is over.    *)
RenamesAreRecorded ==
    Quiet /\ organizes = 1 /\ ~refused =>
        \A f \in Files : names[f] # Camera[f] =>
            \E id \in DOMAIN manifests : \E e \in ToSet(manifests[id].renames) : e.file = f

=============================================================================
