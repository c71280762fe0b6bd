--------------------------- MODULE MergeLibraries ---------------------------
(***************************************************************************)
(* Folding libraries into one at their common parent folder                *)
(* (ops/merge_libraries.py): a plan read from the database, a gap in which  *)
(* a scanner nobody stopped may still add files, and one transaction that   *)
(* re-parents every asset.  A folder is the sequence of its names.          *)
(***************************************************************************)
EXTENDS Integers, Sequences, FiniteSets, SequencesExt, FiniteSetsExt

CONSTANTS
    Shares,             \* library -> its root folder, when the house starts
    FolderNames,        \* the names folders and files have, here and on workstations
    Stripped,           \* folder name that begins or ends with a dot -> the name without it
    DiskFiles,          \* every file on the shares, as the folder path that ends in its name
    Parents,            \* the folders the operator may ask to merge at
    Profiles,           \* workstation path profiles
    MapsTo,             \* library -> profile -> the workstation folder it maps its root to
    MergeIncidents      \* bound: scans that find a file, plans asked for

ASSUME MergeAssumption ==
    /\ IsFiniteSet(DOMAIN Shares)
    /\ \A l \in DOMAIN Shares : Shares[l] \in Seq(FolderNames) /\ Len(Shares[l]) > 0
    /\ DiskFiles \subseteq Seq(FolderNames) /\ Parents \subseteq Seq(FolderNames)
    /\ DOMAIN MapsTo = DOMAIN Shares
    /\ \A l \in DOMAIN MapsTo : \A p \in DOMAIN MapsTo[l] :
          p \in Profiles /\ MapsTo[l][p] \in Seq(FolderNames)
    /\ MergeIncidents \in Nat

VARIABLES
    root,               \* library -> its root folder; a folded one is gone from the domain
    entry,              \* asset row, by <<who catalogued it, file>> -> [library, path]
    mapped,             \* library -> profile -> workstation folder
    scanRows,           \* library -> status -> how many scans of it
    planned,            \* the plan of the merge under way, or NoPlan
    spoken,             \* history: profiles whose mapping a note said was dropped or overruled
    mergeBudget

mergeVars == <<root, entry, mapped, scanRows, planned, spoken, mergeBudget>>

NoPlan == << >>
Statuses == {"active", "cancelled"}

MergeInit ==
    /\ root = Shares /\ mapped = MapsTo
    /\ entry = << >>
    /\ scanRows = [l \in DOMAIN Shares |-> [s \in Statuses |-> 0]]
    /\ planned = NoPlan /\ spoken = {} /\ mergeBudget = MergeIncidents

-----------------------------------------------------------------------------
Inside(folder, path) == IsStrictPrefix(folder, path)
Below(folder, path) == SubSeq(path, Len(folder) + 1, Len(path))

(* A scan of a library asks for the next file below its root. *)
ScanQueued(l) ==
    /\ mergeBudget > 0 /\ mergeBudget' = mergeBudget - 1
    /\ l \in DOMAIN root /\ scanRows[l]["active"] = 0
    /\ scanRows' = [scanRows EXCEPT ![l]["active"] = 1]
    /\ UNCHANGED <<root, entry, mapped, planned, spoken>>

(* The scanner catalogues a file that is under the root of its library. *)
ScanFinds(l, f) ==
    /\ l \in DOMAIN root /\ scanRows[l]["active"] > 0
    /\ Inside(root[l], f)
    /\ ~\E a \in DOMAIN entry : entry[a] = [library |-> l, path |-> Below(root[l], f)]
    /\ <<l, f>> \notin DOMAIN entry
    /\ entry' = [a \in DOMAIN entry \cup {<<l, f>>} |->
                    IF a = <<l, f>> THEN [library |-> l, path |-> Below(root[l], f)] ELSE entry[a]]
    /\ UNCHANGED <<root, mapped, scanRows, planned, spoken, mergeBudget>>

-----------------------------------------------------------------------------
(* The member's folder below the new root; a name loses the dots around it. *)
Undotted(name) == IF name \in DOMAIN Stripped THEN Stripped[name] ELSE name
Subfolder(parent, l) ==
    LET below == Below(parent, root[l])
    IN  [i \in DOMAIN below |-> IF i = 1 \/ i = Len(below) THEN Undotted(below[i]) ELSE below[i]]

Members(parent) == {l \in DOMAIN root : IsPrefix(parent, root[l])}
Held(l) == {f \in DOMAIN entry : entry[f].library = l}

(* One already at the parent, or else one with the most assets. *)
Targets(parent) ==
    LET at == {l \in Members(parent) : root[l] = parent}
    IN  IF at # {} THEN at
        ELSE {l \in Members(parent) : \A m \in Members(parent) : Cardinality(Held(l)) >= Cardinality(Held(m))}

(* Defect: a prefix that does not end with the folder is cut all the same. *)
CutAnyway(prefix, subfolder) == Len(subfolder) < Len(prefix)

(* _parent_prefix: only a mapping that ends with the sub-folder, as whole    *)
(* names, can be lifted to the parent.                                       *)
EndsWith(prefix, subfolder) == IsSuffix(subfolder, prefix)
Lifted(prefix, subfolder) == SubSeq(prefix, 1, Len(prefix) - Len(subfolder))

LiftedOf(parent, l) ==
    [p \in {p \in DOMAIN mapped[l] : EndsWith(mapped[l][p], Subfolder(parent, l))} |->
        Lifted(mapped[l][p], Subfolder(parent, l))]

(* The mappings the merged library keeps: of a profile, the first in order. *)
FirstToLift(parent, order, p) ==
    CHOOSE i \in DOMAIN order :
        /\ p \in DOMAIN LiftedOf(parent, order[i])
        /\ \A j \in 1..(i - 1) : p \notin DOMAIN LiftedOf(parent, order[j])
KeptMappings(parent, order) ==
    [p \in {q \in Profiles : \E l \in ToSet(order) : q \in DOMAIN LiftedOf(parent, l)} |->
        LiftedOf(parent, order[FirstToLift(parent, order, p)])[p]]

(* The profiles a note is printed about. *)
Disputed(parent, order) ==
    {p \in Profiles : \E l \in ToSet(order) : p \in DOMAIN mapped[l] /\
        (p \notin DOMAIN LiftedOf(parent, l) \/ LiftedOf(parent, l)[p] # KeptMappings(parent, order)[p])}

(* Two rows that would claim one path after the move. *)
Collides(parent) ==
    \E a, b \in DOMAIN entry :
        /\ a # b /\ entry[a].library \in Members(parent) /\ entry[b].library \in Members(parent)
        /\ Subfolder(parent, entry[a].library) \o entry[a].path =
           Subfolder(parent, entry[b].library) \o entry[b].path

(* plan_merge; the members come by name. *)
PlanMerge(parent, target) ==
    /\ planned = NoPlan /\ mergeBudget > 0 /\ mergeBudget' = mergeBudget - 1
    /\ ~\E l \in DOMAIN root : IsStrictPrefix(root[l], parent)
    /\ target \in Targets(parent)
    /\ ~Collides(parent)
    /\ LET rest == SetToSeq(Members(parent) \ {target})
           order == <<target>> \o rest
       IN  /\ planned' = [parent |-> parent, order |-> order,
                          subfolder |-> [l \in Members(parent) |-> Subfolder(parent, l)],
                          mappings |-> KeptMappings(parent, order),
                          noted |-> Disputed(parent, order)]
    /\ UNCHANGED <<root, entry, mapped, scanRows, spoken>>

Discard ==
    /\ planned # NoPlan /\ planned' = NoPlan
    /\ UNCHANGED <<root, entry, mapped, scanRows, spoken, mergeBudget>>

-----------------------------------------------------------------------------
(* Updates: what is in a member moves to the target, under its folder.  No  *)
(* one of several members but the target is moved into, so of these the     *)
(* order is all one.                                                        *)
Moved(rows, members) ==
    [a \in DOMAIN rows |->
        IF rows[a].library \in members
        THEN [library |-> planned.order[1],
              path |-> planned.subfolder[rows[a].library] \o rows[a].path]
        ELSE rows[a]]
Folded == ToSet(planned.order) \ {planned.order[1]}

(* Defect: the kept library last. *)
TargetLast(rows) == Moved(Moved(rows, Folded), {planned.order[1]})

(* The kept library first: nothing has moved into it yet. *)
Reparented(rows) == Moved(Moved(rows, {planned.order[1]}), Folded)

(* One path of a library is one row: an update that breaks it, be it for    *)
(* the time until the row in its way has moved too, ends the transaction.   *)
Distinct(rows) == \A a, b \in DOMAIN rows : rows[a] = rows[b] => a = b
InTheWay(rows) == \E a, b \in DOMAIN rows : a # b /\ Reparented(rows)[a] = rows[b]

ScansOf(members, status) == MapThenSumSet(LAMBDA m : scanRows[m][status], members)

(* Defect: what the folded libraries had queued is left alone. *)
ScansKept(members) ==
    [s \in Statuses |-> ScansOf(members, s) + (IF s = "active" THEN 1 ELSE 0)]

(* The active ones are cancelled, all are the target's, and one is queued. *)
ScansAfter(members) ==
    [active |-> 1, cancelled |-> ScansOf(members, "active") + ScansOf(members, "cancelled")]

(* apply_merge: every row moves or none does. *)
ApplyMerge ==
    /\ planned # NoPlan /\ planned' = NoPlan
    /\ LET target == planned.order[1]
           members == ToSet(planned.order)
           left == (DOMAIN root \ members) \cup {target}
       IN  \/ /\ Distinct(Reparented(entry))
              /\ entry' = Reparented(entry)
              /\ root' = [l \in left |-> IF l = target THEN planned.parent ELSE root[l]]
              /\ mapped' = [l \in left |-> IF l = target THEN planned.mappings ELSE mapped[l]]
              /\ scanRows' = [l \in left |-> IF l = target THEN ScansAfter(members) ELSE scanRows[l]]
              /\ spoken' = spoken \cup planned.noted
           \/ /\ ~Distinct(Reparented(entry)) \/ InTheWay(entry)
              /\ UNCHANGED <<root, entry, mapped, scanRows, spoken>>
    /\ UNCHANGED mergeBudget

MergeNext ==
    \/ \E l \in DOMAIN root : ScanQueued(l) \/ \E f \in DiskFiles : ScanFinds(l, f)
    \/ \E parent \in Parents : \E target \in Targets(parent) : PlanMerge(parent, target)
    \/ Discard \/ ApplyMerge

MergeSpec == MergeInit /\ [][MergeNext]_mergeVars

-----------------------------------------------------------------------------
MergeTypeOK ==
    /\ DOMAIN root \subseteq DOMAIN Shares /\ DOMAIN mapped = DOMAIN root
    /\ DOMAIN scanRows = DOMAIN root
    /\ \A a \in DOMAIN entry : a[2] \in DiskFiles /\ entry[a].library \in DOMAIN root
    /\ mergeBudget \in 0..MergeIncidents

(* Every asset still names the file it was made from, merge after merge and *)
(* with files catalogued between the plan and its application: what hangs   *)
(* on its id (edits, faces, transcripts) is about that file.                *)
SameFile == \A a \in DOMAIN entry : root[entry[a].library] \o entry[a].path = a[2]

(* A library never has two active scans: merged from several that had one   *)
(* each, it has the fresh one only.                                         *)
OneActiveScan == \A l \in DOMAIN root : scanRows[l]["active"] <= 1

(* A workstation profile no note was printed about leads to every file it   *)
(* led to before, at the same place there, whatever was merged.             *)
MappingsHold ==
    \A a \in DOMAIN entry : \A p \in DOMAIN MapsTo[a[1]] \ spoken :
        Inside(Shares[a[1]], a[2]) =>
            LET at == mapped[entry[a].library]
            IN  p \in DOMAIN at /\ at[p] \o entry[a].path = MapsTo[a[1]][p] \o Below(Shares[a[1]], a[2])

=============================================================================
