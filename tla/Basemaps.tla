------------------------------ MODULE Basemaps -------------------------------
(***************************************************************************)
(* The maps drawn from the house's own disk (api/v1/basemaps.py,            *)
(* tasks.fetch_basemap): an archive is extracted to a .part file and        *)
(* renamed, by executions that may be killed, delivered again, or asked for  *)
(* twice.  A file is an inode: it can lose its name while it is written.    *)
(***************************************************************************)
EXTENDS Integers, Sequences, FiniteSets, SequencesExt, TLC

CONSTANTS
    Maps,               \* names of basemaps
    Extractors,         \* executions of fetch_basemap under way at a time
    MapIncidents        \* bound: downloads and deletions asked for, failures and kills

NoMap == "no map"

ASSUME BasemapsAssumption == MapIncidents \in Nat /\ NoMap \notin Maps

VARIABLES
    archives,           \* map -> the inode its .pmtiles names, or 0
    parts,              \* map -> the inode its .pmtiles.part names, or 0
    inode,              \* inode -> "writing", "whole", "cut" (its writer is gone)
    orders,             \* queued downloads
    extracting,         \* execution -> [map, inode]: map is NoMap when it is free
    together,           \* history: two executions for one map at a time
    mapBudget

basemapVars == <<archives, parts, inode, orders, extracting, together, mapBudget>>

BasemapsInit ==
    /\ archives = [m \in Maps |-> 0] /\ parts = [m \in Maps |-> 0] /\ inode = << >>
    /\ orders = << >> /\ together = FALSE
    /\ extracting = [e \in Extractors |-> [map |-> NoMap, inode |-> 0]]
    /\ mapBudget = MapIncidents

MapIncident == mapBudget > 0 /\ mapBudget' = mapBudget - 1

-----------------------------------------------------------------------------
(* Extraction *)

(* download_basemap: one more message, unless the archive is there. *)
AskFor(m) ==
    /\ MapIncident /\ archives[m] = 0 /\ orders' = Append(orders, m)
    /\ UNCHANGED <<archives, parts, inode, extracting, together>>

(* Defect: the archive is written where it is read. *)
ExtractInPlace(e) ==
    /\ extracting[e].map = NoMap /\ orders # << >> /\ orders' = Tail(orders)
    /\ LET m == Head(orders)
       IN  IF archives[m] # 0 THEN UNCHANGED <<archives, parts, inode, extracting, together>>
           ELSE /\ inode' = Append(inode, "writing")
                /\ archives' = [archives EXCEPT ![m] = Len(inode) + 1]
                /\ parts' = [parts EXCEPT ![m] = Len(inode) + 1]
                /\ extracting' = [extracting EXCEPT ![e] = [map |-> m, inode |-> Len(inode) + 1]]
                /\ together' = (together \/ \E f \in Extractors : extracting[f].map = m)
    /\ UNCHANGED mapBudget

(* Defect: whether the archive is there is asked by the request only. *)
ExtractAgain(e) ==
    /\ extracting[e].map = NoMap /\ orders # << >> /\ orders' = Tail(orders)
    /\ LET m == Head(orders)
       IN  /\ inode' = Append(inode, "writing")
           /\ parts' = [parts EXCEPT ![m] = Len(inode) + 1]
           /\ extracting' = [extracting EXCEPT ![e] = [map |-> m, inode |-> Len(inode) + 1]]
           /\ together' = (together \/ \E f \in Extractors : extracting[f].map = m)
    /\ UNCHANGED <<archives, mapBudget>>

(* fetch_basemap: nothing to do, or a new .part in the place of an old one, *)
(* which whoever was writing it goes on to write, without its name.         *)
ExtractBegins(e) ==
    /\ extracting[e].map = NoMap /\ orders # << >> /\ orders' = Tail(orders)
    /\ LET m == Head(orders)
       IN  IF archives[m] # 0 THEN UNCHANGED <<parts, inode, extracting, together>>
           ELSE /\ inode' = Append(inode, "writing")
                /\ parts' = [parts EXCEPT ![m] = Len(inode) + 1]
                /\ extracting' = [extracting EXCEPT ![e] = [map |-> m, inode |-> Len(inode) + 1]]
                /\ together' = (together \/ \E f \in Extractors : extracting[f].map = m)
    /\ UNCHANGED <<archives, mapBudget>>

Freed(e) == extracting' = [extracting EXCEPT ![e] = [map |-> NoMap, inode |-> 0]]

(* The tool is done: what the name .part names by now is renamed. *)
ExtractEnds(e) ==
    LET m == extracting[e].map
    IN  /\ m # NoMap
        /\ inode' = [inode EXCEPT ![extracting[e].inode] = "whole"]
        /\ IF parts[m] = 0 THEN UNCHANGED <<archives, parts>>
           ELSE /\ archives' = [archives EXCEPT ![m] = parts[m]] /\ parts' = [parts EXCEPT ![m] = 0]
        /\ Freed(e)
        /\ UNCHANGED <<orders, together, mapBudget>>

(* The tool fails or takes four hours: the .part is removed. *)
ExtractFails(e) ==
    LET m == extracting[e].map
    IN  /\ m # NoMap /\ MapIncident
        /\ inode' = [inode EXCEPT ![extracting[e].inode] = "cut"]
        /\ parts' = [parts EXCEPT ![m] = 0] /\ Freed(e)
        /\ UNCHANGED <<archives, orders, together>>

(* The worker is killed: the .part stays, and the message is delivered again. *)
ExtractDies(e) ==
    LET m == extracting[e].map
    IN  /\ m # NoMap /\ MapIncident
        /\ inode' = [inode EXCEPT ![extracting[e].inode] = "cut"] /\ Freed(e)
        /\ orders' = Append(orders, m)
        /\ UNCHANGED <<archives, parts, together>>

DeleteMap(m) ==
    /\ MapIncident /\ archives[m] # 0 /\ archives' = [archives EXCEPT ![m] = 0]
    /\ UNCHANGED <<parts, inode, orders, extracting, together>>

-----------------------------------------------------------------------------
BasemapsNext ==
    \/ \E m \in Maps : AskFor(m) \/ DeleteMap(m)
    \/ \E e \in Extractors : ExtractBegins(e) \/ ExtractEnds(e) \/ ExtractFails(e) \/ ExtractDies(e)

BasemapsSpec == BasemapsInit /\ [][BasemapsNext]_basemapVars

-----------------------------------------------------------------------------
BasemapsTypeOK ==
    /\ \A m \in Maps : archives[m] \in 0..Len(inode) /\ parts[m] \in 0..Len(inode)
    /\ \A i \in DOMAIN inode : inode[i] \in {"writing", "whole", "cut"}
    /\ ToSet(orders) \subseteq Maps /\ mapBudget \in 0..MapIncidents

(* "Never leaves something that looks like a usable basemap": what has the   *)
(* name of an archive is whole, through failures, kills and deliveries      *)
(* again, as long as no two executions were at one map.                     *)
InstalledIsWhole ==
    ~together => \A m \in Maps : archives[m] # 0 => inode[archives[m]] = "whole"

(* Whoever presses twice gets one archive: an installed one is replaced only *)
(* once it has been deleted, as long as no two executions were at one map.   *)
InstalledStays ==
    [][~together' => \A m \in Maps : archives[m] # 0 => archives'[m] \in {0, archives[m]}]_basemapVars

=============================================================================
