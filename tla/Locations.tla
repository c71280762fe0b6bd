------------------------------ MODULE Locations ------------------------------
(***************************************************************************)
(* Where assets were shot: positions read from EXIF, positions lent to the  *)
(* neighbours that have none (tasks.infer_locations, media/geo.py), places  *)
(* made of both (media/places.py), and the addresses of the places no       *)
(* folder names, looked up once and cached (media/geocoding.py).            *)
(***************************************************************************)
EXTENDS Integers, Sequences, FiniteSets, FiniteSetsExt, TLC

CONSTANTS
    Shots,              \* assets of one library, all captured at a known time
    ShotAt,             \* asset -> capture time
    LooksLike,          \* {asset, asset}: frames similar enough
    Sites,              \* positions
    Geotag,             \* asset -> what the EXIF of its file says at first: a site or NoSite
    Retags,             \* asset -> what a later version of the file says
    NoSite,
    TimeWindow,         \* MAX_TIME_GAP_S
    Inferrers,          \* executions of infer_locations under way at a time
    PageLoads,          \* requests of the places page under way at a time
    RetryAfter,         \* FAILURE_RETRY_AFTER
    LocateIncidents     \* bound: files rewritten, inferences and page loads asked for, time

ASSUME LocationsAssumption ==
    /\ NoSite \notin Sites /\ ShotAt \in [Shots -> Int]
    /\ Geotag \in [Shots -> Sites \cup {NoSite}] /\ DOMAIN Retags \subseteq Shots
    /\ \A s \in DOMAIN Retags : Retags[s] \in Sites \cup {NoSite}
    /\ TimeWindow \in Nat /\ RetryAfter \in Nat /\ LocateIncidents \in Nat

VARIABLES
    exif,               \* asset -> what its file says
    read,               \* assets whose file, as it is, has been extracted
    embedded,           \* assets with an embedded frame
    position,           \* asset -> site or NoSite
    label,              \* asset -> "camera" (gps_source is empty) or "inferred"
    lentBy,             \* asset -> the asset that lent the position, or itself
    inferring,          \* execution -> [at, subjects -> what it decided]
    crossed,            \* history: an extraction committed inside an inference
    address,            \* site -> "unknown", "nothing" or "street": the cached row
    asked,              \* site -> age of the row, when it says "nothing"
    loading,            \* page load -> [at, rows: as read, said: what Google answered]
    locateBudget

locateVars == <<exif, read, embedded, position, label, lentBy, inferring, crossed, address, asked,
                loading, locateBudget>>
gpsVars == <<exif, read, embedded, position, label, lentBy, inferring, crossed>>
cacheVars == <<address, asked, loading>>

NotInferring == [at |-> "free", lend |-> << >>]
NotLoading == [at |-> "free", rows |-> << >>]

LocationsInit ==
    /\ exif = Geotag /\ read = {} /\ embedded = {}
    /\ position = [s \in Shots |-> NoSite] /\ label = [s \in Shots |-> "camera"]
    /\ lentBy = [s \in Shots |-> s]
    /\ inferring = [w \in Inferrers |-> NotInferring] /\ crossed = FALSE
    /\ address = [p \in Sites |-> "unknown"] /\ asked = [p \in Sites |-> 0]
    /\ loading = [v \in PageLoads |-> NotLoading]
    /\ locateBudget = LocateIncidents

Budgeted == locateBudget > 0 /\ locateBudget' = locateBudget - 1

-----------------------------------------------------------------------------
(* _extract writes what the file says, and nothing over what it does not    *)
(* say; whose position it was is not touched.                               *)
ExtractPosition(s) ==
    /\ s \notin read /\ read' = read \cup {s}
    /\ IF exif[s] = NoSite THEN UNCHANGED position ELSE position' = [position EXCEPT ![s] = exif[s]]
    /\ crossed' = (crossed \/ \E w \in Inferrers : inferring[w].at # "free")
    /\ UNCHANGED <<exif, embedded, label, lentBy, inferring, cacheVars, locateBudget>>

EmbedShot(s) ==
    /\ s \in read \ embedded /\ embedded' = embedded \cup {s}
    /\ UNCHANGED <<exif, read, position, label, lentBy, inferring, crossed, cacheVars, locateBudget>>

(* The file is written again, geotagged or stripped; the scanner has it     *)
(* extracted again.                                                         *)
Retag(s) ==
    /\ s \in DOMAIN Retags /\ exif[s] # Retags[s] /\ Budgeted
    /\ exif' = [exif EXCEPT ![s] = Retags[s]] /\ read' = read \ {s}
    /\ UNCHANGED <<embedded, position, label, lentBy, inferring, crossed, cacheVars>>

Gap(s, t) == IF ShotAt[s] > ShotAt[t] THEN ShotAt[s] - ShotAt[t] ELSE ShotAt[t] - ShotAt[s]

(* Defect: whatever has a position is an anchor. *)
AnyAnchor(s) == s \in embedded /\ position[s] # NoSite

(* An anchor's position came from its camera. *)
Anchor(s) == s \in embedded /\ position[s] # NoSite /\ label[s] # "inferred"

(* Defect: one that has a position may be placed again. *)
Replaceable(s) == s \in embedded

(* Only gaps are filled. *)
Subject(s) == s \in embedded /\ position[s] = NoSite

(* best_candidate: near in time and alike; the nearer and the more alike,   *)
(* the stronger; which of several wins is left open.                        *)
Convincing(s, t) == Gap(s, t) <= TimeWindow /\ {s, t} \in LooksLike

(* infer_locations loads anchors and subjects, and decides. *)
InferReads(w) ==
    /\ inferring[w].at = "free" /\ Budgeted
    /\ LET subjects == {s \in Shots : Subject(s)}
           givers(s) == {t \in Shots : Anchor(t) /\ Convincing(s, t)}
           lent == {s \in subjects : givers(s) # {}}
       IN  \E lend \in [lent -> Shots] :
              /\ \A s \in lent : lend[s] \in givers(s)
              /\ inferring' = [inferring EXCEPT ![w] =
                    [at |-> "decided", lend |-> [s \in lent |-> <<lend[s], position[lend[s]]>>]]]
    /\ UNCHANGED <<exif, read, embedded, position, label, lentBy, crossed, cacheVars>>

(* Its commit writes every subject it decided about. *)
InferCommits(w) ==
    /\ inferring[w].at = "decided"
    /\ LET lend == inferring[w].lend
       IN  /\ position' = [s \in Shots |-> IF s \in DOMAIN lend THEN lend[s][2] ELSE position[s]]
           /\ label' = [s \in Shots |-> IF s \in DOMAIN lend THEN "inferred" ELSE label[s]]
           /\ lentBy' = [s \in Shots |-> IF s \in DOMAIN lend THEN lend[s][1] ELSE lentBy[s]]
    /\ inferring' = [inferring EXCEPT ![w] = NotInferring]
    /\ UNCHANGED <<exif, read, embedded, crossed, cacheVars, locateBudget>>

-----------------------------------------------------------------------------
(* What is not known goes to Google; what it had nothing for, after a while. *)
Misses(rows) == {p \in DOMAIN rows : rows[p] = "unknown" \/ (rows[p] = "nothing" /\ asked[p] > RetryAfter)}

(* list_places: the places of the located assets that no folder names; their *)
(* rows are read from the cache.                                            *)
LoadPlaces(v) ==
    /\ loading[v].at = "free" /\ Budgeted
    /\ LET rows == [p \in {position[s] : s \in Shots} \ {NoSite} |-> address[p]]
       IN  /\ Misses(rows) # {}
           /\ loading' = [loading EXCEPT ![v] = [at |-> "asking", rows |-> [p \in Misses(rows) |-> rows[p]]]]
    /\ UNCHANGED <<gpsVars, address, asked>>

(* Defect: an answer is stored whatever it is. *)
StoreAll(v, said) ==
    address' = [p \in Sites |-> IF p \in DOMAIN said THEN said[p] ELSE address[p]]

(* A row that was read is written where it changes, a new one inserted. *)
Store(v, said) ==
    address' = [p \in Sites |-> IF p \in DOMAIN said /\ said[p] # loading[v].rows[p] THEN said[p]
                                ELSE address[p]]

(* reverse_geocode_many: one answer per place, an address or nothing; what   *)
(* fails is not stored.  A row that somebody else inserted meanwhile fails   *)
(* the commit, and the page goes without addresses.                          *)
LookupsAnswer(v) ==
    /\ loading[v].at = "asking"
    /\ \E answered \in SUBSET DOMAIN loading[v].rows : \E said \in [answered -> {"nothing", "street"}] :
          IF \E p \in answered : loading[v].rows[p] = "unknown" /\ address[p] # "unknown"
          THEN UNCHANGED <<address, asked>>
          ELSE /\ Store(v, said)
               /\ asked' = [p \in Sites |-> IF p \in answered THEN 0 ELSE asked[p]]
    /\ loading' = [loading EXCEPT ![v] = NotLoading]
    /\ UNCHANGED <<gpsVars, locateBudget>>

TimePasses ==
    /\ Budgeted /\ \E p \in Sites : address[p] = "nothing" /\ asked[p] <= RetryAfter
    /\ asked' = [p \in Sites |-> IF asked[p] <= RetryAfter THEN asked[p] + 1 ELSE asked[p]]
    /\ UNCHANGED <<gpsVars, address, loading>>

LocationsNext ==
    \/ \E s \in Shots : ExtractPosition(s) \/ EmbedShot(s) \/ Retag(s)
    \/ \E w \in Inferrers : InferReads(w) \/ InferCommits(w)
    \/ \E v \in PageLoads : LoadPlaces(v) \/ LookupsAnswer(v)
    \/ TimePasses

LocationsSpec == LocationsInit /\ [][LocationsNext]_locateVars

-----------------------------------------------------------------------------
LocationsTypeOK ==
    /\ \A s \in Shots : position[s] \in Sites \cup {NoSite} /\ label[s] \in {"camera", "inferred"}
    /\ \A p \in Sites : address[p] \in {"unknown", "nothing", "street"} /\ asked[p] \in 0..(RetryAfter + 1)
    /\ \A v \in PageLoads : DOMAIN loading[v].rows \subseteq Sites
    /\ locateBudget \in 0..LocateIncidents

(* "An inferred position never anchors another inference": what lent a      *)
(* position has its own from its camera, pass after pass.                   *)
OneHop == ~crossed => \A s \in Shots : label[s] = "inferred" => label[lentBy[s]] = "camera"

(* "EXIF is never overwritten": what an asset's file says, once read, is    *)
(* where the asset is, if no extraction was under way beside an inference.  *)
ExifStands == ~crossed => \A s \in read : exif[s] # NoSite => position[s] = exif[s]

(* An address in the cache stays there, whatever is answered to a load that *)
(* had asked before.                                                        *)
AddressStays == [][\A p \in Sites : address[p] = "street" => address'[p] = "street"]_locateVars

=============================================================================
