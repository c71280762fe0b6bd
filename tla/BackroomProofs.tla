---------------------------- MODULE BackroomProofs ----------------------------
(***************************************************************************)
(* Proofs about Backroom, part by part - each has an invariant that adds to *)
(* what the run checks what makes it inductive, and the other parts leave   *)
(* it alone - and about the catalogue that Reconcile keeps of the disk, for *)
(* any number of rows, libraries, directories, files and contents, and any  *)
(* budget of changes, drops and aborts.                                     *)
(***************************************************************************)
EXTENDS Backroom, Reconcile, SequenceTheorems, FiniteSetTheorems, WellFoundedInduction, TLAPS

-----------------------------------------------------------------------------
(* What maps at home keep.  At most one execution is at a map, if no two    *)
(* ever met there (together); what it writes has the name .part, nobody     *)
(* else writes it, and it is installed nowhere; nothing is installed of the *)
(* map while it is at it.                                                   *)
Busy(e) == extracting[e].map # NoMap
BasemapsTyped ==
    /\ inode \in Seq({"writing", "whole", "cut"})
    /\ archives \in [Maps -> 0..Len(inode)] /\ parts \in [Maps -> 0..Len(inode)]
    /\ orders \in Seq(Maps)
    /\ extracting \in [Extractors -> [map : Maps \cup {NoMap}, inode : 0..Len(inode)]]
    /\ \A e \in Extractors : Busy(e) => extracting[e].inode # 0
    /\ together \in BOOLEAN /\ mapBudget \in 0..MapIncidents
OneWriterEach ==
    \A e, f \in Extractors : Busy(e) /\ Busy(f) /\ e # f => extracting[e].inode # extracting[f].inode
OneEachMap ==
    ~together => \A e, f \in Extractors : Busy(e) /\ extracting[e].map = extracting[f].map => e = f
PartIsWritten ==
    ~together => \A e \in Extractors : Busy(e) =>
        /\ parts[extracting[e].map] = extracting[e].inode
        /\ archives[extracting[e].map] = 0
        /\ \A m \in Maps : archives[m] # extracting[e].inode
BasemapsInv == BasemapsTyped /\ OneWriterEach /\ OneEachMap /\ PartIsWritten /\ InstalledIsWhole

(* The bound on incidents only runs down.                                   *)
LEMMA IncidentsCount ==
    ASSUME NEW n \in 0..MapIncidents, n > 0 PROVE n - 1 \in 0..MapIncidents
<1>1. MapIncidents \in Nat
  BY BasemapsAssumption DEF BasemapsAssumption
<1> QED BY <1>1

(* Initially nothing is installed and nobody is at a map.                   *)
LEMMA BasemapsInvStarts == BasemapsInit => BasemapsInv
<1> SUFFICES ASSUME BasemapsInit PROVE BasemapsInv
  OBVIOUS
<1> USE DEF BasemapsInit
<1>1. inode = << >> /\ orders = << >> /\ Len(inode) = 0 /\ inode \in Seq({"writing", "whole", "cut"})
      /\ orders \in Seq(Maps)
  OBVIOUS
<1>2. \A e \in Extractors : extracting[e].map = NoMap
  OBVIOUS
<1>3. BasemapsTyped
  <2>1. MapIncidents \in Nat
    BY BasemapsAssumption DEF BasemapsAssumption
  <2>2. mapBudget \in 0..MapIncidents /\ together \in BOOLEAN
    <3>1. mapBudget = MapIncidents /\ together = FALSE
      OBVIOUS
    <3>2. MapIncidents \in 0..MapIncidents
      BY <2>1
    <3> QED BY <3>1, <3>2
  <2>3. 0 \in 0..Len(inode)
    BY <1>1
  <2>4. archives \in [Maps -> 0..Len(inode)] /\ parts \in [Maps -> 0..Len(inode)]
        /\ extracting \in [Extractors -> [map : Maps \cup {NoMap}, inode : 0..Len(inode)]]
    <3>1. archives \in [Maps -> 0..Len(inode)] /\ parts \in [Maps -> 0..Len(inode)]
      BY <2>3
    <3>2. [map |-> NoMap, inode |-> 0] \in [map : Maps \cup {NoMap}, inode : 0..Len(inode)]
      BY <2>3
    <3> QED BY <3>1, <3>2
  <2> QED BY <1>1, <1>2, <2>2, <2>4 DEF BasemapsTyped, Busy
<1>4. InstalledIsWhole
  BY DEF InstalledIsWhole
<1> QED BY <1>2, <1>3, <1>4 DEF BasemapsInv, OneWriterEach, OneEachMap, PartIsWritten, Busy

(* An execution lets go of its map and its inode ends otherwise.            *)
LEMMA LetsGo ==
    ASSUME BasemapsInv, NEW e \in Extractors, Busy(e), NEW end \in {"whole", "cut"},
           inode' = [inode EXCEPT ![extracting[e].inode] = end], Freed(e), UNCHANGED together
    PROVE  /\ inode' \in Seq({"writing", "whole", "cut"}) /\ Len(inode') = Len(inode)
           /\ extracting' \in [Extractors -> [map : Maps \cup {NoMap}, inode : 0..Len(inode)]]
           /\ \A f \in Extractors : Busy(f)' => f # e /\ Busy(f) /\ extracting'[f] = extracting[f]
           /\ OneWriterEach' /\ OneEachMap'
           /\ ~together => \A m \in Maps : archives[m] # 0 => inode'[archives[m]] = "whole"
           /\ inode'[extracting[e].inode] = end
<1> USE DEF BasemapsInv, BasemapsTyped
<1>1. extracting[e].inode \in 1..Len(inode)
  BY DEF Busy
<1>2. inode' \in Seq({"writing", "whole", "cut"}) /\ Len(inode') = Len(inode)
      /\ inode'[extracting[e].inode] = end
      /\ \A i \in 1..Len(inode) : i # extracting[e].inode => inode'[i] = inode[i]
  BY <1>1
<1>3. extracting' \in [Extractors -> [map : Maps \cup {NoMap}, inode : 0..Len(inode)]]
      /\ extracting'[e].map = NoMap
      /\ \A f \in Extractors \ {e} : extracting'[f] = extracting[f]
  BY DEF Freed
<1>4. \A f \in Extractors : Busy(f)' => f # e /\ Busy(f) /\ extracting'[f] = extracting[f]
  BY <1>3 DEF Busy
<1>5. OneWriterEach' /\ OneEachMap'
  BY SMTT(20), <1>3, <1>4 DEF OneWriterEach, OneEachMap, Busy
<1>6. ASSUME ~together, NEW m \in Maps, archives[m] # 0 PROVE inode'[archives[m]] = "whole"
  BY <1>2, <1>6 DEF InstalledIsWhole, PartIsWritten
<1> QED BY <1>2, <1>3, <1>4, <1>5, <1>6

(* A new .part is nobody else's, and nothing is installed where it goes.    *)
LEMMA BeginsKeeps ==
    ASSUME BasemapsInv, NEW e \in Extractors, ExtractBegins(e)
    PROVE  BasemapsInv'
<1> DEFINE m == Head(orders)
<1> USE DEF BasemapsInv, BasemapsTyped
<1>1. m \in Maps /\ orders' \in Seq(Maps) /\ UNCHANGED <<archives, mapBudget>> /\ ~Busy(e)
  BY DEF ExtractBegins, Busy
<1>2. CASE UNCHANGED <<parts, inode, extracting, together>>
  BY <1>1, <1>2 DEF OneWriterEach, OneEachMap, PartIsWritten, InstalledIsWhole, Busy
<1>3. CASE /\ archives[m] = 0
           /\ inode' = Append(inode, "writing") /\ parts' = [parts EXCEPT ![m] = Len(inode) + 1]
           /\ extracting' = [extracting EXCEPT ![e] = [map |-> m, inode |-> Len(inode) + 1]]
           /\ together' = (together \/ \E f \in Extractors : extracting[f].map = m)
  <2> DEFINE n == Len(inode) + 1
  <2> HIDE DEF m
  <2>1. inode' \in Seq({"writing", "whole", "cut"}) /\ Len(inode') = n /\ n \in Nat /\ n # 0
        /\ \A i \in 1..Len(inode) : inode'[i] = inode[i]
    BY <1>3
  <2>2. \A f \in Extractors \ {e} : extracting'[f] = extracting[f]
    BY <1>3
  <2>3. extracting'[e].map = m /\ extracting'[e].inode = n
    BY <1>3
  <2>4. \A f \in Extractors \ {e} : extracting'[f].inode # n /\ extracting'[f].inode \in 0..Len(inode)
    BY <2>2
  <2>5. m # NoMap
    BY <1>1, BasemapsAssumption DEF BasemapsAssumption, NoMap
  <2>6. BasemapsTyped'
    <3>1. archives' \in [Maps -> 0..Len(inode')] /\ parts' \in [Maps -> 0..Len(inode')]
      BY <1>1, <1>3, <2>1
    <3>2. extracting' \in [Extractors -> [map : Maps \cup {NoMap}, inode : 0..Len(inode')]]
      BY <1>1, <1>3, <2>1
    <3>3. \A f \in Extractors : Busy(f)' => extracting'[f].inode # 0
      BY <2>1, <2>2, <2>3 DEF Busy
    <3> QED BY <1>1, <1>3, <2>1, <3>1, <3>2, <3>3
  <2>7. OneWriterEach'
    BY <2>2, <2>3, <2>4 DEF OneWriterEach, Busy
  <2>8. ASSUME ~together' PROVE ~together /\ \A f \in Extractors : extracting[f].map # m
    BY <1>3, <2>8
  <2>9. OneEachMap'
    BY ZenonT(40), <1>1, <2>2, <2>3, <2>5, <2>8 DEF OneEachMap, Busy
  <2>10. ASSUME ~together', NEW f \in Extractors, Busy(f)'
         PROVE  /\ parts'[extracting'[f].map] = extracting'[f].inode
                /\ archives'[extracting'[f].map] = 0
                /\ \A k \in Maps : archives'[k] # extracting'[f].inode
    <3>1. CASE f = e
      <4>1. parts'[m] = n
        BY <1>1, <1>3
      <4>2. \A k \in Maps : archives[k] # n
        OBVIOUS
      <4> QED BY <1>1, <1>3, <2>3, <3>1, <4>1, <4>2
    <3>2. CASE f # e
      <4>1. extracting'[f] = extracting[f] /\ Busy(f) /\ extracting[f].map # m /\ extracting[f].map \in Maps
        BY <2>2, <2>8, <2>10, <3>2 DEF Busy
      <4>2. parts'[extracting[f].map] = parts[extracting[f].map]
        BY <1>3, <4>1
      <4> QED BY <1>1, <2>8, <2>10, <4>1, <4>2 DEF PartIsWritten
    <3> QED BY <3>1, <3>2
  <2>11. ASSUME ~together', NEW k \in Maps, archives'[k] # 0 PROVE inode'[archives'[k]] = "whole"
    <3>1. archives'[k] = archives[k] /\ archives[k] \in 1..Len(inode)
      BY <1>1, <2>11
    <3>2. inode[archives[k]] = "whole"
      BY <2>8, <2>11, <3>1 DEF InstalledIsWhole
    <3> QED BY <2>1, <3>1, <3>2
  <2> QED BY <2>6, <2>7, <2>9, <2>10, <2>11 DEF PartIsWritten, InstalledIsWhole
<1> QED BY <1>2, <1>3 DEF ExtractBegins

(* What the tool finished is renamed to a map that nothing was installed of.*)
LEMMA EndsKeeps ==
    ASSUME BasemapsInv, NEW e \in Extractors, ExtractEnds(e)
    PROVE  /\ BasemapsInv'
           /\ ~together => \A k \in Maps : archives[k] # 0 => archives'[k] = archives[k]
<1> DEFINE m == extracting[e].map
<1> USE DEF BasemapsInv, BasemapsTyped
<1>1. Busy(e) /\ m \in Maps /\ Freed(e) /\ inode' = [inode EXCEPT ![extracting[e].inode] = "whole"]
      /\ UNCHANGED <<orders, together, mapBudget>>
  BY DEF ExtractEnds, Busy
<1>2. /\ inode' \in Seq({"writing", "whole", "cut"}) /\ Len(inode') = Len(inode)
      /\ extracting' \in [Extractors -> [map : Maps \cup {NoMap}, inode : 0..Len(inode)]]
      /\ \A f \in Extractors : Busy(f)' => f # e /\ Busy(f) /\ extracting'[f] = extracting[f]
      /\ OneWriterEach' /\ OneEachMap'
      /\ ~together => \A k \in Maps : archives[k] # 0 => inode'[archives[k]] = "whole"
      /\ inode'[extracting[e].inode] = "whole"
  BY <1>1, LetsGo
<1>3. archives' \in [Maps -> 0..Len(inode)] /\ parts' \in [Maps -> 0..Len(inode)]
      /\ (\A k \in Maps \ {m} : archives'[k] = archives[k] /\ parts'[k] = parts[k])
      /\ (parts[m] # 0 => archives'[m] = parts[m]) /\ (parts[m] = 0 => archives'[m] = archives[m])
  <2> HIDE DEF m
  <2>1. CASE parts[m] = 0 /\ UNCHANGED <<archives, parts>>
    BY <2>1
  <2>2. CASE parts[m] # 0 /\ archives' = [archives EXCEPT ![m] = parts[m]] /\ parts' = [parts EXCEPT ![m] = 0]
    <3>1. parts[m] \in 0..Len(inode) /\ 0 \in 0..Len(inode)
      BY <1>1
    <3>2. archives' \in [Maps -> 0..Len(inode)] /\ parts' \in [Maps -> 0..Len(inode)]
      BY <2>2, <3>1
    <3>3. archives'[m] = parts[m] /\ \A k \in Maps \ {m} : archives'[k] = archives[k] /\ parts'[k] = parts[k]
      BY <1>1, <2>2
    <3> QED BY <2>2, <3>2, <3>3
  <2> QED BY <2>1, <2>2 DEF ExtractEnds, m
<1>4. ASSUME ~together PROVE archives'[m] = extracting[e].inode /\ archives[m] = 0
  BY <1>1, <1>3, <1>4 DEF PartIsWritten
<1>5. BasemapsTyped'
  BY <1>1, <1>2, <1>3
<1>6. ASSUME ~together, NEW f \in Extractors, Busy(f)'
      PROVE  /\ parts'[extracting'[f].map] = extracting'[f].inode
             /\ archives'[extracting'[f].map] = 0
             /\ \A k \in Maps : archives'[k] # extracting'[f].inode
  <2>1. f # e /\ Busy(f) /\ extracting'[f] = extracting[f]
    BY <1>2, <1>6
  <2>2. extracting[f].map # m /\ extracting[f].map \in Maps /\ extracting[f].inode # extracting[e].inode
    BY <1>1, <1>6, <2>1 DEF OneEachMap, OneWriterEach, Busy
  <2> QED BY <1>3, <1>4, <1>6, <2>1, <2>2 DEF PartIsWritten
<1>7. ASSUME ~together, NEW k \in Maps, archives'[k] # 0 PROVE inode'[archives'[k]] = "whole"
  BY <1>2, <1>3, <1>4, <1>7
<1> QED BY <1>1, <1>2, <1>3, <1>4, <1>5, <1>6, <1>7 DEF PartIsWritten, InstalledIsWhole

(* A tool that fails or dies leaves what is installed alone.                *)
LEMMA CutKeeps ==
    ASSUME BasemapsInv, NEW e \in Extractors, ExtractFails(e) \/ ExtractDies(e)
    PROVE  BasemapsInv' /\ UNCHANGED archives
<1> DEFINE m == extracting[e].map
<1> USE DEF BasemapsInv, BasemapsTyped
<1>1. Busy(e) /\ m \in Maps /\ Freed(e) /\ inode' = [inode EXCEPT ![extracting[e].inode] = "cut"]
      /\ UNCHANGED <<archives, together>>
  BY DEF ExtractFails, ExtractDies, Busy
<1>2. /\ inode' \in Seq({"writing", "whole", "cut"}) /\ Len(inode') = Len(inode)
      /\ extracting' \in [Extractors -> [map : Maps \cup {NoMap}, inode : 0..Len(inode)]]
      /\ \A f \in Extractors : Busy(f)' => f # e /\ Busy(f) /\ extracting'[f] = extracting[f]
      /\ OneWriterEach' /\ OneEachMap'
      /\ ~together => \A k \in Maps : archives[k] # 0 => inode'[archives[k]] = "whole"
  BY <1>1, LetsGo
<1>3. parts' \in [Maps -> 0..Len(inode)] /\ \A k \in Maps \ {m} : parts'[k] = parts[k]
  BY <1>1 DEF ExtractFails, ExtractDies
<1>4. orders' \in Seq(Maps) /\ mapBudget' \in 0..MapIncidents
  <2>1. orders' \in Seq(Maps)
    <3>1. orders \in Seq(Maps) /\ Append(orders, m) \in Seq(Maps)
      BY <1>1
    <3>2. orders' = orders \/ orders' = Append(orders, m)
      BY DEF ExtractFails, ExtractDies
    <3> QED BY <3>1, <3>2
  <2>2. mapBudget > 0 /\ mapBudget' = mapBudget - 1
    BY DEF ExtractFails, ExtractDies, MapIncident
  <2> QED BY <2>1, <2>2, IncidentsCount
<1>5. BasemapsTyped'
  BY <1>1, <1>2, <1>3, <1>4
<1>6. ASSUME ~together, NEW f \in Extractors, Busy(f)'
      PROVE  /\ parts'[extracting'[f].map] = extracting'[f].inode
             /\ archives'[extracting'[f].map] = 0
             /\ \A k \in Maps : archives'[k] # extracting'[f].inode
  <2>1. f # e /\ Busy(f) /\ extracting'[f] = extracting[f]
    BY <1>2, <1>6
  <2>2. extracting[f].map # m /\ extracting[f].map \in Maps
    BY <1>1, <1>6, <2>1 DEF OneEachMap, Busy
  <2> QED BY <1>1, <1>3, <1>6, <2>1, <2>2 DEF PartIsWritten
<1> QED BY <1>1, <1>2, <1>5, <1>6 DEF PartIsWritten, InstalledIsWhole

(* The invariant is kept, and what is installed goes only by a deletion.    *)
LEMMA BasemapsInvKept ==
    ASSUME BasemapsInv, [BasemapsNext]_basemapVars
    PROVE  /\ BasemapsInv'
           /\ ~together' => \A m \in Maps : archives[m] # 0 => archives'[m] \in {0, archives[m]}
<1> USE DEF BasemapsInv, BasemapsTyped
<1>1. ASSUME NEW m \in Maps, AskFor(m)
      PROVE  BasemapsInv' /\ UNCHANGED archives
  <2>1. orders' \in Seq(Maps) /\ UNCHANGED <<archives, parts, inode, extracting, together>>
    BY <1>1 DEF AskFor
  <2>2. mapBudget' \in 0..MapIncidents
    BY <1>1, IncidentsCount DEF AskFor, MapIncident
  <2> QED BY <2>1, <2>2 DEF OneWriterEach, OneEachMap, PartIsWritten, InstalledIsWhole, Busy
<1>2. ASSUME NEW m \in Maps, DeleteMap(m)
      PROVE  BasemapsInv' /\ \A k \in Maps : archives'[k] \in {0, archives[k]}
  <2>1. archives' \in [Maps -> 0..Len(inode)] /\ \A k \in Maps : archives'[k] \in {0, archives[k]}
    BY <1>2 DEF DeleteMap
  <2>2. mapBudget' \in 0..MapIncidents /\ UNCHANGED <<parts, inode, orders, extracting, together>>
    BY <1>2, IncidentsCount DEF DeleteMap, MapIncident
  <2>3. BasemapsTyped' /\ OneWriterEach' /\ OneEachMap'
    BY <2>1, <2>2 DEF OneWriterEach, OneEachMap, Busy
  <2>4. PartIsWritten'
    <3> SUFFICES ASSUME ~together, NEW e \in Extractors, Busy(e)
                 PROVE  /\ parts[extracting[e].map] = extracting[e].inode
                        /\ archives'[extracting[e].map] = 0
                        /\ \A k \in Maps : archives'[k] # extracting[e].inode
      BY <2>2 DEF PartIsWritten, Busy
    <3>1. extracting[e].map \in Maps /\ extracting[e].inode # 0
      BY DEF Busy
    <3> QED BY <2>1, <3>1 DEF PartIsWritten
  <2>5. InstalledIsWhole'
    BY <2>1, <2>2 DEF InstalledIsWhole
  <2> QED BY <2>1, <2>3, <2>4, <2>5
<1>3. CASE UNCHANGED basemapVars
  BY <1>3 DEF basemapVars, OneWriterEach, OneEachMap, PartIsWritten, InstalledIsWhole, Busy
<1>4. ASSUME NEW e \in Extractors, ExtractBegins(e) PROVE BasemapsInv' /\ UNCHANGED archives
  BY <1>4, BeginsKeeps DEF ExtractBegins
<1>5. ASSUME NEW e \in Extractors, ExtractEnds(e)
      PROVE  /\ BasemapsInv' /\ UNCHANGED together
             /\ ~together => \A k \in Maps : archives[k] # 0 => archives'[k] = archives[k]
  BY <1>5, EndsKeeps DEF ExtractEnds
<1> QED BY <1>1, <1>2, <1>3, <1>4, <1>5, CutKeeps DEF BasemapsNext

(* Whatever is asked for twice, killed, delivered again or deleted, a map   *)
(* that has the name of an archive is whole, and one installed is replaced  *)
(* only after it was deleted, as long as no two executions were at one map  *)
(* (tasks.fetch_basemap, api/v1/basemaps.py).                               *)
THEOREM BasemapsHold == BackroomSpec => BasemapsCorrect
<1>1. BackroomInit => BasemapsInv
  BY BasemapsInvStarts DEF BackroomInit
<1>2. [BackroomNext]_backroomVars => [BasemapsNext]_basemapVars
  BY DEF BackroomNext, SlidesMove, MergeMoves, PairsMove, ShowcaseMoves, LocationsMove, BasemapsMove,
         backroomVars
<1>3. BasemapsInv /\ [BackroomNext]_backroomVars => BasemapsInv'
  BY <1>2, BasemapsInvKept
<1>4. BasemapsInv => BasemapsTypeOK /\ InstalledIsWhole
  <2> SUFFICES ASSUME BasemapsInv PROVE BasemapsTypeOK
    BY DEF BasemapsInv
  <2>1. ToSet(orders) \subseteq Maps
    BY DEF BasemapsInv, BasemapsTyped, ToSet
  <2> QED BY <2>1 DEF BasemapsInv, BasemapsTyped, BasemapsTypeOK
<1>5. BasemapsInv /\ [BackroomNext]_backroomVars =>
        [~together' => \A m \in Maps : archives[m] # 0 => archives'[m] \in {0, archives[m]}]_basemapVars
  BY <1>2, BasemapsInvKept
<1> QED BY <1>1, <1>3, <1>4, <1>5, PTL DEF BackroomSpec, BasemapsCorrect, InstalledStays

-----------------------------------------------------------------------------
(* What positions keep.  As long as no extraction was committed inside an   *)
(* inference: what lent a position has one of its own from its camera       *)
(* (LentByCamera); what an execution decided is lent by such an asset to    *)
(* one that is none and whose file, as far as it was read, says nothing     *)
(* (DecisionHolds); and what the file says is where the asset is.           *)
Positions == Sites \cup {NoSite}
Anchored(s) == position[s] # NoSite /\ label[s] = "camera"
PositionsTyped ==
    /\ exif \in [Shots -> Positions] /\ position \in [Shots -> Positions] /\ read \subseteq Shots
    /\ label \in [Shots -> {"camera", "inferred"}] /\ lentBy \in [Shots -> Shots]
    /\ inferring = [w \in Inferrers |-> inferring[w]]
    /\ \A w \in Inferrers : inferring[w].at = "decided" =>
          /\ DOMAIN inferring[w].lend \subseteq Shots
          /\ \A s \in DOMAIN inferring[w].lend :
                inferring[w].lend[s][1] \in Shots /\ inferring[w].lend[s][2] \in Sites
AddressesTyped ==
    /\ address \in [Sites -> {"unknown", "nothing", "street"}]
    /\ asked \in [Sites -> 0..(RetryAfter + 1)]
    /\ loading = [v \in PageLoads |-> loading[v]]
    /\ \A v \in PageLoads :
          /\ DOMAIN loading[v].rows \subseteq Sites
          /\ \A p \in DOMAIN loading[v].rows : loading[v].rows[p] \in {"unknown", "nothing"}
LentByCamera == \A s \in Shots : label[s] = "inferred" => Anchored(lentBy[s])
DecisionHolds ==
    \A w \in Inferrers : inferring[w].at = "decided" =>
        \A s \in DOMAIN inferring[w].lend :
            /\ Anchored(inferring[w].lend[s][1]) /\ ~Anchored(s)
            /\ s \in read => exif[s] = NoSite
GpsInv == PositionsTyped /\ (~crossed => LentByCamera /\ DecisionHolds) /\ ExifStands

(* What an extraction reads, and nothing lent, moves an asset.              *)
LEMMA ExtractionKeeps ==
    ASSUME GpsInv, NEW s \in Shots, ExtractPosition(s)
    PROVE  GpsInv'
<1> USE DEF GpsInv, PositionsTyped
<1>1. UNCHANGED <<exif, label, lentBy, inferring>> /\ read' = read \cup {s}
      /\ position' \in [Shots -> Positions]
      /\ (\A t \in Shots \ {s} : position'[t] = position[t])
      /\ position'[s] = IF exif[s] = NoSite THEN position[s] ELSE exif[s]
  BY DEF ExtractPosition, gpsVars
<1>2. PositionsTyped'
  BY <1>1
<1>3. ASSUME ~crossed' PROVE ~crossed /\ \A w \in Inferrers : inferring[w].at = "free"
  BY <1>3 DEF ExtractPosition
<1>4. ASSUME ~crossed' PROVE LentByCamera'
  BY <1>1, <1>3, <1>4 DEF LentByCamera, Anchored
<1>5. ASSUME ~crossed' PROVE DecisionHolds'
  BY <1>1, <1>3, <1>5 DEF DecisionHolds
<1>6. ExifStands'
  BY <1>1, <1>3 DEF ExifStands
<1> QED BY <1>2, <1>4, <1>5, <1>6

(* A file written again has to be read again.                               *)
LEMMA RetagKeeps ==
    ASSUME GpsInv, NEW s \in Shots, Retag(s)
    PROVE  GpsInv'
<1> USE DEF GpsInv, PositionsTyped
<1>1. Retags[s] \in Positions
  BY LocationsAssumption DEF LocationsAssumption, Retag, Positions
<1>2. UNCHANGED <<position, label, lentBy, inferring, crossed>> /\ read' = read \ {s}
      /\ exif' \in [Shots -> Positions] /\ \A t \in Shots \ {s} : exif'[t] = exif[t]
  BY <1>1 DEF Retag
<1>3. PositionsTyped'
  BY <1>2
<1>4. LentByCamera => LentByCamera'
  BY <1>2 DEF LentByCamera, Anchored
<1>5. DecisionHolds => DecisionHolds'
  BY <1>2 DEF DecisionHolds, Anchored
<1>6. ExifStands'
  BY <1>2 DEF ExifStands
<1> QED BY <1>2, <1>3, <1>4, <1>5, <1>6

(* A decision is about gaps and anchors.                                    *)
LEMMA DecidingKeeps ==
    ASSUME GpsInv, NEW w \in Inferrers, InferReads(w)
    PROVE  GpsInv'
<1> USE DEF GpsInv, PositionsTyped
<1> DEFINE subjects == {s \in Shots : Subject(s)}
           givers(s) == {t \in Shots : Anchor(t) /\ Convincing(s, t)}
           lent == {s \in subjects : givers(s) # {}}
<1>1. PICK lend \in [lent -> Shots] :
         /\ \A s \in lent : lend[s] \in givers(s)
         /\ inferring' = [inferring EXCEPT ![w] =
               [at |-> "decided", lend |-> [s \in lent |-> <<lend[s], position[lend[s]]>>]]]
  BY DEF InferReads
<1>2. UNCHANGED <<exif, read, position, label, lentBy, crossed>>
  BY DEF InferReads
<1>3. \A s \in lent : s \in Shots /\ position[s] = NoSite
  BY DEF Subject
<1>4. \A s \in lent : lend[s] \in Shots /\ Anchored(lend[s])
  BY <1>1 DEF Anchor, Anchored
<1> DEFINE decision == [s \in lent |-> <<lend[s], position[lend[s]]>>]
<1>5. DOMAIN decision = lent
      /\ \A s \in lent : decision[s][1] = lend[s] /\ decision[s][2] = position[lend[s]]
  OBVIOUS
<1>6. \A s \in lent : position[lend[s]] \in Sites
  BY <1>4 DEF Anchored, Positions
<1> HIDE DEF lent, decision
<1>7. /\ inferring' = [v \in Inferrers |-> inferring'[v]]
      /\ inferring'[w].lend = decision
      /\ \A v \in Inferrers \ {w} : inferring'[v] = inferring[v]
  BY <1>1 DEF decision
<1>8. PositionsTyped'
  BY <1>2, <1>3, <1>4, <1>5, <1>6, <1>7
<1>9. LentByCamera => LentByCamera'
  BY <1>2 DEF LentByCamera, Anchored
<1>10. ExifStands'
  BY <1>2 DEF ExifStands
<1>11. ASSUME ~crossed, DecisionHolds, NEW v \in Inferrers, inferring'[v].at = "decided",
              NEW s \in DOMAIN inferring'[v].lend
       PROVE  /\ Anchored(inferring'[v].lend[s][1]) /\ ~Anchored(s)
              /\ s \in read => exif[s] = NoSite
  <2>1. CASE v # w
    BY <1>7, <1>11, <2>1 DEF DecisionHolds
  <2>2. CASE v = w
    <3>1. s \in lent /\ inferring'[v].lend[s][1] = lend[s]
      BY <1>5, <1>7, <1>11, <2>2
    <3>2. Anchored(lend[s]) /\ position[s] = NoSite
      BY <1>3, <1>4, <3>1
    <3>3. s \in read => exif[s] = NoSite
      BY <1>11, <3>2 DEF ExifStands
    <3> QED BY <3>1, <3>2, <3>3 DEF Anchored
  <2> QED BY <2>1, <2>2
<1>12. ~crossed => DecisionHolds'
  BY <1>2, <1>11 DEF DecisionHolds, Anchored
<1> QED BY <1>2, <1>8, <1>9, <1>10, <1>12

(* A commit moves only what stands nowhere of its own.                      *)
LEMMA CommitKeepsPositions ==
    ASSUME GpsInv, NEW w \in Inferrers, InferCommits(w)
    PROVE  GpsInv'
<1> USE DEF GpsInv, PositionsTyped
<1> DEFINE lend == inferring[w].lend
<1>1. /\ inferring[w].at = "decided"
      /\ position' = [s \in Shots |-> IF s \in DOMAIN lend THEN lend[s][2] ELSE position[s]]
      /\ label' = [s \in Shots |-> IF s \in DOMAIN lend THEN "inferred" ELSE label[s]]
      /\ lentBy' = [s \in Shots |-> IF s \in DOMAIN lend THEN lend[s][1] ELSE lentBy[s]]
      /\ inferring' = [inferring EXCEPT ![w] = NotInferring]
      /\ UNCHANGED <<exif, read, crossed>>
  BY DEF InferCommits
<1>2. DOMAIN lend \subseteq Shots /\ \A s \in DOMAIN lend : lend[s][1] \in Shots /\ lend[s][2] \in Sites
  BY <1>1
<1> HIDE DEF lend
<1>3. /\ inferring' = [v \in Inferrers |-> inferring'[v]] /\ inferring'[w].at = "free"
      /\ \A v \in Inferrers \ {w} : inferring'[v] = inferring[v]
  BY <1>1 DEF NotInferring
<1>4. /\ position' \in [Shots -> Positions] /\ label' \in [Shots -> {"camera", "inferred"}]
      /\ lentBy' \in [Shots -> Shots]
  BY <1>1, <1>2 DEF Positions
<1>5. \A s \in Shots \ DOMAIN lend :
        position'[s] = position[s] /\ label'[s] = label[s] /\ lentBy'[s] = lentBy[s]
  BY <1>1
<1>6. \A s \in DOMAIN lend : label'[s] = "inferred" /\ lentBy'[s] = lend[s][1]
  BY <1>1, <1>2
<1>7. PositionsTyped'
  BY <1>1, <1>3, <1>4
<1>8. ASSUME ~crossed PROVE LentByCamera' /\ DecisionHolds' /\ ExifStands'
  <2>1. \A s \in DOMAIN lend : Anchored(lend[s][1]) /\ ~Anchored(s) /\ (s \in read => exif[s] = NoSite)
    BY <1>1, <1>8 DEF DecisionHolds, lend
  <2>2. \A s \in Shots : Anchored(s) => Anchored(s)'
    BY <1>5, <2>1 DEF Anchored
  <2>3. \A s \in Shots : ~Anchored(s) => ~Anchored(s)'
    BY <1>5, <1>6 DEF Anchored
  <2>4. LentByCamera'
    <3> SUFFICES ASSUME NEW s \in Shots, label'[s] = "inferred" PROVE position'[lentBy'[s]] # NoSite /\ label'[lentBy'[s]] = "camera"
      BY DEF LentByCamera, Anchored
    <3>1. CASE s \in DOMAIN lend
      BY <1>2, <1>6, <2>1, <2>2, <3>1 DEF Anchored
    <3>2. CASE s \notin DOMAIN lend
      BY <1>5, <1>8, <2>2, <3>2 DEF LentByCamera, Anchored
    <3> QED BY <3>1, <3>2
  <2>5. ASSUME NEW v \in Inferrers, inferring'[v].at = "decided", NEW s \in DOMAIN inferring'[v].lend
        PROVE  /\ LET t == inferring'[v].lend[s][1] IN position'[t] # NoSite /\ label'[t] = "camera"
               /\ ~(position'[s] # NoSite /\ label'[s] = "camera")
               /\ s \in read => exif[s] = NoSite
    <3>1. v # w /\ inferring'[v] = inferring[v]
      BY <1>3, <2>5
    <3>2. s \in Shots /\ inferring[v].lend[s][1] \in Shots
      BY <2>5, <3>1
    <3>3. Anchored(inferring[v].lend[s][1]) /\ ~Anchored(s) /\ (s \in read => exif[s] = NoSite)
      BY <1>8, <2>5, <3>1 DEF DecisionHolds
    <3> QED BY <2>2, <2>3, <3>1, <3>2, <3>3 DEF Anchored
  <2>6. DecisionHolds'
    <3> SUFFICES ASSUME NEW v \in Inferrers, inferring'[v].at = "decided", NEW s \in DOMAIN inferring'[v].lend
                 PROVE  /\ LET t == inferring'[v].lend[s][1] IN position'[t] # NoSite /\ label'[t] = "camera"
                        /\ ~(position'[s] # NoSite /\ label'[s] = "camera")
                        /\ s \in read' => exif'[s] = NoSite
      BY DEF DecisionHolds, Anchored
    <3> QED BY ZenonT(40), <1>1, <2>5
  <2>7. ExifStands'
    BY <1>1, <1>5, <1>8, <2>1 DEF ExifStands
  <2> QED BY <2>4, <2>6, <2>7
<1> QED BY <1>1, <1>7, <1>8 DEF ExifStands

(* Positions are moved by these four.                                       *)
LEMMA GpsInvKept ==
    ASSUME GpsInv, [LocationsNext]_locateVars PROVE GpsInv'
<1>1. CASE UNCHANGED <<exif, read, position, label, lentBy, inferring, crossed>>
  BY <1>1 DEF GpsInv, PositionsTyped, LentByCamera, DecisionHolds, ExifStands, Anchored
<1>2. ASSUME NEW s \in Shots, EmbedShot(s) PROVE GpsInv'
  BY <1>1, <1>2 DEF EmbedShot
<1>3. ASSUME NEW v \in PageLoads, LoadPlaces(v) \/ LookupsAnswer(v) PROVE GpsInv'
  BY <1>1, <1>3 DEF LoadPlaces, LookupsAnswer, gpsVars
<1>4. CASE TimePasses
  BY <1>1, <1>4 DEF TimePasses, gpsVars
<1> QED BY <1>1, <1>2, <1>3, <1>4, ExtractionKeeps, RetagKeeps, DecidingKeeps, CommitKeepsPositions
        DEF LocationsNext, locateVars

(* What a lookup answers goes where nothing was known, or had been found.   *)
LEMMA AnswersKeep ==
    ASSUME AddressesTyped, NEW v \in PageLoads, LookupsAnswer(v)
    PROVE  /\ AddressesTyped'
           /\ \A p \in Sites : address[p] = "street" => address'[p] = "street"
<1> USE DEF AddressesTyped
<1> DEFINE rows == loading[v].rows
<1>1. DOMAIN rows \subseteq Sites /\ \A p \in DOMAIN rows : rows[p] \in {"unknown", "nothing"}
  OBVIOUS
<1>2. /\ loading' = [u \in PageLoads |-> loading'[u]]
      /\ \A u \in PageLoads : loading'[u] = loading[u] \/ loading'[u].rows = << >>
  BY DEF LookupsAnswer, NotLoading
<1>3. \A u \in PageLoads :
         /\ DOMAIN loading'[u].rows \subseteq Sites
         /\ \A p \in DOMAIN loading'[u].rows : loading'[u].rows[p] \in {"unknown", "nothing"}
  BY <1>2
<1>4. RetryAfter \in Nat
  BY LocationsAssumption DEF LocationsAssumption
<1>5. PICK answered \in SUBSET DOMAIN rows : \E said \in [answered -> {"nothing", "street"}] :
         IF \E p \in answered : rows[p] = "unknown" /\ address[p] # "unknown"
         THEN UNCHANGED <<address, asked>>
         ELSE /\ Store(v, said)
              /\ asked' = [p \in Sites |-> IF p \in answered THEN 0 ELSE asked[p]]
  BY DEF LookupsAnswer
<1>6. PICK said \in [answered -> {"nothing", "street"}] :
         IF \E p \in answered : rows[p] = "unknown" /\ address[p] # "unknown"
         THEN UNCHANGED <<address, asked>>
         ELSE /\ Store(v, said)
              /\ asked' = [p \in Sites |-> IF p \in answered THEN 0 ELSE asked[p]]
  BY <1>5
<1>7. CASE UNCHANGED <<address, asked>>
  BY <1>2, <1>3, <1>7
<1>8. CASE /\ \A p \in answered : rows[p] = "unknown" => address[p] = "unknown"
           /\ Store(v, said)
           /\ asked' = [p \in Sites |-> IF p \in answered THEN 0 ELSE asked[p]]
  <2>1. asked' \in [Sites -> 0..(RetryAfter + 1)]
    BY <1>4, <1>8
  <2>2. address' = [p \in Sites |-> IF p \in answered /\ said[p] # rows[p] THEN said[p] ELSE address[p]]
    BY <1>6, <1>8 DEF Store
  <2>3. address' \in [Sites -> {"unknown", "nothing", "street"}]
    BY <2>2
  <2>4. ASSUME NEW p \in Sites, address[p] = "street" PROVE address'[p] = "street"
    <3>1. CASE p \in answered /\ said[p] # rows[p]
      <4>1. rows[p] = "nothing"
        BY <1>1, <1>8, <2>4, <3>1
      <4> QED BY <2>2, <3>1, <4>1
    <3> QED BY <2>2, <2>4, <3>1
  <2> QED BY <1>2, <1>3, <2>1, <2>3, <2>4
<1> QED BY <1>6, <1>7, <1>8

(* Rows are read when they say nothing, and an address found stays.         *)
LEMMA AddressesKept ==
    ASSUME AddressesTyped, PositionsTyped, [LocationsNext]_locateVars
    PROVE  /\ AddressesTyped'
           /\ \A p \in Sites : address[p] = "street" => address'[p] = "street"
<1> USE DEF AddressesTyped
<1>1. CASE UNCHANGED cacheVars
  BY <1>1 DEF cacheVars
<1>2. ASSUME NEW s \in Shots, ExtractPosition(s) \/ EmbedShot(s) \/ Retag(s) PROVE UNCHANGED cacheVars
  BY <1>2 DEF ExtractPosition, EmbedShot, Retag
<1>3. ASSUME NEW w \in Inferrers, InferReads(w) \/ InferCommits(w) PROVE UNCHANGED cacheVars
  BY <1>3 DEF InferReads, InferCommits
<1>4. ASSUME NEW v \in PageLoads, LoadPlaces(v)
      PROVE  AddressesTyped' /\ UNCHANGED address
  <2> DEFINE rows == [p \in {position[s] : s \in Shots} \ {NoSite} |-> address[p]]
             missed == [p \in Misses(rows) |-> rows[p]]
  <2>1. UNCHANGED <<address, asked>> /\ loading' = [loading EXCEPT ![v] = [at |-> "asking", rows |-> missed]]
    BY <1>4 DEF LoadPlaces
  <2>2. {position[s] : s \in Shots} \ {NoSite} \subseteq Sites
    BY DEF PositionsTyped, Positions
  <2>3. DOMAIN missed \subseteq Sites /\ \A p \in DOMAIN missed : missed[p] \in {"unknown", "nothing"}
    BY <2>2 DEF Misses
  <2> HIDE DEF missed
  <2>4. /\ loading' = [u \in PageLoads |-> loading'[u]]
        /\ loading'[v].rows = missed /\ \A u \in PageLoads \ {v} : loading'[u] = loading[u]
    BY <2>1
  <2> QED BY <2>1, <2>3, <2>4
<1>5. CASE TimePasses
  <2>1. RetryAfter \in Nat
    BY LocationsAssumption DEF LocationsAssumption
  <2>2. asked' \in [Sites -> 0..(RetryAfter + 1)] /\ UNCHANGED <<address, loading>>
    BY <1>5, <2>1 DEF TimePasses
  <2> QED BY <2>2
<1>6. CASE UNCHANGED locateVars
  BY <1>6 DEF locateVars
<1> QED BY <1>1, <1>2, <1>3, <1>4, <1>5, <1>6, AnswersKeep DEF LocationsNext

(* The bound on incidents only runs down.                                   *)
LEMMA LocateCounts ==
    ASSUME locateBudget \in 0..LocateIncidents, [LocationsNext]_locateVars
    PROVE  locateBudget' \in 0..LocateIncidents
<1>1. LocateIncidents \in Nat
  BY LocationsAssumption DEF LocationsAssumption
<1>2. locateBudget' = locateBudget \/ (locateBudget > 0 /\ locateBudget' = locateBudget - 1)
  <2>1. CASE UNCHANGED locateVars
    BY <2>1 DEF locateVars
  <2>2. ASSUME NEW s \in Shots, ExtractPosition(s) \/ EmbedShot(s) \/ Retag(s) PROVE <1>2
    BY <2>2 DEF ExtractPosition, EmbedShot, Retag, Budgeted
  <2>3. ASSUME NEW w \in Inferrers, InferReads(w) \/ InferCommits(w) PROVE <1>2
    BY <2>3 DEF InferReads, InferCommits, Budgeted
  <2>4. ASSUME NEW v \in PageLoads, LoadPlaces(v) \/ LookupsAnswer(v) PROVE <1>2
    BY <2>4 DEF LoadPlaces, LookupsAnswer, Budgeted
  <2>5. CASE TimePasses
    BY <2>5 DEF TimePasses, Budgeted
  <2> QED BY <2>1, <2>2, <2>3, <2>4, <2>5 DEF LocationsNext
<1> QED BY <1>1, <1>2

LocationsInv == GpsInv /\ AddressesTyped /\ locateBudget \in 0..LocateIncidents

(* At first nothing is known of any position or place.                      *)
LEMMA LocationsInvStarts == LocationsInit => LocationsInv
<1> SUFFICES ASSUME LocationsInit PROVE LocationsInv
  OBVIOUS
<1> USE DEF LocationsInit
<1>1. exif \in [Shots -> Positions]
  BY LocationsAssumption DEF LocationsAssumption, Positions
<1>2. \A w \in Inferrers : inferring[w].at # "decided"
  BY DEF NotInferring
<1>3. GpsInv
  BY <1>1, <1>2 DEF GpsInv, PositionsTyped, LentByCamera, DecisionHolds, ExifStands, Positions
<1>4. LocateIncidents \in Nat /\ RetryAfter \in Nat
  BY LocationsAssumption DEF LocationsAssumption
<1>5. \A v \in PageLoads : DOMAIN loading[v].rows = {}
  BY DEF NotLoading
<1>6. address \in [Sites -> {"unknown", "nothing", "street"}] /\ asked \in [Sites -> 0..(RetryAfter + 1)]
  BY <1>4
<1>7. AddressesTyped
  BY <1>5, <1>6 DEF AddressesTyped
<1> QED BY <1>3, <1>4, <1>7 DEF LocationsInv

(* However files are retagged, extracted, inferred about and looked up: a   *)
(* position is lent by a camera's own, what a file says is where its asset  *)
(* is, as long as no extraction was committed inside an inference, and an   *)
(* address that was found stays (tasks.infer_locations, media/geocoding.py).*)
THEOREM LocationsHold == BackroomSpec => LocationsCorrect
<1>1. BackroomInit => LocationsInv
  BY LocationsInvStarts DEF BackroomInit
<1>2. [BackroomNext]_backroomVars => [LocationsNext]_locateVars
  BY DEF BackroomNext, SlidesMove, MergeMoves, PairsMove, ShowcaseMoves, LocationsMove, BasemapsMove,
         backroomVars
<1>3. LocationsInv /\ [LocationsNext]_locateVars =>
        LocationsInv' /\ \A p \in Sites : address[p] = "street" => address'[p] = "street"
  BY GpsInvKept, AddressesKept, LocateCounts DEF LocationsInv, GpsInv
<1>4. LocationsInv => LocationsTypeOK
  BY DEF LocationsInv, GpsInv, PositionsTyped, AddressesTyped, LocationsTypeOK, Positions
<1>5. LocationsInv => OneHop
  BY DEF LocationsInv, GpsInv, LentByCamera, OneHop, Anchored
<1>6. LocationsInv => ExifStands
  BY DEF LocationsInv, GpsInv
<1>7. LocationsInv /\ [BackroomNext]_backroomVars => LocationsInv'
  BY <1>2, <1>3
<1>8. LocationsInv /\ [BackroomNext]_backroomVars =>
        [\A p \in Sites : address[p] = "street" => address'[p] = "street"]_locateVars
  BY <1>2, <1>3
<1> QED BY <1>1, <1>4, <1>5, <1>6, <1>7, <1>8, PTL DEF BackroomSpec, LocationsCorrect, AddressStays

(* Both, for any shots, tags, inferences, maps and executions: what the map *)
(* page shows and the maps it shows it on (tasks.infer_locations,           *)
(* media/geocoding.py, tasks.fetch_basemap).                                *)
THEOREM MapsHold == BackroomSpec => MapsCorrect
  BY LocationsHold, BasemapsHold DEF MapsCorrect

-----------------------------------------------------------------------------
(* What merged libraries keep.  Folders are sequences of names: a root is   *)
(* above the share it started as (RootsAbove), a mapping no note was about  *)
(* leads from the root it is for to where the share was mapped (MapsLead),  *)
(* and a plan is still of the libraries as they are (PlanStands): nothing   *)
(* but a merge changes them.                                                *)
MergeTyped ==
    /\ DOMAIN root \subseteq DOMAIN Shares /\ DOMAIN mapped = DOMAIN root
    /\ DOMAIN scanRows = DOMAIN root
    /\ \A l \in DOMAIN root : root[l] \in Seq(FolderNames) /\ DOMAIN scanRows[l] = Statuses
    /\ \A a \in DOMAIN entry :
          /\ a[1] \in DOMAIN Shares /\ a[2] \in DiskFiles
          /\ entry[a].library \in DOMAIN root /\ entry[a].path \in Seq(FolderNames)
    /\ mergeBudget \in 0..MergeIncidents
RootsAbove ==
    \A l \in DOMAIN root : IsPrefix(root[l], Shares[l])
MapsLead ==
    \A l \in DOMAIN root :
        /\ \A p \in DOMAIN mapped[l] \ spoken :
              p \in Profiles /\ mapped[l][p] \in Seq(FolderNames)
        /\ \A p \in DOMAIN MapsTo[l] \ spoken :
              /\ p \in DOMAIN mapped[l]
              /\ MapsTo[l][p] = mapped[l][p] \o Below(root[l], Shares[l])
PlanStands ==
    planned # NoPlan =>
        /\ planned.parent \in Seq(FolderNames)
        /\ 1 \in DOMAIN planned.order /\ ToSet(planned.order) = Members(planned.parent)
        /\ \A l \in Members(planned.parent) : planned.subfolder[l] = Subfolder(planned.parent, l)
        /\ planned.mappings = KeptMappings(planned.parent, planned.order)
        /\ planned.noted = Disputed(planned.parent, planned.order)
MergeInv ==
    /\ MergeTyped /\ RootsAbove /\ MapsLead /\ PlanStands
    /\ SameFile /\ OneActiveScan /\ MappingsHold

(* No folder on the way to a share begins or ends with a dot.               *)
NothingDotted ==
    \A l \in DOMAIN Shares : \A i \in DOMAIN Shares[l] : Shares[l][i] \notin DOMAIN Stripped

(* A folder and what is below it; a workstation folder and what it ends with. *)
LEMMA PathSplits ==
    ASSUME NEW S, NEW s \in Seq(S), NEW t \in Seq(S), IsPrefix(s, t)
    PROVE  s \o Below(s, t) = t /\ Below(s, t) \in Seq(S)
<1>1. /\ Len(s) \in Nat /\ Len(t) \in Nat /\ Len(s) <= Len(t)
      /\ SubSeq(s, 1, Len(s)) = SubSeq(t, 1, Len(s))
  BY LenProperties DEF IsPrefix
<1>2. SubSeq(s, 1, Len(s)) = s /\ SubSeq(t, 1, Len(t)) = t
  BY SubSeqFull
<1>3. /\ 1 \in 1..Len(t) + 1 /\ Len(s) \in 1 - 1..Len(t) /\ Len(t) \in Len(s)..Len(t)
      /\ Len(s) + 1 \in Int
  BY <1>1
<1>4. SubSeq(t, 1, Len(s)) \o SubSeq(t, Len(s) + 1, Len(t)) = SubSeq(t, 1, Len(t))
  BY <1>3, ConcatAdjacentSubSeq
<1>5. \A i \in Len(s) + 1 .. Len(t) : t[i] \in S
  BY <1>1, LenProperties
<1>6. SubSeq(t, Len(s) + 1, Len(t)) \in Seq(S)
  BY <1>1, <1>3, <1>5, SubSeqProperties
<1> QED BY <1>1, <1>2, <1>4, <1>6 DEF Below

LEMMA PathsRegroup ==
    \A x, y, z \in Seq(FolderNames) : (x \o y) \o z = x \o (y \o z)
BY ConcatAssociative

LEMMA PathJoins ==
    ASSUME NEW S, NEW s \in Seq(S), NEW u \in Seq(S)
    PROVE  IsPrefix(s, s \o u) /\ Below(s, s \o u) = u
<1>1. /\ Len(s) \in Nat /\ Len(u) \in Nat /\ s \o u \in Seq(S) /\ Len(s \o u) = Len(s) + Len(u)
      /\ \A i \in 1..Len(s) + Len(u) : (s \o u)[i] = IF i <= Len(s) THEN s[i] ELSE u[i - Len(s)]
  BY LenProperties, ConcatProperties
<1>2. SubSeq(s, 1, Len(s)) = SubSeq(s \o u, 1, Len(s))
  <2>1. SubSeq(s, 1, Len(s)) = s
    BY SubSeqFull
  <2>2. \A i \in 1..Len(s) : (s \o u)[i] \in S /\ (s \o u)[i] = s[i]
    BY <1>1, LenProperties
  <2>3. /\ SubSeq(s \o u, 1, Len(s)) \in Seq(S) /\ Len(SubSeq(s \o u, 1, Len(s))) = Len(s)
        /\ \A i \in 1..Len(s) : SubSeq(s \o u, 1, Len(s))[i] = s[i]
    BY <1>1, <2>2, SubSeqProperties
  <2> QED BY <2>1, <2>3, SeqEqual
<1>3. IsPrefix(s, s \o u)
  BY <1>1, <1>2 DEF IsPrefix
<1>4. s \o Below(s, s \o u) = s \o u /\ Below(s, s \o u) \in Seq(S)
  BY <1>1, <1>3, PathSplits
<1>5. Below(s, s \o u) = u
  <2>1. PICK v \in Seq(S) : v = Below(s, s \o u)
    BY <1>4
  <2>2. s \o v = s \o u
    BY <1>4, <2>1
  <2>3. v = u
    BY <2>2, ConcatSimplifications
  <2> QED BY <2>1, <2>3
<1> QED BY <1>3, <1>5

LEMMA SuffixLifts ==
    ASSUME NEW S, NEW s \in Seq(S), NEW t \in Seq(S), EndsWith(t, s)
    PROVE  Lifted(t, s) \o s = t /\ Lifted(t, s) \in Seq(S)
<1>1. Len(s) \in Nat /\ Len(t) \in Nat /\ DOMAIN s = 1..Len(s) /\ DOMAIN t = 1..Len(t)
  BY LenProperties
<1>2. /\ Reverse(s) = [i \in 1..Len(s) |-> s[(Len(s) - i) + 1]]
      /\ Reverse(t) = [i \in 1..Len(t) |-> t[(Len(t) - i) + 1]]
  BY DEF Reverse
<1>3. \A q \in Seq(S) : [i \in 1..Len(q) |-> q[(Len(q) - i) + 1]] \in Seq(S)
                        /\ Len([i \in 1..Len(q) |-> q[(Len(q) - i) + 1]]) = Len(q)
  <2>1. SUFFICES ASSUME NEW q \in Seq(S)
                 PROVE  [i \in 1..Len(q) |-> q[(Len(q) - i) + 1]] \in Seq(S)
                        /\ Len([i \in 1..Len(q) |-> q[(Len(q) - i) + 1]]) = Len(q)
    OBVIOUS
  <2>2. Len(q) \in Nat /\ q \in [1..Len(q) -> S]
    BY LenProperties
  <2>3. \A i \in 1..Len(q) : q[(Len(q) - i) + 1] \in S
    BY <2>2
  <2> QED BY <2>2, <2>3
<1>4. /\ Reverse(s) \in Seq(S) /\ Len(Reverse(s)) = Len(s)
      /\ Reverse(t) \in Seq(S) /\ Len(Reverse(t)) = Len(t)
  BY <1>2, <1>3
<1>5. Len(s) <= Len(t) /\ SubSeq(Reverse(s), 1, Len(s)) = SubSeq(Reverse(t), 1, Len(s))
  BY <1>4 DEF EndsWith, IsSuffix, IsPrefix
<1>6. \A i \in 1..Len(s) : Reverse(s)[i] = Reverse(t)[i]
  <2>1. /\ \A i \in 1..Len(s) : Reverse(s)[i] \in S
        /\ \A i \in 1..Len(s) : Reverse(t)[i] \in S
    BY <1>1, <1>4, <1>5, LenProperties
  <2>2. /\ \A i \in 1..Len(s) : SubSeq(Reverse(s), 1, Len(s))[i] = Reverse(s)[i]
        /\ \A i \in 1..Len(s) : SubSeq(Reverse(t), 1, Len(s))[i] = Reverse(t)[i]
    BY <1>1, <2>1, SubSeqProperties
  <2> QED BY <1>5, <2>2
<1>l. PICK m \in Nat, k \in Nat : m = Len(s) /\ k = Len(t)
  BY <1>1
<1>m. m <= k
  BY <1>5, <1>l
<1>7. \A i \in 1..Len(s) : s[i] = t[Len(t) - Len(s) + i]
  <2>1. SUFFICES ASSUME NEW i \in 1..Len(s) PROVE s[i] = t[Len(t) - Len(s) + i]
    OBVIOUS
  <2>1a. i \in 1..m
    BY <1>l
  <2>2. PICK j \in 1..m : j = m - i + 1
    BY <2>1a
  <2>3. Reverse(s)[j] = s[(m - j) + 1] /\ Reverse(t)[j] = t[(k - j) + 1]
    <3>1. j \in 1..Len(s) /\ j \in 1..Len(t)
      BY <1>l, <1>m
    <3> QED BY <1>2, <1>l, <3>1
  <2>4. (m - j) + 1 = i /\ (k - j) + 1 = k - m + i
    BY <2>2
  <2> QED BY <1>6, <1>l, <2>2, <2>3, <2>4
<1>8. PICK n \in 0..k : n = k - m
  BY <1>m
<1>9. /\ \A i \in 1..n : t[i] \in S
      /\ SubSeq(t, 1, n) \in Seq(S) /\ Len(SubSeq(t, 1, n)) = n
      /\ \A i \in 1..n : SubSeq(t, 1, n)[i] = t[i]
  <2>1. \A i \in 1..n : t[i] \in S
    <3>1. \A i \in 1..n : i \in 1..k
      BY <1>8
    <3> QED BY <1>l, <3>1, LenProperties
  <2>2. 1 \in Int /\ n \in Int /\ n - 1 + 1 = n /\ n >= 0 /\ \A i \in 1..n : 1 + i - 1 = i
    BY <1>8
  <2>3. /\ SubSeq(t, 1, n) \in Seq(S)
        /\ Len(SubSeq(t, 1, n)) = IF 1 <= n THEN n - 1 + 1 ELSE 0
        /\ \A i \in 1..n - 1 + 1 : SubSeq(t, 1, n)[i] = t[1 + i - 1]
    BY <2>1, <2>2, SubSeqProperties
  <2>4. (IF 1 <= n THEN n - 1 + 1 ELSE 0) = n
    BY <2>2
  <2> QED BY <2>1, <2>2, <2>3, <2>4
<1>10. SubSeq(t, 1, n) \o s = t
  <2>1. PICK h \in Seq(S) : h = SubSeq(t, 1, n)
    BY <1>9
  <2>2. /\ h \o s \in Seq(S) /\ Len(h \o s) = Len(h) + Len(s)
        /\ \A i \in 1..Len(h) + Len(s) : (h \o s)[i] = IF i <= Len(h) THEN h[i] ELSE s[i - Len(h)]
    BY ConcatProperties
  <2>3. Len(h) = n /\ \A i \in 1..n : h[i] = t[i]
    BY <1>9, <2>1
  <2>3a. n + m = k
    BY <1>8
  <2>3b. Len(h \o s) = k
    BY <1>l, <2>2, <2>3, <2>3a
  <2>4. \A i \in 1..Len(t) : (h \o s)[i] = t[i]
    <3>1. SUFFICES ASSUME NEW i \in 1..k PROVE (h \o s)[i] = t[i]
      BY <1>l
    <3>2. (h \o s)[i] = IF i <= n THEN h[i] ELSE s[i - n]
      BY <1>l, <2>2, <2>3, <2>3a
    <3>3. CASE i <= n
      <4>1. i \in 1..n
        BY <3>3, <1>8
      <4> QED BY <2>3, <3>2, <3>3, <4>1
    <3>4. CASE ~ (i <= n)
      <4>1. PICK j \in 1..m : j = i - n
        BY <1>8, <3>4
      <4>2. s[j] = t[k - m + j]
        BY <1>7, <1>l
      <4>3. k - m + j = i
        BY <1>8, <4>1
      <4> QED BY <3>2, <3>4, <4>1, <4>2, <4>3
    <3> QED BY <3>3, <3>4
  <2>5. Len(h \o s) = Len(t) /\ h \o s \in Seq(S)
    BY <1>l, <2>2, <2>3b
  <2> QED BY <2>1, <2>4, <2>5, SeqEqual
<1> QED BY <1>8, <1>9, <1>10, <1>l DEF Lifted

-----------------------------------------------------------------------------
(* What the constants are.                                                  *)
LEMMA MergeConstants ==
    /\ \A l \in DOMAIN Shares : Shares[l] \in Seq(FolderNames)
    /\ DiskFiles \subseteq Seq(FolderNames) /\ Parents \subseteq Seq(FolderNames)
    /\ DOMAIN MapsTo = DOMAIN Shares /\ IsFiniteSet(DOMAIN Shares)
    /\ \A l \in DOMAIN MapsTo : \A p \in DOMAIN MapsTo[l] :
          p \in Profiles /\ MapsTo[l][p] \in Seq(FolderNames)
BY MergeAssumption

LEMMA MergeIncidentsCount ==
    ASSUME NEW n \in 0..MergeIncidents, n > 0 PROVE n - 1 \in 0..MergeIncidents
<1>1. MergeIncidents \in Nat
  BY MergeAssumption
<1> QED BY <1>1

(* At first every share is a library of its own, mapped as it is.           *)
LEMMA MergeInvStarts == MergeInit => MergeInv
<1> SUFFICES ASSUME MergeInit PROVE MergeInv
  OBVIOUS
<1>1. /\ root = Shares /\ mapped = MapsTo /\ spoken = {} /\ planned = NoPlan
      /\ DOMAIN entry = {} /\ mergeBudget = MergeIncidents
      /\ scanRows = [l \in DOMAIN Shares |-> [s \in Statuses |-> 0]]
  BY DEF MergeInit
<1>2. MergeTyped
  <2>1. mergeBudget \in 0..MergeIncidents
    <3>1. MergeIncidents \in Nat
      BY MergeAssumption
    <3> QED BY <1>1, <3>1
  <2> QED BY <1>1, <2>1, MergeConstants DEF MergeTyped
<1>3. \A l \in DOMAIN Shares :
        IsPrefix(Shares[l], Shares[l]) /\ Below(Shares[l], Shares[l]) = << >>
  <2>1. SUFFICES ASSUME NEW l \in DOMAIN Shares
                 PROVE  IsPrefix(Shares[l], Shares[l]) /\ Below(Shares[l], Shares[l]) = << >>
    OBVIOUS
  <2>2. << >> \in Seq(FolderNames) /\ Shares[l] \o << >> = Shares[l] /\ Shares[l] \in Seq(FolderNames)
    BY MergeConstants, EmptySeq, ConcatEmptySeq
  <2>3. IsPrefix(Shares[l], Shares[l] \o << >>) /\ Below(Shares[l], Shares[l] \o << >>) = << >>
    BY <2>2, PathJoins
  <2> QED BY <2>2, <2>3
<1>4. RootsAbove
  BY <1>1, <1>3 DEF RootsAbove
<1>5. MapsLead
  <2>1. SUFFICES ASSUME NEW l \in DOMAIN root, NEW p \in DOMAIN MapsTo[l]
                 PROVE  /\ p \in DOMAIN mapped[l] /\ mapped[l][p] \in Seq(FolderNames)
                        /\ p \in Profiles
                        /\ MapsTo[l][p] = mapped[l][p] \o Below(root[l], Shares[l])
    BY <1>1 DEF MapsLead
  <2>2. l \in DOMAIN MapsTo /\ MapsTo[l][p] \in Seq(FolderNames) /\ p \in Profiles
    BY <1>1, MergeConstants
  <2>3. MapsTo[l][p] \o << >> = MapsTo[l][p]
    BY <2>2, ConcatEmptySeq
  <2> QED BY <1>1, <1>3, <2>2, <2>3
<1>6. PlanStands /\ SameFile /\ MappingsHold
  BY <1>1 DEF PlanStands, SameFile, MappingsHold
<1>7. OneActiveScan
  BY <1>1 DEF OneActiveScan, Statuses
<1> QED BY <1>2, <1>4, <1>5, <1>6, <1>7 DEF MergeInv

-----------------------------------------------------------------------------
(* What a plan is about does not change while roots and mappings do not.    *)
LEMMA PlanStandsStill ==
    ASSUME PlanStands, root' = root, mapped' = mapped, planned' = planned
    PROVE  PlanStands'
<1>1. \A parent : Members(parent)' = Members(parent)
  BY DEF Members
<1>2. \A parent, l : Subfolder(parent, l)' = Subfolder(parent, l)
  BY DEF Subfolder
<1>3. \A parent, l : LiftedOf(parent, l)' = LiftedOf(parent, l)
  BY DEF LiftedOf, Subfolder
<1>4. \A parent, order, p : FirstToLift(parent, order, p)' = FirstToLift(parent, order, p)
  BY DEF FirstToLift, LiftedOf, Subfolder
<1>5. \A parent, order : KeptMappings(parent, order)' = KeptMappings(parent, order)
  BY DEF KeptMappings, FirstToLift, LiftedOf, Subfolder
<1>6. \A parent, order : Disputed(parent, order)' = Disputed(parent, order)
  BY DEF Disputed, KeptMappings, FirstToLift, LiftedOf, Subfolder
<1>7. PICK parent, order : parent = planned.parent /\ order = planned.order
  OBVIOUS
<1> QED BY <1>1, <1>2, <1>5, <1>6, <1>7 DEF PlanStands

(* A scan that is asked for is the only one.                                *)
LEMMA ScanQueuedKeeps ==
    ASSUME MergeInv, NEW l \in DOMAIN root, ScanQueued(l)
    PROVE  MergeInv'
<1>1. /\ root' = root /\ entry' = entry /\ mapped' = mapped /\ planned' = planned /\ spoken' = spoken
      /\ mergeBudget > 0 /\ mergeBudget' = mergeBudget - 1
      /\ scanRows' = [scanRows EXCEPT ![l]["active"] = 1]
  BY DEF ScanQueued
<1>2. mergeBudget' \in 0..MergeIncidents
  BY <1>1, MergeIncidentsCount DEF MergeInv, MergeTyped
<1>3. /\ DOMAIN scanRows' = DOMAIN root
      /\ \A m \in DOMAIN root : DOMAIN scanRows'[m] = Statuses /\ scanRows'[m]["active"] <= 1
  <2>1. /\ DOMAIN scanRows = DOMAIN root
        /\ \A m \in DOMAIN root : DOMAIN scanRows[m] = Statuses /\ scanRows[m]["active"] <= 1
    BY DEF MergeInv, MergeTyped, OneActiveScan
  <2>2. PICK row : row = scanRows[l]
    OBVIOUS
  <2>3. DOMAIN row = Statuses /\ "active" \in Statuses
    BY <2>1, <2>2 DEF Statuses
  <2>4. PICK after : after = [row EXCEPT !["active"] = 1]
    OBVIOUS
  <2>5. DOMAIN after = Statuses /\ after["active"] = 1
    BY <2>3, <2>4
  <2>6. scanRows' = [scanRows EXCEPT ![l] = after]
    BY <1>1, <2>2, <2>4
  <2>7. DOMAIN scanRows' = DOMAIN root /\ \A m \in DOMAIN root :
          scanRows'[m] = IF m = l THEN after ELSE scanRows[m]
    BY <2>1, <2>6
  <2>8. 1 <= 1
    OBVIOUS
  <2> QED BY <2>1, <2>5, <2>7, <2>8
<1>4. MergeTyped'
  BY <1>1, <1>2, <1>3 DEF MergeInv, MergeTyped
<1>5. PlanStands'
  BY <1>1, PlanStandsStill DEF MergeInv
<1>6. RootsAbove' /\ MapsLead' /\ SameFile' /\ MappingsHold'
  BY <1>1 DEF MergeInv, RootsAbove, MapsLead, SameFile, MappingsHold
<1>7. OneActiveScan'
  BY <1>1, <1>3 DEF OneActiveScan
<1> QED BY <1>4, <1>5, <1>6, <1>7 DEF MergeInv

(* A file is catalogued below the root its library has by now, which is     *)
(* above the share it had.                                                  *)
LEMMA ScanFindsKeeps ==
    ASSUME MergeInv, NEW l \in DOMAIN root, NEW f \in DiskFiles, ScanFinds(l, f)
    PROVE  MergeInv'
<1>1. /\ root' = root /\ mapped' = mapped /\ planned' = planned /\ spoken' = spoken
      /\ mergeBudget' = mergeBudget /\ scanRows' = scanRows /\ Inside(root[l], f)
  BY DEF ScanFinds
<1>2. PICK key : key = <<l, f>>
  OBVIOUS
<1>3. key[1] = l /\ key[2] = f
  BY <1>2
<1>4. PICK r, s, path : r = root[l] /\ s = Shares[l] /\ path = Below(r, f)
  OBVIOUS
<1>5. /\ r \in Seq(FolderNames) /\ s \in Seq(FolderNames) /\ f \in Seq(FolderNames)
      /\ l \in DOMAIN Shares /\ IsPrefix(r, s) /\ IsPrefix(r, f)
  BY <1>1, <1>4, MergeConstants DEF MergeInv, MergeTyped, RootsAbove, Inside, IsStrictPrefix
<1>6. r \o path = f /\ path \in Seq(FolderNames)
  BY <1>4, <1>5, PathSplits
<1>7. PICK row : row = [library |-> l, path |-> path]
  OBVIOUS
<1>8. row.library = l /\ row.path = path
  BY <1>7
<1>9. /\ DOMAIN entry' = DOMAIN entry \cup {key} /\ key \notin DOMAIN entry
      /\ entry'[key] = row /\ \A a \in DOMAIN entry : entry'[a] = entry[a]
  BY <1>2, <1>4, <1>7 DEF ScanFinds
<1>10. MergeTyped'
  BY <1>1, <1>3, <1>5, <1>6, <1>8, <1>9 DEF MergeInv, MergeTyped
<1>11. SameFile'
  BY <1>1, <1>3, <1>4, <1>6, <1>8, <1>9 DEF MergeInv, SameFile
<1>12. MappingsHold'
  <2>1. ASSUME NEW p \in DOMAIN MapsTo[l] \ spoken, Inside(s, f)
        PROVE  p \in DOMAIN mapped[l] /\ mapped[l][p] \o path = MapsTo[l][p] \o Below(s, f)
    <3>1. PICK t : t = mapped[l][p]
      OBVIOUS
    <3>2. /\ p \in DOMAIN mapped[l] /\ t \in Seq(FolderNames)
          /\ MapsTo[l][p] = t \o Below(r, s)
      BY <1>4, <2>1, <3>1 DEF MergeInv, MapsLead
    <3>3. IsPrefix(s, f)
      BY <2>1 DEF Inside, IsStrictPrefix
    <3>4. PICK u, v : u = Below(r, s) /\ v = Below(s, f)
      OBVIOUS
    <3>5. r \o u = s /\ u \in Seq(FolderNames) /\ s \o v = f /\ v \in Seq(FolderNames)
      BY <1>5, <3>3, <3>4, PathSplits
    <3>6. (r \o u) \o v = r \o (u \o v) /\ (t \o u) \o v = t \o (u \o v)
      <4>1. r \in Seq(FolderNames) /\ u \in Seq(FolderNames) /\ v \in Seq(FolderNames)
            /\ t \in Seq(FolderNames)
        BY <1>5, <3>2, <3>5
      <4> QED BY <4>1, PathsRegroup
    <3>7. path = u \o v
      <4>1. PICK w : w = u \o v
        OBVIOUS
      <4>2. w \in Seq(FolderNames)
        BY <3>5, <4>1, ConcatProperties
      <4>3. r \o path = r \o w
        BY <1>6, <3>5, <3>6, <4>1
      <4>4. path = w
        BY <1>5, <1>6, <4>2, <4>3, ConcatSimplifications
      <4> QED BY <4>1, <4>4
    <3>8. t \o (u \o v) = (t \o u) \o v
      BY <3>6
    <3> QED BY <3>1, <3>2, <3>4, <3>7, <3>8
  <2> QED BY <1>1, <1>3, <1>4, <1>8, <1>9, <2>1 DEF MergeInv, MappingsHold
<1>13. PlanStands'
  BY <1>1, PlanStandsStill DEF MergeInv
<1>14. RootsAbove' /\ MapsLead' /\ OneActiveScan'
  BY <1>1 DEF MergeInv, RootsAbove, MapsLead, OneActiveScan
<1> QED BY <1>10, <1>11, <1>12, <1>13, <1>14 DEF MergeInv

(* The members come each once, and all of them.                             *)
LEMMA AllComeOnce ==
    ASSUME NEW S, IsFiniteSet(S)
    PROVE  /\ SetToSeq(S) \in [1..Cardinality(S) -> S] /\ Cardinality(S) \in Nat
           /\ {SetToSeq(S)[i] : i \in 1..Cardinality(S)} = S
<1>1. PICK n \in Nat : n = Cardinality(S)
  BY FS_CardinalityType
<1>2. \E f \in [1..n -> S] : IsInjective(f)
  BY <1>1, FS_CardinalityType DEF ExistsBijection, Bijection, Injection
<1>3. PICK f : f = SetToSeq(S)
  OBVIOUS
<1>4. f \in [1..n -> S] /\ IsInjective(f)
  BY <1>1, <1>2, <1>3 DEF SetToSeq
<1>5. PICK T : T = {f[i] : i \in 1..n}
  OBVIOUS
<1>6. f \in Bijection(1..n, T)
  BY <1>4, <1>5 DEF Bijection, Injection, Surjection
<1>7. IsFiniteSet(1..n) /\ Cardinality(1..n) = n
  BY FS_Interval
<1>8. Cardinality(T) = n
  BY <1>6, <1>7, FS_Bijection DEF ExistsBijection
<1>9. T = S
  <2>1. T \subseteq S
    BY <1>4, <1>5
  <2> QED BY <1>1, <1>8, <2>1, FS_Subset
<1> QED BY <1>1, <1>3, <1>4, <1>5, <1>9

(* A plan is of the libraries as they are.                                  *)
LEMMA PlanMergeKeeps ==
    ASSUME MergeInv, NEW parent \in Parents, NEW target \in Targets(parent), PlanMerge(parent, target)
    PROVE  MergeInv'
<1>1. /\ root' = root /\ entry' = entry /\ mapped' = mapped /\ scanRows' = scanRows /\ spoken' = spoken
      /\ mergeBudget > 0 /\ mergeBudget' = mergeBudget - 1
  BY DEF PlanMerge
<1>2. mergeBudget' \in 0..MergeIncidents
  BY <1>1, MergeIncidentsCount DEF MergeInv, MergeTyped
<1>3. target \in Members(parent)
  BY DEF Targets
<1>4. PICK rest : rest = SetToSeq(Members(parent) \ {target})
  OBVIOUS
<1>5. PICK order : order = <<target>> \o rest
  OBVIOUS
<1>6. 1 \in DOMAIN order /\ ToSet(order) = Members(parent)
  <2>1. IsFiniteSet(Members(parent) \ {target})
    <3>1. Members(parent) \ {target} \subseteq DOMAIN Shares
      BY DEF Members, MergeInv, MergeTyped
    <3> QED BY <3>1, MergeConstants, FS_Subset
  <2>2. PICK others : others = Members(parent) \ {target}
    OBVIOUS
  <2>3. PICK n \in Nat : n = Cardinality(others)
    BY <2>1, <2>2, AllComeOnce
  <2>4. rest \in [1..n -> others] /\ {rest[i] : i \in 1..n} = others
    <3>1. IsFiniteSet(others) /\ rest = SetToSeq(others)
      BY <1>4, <2>1, <2>2
    <3>2. /\ SetToSeq(others) \in [1..Cardinality(others) -> others]
          /\ {SetToSeq(others)[i] : i \in 1..Cardinality(others)} = others
      BY <3>1, AllComeOnce
    <3> QED BY <2>3, <3>1, <3>2
  <2>5. rest \in Seq(others) /\ Len(rest) = n
    BY <2>4
  <2>6. rest \in Seq(Members(parent)) /\ <<target>> \in Seq(Members(parent)) /\ Len(<<target>>) = 1
        /\ <<target>>[1] = target
    BY <1>3, <2>2, <2>5
  <2>7. /\ order \in Seq(Members(parent)) /\ Len(order) = 1 + n
        /\ \A i \in 1..1 + n : order[i] = IF i <= 1 THEN target ELSE rest[i - 1]
    <3>1. /\ order \in Seq(Members(parent)) /\ Len(order) = Len(<<target>>) + Len(rest)
          /\ \A i \in 1..Len(<<target>>) + Len(rest) :
                order[i] = IF i <= Len(<<target>>) THEN <<target>>[i] ELSE rest[i - Len(<<target>>)]
      BY <1>5, <2>6, ConcatProperties
    <3>2. \A i \in 1..1 + n : order[i] = IF i <= 1 THEN <<target>>[i] ELSE rest[i - 1]
      BY <2>5, <2>6, <3>1
    <3>3. \A i \in 1..1 + n : i <= 1 => i = 1
      OBVIOUS
    <3> QED BY <2>5, <2>6, <3>1, <3>2, <3>3
  <2>8. DOMAIN order = 1..1 + n
    BY <2>7, LenProperties
  <2>9. 1 \in 1..1 + n /\ \A i \in 1..n : i + 1 \in 1..1 + n /\ ~ (i + 1 <= 1) /\ i + 1 - 1 = i
    OBVIOUS
  <2>10. order[1] = target /\ \A i \in 1..n : order[i + 1] = rest[i]
    BY <2>7, <2>9
  <2>11. Members(parent) \subseteq ToSet(order)
    <3>1. SUFFICES ASSUME NEW l \in Members(parent) PROVE l \in ToSet(order)
      OBVIOUS
    <3>2. CASE l = target
      BY <2>8, <2>9, <2>10, <3>2 DEF ToSet
    <3>3. CASE l # target
      <4>1. PICK i \in 1..n : rest[i] = l
        BY <2>2, <2>4, <3>3
      <4>2. PICK j \in 1..1 + n : j = i + 1
        BY <2>9
      <4>3. order[j] = l
        BY <2>10, <4>1, <4>2
      <4> QED BY <2>8, <4>3 DEF ToSet
    <3> QED BY <3>2, <3>3
  <2>12. ToSet(order) \subseteq Members(parent)
    BY <2>7, LenProperties DEF ToSet
  <2> QED BY <2>8, <2>9, <2>11, <2>12
<1>7. PICK plan : plan = [parent |-> parent, order |-> order,
                          subfolder |-> [l \in Members(parent) |-> Subfolder(parent, l)],
                          mappings |-> KeptMappings(parent, order),
                          noted |-> Disputed(parent, order)]
  OBVIOUS
<1>8. /\ plan.parent = parent /\ plan.order = order
      /\ \A l \in Members(parent) : plan.subfolder[l] = Subfolder(parent, l)
      /\ plan.mappings = KeptMappings(parent, order) /\ plan.noted = Disputed(parent, order)
  BY <1>7
<1>9. planned' = plan
  BY <1>4, <1>5, <1>7 DEF PlanMerge
<1>10. PlanStands'
  <2>1. Members(parent)' = Members(parent)
    BY <1>1 DEF Members
  <2>2. \A l : Subfolder(parent, l)' = Subfolder(parent, l)
    BY <1>1 DEF Subfolder
  <2>3. KeptMappings(parent, order)' = KeptMappings(parent, order)
    BY <1>1 DEF KeptMappings, FirstToLift, LiftedOf, Subfolder
  <2>4. Disputed(parent, order)' = Disputed(parent, order)
    BY <1>1 DEF Disputed, KeptMappings, FirstToLift, LiftedOf, Subfolder
  <2>5. parent \in Seq(FolderNames)
    BY MergeConstants
  <2> QED BY <1>6, <1>8, <1>9, <2>1, <2>2, <2>3, <2>4, <2>5 DEF PlanStands
<1>11. MergeTyped' /\ RootsAbove' /\ MapsLead' /\ SameFile' /\ OneActiveScan' /\ MappingsHold'
  BY <1>1, <1>2 DEF MergeInv, MergeTyped, RootsAbove, MapsLead, SameFile, OneActiveScan, MappingsHold
<1> QED BY <1>10, <1>11 DEF MergeInv

LEMMA DiscardKeeps ==
    ASSUME MergeInv, Discard
    PROVE  MergeInv'
<1>1. /\ root' = root /\ entry' = entry /\ mapped' = mapped /\ scanRows' = scanRows /\ spoken' = spoken
      /\ mergeBudget' = mergeBudget /\ planned' = NoPlan
  BY DEF Discard
<1> QED
  BY <1>1 DEF MergeInv, MergeTyped, RootsAbove, MapsLead, SameFile, OneActiveScan, MappingsHold, PlanStands

-----------------------------------------------------------------------------
(* Without dots a member's folder is what is below the new root, ...        *)
LEMMA SubfolderIsBelow ==
    ASSUME MergeInv, NothingDotted, NEW parent \in Seq(FolderNames), NEW l \in Members(parent)
    PROVE  /\ Subfolder(parent, l) \in Seq(FolderNames)
           /\ parent \o Subfolder(parent, l) = root[l]
<1>1. PICK r, s, below : r = root[l] /\ s = Shares[l] /\ below = Below(parent, r)
  OBVIOUS
<1>2. /\ l \in DOMAIN Shares /\ r \in Seq(FolderNames) /\ s \in Seq(FolderNames)
      /\ IsPrefix(parent, r) /\ IsPrefix(r, s)
  BY <1>1, MergeConstants DEF MergeInv, MergeTyped, RootsAbove, Members
<1>3. parent \o below = r /\ below \in Seq(FolderNames)
  BY <1>1, <1>2, PathSplits
<1>4. PICK u \in Seq(FolderNames) : r \o u = s
  BY <1>2, PathSplits
<1>5. PICK m \in Nat, n \in Nat, k \in Nat : m = Len(parent) /\ n = Len(below) /\ k = Len(u)
  BY <1>3, LenProperties
<1>6. /\ Len(r) = m + n
      /\ \A i \in 1..m + n : r[i] = IF i <= m THEN parent[i] ELSE below[i - m]
  BY <1>3, <1>5, ConcatProperties
<1>7. /\ Len(s) = (m + n) + k
      /\ \A i \in 1..(m + n) + k : i <= m + n => s[i] = r[i]
  <2>1. PICK q \in Nat : q = m + n
    OBVIOUS
  <2>2. Len(r) = q /\ Len(u) = k
    BY <1>5, <1>6, <2>1
  <2>3. /\ Len(r \o u) = Len(r) + Len(u)
        /\ \A i \in 1..Len(r) + Len(u) : (r \o u)[i] = IF i <= Len(r) THEN r[i] ELSE u[i - Len(r)]
    BY <1>2, <1>4, ConcatProperties
  <2>4. /\ Len(r \o u) = q + k
        /\ \A i \in 1..q + k : (r \o u)[i] = IF i <= q THEN r[i] ELSE u[i - q]
    BY <2>2, <2>3
  <2> QED BY <1>4, <2>1, <2>4
<1>8. DOMAIN below = 1..n /\ DOMAIN s = 1..(m + n) + k
  BY <1>2, <1>3, <1>5, <1>7, LenProperties
<1>9. \A i \in 1..n : below[i] \notin DOMAIN Stripped
  <2>1. SUFFICES ASSUME NEW i \in 1..n PROVE below[i] \notin DOMAIN Stripped
    OBVIOUS
  <2>2. PICK j \in 1..m + n : j = m + i
    OBVIOUS
  <2>3. ~ (j <= m) /\ j - m = i /\ j <= m + n /\ j \in 1..(m + n) + k
    BY <2>2
  <2>4. r[j] = below[i]
    BY <1>6, <2>3
  <2>5. s[j] = r[j]
    BY <1>7, <2>3
  <2>6. Shares[l][j] \notin DOMAIN Stripped
    BY <1>1, <1>2, <1>8, <2>3 DEF NothingDotted
  <2> QED BY <1>1, <2>4, <2>5, <2>6
<1>10. Subfolder(parent, l) = [i \in DOMAIN below |->
          IF i = 1 \/ i = Len(below) THEN Undotted(below[i]) ELSE below[i]]
  BY <1>1 DEF Subfolder
<1>11. Subfolder(parent, l) = [i \in 1..n |-> below[i]]
  BY <1>8, <1>9, <1>10 DEF Undotted
<1>12. below \in [1..n -> FolderNames]
  BY <1>3, <1>5, LenProperties
<1>13. Subfolder(parent, l) = below
  BY <1>11, <1>12
<1> QED BY <1>1, <1>3, <1>13

(* ... and every row of a member moves once.                                *)
LEMMA RowsMoveOnce ==
    ASSUME NEW rows, 1 \in DOMAIN planned.order
    PROVE  /\ DOMAIN Reparented(rows) = DOMAIN rows
           /\ \A a \in DOMAIN rows : rows[a].library \in ToSet(planned.order) =>
                /\ Reparented(rows)[a].library = planned.order[1]
                /\ Reparented(rows)[a].path = planned.subfolder[rows[a].library] \o rows[a].path
           /\ \A a \in DOMAIN rows : rows[a].library \notin ToSet(planned.order) =>
                Reparented(rows)[a] = rows[a]
<1>1. PICK target : target = planned.order[1]
  OBVIOUS
<1>2. target \in ToSet(planned.order) /\ target \notin Folded
  BY <1>1 DEF ToSet, Folded
<1>3. PICK own : own = Moved(rows, {target})
  OBVIOUS
<1>4. /\ DOMAIN own = DOMAIN rows
      /\ \A a \in DOMAIN rows : own[a] =
            IF rows[a].library \in {target}
            THEN [library |-> target, path |-> planned.subfolder[rows[a].library] \o rows[a].path]
            ELSE rows[a]
  BY <1>1, <1>3 DEF Moved
<1>5. PICK all : all = Moved(own, Folded)
  OBVIOUS
<1>6. /\ DOMAIN all = DOMAIN rows
      /\ \A a \in DOMAIN rows : all[a] =
            IF own[a].library \in Folded
            THEN [library |-> target, path |-> planned.subfolder[own[a].library] \o own[a].path]
            ELSE own[a]
  BY <1>1, <1>4, <1>5 DEF Moved
<1>7. Reparented(rows) = all
  BY <1>1, <1>3, <1>5 DEF Reparented
<1>8. ASSUME NEW a \in DOMAIN rows, rows[a].library \in ToSet(planned.order)
      PROVE  all[a].library = target /\ all[a].path = planned.subfolder[rows[a].library] \o rows[a].path
  <2>1. PICK m, path : m = rows[a].library /\ path = planned.subfolder[m] \o rows[a].path
    OBVIOUS
  <2>2. PICK row : row = [library |-> target, path |-> path]
    OBVIOUS
  <2>3. row.library = target /\ row.path = path
    BY <2>2
  <2>4. CASE m = target
    <3>1. own[a] = row
      BY <1>4, <2>1, <2>2, <2>4
    <3>2. all[a] = row
      BY <1>2, <1>6, <2>3, <3>1
    <3> QED BY <2>1, <2>3, <3>2
  <2>5. CASE m # target
    <3>1. own[a] = rows[a] /\ m \in Folded
      BY <1>1, <1>4, <1>8, <2>1, <2>5 DEF Folded
    <3>2. all[a] = row
      BY <1>6, <2>1, <2>2, <3>1
    <3> QED BY <2>1, <2>3, <3>2
  <2> QED BY <2>4, <2>5
<1>9. ASSUME NEW a \in DOMAIN rows, rows[a].library \notin ToSet(planned.order)
      PROVE  all[a] = rows[a]
  <2>1. own[a] = rows[a]
    BY <1>2, <1>4, <1>9
  <2> QED BY <1>6, <1>9, <2>1 DEF Folded
<1> QED BY <1>1, <1>6, <1>7, <1>8, <1>9

(* A mapping that was lifted and not disputed is kept.                      *)
LEMMA UndisputedIsKept ==
    ASSUME NEW parent, NEW order, NEW l \in ToSet(order), NEW p \in DOMAIN mapped[l],
           p \in Profiles, p \notin Disputed(parent, order)
    PROVE  /\ EndsWith(mapped[l][p], Subfolder(parent, l))
           /\ p \in DOMAIN KeptMappings(parent, order)
           /\ KeptMappings(parent, order)[p] = Lifted(mapped[l][p], Subfolder(parent, l))
<1>1. p \in DOMAIN LiftedOf(parent, l) /\ LiftedOf(parent, l)[p] = KeptMappings(parent, order)[p]
  BY DEF Disputed
<1>2. EndsWith(mapped[l][p], Subfolder(parent, l))
      /\ LiftedOf(parent, l)[p] = Lifted(mapped[l][p], Subfolder(parent, l))
  BY <1>1 DEF LiftedOf
<1>3. p \in DOMAIN KeptMappings(parent, order)
  BY <1>1 DEF KeptMappings
<1> QED BY <1>1, <1>2, <1>3

(* A folder below a folder.                                                 *)
LEMMA BelowBoth ==
    ASSUME NEW S, NEW r \in Seq(S), NEW v \in Seq(S), NEW u \in Seq(S)
    PROVE  Below(r, (r \o v) \o u) = v \o u /\ IsPrefix(r, (r \o v) \o u)
<1>1. (r \o v) \o u = r \o (v \o u)
  BY ConcatAssociative
<1>2. v \o u \in Seq(S)
  BY ConcatProperties
<1>3. Below(r, r \o (v \o u)) = v \o u /\ IsPrefix(r, r \o (v \o u))
  BY <1>2, PathJoins
<1> QED BY <1>1, <1>3

(* The rows of the merged libraries are still of their files, its root is   *)
(* above them, and what no note was about leads where it led.               *)
LEMMA ApplyMergeKeeps ==
    ASSUME MergeInv, NothingDotted, ApplyMerge
    PROVE  MergeInv'
<1>1. planned # NoPlan /\ planned' = NoPlan /\ mergeBudget' = mergeBudget
  BY DEF ApplyMerge
<1>2. CASE UNCHANGED <<root, entry, mapped, scanRows, spoken>>
  BY <1>1, <1>2
     DEF MergeInv, MergeTyped, RootsAbove, MapsLead, SameFile, OneActiveScan, MappingsHold, PlanStands
<1>3. CASE ~ UNCHANGED <<root, entry, mapped, scanRows, spoken>>
  <2>1. PICK parent, order, target, members, kept :
          /\ parent = planned.parent /\ order = planned.order /\ target = planned.order[1]
          /\ members = ToSet(planned.order) /\ kept = planned.mappings
    OBVIOUS
  <2>2. /\ parent \in Seq(FolderNames) /\ target \in members /\ members = Members(parent)
        /\ 1 \in DOMAIN planned.order
        /\ \A l \in members : planned.subfolder[l] = Subfolder(parent, l)
        /\ kept = KeptMappings(parent, order) /\ planned.noted = Disputed(parent, order)
    BY <1>1, <2>1 DEF MergeInv, PlanStands, ToSet
  <2>3. members \subseteq DOMAIN root
    BY <2>2 DEF Members
  <2>4. PICK left : left = (DOMAIN root \ members) \cup {target}
    OBVIOUS
  <2>6. PICK scans :
          /\ entry' = Reparented(entry)
          /\ root' = [l \in left |-> IF l = target THEN parent ELSE root[l]]
          /\ mapped' = [l \in left |-> IF l = target THEN kept ELSE mapped[l]]
          /\ scanRows' = [l \in left |-> IF l = target THEN scans ELSE scanRows[l]]
          /\ DOMAIN scans = Statuses /\ scans["active"] = 1
          /\ spoken' = spoken \cup planned.noted
    <3>1. /\ entry' = Reparented(entry)
          /\ root' = [l \in left |-> IF l = target THEN planned.parent ELSE root[l]]
          /\ mapped' = [l \in left |-> IF l = target THEN planned.mappings ELSE mapped[l]]
          /\ scanRows' = [l \in left |-> IF l = target THEN ScansAfter(members) ELSE scanRows[l]]
          /\ spoken' = spoken \cup planned.noted
      BY <1>3, <2>1, <2>4 DEF ApplyMerge
    <3>2. PICK total : total = ScansOf(members, "active") + ScansOf(members, "cancelled")
      OBVIOUS
    <3>3. PICK scans : scans = [active |-> 1, cancelled |-> total]
      OBVIOUS
    <3>4. DOMAIN scans = Statuses /\ scans["active"] = 1
      BY <3>3 DEF Statuses
    <3>5. ScansAfter(members) = scans
      BY <3>2, <3>3 DEF ScansAfter
    <3> QED BY <2>1, <3>1, <3>4, <3>5
  <2>7. /\ DOMAIN root' = left /\ DOMAIN mapped' = left /\ DOMAIN scanRows' = left
        /\ root'[target] = parent /\ mapped'[target] = kept /\ scanRows'[target] = scans
        /\ \A l \in left : l # target =>
              root'[l] = root[l] /\ mapped'[l] = mapped[l] /\ scanRows'[l] = scanRows[l]
    BY <2>4, <2>6
  <2>8. /\ target \in left /\ left \subseteq DOMAIN root
        /\ \A l \in DOMAIN root : l \notin members => l \in left /\ l # target
    BY <2>2, <2>3, <2>4
  <2>9. \A l \in members :
          /\ planned.subfolder[l] \in Seq(FolderNames)
          /\ parent \o planned.subfolder[l] = root[l] /\ root[l] \in Seq(FolderNames)
    <3>1. SUFFICES ASSUME NEW l \in members
                   PROVE  /\ planned.subfolder[l] \in Seq(FolderNames)
                          /\ parent \o planned.subfolder[l] = root[l] /\ root[l] \in Seq(FolderNames)
      OBVIOUS
    <3>2. Subfolder(parent, l) \in Seq(FolderNames) /\ parent \o Subfolder(parent, l) = root[l]
      BY <2>2, SubfolderIsBelow
    <3>3. root[l] \in Seq(FolderNames)
      BY <2>3 DEF MergeInv, MergeTyped
    <3> QED BY <2>2, <3>2, <3>3
  <2>10. /\ DOMAIN entry' = DOMAIN entry
         /\ \A a \in DOMAIN entry : entry[a].library \in members =>
              entry'[a].library = target /\ entry'[a].path = planned.subfolder[entry[a].library] \o entry[a].path
         /\ \A a \in DOMAIN entry : entry[a].library \notin members => entry'[a] = entry[a]
    BY <2>1, <2>2, <2>6, RowsMoveOnce
  <2>11. \A a \in DOMAIN entry :
           /\ a[1] \in DOMAIN Shares /\ a[2] \in DiskFiles
           /\ entry[a].library \in DOMAIN root /\ entry[a].path \in Seq(FolderNames)
           /\ root[entry[a].library] \o entry[a].path = a[2]
    BY DEF MergeInv, MergeTyped, SameFile
  (* No note was about it: lifted from each member that has it, and kept. *)
  <2>12. ASSUME NEW l \in members, NEW p \in DOMAIN mapped[l], p \notin spoken'
         PROVE  /\ p \in Profiles /\ p \in DOMAIN kept /\ kept[p] \in Seq(FolderNames)
                /\ mapped[l][p] \in Seq(FolderNames)
                /\ kept[p] \o planned.subfolder[l] = mapped[l][p]
    <3>1. p \notin Disputed(parent, order) /\ p \notin spoken
      BY <2>2, <2>6, <2>12
    <3>2. p \in Profiles /\ mapped[l][p] \in Seq(FolderNames)
      BY <2>3, <2>12, <3>1 DEF MergeInv, MapsLead
    <3>3. /\ EndsWith(mapped[l][p], Subfolder(parent, l)) /\ p \in DOMAIN KeptMappings(parent, order)
          /\ KeptMappings(parent, order)[p] = Lifted(mapped[l][p], Subfolder(parent, l))
      BY <2>1, <2>12, <3>1, <3>2, UndisputedIsKept
    <3>4. PICK t, sub : t = mapped[l][p] /\ sub = Subfolder(parent, l)
      OBVIOUS
    <3>5. sub \in Seq(FolderNames) /\ planned.subfolder[l] = sub
      BY <2>2, <2>9, <3>4
    <3>6. Lifted(t, sub) \o sub = t /\ Lifted(t, sub) \in Seq(FolderNames)
      <4>1. t \in Seq(FolderNames) /\ sub \in Seq(FolderNames) /\ EndsWith(t, sub)
        BY <3>2, <3>3, <3>4, <3>5
      <4> QED BY <4>1, SuffixLifts
    <3> QED BY <2>2, <3>2, <3>3, <3>4, <3>5, <3>6
  <2>13. MergeTyped'
    <3>1. \A a \in DOMAIN entry' :
            /\ a[1] \in DOMAIN Shares /\ a[2] \in DiskFiles
            /\ entry'[a].library \in left /\ entry'[a].path \in Seq(FolderNames)
      <4>1. SUFFICES ASSUME NEW a \in DOMAIN entry
                     PROVE  entry'[a].library \in left /\ entry'[a].path \in Seq(FolderNames)
        BY <2>10, <2>11
      <4>2. CASE entry[a].library \in members
        <5>1. planned.subfolder[entry[a].library] \in Seq(FolderNames) /\ entry[a].path \in Seq(FolderNames)
          BY <2>9, <2>11, <4>2
        <5>2. planned.subfolder[entry[a].library] \o entry[a].path \in Seq(FolderNames)
          BY <5>1, ConcatProperties
        <5> QED BY <2>8, <2>10, <4>2, <5>2
      <4>3. CASE entry[a].library \notin members
        BY <2>8, <2>10, <2>11, <4>3
      <4> QED BY <4>2, <4>3
    <3>2. \A l \in left : root'[l] \in Seq(FolderNames) /\ DOMAIN scanRows'[l] = Statuses
      BY <2>2, <2>6, <2>7, <2>8 DEF MergeInv, MergeTyped
    <3>3. left \subseteq DOMAIN Shares /\ mergeBudget' \in 0..MergeIncidents
      BY <1>1, <2>8 DEF MergeInv, MergeTyped
    <3> QED BY <2>7, <3>1, <3>2, <3>3 DEF MergeTyped
  <2>14. /\ target \in DOMAIN Shares /\ target \in DOMAIN root /\ IsPrefix(root[target], Shares[target])
         /\ Shares[target] \in Seq(FolderNames)
    BY <2>2, <2>3, MergeConstants DEF MergeInv, MergeTyped, RootsAbove
  <2>15. PICK v, u : /\ v = planned.subfolder[target] /\ u = Below(root[target], Shares[target])
    OBVIOUS
  <2>16. /\ v \in Seq(FolderNames) /\ u \in Seq(FolderNames) /\ parent \o v = root[target]
         /\ root[target] \o u = Shares[target]
    BY <2>2, <2>9, <2>14, <2>15, PathSplits
  <2>17. Below(parent, Shares[target]) = v \o u /\ IsPrefix(parent, Shares[target])
    <3>1. (parent \o v) \o u = Shares[target]
      BY <2>16
    <3>2. /\ Below(parent, (parent \o v) \o u) = v \o u
          /\ IsPrefix(parent, (parent \o v) \o u)
      BY <2>2, <2>16, BelowBoth
    <3> QED BY <3>1, <3>2
  <2>18. RootsAbove'
    BY <2>7, <2>8, <2>17 DEF MergeInv, RootsAbove
  <2>19. MapsLead'
    <3>1. ASSUME NEW p \in DOMAIN kept, p \notin spoken'
          PROVE  p \in Profiles /\ kept[p] \in Seq(FolderNames)
      <4>1. p \in DOMAIN KeptMappings(parent, order)
        BY <2>2, <3>1
      <4>2. PICK l \in ToSet(order) : p \in DOMAIN LiftedOf(parent, l)
        BY <4>1 DEF KeptMappings
      <4>3. l \in members /\ p \in DOMAIN mapped[l]
        BY <2>1, <4>2 DEF LiftedOf
      <4> QED BY <2>12, <3>1, <4>3
    <3>2. ASSUME NEW p \in DOMAIN MapsTo[target], p \notin spoken'
          PROVE  p \in DOMAIN kept /\ MapsTo[target][p] = kept[p] \o Below(parent, Shares[target])
      <4>1. p \notin spoken
        BY <2>6, <3>2
      <4>2. p \in DOMAIN mapped[target] /\ MapsTo[target][p] = mapped[target][p] \o u
        BY <2>14, <2>15, <3>2, <4>1 DEF MergeInv, MapsLead
      <4>3. p \in DOMAIN kept /\ kept[p] \in Seq(FolderNames) /\ kept[p] \o v = mapped[target][p]
        BY <2>2, <2>12, <2>15, <3>2, <4>2
      <4>4. (kept[p] \o v) \o u = kept[p] \o (v \o u)
        BY <2>16, <4>3, PathsRegroup
      <4> QED BY <2>17, <4>2, <4>3, <4>4
    <3>3. ASSUME NEW l \in left, l # target
          PROVE  /\ \A p \in DOMAIN mapped[l] \ spoken' :
                      p \in Profiles /\ mapped[l][p] \in Seq(FolderNames)
                 /\ \A p \in DOMAIN MapsTo[l] \ spoken' :
                      /\ p \in DOMAIN mapped[l]
                      /\ MapsTo[l][p] = mapped[l][p] \o Below(root[l], Shares[l])
      BY <2>6, <2>8, <3>3 DEF MergeInv, MapsLead
    <3> QED BY <2>7, <3>1, <3>2, <3>3 DEF MapsLead
  <2>20. SameFile'
    <3>1. SUFFICES ASSUME NEW a \in DOMAIN entry
                   PROVE  root'[entry'[a].library] \o entry'[a].path = a[2]
      BY <2>10 DEF SameFile
    <3>2. CASE entry[a].library \in members
      <4>1. PICK m, w, path : /\ m = entry[a].library /\ w = planned.subfolder[m] /\ path = entry[a].path
        OBVIOUS
      <4>2. /\ w \in Seq(FolderNames) /\ path \in Seq(FolderNames) /\ parent \o w = root[m]
            /\ root[m] \o path = a[2]
        BY <2>9, <2>11, <3>2, <4>1
      <4>3. (parent \o w) \o path = parent \o (w \o path)
        BY <2>2, <4>2, PathsRegroup
      <4> QED BY <2>7, <2>10, <3>2, <4>1, <4>2, <4>3
    <3>3. CASE entry[a].library \notin members
      <4>1. PICK m : m = entry[a].library
        OBVIOUS
      <4>2. /\ entry'[a] = entry[a] /\ m \in left /\ m # target
            /\ root[m] \o entry[a].path = a[2]
        BY <2>8, <2>10, <2>11, <3>3, <4>1
      <4>3. root'[m] = root[m]
        BY <2>7, <4>2
      <4> QED BY <4>1, <4>2, <4>3
    <3> QED BY <3>2, <3>3
  <2>21. OneActiveScan'
    <3>1. 1 <= 1
      OBVIOUS
    <3> QED BY <2>6, <2>7, <2>8, <3>1 DEF MergeInv, OneActiveScan
  <2>22. MappingsHold'
    <3>1. SUFFICES ASSUME NEW a \in DOMAIN entry, NEW p \in DOMAIN MapsTo[a[1]], p \notin spoken',
                          Inside(Shares[a[1]], a[2])
                   PROVE  /\ p \in DOMAIN mapped'[entry'[a].library]
                          /\ mapped'[entry'[a].library][p] \o entry'[a].path =
                             MapsTo[a[1]][p] \o Below(Shares[a[1]], a[2])
      BY <2>10 DEF MappingsHold
    <3>2. PICK m, w, path : /\ m = entry[a].library /\ w = planned.subfolder[m] /\ path = entry[a].path
      OBVIOUS
    <3>3. p \notin spoken
      BY <2>6, <3>1
    <3>4. /\ p \in DOMAIN mapped[m]
          /\ mapped[m][p] \o path = MapsTo[a[1]][p] \o Below(Shares[a[1]], a[2])
      BY <3>1, <3>2, <3>3 DEF MergeInv, MappingsHold
    <3>5. CASE m \in members
      <4>1. p \in DOMAIN kept /\ kept[p] \in Seq(FolderNames) /\ kept[p] \o w = mapped[m][p]
        BY <2>12, <3>1, <3>2, <3>4, <3>5
      <4>2. w \in Seq(FolderNames) /\ path \in Seq(FolderNames)
        BY <2>9, <2>11, <3>2, <3>5
      <4>3. (kept[p] \o w) \o path = kept[p] \o (w \o path)
        BY <4>1, <4>2, PathsRegroup
      <4>4. entry'[a].library = target /\ entry'[a].path = w \o path
        BY <2>10, <3>2, <3>5
      <4> QED BY <2>7, <3>4, <4>1, <4>3, <4>4
    <3>6. CASE m \notin members
      <4>1. entry'[a] = entry[a] /\ m \in left /\ m # target
        BY <2>8, <2>10, <2>11, <3>2, <3>6
      <4> QED BY <2>7, <3>2, <3>4, <4>1
    <3> QED BY <3>5, <3>6
  <2>23. PlanStands'
    BY <1>1 DEF PlanStands
  <2> QED BY <2>13, <2>18, <2>19, <2>20, <2>21, <2>22, <2>23 DEF MergeInv
<1> QED BY <1>2, <1>3

LEMMA MergeInvKept ==
    ASSUME MergeInv, NothingDotted, [MergeNext]_mergeVars
    PROVE  MergeInv'
<1>1. CASE UNCHANGED mergeVars
  <2>1. /\ root' = root /\ entry' = entry /\ mapped' = mapped /\ scanRows' = scanRows
        /\ planned' = planned /\ spoken' = spoken /\ mergeBudget' = mergeBudget
    BY <1>1 DEF mergeVars
  <2>2. PlanStands'
    BY <2>1, PlanStandsStill DEF MergeInv
  <2> QED BY <2>1, <2>2
            DEF MergeInv, MergeTyped, RootsAbove, MapsLead, SameFile, OneActiveScan, MappingsHold
<1>2. CASE MergeNext
  BY <1>2, ScanQueuedKeeps, ScanFindsKeeps, PlanMergeKeeps, DiscardKeeps, ApplyMergeKeeps DEF MergeNext
<1> QED BY <1>1, <1>2

(* However libraries are merged, one after another and with files found     *)
(* between a plan and its application: every asset is still of its file, a  *)
(* library has one active scan at most, and a workstation profile no note   *)
(* was about leads to every file where it led (ops/merge_libraries.py).     *)
(* With a dot at an end of a folder's name it does not hold (see README).   *)
THEOREM MergeHolds == NothingDotted => (BackroomSpec => []MergeCorrect)
<1> SUFFICES ASSUME NothingDotted PROVE BackroomSpec => []MergeCorrect
  OBVIOUS
<1>1. BackroomInit => MergeInv
  BY MergeInvStarts DEF BackroomInit
<1>2. [BackroomNext]_backroomVars => [MergeNext]_mergeVars
  BY DEF BackroomNext, SlidesMove, MergeMoves, PairsMove, ShowcaseMoves, LocationsMove, BasemapsMove,
         backroomVars
<1>3. MergeInv /\ [BackroomNext]_backroomVars => MergeInv'
  BY <1>2, MergeInvKept
<1>4. MergeInv => MergeCorrect
  BY DEF MergeInv, MergeTyped, MergeTypeOK, MergeCorrect
<1> QED BY <1>1, <1>3, <1>4, PTL DEF BackroomSpec

-----------------------------------------------------------------------------
(* The catalogue.                                                           *)
(* Types and distinct paths (IInv) are inductive as they stand: only four  *)
(* actions write the path of a row, an index that binds a row or creates   *)
(* one, in a scan or a drain, and only where no row has that path; an      *)
(* applied change and a drain's upsert, which write the path the row has.  *)
(* The missing check needs SearchInv: whatever path of the library a walk  *)
(* has not yet come to is still ahead of it - its directory or the root on *)
(* the stack, its name listed, its file in hand - or was empty at some time *)
(* since the start, or the row that has it is stamped (Accounted).         *)
IInv == TypeOK /\ OneRowPerPath

Availabilities == {"online", "missing", "unmounted"}
RowsTyped ==
    /\ place \in [Assets -> Paths \cup {NoPath}]
    /\ stamp \in [Assets -> Contents \cup {NoFile}]
    /\ hash \in [Assets -> Contents \cup {NoFile}]
    /\ avail \in [Assets -> Availabilities]

(* A row may be given a path that is its own or nobody's. *)
LEMMA WriteKeeps ==
    ASSUME RowsTyped, OneRowPerPath,
           NEW a \in Assets, NEW p \in Paths,
           NEW s \in Contents \cup {NoFile}, NEW h \in Contents \cup {NoFile},
           \A b \in RowsAt(p) : b = a,
           Write(a, p, s, h)
    PROVE  RowsTyped' /\ OneRowPerPath'
<1>1. RowsTyped'
  BY DEF RowsTyped, Availabilities, Write
<1>2. ASSUME NEW b \in Rows', NEW c \in Rows', place'[b] = place'[c]
      PROVE  b = c
  <2>1. b \in Assets /\ c \in Assets
    BY DEF Rows
  <2>2. \A d \in Assets : place'[d] = IF d = a THEN p ELSE place[d]
    BY DEF Write, RowsTyped
  <2>3. \A d \in Assets : place[d] = p => d = a
    BY ReconcileAssumption DEF RowsAt, Rows
  <2>4. CASE b = a \/ c = a
    BY <2>1, <2>2, <2>3, <2>4, <1>2
  <2>5. CASE b # a /\ c # a
    BY <2>1, <2>2, <2>5, <1>2 DEF OneRowPerPath, Rows
  <2>6. QED  BY <2>4, <2>5
<1>3. QED  BY <1>1, <1>2 DEF OneRowPerPath

(* What a file found on the disk does to the rows when none has its path. *)
LEMMA IndexKeeps ==
    ASSUME RowsTyped, OneRowPerPath, verified \subseteq Assets,
           NEW p \in Paths,
           NEW s \in Contents \cup {NoFile}, NEW h \in Contents \cup {NoFile},
           RowsAt(p) = {}, Index(p, s, h)
    PROVE  RowsTyped' /\ OneRowPerPath' /\ verified' \subseteq Assets
<1>1. CASE UNCHANGED <<rowVars, verified>>
  BY <1>1 DEF rowVars, RowsTyped, OneRowPerPath, Rows
<1>2. ASSUME NEW a \in Assets, Write(a, p, s, h), verified' = verified \cup {a}
      PROVE  RowsTyped' /\ OneRowPerPath' /\ verified' \subseteq Assets
  BY <1>2, WriteKeeps
<1>3. Preferred(p, s, h) \subseteq Assets
  BY DEF Preferred, Movable, Rows
<1>4. QED  BY <1>1, <1>2, <1>3 DEF Index

(* The rows' part of the invariant when no row is touched. *)
LEMMA RowsAlone ==
    ASSUME IInv, UNCHANGED rowVars
    PROVE  RowsTyped' /\ OneRowPerPath'
BY DEF IInv, TypeOK, RowsTyped, Availabilities, rowVars, OneRowPerPath, Rows

(* ... or only their availability. *)
LEMMA FlagsAlone ==
    ASSUME IInv, UNCHANGED <<place, stamp, hash>>, avail' \in [Assets -> Availabilities]
    PROVE  RowsTyped' /\ OneRowPerPath'
BY DEF IInv, TypeOK, RowsTyped, Availabilities, OneRowPerPath, Rows

(* The rest of the type invariant. *)
DiskTyped ==
    /\ disk \in [Paths -> Contents \cup {NoFile}]
    /\ hot \subseteq Paths /\ absent \subseteq Paths
    /\ up \in [Libraries -> BOOLEAN]
WalkTyped ==
    /\ scanning \in Libraries \cup {NoLibrary}
    /\ dirs \subseteq Dirs /\ unread \subseteq Dirs /\ names \subseteq Paths
    /\ item \in Item \cup {NoItem}
    /\ verified \subseteq Assets
RestTyped == worker \in Look \cup {NoItem} /\ used \in Budgets

LEMMA Parts == TypeOK <=> DiskTyped /\ RowsTyped /\ WalkTyped /\ RestTyped
BY DEF TypeOK, DiskTyped, RowsTyped, Availabilities, WalkTyped, RestTyped

LEMMA Spent ==
    ASSUME used \in Budgets,
           \/ Spend("changes", MaxChanges) \/ Spend("rewrites", MaxRewrites)
           \/ Spend("drops", MaxDrops) \/ Spend("aborts", MaxAborts)
    PROVE  used' \in Budgets
BY ReconcileAssumption DEF Spend, Budgets

LEMMA InitInv == Init => IInv
<1> SUFFICES ASSUME Init PROVE IInv
  OBVIOUS
<1>1. used \in Budgets
  BY ReconcileAssumption DEF Init, Budgets
<1>2. TypeOK
  BY <1>1 DEF Init, TypeOK
<1>3. OneRowPerPath
  BY DEF Init, OneRowPerPath, Rows
<1>4. QED  BY <1>2, <1>3 DEF IInv

-----------------------------------------------------------------------------
(* People, shares *)

LEMMA PeopleKeep ==
    ASSUME IInv, People \/ \E p \in Paths : Settle(p)
    PROVE  IInv'
<1>1. DiskOnly /\ disk' \in [Paths -> Contents \cup {NoFile}] /\ hot' \subseteq Paths
  <2>1. ASSUME NEW p \in Paths, NEW q \in Paths, MoveFile(p, q) \/ CopyFile(p, q)
        PROVE  DiskOnly /\ disk' \in [Paths -> Contents \cup {NoFile}] /\ hot' \subseteq Paths
    BY <2>1 DEF MoveFile, CopyFile, IInv, TypeOK
  <2>2. ASSUME NEW p \in Paths, DeleteFile(p) \/ Settle(p)
        PROVE  DiskOnly /\ disk' \in [Paths -> Contents \cup {NoFile}] /\ hot' \subseteq Paths
    BY <2>2 DEF DeleteFile, Settle, IInv, TypeOK
  <2>3. ASSUME NEW p \in Paths, NEW c \in Contents, WriteFile(p, c)
        PROVE  DiskOnly /\ disk' \in [Paths -> Contents \cup {NoFile}] /\ hot' \subseteq Paths
    BY <2>3 DEF WriteFile, IInv, TypeOK
  <2>4. QED  BY <2>1, <2>2, <2>3 DEF People
<1>2. used' \in Budgets
  <2>1. used \in Budgets
    BY DEF IInv, TypeOK
  <2>2. QED
    BY <2>1, Spent DEF People, MoveFile, CopyFile, DeleteFile, WriteFile, Settle
<1>3. RowsTyped' /\ OneRowPerPath'
  BY <1>1, RowsAlone DEF DiskOnly
<1>4. DiskTyped'
  BY <1>1 DEF DiskOnly, DiskTyped, IInv, TypeOK
<1>5. WalkTyped'
  BY <1>1 DEF DiskOnly, walk, WalkTyped, IInv, TypeOK
<1>6. worker' \in Look \cup {NoItem}
  BY <1>1 DEF DiskOnly, IInv, TypeOK
<1>7. QED  BY <1>2, <1>3, <1>4, <1>5, <1>6, Parts DEF IInv, TypeOK, DiskTyped, RowsTyped, Availabilities, WalkTyped

LEMMA SharesKeep ==
    ASSUME IInv, NEW l \in Libraries, ShareDown(l) \/ ShareUp(l)
    PROVE  IInv'
<1>1. used' \in Budgets
  BY Spent DEF ShareDown, ShareUp, IInv, TypeOK
<1>2. RowsTyped' /\ OneRowPerPath'
  BY RowsAlone DEF ShareDown, ShareUp
<1>3. DiskTyped'
  BY DEF ShareDown, ShareUp, files, DiskTyped, IInv, TypeOK
<1>4. WalkTyped' /\ worker' \in Look \cup {NoItem}
  BY DEF ShareDown, ShareUp, walk, WalkTyped, IInv, TypeOK
<1>5. QED  BY <1>1, <1>2, <1>3, <1>4 DEF IInv, TypeOK, DiskTyped, RowsTyped, Availabilities, WalkTyped

-----------------------------------------------------------------------------
(* The scan *)

LEMMA ScanKeeps ==
    ASSUME IInv, (\E l \in Libraries : Scan(l)) \/ ScanEnd \/ ScanAbort
    PROVE  IInv'
<1>1. RowsTyped' /\ OneRowPerPath'
  <2>1. CASE UNCHANGED rowVars
    BY <2>1, RowsAlone
  <2>2. ASSUME NEW l \in Libraries, ScanUnmounted(l)
        PROVE  RowsTyped' /\ OneRowPerPath'
    <3>1. avail' \in [Assets -> Availabilities]
      BY <2>2 DEF ScanUnmounted, IInv, TypeOK, Availabilities
    <3>2. QED  BY <2>2, <3>1, FlagsAlone DEF ScanUnmounted
  <2>3. CASE ScanEnd
    <3>1. avail' \in [Assets -> Availabilities]
      BY <2>3 DEF ScanEnd, IInv, TypeOK, Availabilities
    <3>2. QED  BY <2>3, <3>1, FlagsAlone DEF ScanEnd
  <2>4. QED  BY <2>1, <2>2, <2>3 DEF Scan, ScanStart, ScanAbort, rowVars
<1>2. WalkTyped'
  BY ReconcileAssumption
  DEF Scan, ScanUnmounted, ScanStart, ScanEnd, ScanAbort, walk, WalkTyped, IInv, TypeOK
<1>3. DiskTyped'
  BY DEF Scan, ScanUnmounted, ScanStart, ScanEnd, ScanAbort, files, DiskTyped, IInv, TypeOK
<1>4. used' \in Budgets
  BY Spent DEF Scan, ScanUnmounted, ScanStart, ScanEnd, ScanAbort, IInv, TypeOK
<1>5. worker' \in Look \cup {NoItem}
  BY DEF Scan, ScanUnmounted, ScanStart, ScanEnd, ScanAbort, IInv, TypeOK
<1>6. QED  BY <1>1, <1>2, <1>3, <1>4, <1>5 DEF IInv, TypeOK, DiskTyped, RowsTyped, Availabilities, WalkTyped

LEMMA WalkKeeps ==
    ASSUME IInv, Walk, ~ ScanEnd
    PROVE  IInv'
<1> USE DEF IInv
<1>1. RowsTyped /\ WalkTyped
  BY Parts
<1>2. RowsTyped' /\ OneRowPerPath' /\ verified' \subseteq Assets
  <2>1. CASE UNCHANGED <<rowVars, verified>>
    BY <2>1, RowsAlone DEF TypeOK
  <2>2. CASE SeeUnchanged
    <3>1. avail' \in [Assets -> Availabilities] /\ verified' \subseteq Assets
      BY <2>2 DEF SeeUnchanged, RowsAt, Rows, TypeOK, Availabilities
    <3>2. QED  BY <2>2, <3>1, FlagsAlone DEF SeeUnchanged
  <2>3. CASE IndexFile
    <3>1. item \in Item /\ RowsAt(item.path) = {} /\ Index(item.path, item.stat, item.hash)
      BY <1>1, <2>3 DEF IndexFile, New, WalkTyped
    <3>2. item.path \in Paths /\ item.stat \in Contents /\ item.hash \in Contents \cup {NoFile}
      BY <3>1 DEF Item
    <3>3. QED  BY <1>1, <3>1, <3>2, IndexKeeps DEF WalkTyped
  <2>4. CASE ApplyChange
    <3>1. item \in Item
      BY <1>1, <2>4 DEF ApplyChange, WalkTyped
    <3>2. item.path \in Paths /\ item.stat \in Contents /\ item.hash \in Contents \cup {NoFile}
      BY <3>1 DEF Item
    <3>3. PICK a \in RowsAt(item.path) :
            Write(a, item.path, item.stat, item.hash) /\ verified' = verified \cup {a}
      BY <2>4 DEF ApplyChange
    <3>4. a \in Assets /\ \A b \in RowsAt(item.path) : b = a
      BY <3>3 DEF RowsAt, Rows, OneRowPerPath
    <3>5. QED  BY <1>1, <3>2, <3>3, <3>4, WriteKeeps DEF WalkTyped
  <2>5. QED
    BY <2>1, <2>2, <2>3, <2>4 DEF Walk, ListDir, StatFile, Defer, HashFile
<1>3. dirs' \subseteq Dirs /\ unread' \subseteq Dirs /\ names' \subseteq Paths
  <2>1. ASSUME NEW d \in Dirs, ListDir(d)
        PROVE  dirs' \subseteq Dirs /\ unread' \subseteq Dirs /\ names' \subseteq Paths
    BY <1>1, <2>1, ReconcileAssumption DEF ListDir, FilesOf, WalkTyped
  <2>2. CASE UNCHANGED <<dirs, unread, names>>
    BY <2>2, <1>1 DEF WalkTyped
  <2>3. ASSUME NEW p \in Paths, StatFile(p)
        PROVE  dirs' \subseteq Dirs /\ unread' \subseteq Dirs /\ names' \subseteq Paths
    BY <1>1, <2>3 DEF StatFile, WalkTyped
  <2>4. QED
    BY <2>1, <2>2, <2>3 DEF Walk, SeeUnchanged, Defer, HashFile, IndexFile, ApplyChange
<1>4. item' \in Item \cup {NoItem}
  <2>1. ASSUME NEW p \in Paths, StatFile(p)
        PROVE  item' \in Item \cup {NoItem}
    BY <2>1 DEF StatFile, Item, There, TypeOK
  <2>2. CASE HashFile
    <3>1. item \in Item /\ item.path \in Paths
      BY <1>1, <2>2 DEF HashFile, WalkTyped, Item
    <3>2. HashNow(item.path) \in Contents \cup {NoFile}
      BY <3>1 DEF HashNow, TypeOK
    <3>3. QED  BY <2>2, <3>1, <3>2 DEF HashFile, Item
  <2>3. CASE item' = item \/ item' = NoItem
    BY <2>3, <1>1 DEF WalkTyped
  <2>4. QED
    BY <2>1, <2>2, <2>3 DEF Walk, ListDir, SeeUnchanged, Defer, IndexFile, ApplyChange
<1>5. UNCHANGED <<files, up, scanning, worker, used>>
  BY DEF Walk, ListDir, StatFile, SeeUnchanged, Defer, HashFile, IndexFile, ApplyChange
<1>6. QED
  BY <1>2, <1>3, <1>4, <1>5 DEF files, TypeOK, RowsTyped, Availabilities

-----------------------------------------------------------------------------
(* Drains and tasks *)

LEMMA DrainsKeep ==
    ASSUME IInv, Drains
    PROVE  IInv'
<1> USE DEF IInv
<1>1. PICK p \in Paths : DrainCandidate(p) \/ DrainDeparture(p)
  BY DEF Drains
<1>2. RowsTyped
  BY Parts
<1>3. RowsTyped' /\ OneRowPerPath' /\ verified' \subseteq Assets
  <2>1. CASE DrainCandidate(p) /\ RowsAt(p) = {}
    <3>1. disk[p] \in Contents \cup {NoFile} /\ Index(p, disk[p], disk[p])
      BY <2>1 DEF DrainCandidate, TypeOK
    <3>2. QED  BY <1>2, <2>1, <3>1, IndexKeeps DEF TypeOK
  <2>2. CASE DrainCandidate(p) /\ RowsAt(p) # {}
    <3>1. PICK a \in RowsAt(p) : Write(a, p, disk[p], disk[p]) /\ UNCHANGED verified
      BY <2>2 DEF DrainCandidate
    <3>2. a \in Assets /\ disk[p] \in Contents \cup {NoFile}
      BY <3>1 DEF RowsAt, Rows, TypeOK
    <3>3. \A b \in RowsAt(p) : b = a
      BY <3>1 DEF RowsAt, OneRowPerPath
    <3>4. QED  BY <1>2, <3>1, <3>2, <3>3, WriteKeeps DEF TypeOK
  <2>3. CASE DrainDeparture(p)
    <3>1. avail' \in [Assets -> Availabilities] /\ UNCHANGED <<place, stamp, hash>>
      BY <2>3 DEF DrainDeparture, TypeOK, Availabilities
    <3>2. verified' \subseteq Assets
      BY <2>3 DEF DrainDeparture, walk, TypeOK
    <3>3. QED  BY <3>1, <3>2, FlagsAlone
  <2>4. QED  BY <1>1, <2>1, <2>2, <2>3
<1>4. UNCHANGED <<files, up, scanning, dirs, names, unread, item, worker, used>>
  BY <1>1 DEF DrainCandidate, DrainDeparture, walk
<1>5. QED
  BY <1>3, <1>4 DEF files, TypeOK, RowsTyped, Availabilities

LEMMA WorkerKeeps ==
    ASSUME IInv, Worker
    PROVE  IInv'
<1> USE DEF IInv
<1>1. RowsTyped' /\ OneRowPerPath'
  <2>1. CASE UNCHANGED rowVars
    BY <2>1, RowsAlone
  <2>2. CASE WorkerFlag
    <3>1. worker \in Look /\ worker.asset \in Assets
      BY <2>2 DEF WorkerFlag, TypeOK, Look
    <3>2. avail' \in [Assets -> Availabilities]
      BY <2>2, <3>1 DEF WorkerFlag, TypeOK, Availabilities
    <3>3. QED  BY <2>2, <3>2, FlagsAlone DEF WorkerFlag
  <2>3. QED  BY <2>1, <2>2 DEF Worker, WorkerLoad, WorkerLook
<1>2. worker' \in Look \cup {NoItem}
  <2>1. ASSUME NEW a \in Assets, WorkerLoad(a)
        PROVE  worker' \in Look \cup {NoItem}
    <3>1. place[a] \in Paths /\ avail[a] \in {"online", "missing", "unmounted"}
      BY <2>1 DEF WorkerLoad, Rows, TypeOK
    <3>2. QED  BY <2>1, <3>1 DEF WorkerLoad, Look
  <2>2. CASE WorkerLook
    BY <2>2 DEF WorkerLook, Look, TypeOK
  <2>3. CASE WorkerFlag
    BY <2>3 DEF WorkerFlag
  <2>4. QED  BY <2>1, <2>2, <2>3 DEF Worker
<1>3. UNCHANGED <<files, up, walk, used>>
  BY DEF Worker, WorkerLoad, WorkerLook, WorkerFlag
<1>4. QED
  BY <1>1, <1>2, <1>3 DEF files, walk, TypeOK, RowsTyped, Availabilities

-----------------------------------------------------------------------------
LEMMA NextInv == IInv /\ [Next]_vars => IInv'
<1> SUFFICES ASSUME IInv, [Next]_vars PROVE IInv'
  OBVIOUS
<1>1. CASE UNCHANGED vars
  BY <1>1
  DEF vars, files, rowVars, walk, IInv, TypeOK, OneRowPerPath, Rows
<1>2. CASE People \/ \E p \in Paths : Settle(p)
  BY <1>2, PeopleKeep
<1>3. ASSUME NEW l \in Libraries, ShareDown(l) \/ ShareUp(l) PROVE IInv'
  BY <1>3, SharesKeep
<1>4. CASE (\E l \in Libraries : Scan(l)) \/ ScanEnd \/ ScanAbort
  BY <1>4, ScanKeeps
<1>5. CASE Walk /\ ~ ScanEnd
  BY <1>5, WalkKeeps
<1>6. CASE Drains
  BY <1>6, DrainsKeep
<1>7. CASE Worker
  BY <1>7, WorkerKeeps
<1>8. QED
  BY <1>1, <1>2, <1>3, <1>4, <1>5, <1>6, <1>7 DEF Next

LEMMA Invariance == Spec => []IInv
BY InitInv, NextInv, PTL DEF Spec

(* Every reachable state of the catalogue, the disk and the walk is well   *)
(* typed.                                                                  *)
THEOREM CatalogueTyped == Spec => []TypeOK
BY Invariance, PTL DEF IInv

(* No interleaving of walks, drains, tasks, moves, copies and dropped      *)
(* shares leads to two rows on one path, so the unique constraint on       *)
(* (library_id, relative_path) never fails a scan.                         *)
THEOREM PathsDistinct == Spec => []OneRowPerPath
BY Invariance, PTL DEF IInv

-----------------------------------------------------------------------------
(* The missing check, while nothing is being written and the shares stay up *)

StillUp == hot = {} /\ \A l \in Libraries : up[l]

(* A path of the library under the walk had no file at some time, is still  *)
(* to come up, or the row that has it was seen.                             *)
Accounted(p) ==
    \/ p \in absent
    \/ RootOf[scanning] \in dirs \/ DirOf[p] \in dirs
    \/ p \in names
    \/ item # NoItem /\ item.path = p
    \/ \A a \in RowsAt(p) : avail[a] = "online" => a \in verified

Searched ==
    ~ Idle => /\ \A p \in Paths : disk[p] = NoFile => p \in absent
              /\ item # NoItem => item.atRest
              /\ \A p \in Paths : LibOf(p) = scanning => Accounted(p)

SearchInv == IInv /\ (Calm => StillUp /\ Searched)

(* Budgets are not given back: calm after a step, calm before it.          *)
LEMMA CalmBefore ==
    ASSUME IInv, [Next]_vars, Calm'
    PROVE  Calm /\ ~ Spend("rewrites", MaxRewrites) /\ ~ Spend("drops", MaxDrops)
<1>1. PICK c \in 0..MaxChanges, w \in 0..MaxRewrites, d \in 0..MaxDrops, b \in 0..MaxAborts :
        used = [changes |-> c, rewrites |-> w, drops |-> d, aborts |-> b]
  BY DEF IInv, TypeOK, Budgets
<1>2. \/ UNCHANGED used
      \/ Spend("changes", MaxChanges) \/ Spend("rewrites", MaxRewrites)
      \/ Spend("drops", MaxDrops) \/ Spend("aborts", MaxAborts)
  BY DEF Next, vars, People, MoveFile, CopyFile, DeleteFile, WriteFile, Settle, ShareDown, ShareUp,
         Walk, ListDir, StatFile, SeeUnchanged, Defer, HashFile, IndexFile, ApplyChange, ScanEnd,
         ScanAbort, Drains, DrainCandidate, DrainDeparture, Worker, WorkerLoad, WorkerLook, WorkerFlag,
         Scan, ScanUnmounted, ScanStart
<1>3. w \in Nat /\ d \in Nat
  BY ReconcileAssumption
<1>4. Spend("rewrites", MaxRewrites) => used'.rewrites = w + 1
  BY <1>1 DEF Spend
<1>5. Spend("drops", MaxDrops) => used'.drops = d + 1
  BY <1>1 DEF Spend
<1>6. ~ Spend("rewrites", MaxRewrites) /\ ~ Spend("drops", MaxDrops)
  BY <1>3, <1>4, <1>5 DEF Calm
<1>7. used'.rewrites = used.rewrites /\ used'.drops = used.drops
  BY <1>1, <1>2, <1>6 DEF Spend
<1> QED BY <1>6, <1>7 DEF Calm

LEMMA StillUpKept ==
    ASSUME Calm', IInv, StillUp, Next
    PROVE  StillUp'
<1>2. ~ Spend("rewrites", MaxRewrites) /\ ~ Spend("drops", MaxDrops)
  BY CalmBefore
<1>3. ASSUME People PROVE hot' = {} /\ up' = up
  BY <1>2, <1>3 DEF People, MoveFile, CopyFile, DeleteFile, WriteFile, DiskOnly, StillUp
<1>4. ASSUME NEW l \in Libraries, ShareDown(l) \/ ShareUp(l) PROVE FALSE
  BY <1>2, <1>4 DEF ShareDown, ShareUp, StillUp
<1>5. ASSUME NEW p \in Paths, Settle(p) PROVE FALSE
  BY <1>5 DEF Settle, StillUp
<1>6. ASSUME Walk \/ ScanAbort \/ Drains \/ Worker \/ \E l \in Libraries : Scan(l)
      PROVE  hot' = hot /\ up' = up
  BY <1>6 DEF Walk, ListDir, StatFile, SeeUnchanged, Defer, HashFile, IndexFile, ApplyChange, ScanEnd,
              ScanAbort, Drains, DrainCandidate, DrainDeparture, Worker, WorkerLoad, WorkerLook, WorkerFlag,
              Scan, ScanUnmounted, ScanStart, files
<1> QED BY <1>3, <1>4, <1>5, <1>6 DEF Next, StillUp

(* What people do only adds to the paths that had no file.                  *)
LEMMA SearchedByPeople ==
    ASSUME IInv, Searched, People
    PROVE  Searched'
<1>1. DiskOnly
  BY DEF People, MoveFile, CopyFile, DeleteFile, WriteFile
<1>2. scanning' = scanning /\ UNCHANGED <<dirs, names, item, verified, place, avail>>
  BY <1>1 DEF DiskOnly, walk, rowVars
<1> SUFFICES ASSUME ~ Idle
             PROVE  /\ \A p \in Paths : disk'[p] = NoFile => p \in absent'
                    /\ item' # NoItem => item'.atRest
                    /\ \A p \in Paths : LibOf(p) = scanning => Accounted(p)'
  BY <1>2 DEF Searched, Idle, LibOf
<1>3. absent \subseteq absent' /\ \A p \in Paths : disk'[p] = NoFile => p \in absent'
  BY <1>1 DEF DiskOnly
<1>4. \A p \in Paths : Accounted(p) => Accounted(p)'
  BY <1>2, <1>3 DEF Accounted, RowsAt, Rows
<1> QED BY <1>2, <1>3, <1>4 DEF Searched

(* A listing, a stat.                                                       *)
LEMMA SearchedByListing ==
    ASSUME IInv, StillUp, Searched, NEW d \in Dirs, ListDir(d)
    PROVE  Searched'
<1>1. /\ ~ Idle /\ scanning' = scanning /\ item = NoItem /\ names = {} /\ item' = item
      /\ UNCHANGED <<disk, absent, place, avail, verified>> /\ scanning \in Libraries
  BY DEF ListDir, files, rowVars, IInv, TypeOK, Idle
<1>2. /\ \A p \in Paths : disk[p] = NoFile => p \in absent
      /\ \A p \in Paths : LibOf(p) = scanning => Accounted(p)
  BY <1>1 DEF Searched
<1>3. up[scanning]
  BY <1>1 DEF StillUp
<1>4. \/ /\ names' = {p \in Paths : DirOf[p] = d /\ disk[p] # NoFile}
         /\ dirs' = (dirs \ {d}) \cup (IF d = RootOf[scanning]
                                       THEN {DirOf[p] : p \in FilesOf(scanning)} \ {d} ELSE {})
      \/ /\ d # RootOf[scanning] /\ dirs' = dirs \ {d} /\ names' = names
         /\ \A p \in Paths : DirOf[p] = d => disk[p] = NoFile
  BY <1>3 DEF ListDir
<1>5. ASSUME NEW p \in Paths, LibOf(p) = scanning PROVE Accounted(p)'
  <2>1. CASE p \in absent
    BY <1>1, <2>1 DEF Accounted
  <2>2. CASE disk[p] # NoFile /\ DirOf[p] = d
    BY <1>4, <2>2 DEF Accounted
  <2>3. CASE disk[p] # NoFile /\ DirOf[p] # d /\ d = RootOf[scanning]
    <3>1. p \in FilesOf(scanning)
      BY <1>5, <2>3 DEF FilesOf
    <3>2. DirOf[p] \in dirs'
      BY <1>4, <2>3, <3>1
    <3> QED BY <3>2 DEF Accounted
  <2>4. CASE disk[p] # NoFile /\ DirOf[p] # d /\ d # RootOf[scanning]
    <3>1. RootOf[scanning] \in dirs => RootOf[scanning'] \in dirs'
      BY <1>1, <1>4, <2>4
    <3>2. DirOf[p] \in dirs => DirOf[p] \in dirs'
      BY <1>4, <2>4
    <3> QED BY <1>1, <1>2, <1>5, <3>1, <3>2 DEF Accounted, RowsAt, Rows
  <2> QED BY <1>2, <2>1, <2>2, <2>3, <2>4
<1> QED BY <1>1, <1>2, <1>5 DEF Searched, Idle, LibOf

LEMMA SearchedByStat ==
    ASSUME IInv, StillUp, Searched, NEW q \in Paths, StatFile(q)
    PROVE  Searched'
<1>1. /\ ~ Idle /\ scanning' = scanning /\ item = NoItem /\ names' = names \ {q} /\ dirs' = dirs
      /\ UNCHANGED <<disk, absent, place, avail, verified>>
  BY DEF StatFile, files, rowVars
<1>2. /\ \A p \in Paths : disk[p] = NoFile => p \in absent
      /\ \A p \in Paths : LibOf(p) = scanning => Accounted(p)
  BY <1>1 DEF Searched
<1>3. There(q) \/ q \in absent
  BY <1>2, ReconcileAssumption DEF There, StillUp, LibOf
<1>4. ASSUME There(q) PROVE item' \in Item /\ item'.path = q /\ item'.atRest
  <2>1. q \notin hot /\ disk[q] \in Contents
    BY <1>4 DEF There, StillUp, IInv, TypeOK
  <2>2. item' = [path |-> q, stat |-> disk[q], atRest |-> TRUE, hash |-> NoFile]
    BY <1>4, <2>1 DEF StatFile
  <2> QED BY <2>1, <2>2 DEF Item
<1>5. item' # NoItem => item'.atRest
  BY <1>4 DEF StatFile
<1>6. ASSUME NEW p \in Paths, LibOf(p) = scanning PROVE Accounted(p)'
  <2>1. CASE p = q
    BY <1>1, <1>3, <1>4, <2>1, NothingInHand DEF Accounted
  <2>2. CASE p # q
    BY <1>1, <1>2, <1>6, <2>2 DEF Accounted, RowsAt, Rows
  <2> QED BY <2>1, <2>2
<1> QED BY <1>1, <1>2, <1>5, <1>6 DEF Searched, Idle, LibOf

(* A row is written or shown online at a path of its own, and stamped: the *)
(* path is accounted for, and every other one stays so.                    *)
RowsSeen(p) == \A a \in RowsAt(p) : avail[a] = "online" => a \in verified

LEMMA SeenByStamp ==
    ASSUME IInv, NEW q \in Paths, NEW a \in Assets, \A b \in RowsAt(q) : b = a,
           place' = [place EXCEPT ![a] = q], avail' = [avail EXCEPT ![a] = "online"],
           verified' = verified \cup {a}
    PROVE  /\ RowsSeen(q)'
           /\ \A p \in Paths : p # q /\ RowsSeen(p) => RowsSeen(p)'
<1>1. /\ \A b \in Assets : place'[b] = IF b = a THEN q ELSE place[b]
      /\ \A b \in Assets : b # a => avail'[b] = avail[b]
  BY DEF IInv, TypeOK
<1>2. \A b \in Assets : place[b] = q => b = a
  BY ReconcileAssumption DEF RowsAt, Rows
<1> QED BY <1>1, <1>2 DEF RowsSeen, RowsAt, Rows

(* The file in hand is put away with its row stamped.                      *)
LEMMA SearchedByStamp ==
    ASSUME IInv, Searched, SeeUnchanged \/ IndexFile \/ ApplyChange
    PROVE  Searched'
<1>1. /\ item # NoItem /\ item' = NoItem /\ scanning' = scanning
      /\ UNCHANGED <<disk, absent, dirs, names>>
  BY DEF SeeUnchanged, IndexFile, ApplyChange, files
<1>2. item \in Item /\ item.path \in Paths
  BY <1>1 DEF IInv, TypeOK, Item
<1>q. PICK q \in Paths : q = item.path
  BY <1>2
<1>3. RowsSeen(q)' /\ \A p \in Paths : p # q /\ RowsSeen(p) => RowsSeen(p)'
  <2>1. ASSUME NEW a \in Assets, NEW s, NEW h, \A b \in RowsAt(q) : b = a,
               Write(a, q, s, h), verified' = verified \cup {a}
        PROVE  RowsSeen(q)' /\ \A p \in Paths : p # q /\ RowsSeen(p) => RowsSeen(p)'
    <3>1. place' = [place EXCEPT ![a] = q] /\ avail' = [avail EXCEPT ![a] = "online"]
      BY <2>1 DEF Write
    <3> QED BY <2>1, <3>1, SeenByStamp
  <2>2. \A a, b \in RowsAt(q) : a \in Assets /\ b = a
    BY DEF IInv, OneRowPerPath, RowsAt, Rows
  <2>3. CASE SeeUnchanged
    <3>1. PICK a \in RowsAt(q) : verified' = verified \cup {a} /\ avail' = [avail EXCEPT ![a] = "online"]
      BY <1>q, <2>3 DEF SeeUnchanged
    <3>2. place' = place /\ place[a] = q /\ a \in Assets
      BY <2>3, <3>1 DEF SeeUnchanged, RowsAt, Rows
    <3>3. place' = [place EXCEPT ![a] = q]
      BY <3>2 DEF IInv, TypeOK
    <3>4. \A b \in RowsAt(q) : b = a
      BY <2>2, <3>1
    <3> QED BY <3>1, <3>2, <3>3, <3>4, SeenByStamp
  <2>4. CASE ApplyChange
    <3>1. PICK a \in RowsAt(q) : Write(a, q, item.stat, item.hash) /\ verified' = verified \cup {a}
      BY <1>q, <2>4 DEF ApplyChange
    <3> QED BY <2>1, <2>2, <3>1
  <2>5. CASE IndexFile
    <3>1. RowsAt(q) = {} /\ Index(q, item.stat, item.hash)
      BY <1>q, <2>5 DEF IndexFile, New
    <3>2. CASE UNCHANGED <<rowVars, verified>>
      BY <3>1, <3>2 DEF RowsSeen, RowsAt, Rows, rowVars
    <3>3. ASSUME NEW a \in Assets, Write(a, q, item.stat, item.hash), verified' = verified \cup {a}
          PROVE  RowsSeen(q)' /\ \A p \in Paths : p # q /\ RowsSeen(p) => RowsSeen(p)'
      BY <2>1, <3>1, <3>3
    <3>4. Preferred(q, item.stat, item.hash) \subseteq Assets
      BY DEF Preferred, Movable, Rows
    <3> QED BY <3>1, <3>2, <3>3, <3>4 DEF Index
  <2> QED BY <2>3, <2>4, <2>5
<1>4. ASSUME ~ Idle, NEW p \in Paths, LibOf(p) = scanning PROVE Accounted(p)'
  <2>1. \/ p \in absent \/ RootOf[scanning] \in dirs \/ DirOf[p] \in dirs \/ p \in names
        \/ p = q \/ RowsSeen(p)
    BY <1>q, <1>1, <1>4 DEF Searched, Accounted, RowsSeen, Idle, LibOf
  <2> QED BY <1>1, <1>3, <2>1 DEF Accounted, RowsSeen
<1> QED BY <1>1, <1>4 DEF Searched, Idle, LibOf

(* The file in hand is hashed, or put away because it is gone by now.       *)
LEMMA SearchedByHash ==
    ASSUME IInv, StillUp, Searched, ~ Idle, Defer \/ HashFile
    PROVE  Searched'
<1>1. /\ item # NoItem /\ item.atRest /\ HashFile /\ scanning' = scanning
      /\ UNCHANGED <<disk, absent, dirs, names, place, avail, verified>>
  BY DEF Defer, HashFile, Searched, files, rowVars
<1>2. item \in Item /\ item.path \in Paths
  BY <1>1 DEF IInv, TypeOK, Item
<1>3. /\ \A p \in Paths : disk[p] = NoFile => p \in absent
      /\ \A p \in Paths : LibOf(p) = scanning => Accounted(p)
  BY DEF Searched
<1>4. CASE There(item.path)
  <2>1. PICK h : h = HashNow(item.path)
    OBVIOUS
  <2>2. h \in Contents \cup {NoFile}
    BY <1>2, <2>1 DEF HashNow, IInv, TypeOK
  <2>3. item' = [item EXCEPT !.hash = h]
    BY <1>1, <1>4, <2>1 DEF HashFile
  <2>4. item' \in Item /\ item'.path = item.path /\ item'.atRest = item.atRest
    BY <1>2, <2>2, <2>3 DEF Item
  <2>5. \A p \in Paths : Accounted(p) => Accounted(p)'
    BY <1>1, <2>4, NothingInHand DEF Accounted, RowsAt, Rows
  <2> QED BY <1>1, <1>3, <2>4, <2>5 DEF Searched, Idle, LibOf
<1>5. CASE ~ There(item.path)
  <2>1. item' = NoItem
    BY <1>1, <1>5 DEF HashFile
  <2>2. item.path \in absent
    BY <1>2, <1>3, <1>5, ReconcileAssumption DEF There, StillUp, LibOf
  <2>3. \A p \in Paths : Accounted(p) => Accounted(p)'
    BY <1>1, <2>1, <2>2 DEF Accounted, RowsAt, Rows
  <2> QED BY <1>1, <1>3, <2>1, <2>3 DEF Searched, Idle, LibOf
<1> QED BY <1>4, <1>5

(* A task's look may take a row offline; it brings none online.             *)
LEMMA SearchedByWorker ==
    ASSUME IInv, Searched, Worker
    PROVE  Searched'
<1>1. scanning' = scanning /\ UNCHANGED <<disk, absent, dirs, names, item, verified, place>>
  BY DEF Worker, WorkerLoad, WorkerLook, WorkerFlag, files, rowVars, walk
<1>2. \A a \in Assets : avail'[a] = "online" => avail[a] = "online"
  <2>1. CASE UNCHANGED rowVars
    BY <2>1 DEF rowVars
  <2>2. CASE WorkerFlag
    <3>1. avail' = avail \/ avail' = [avail EXCEPT ![worker.asset] = "missing"]
      BY <2>2 DEF WorkerFlag
    <3> QED BY <3>1 DEF IInv, TypeOK
  <2> QED BY <2>1, <2>2 DEF Worker, WorkerLoad, WorkerLook
<1>3. \A p \in Paths : Accounted(p) => Accounted(p)'
  BY <1>1, <1>2 DEF Accounted, RowsAt, Rows
<1> QED BY <1>1, <1>3 DEF Searched, Idle, LibOf

(* A walk that starts has everything before it.                             *)
LEMMA SearchedByScan ==
    ASSUME IInv, NEW l \in Libraries, ScanStart(l)
    PROVE  Searched'
<1>1. scanning' = l /\ item' = NoItem /\ absent' = {p \in Paths : disk'[p] = NoFile}
  BY DEF ScanStart
<1>2. RootOf[scanning'] \in dirs'
  BY DEF ScanStart
<1> QED BY <1>1, <1>2 DEF Searched, Accounted

LEMMA SearchNext == SearchInv /\ [Next]_vars => SearchInv'
<1> SUFFICES ASSUME SearchInv, [Next]_vars, Calm' PROVE SearchInv'
  BY NextInv DEF SearchInv
<1>0. Calm /\ ~ Spend("drops", MaxDrops)
  BY CalmBefore DEF SearchInv
<1>1. IInv /\ StillUp /\ Searched /\ IInv'
  BY <1>0, NextInv DEF SearchInv
<1>2. StillUp'
  <2>1. CASE UNCHANGED vars
    BY <1>1, <2>1 DEF vars, files, StillUp
  <2> QED BY <1>1, <2>1, StillUpKept
<1>3. Searched'
  <2>1. CASE UNCHANGED vars
    BY <1>1, <2>1 DEF vars, files, rowVars, walk, Searched, Accounted, RowsAt, Rows, Idle, LibOf
  <2>2. CASE People
    BY <1>1, <2>2, SearchedByPeople
  <2>3. ASSUME NEW p \in Paths, Settle(p) PROVE Searched'
    BY <1>1, <2>3 DEF Settle, StillUp
  <2>4. ASSUME NEW l \in Libraries, ShareDown(l) \/ ShareUp(l) PROVE Searched'
    BY <1>0, <1>1, <2>4 DEF ShareDown, ShareUp, StillUp
  <2>5. ASSUME Idle' PROVE Searched'
    BY <2>5 DEF Searched
  <2>6. ASSUME Idle, Drains \/ \E l \in Libraries : ScanUnmounted(l) PROVE Idle'
    BY <2>6 DEF Drains, DrainCandidate, DrainDeparture, ScanUnmounted, walk, Idle
  <2>7. ASSUME NEW d \in Dirs, ListDir(d) PROVE Searched'
    BY <1>1, <2>7, SearchedByListing
  <2>8. ASSUME NEW q \in Paths, StatFile(q) PROVE Searched'
    BY <1>1, <2>8, SearchedByStat
  <2>9. CASE Defer \/ HashFile
    <3>1. Idle \/ ~ Idle
      OBVIOUS
    <3>2. Idle => Idle'
      BY <2>9 DEF Defer, HashFile, Idle
    <3> QED BY <1>1, <2>5, <2>9, <3>1, <3>2, SearchedByHash
  <2>10. CASE SeeUnchanged \/ IndexFile \/ ApplyChange
    BY <1>1, <2>10, SearchedByStamp
  <2>11. ASSUME NEW l \in Libraries, ScanStart(l) PROVE Searched'
    BY <1>1, <2>11, SearchedByScan
  <2>12. CASE Worker
    BY <1>1, <2>12, SearchedByWorker
  <2>13. CASE ScanEnd \/ ScanAbort
    BY <2>5, <2>13 DEF ScanEnd, ScanAbort, Idle
  <2>14. CASE Drains
    BY <2>5, <2>6, <2>14 DEF Drains, DrainCandidate, DrainDeparture
  <2>15. ASSUME NEW l \in Libraries, ScanUnmounted(l) PROVE Searched'
    BY <2>5, <2>6, <2>15 DEF ScanUnmounted
  <2> QED
    BY <2>1, <2>2, <2>3, <2>4, <2>7, <2>8, <2>9, <2>10, <2>11, <2>12, <2>13, <2>14, <2>15 DEF Next, Walk, Scan
<1> QED BY <1>1, <1>2, <1>3 DEF SearchInv

(* By the end of a walk nothing is to come up any more.                     *)
LEMMA FlaggedGone ==
    ASSUME IInv, Searched, ScanEnd, NEW a \in Rows, avail'[a] # avail[a]
    PROVE  place[a] \in absent
<1>1. a \in Unseen /\ ~ Idle /\ dirs = {} /\ names = {} /\ item = NoItem
  BY DEF ScanEnd, IInv, TypeOK, Rows
<1>2. place[a] \in Paths /\ LibOf(place[a]) = scanning
  BY <1>1 DEF Unseen, RowsOf, Rows, IInv, TypeOK
<1>3. a \in RowsAt(place[a]) /\ avail[a] = "online" /\ a \notin verified
  BY <1>1 DEF Unseen, RowsOf, RowsAt
<1> QED BY <1>1, <1>2, <1>3 DEF Searched, Accounted

(* As long as nothing was written and no share dropped, a scan takes a row  *)
(* offline only when its path had no file at some time while it ran:       *)
(* whatever is moved, copied, deleted, flagged by a task or rebound in the *)
(* walk, in whatever order the directories come up.  With a write it does  *)
(* not hold (the deferred file, see README), and an empty mountpoint lists *)
(* as an empty directory.                                                  *)
THEOREM FlaggedWasGone == Spec => CalmlyGone
<1>1. Init => SearchInv
  BY InitInv DEF Init, SearchInv, StillUp, Searched, Idle
<1>2. SearchInv /\ [Next]_vars => [Calm => FlagsTheGone]_vars
  BY FlaggedGone DEF SearchInv, FlagsTheGone
<1>3. SearchInv /\ [Next]_vars => SearchInv'
  BY SearchNext
<1> QED BY <1>1, <1>2, <1>3, PTL DEF Spec, CalmlyGone

-----------------------------------------------------------------------------
(* Recursion over the numbers to n. *)
LEMMA Smallest ==
    ASSUME NEW U \in SUBSET Nat, U # {}
    PROVE  \E u \in U : \A w \in U : u <= w
<1>1. \E x \in U : \A y \in U : ~ (<<y, x>> \in OpToRel(<, Nat))
  BY NatLessThanWellFounded, WFMin
<1>2. PICK x \in U : \A y \in U : ~ (<<y, x>> \in OpToRel(<, Nat))
  BY <1>1
<1>3. \A y \in U : ~ (y < x)
  BY <1>2 DEF OpToRel
<1>4. \A y \in U : x <= y
  <2> TAKE y \in U
  <2>1. ~ (y < x) /\ x \in Nat /\ y \in Nat
    BY <1>3
  <2> QED BY <2>1
<1> QED BY <1>4

-----------------------------------------------------------------------------
(* A set that goes on from m goes on to n. *)
LEMMA GoesOn ==
    ASSUME NEW m \in Nat, NEW n \in Nat, NEW S, m \in S,
           \A i \in m..n : i < n /\ i \in S => i + 1 \in S
    PROVE  \A i \in m..n : i \in S
<1> DEFINE others == {i \in Nat : i \in m..n /\ i \notin S}
<1>1. SUFFICES ASSUME others # {} PROVE FALSE
  BY DEF others
<1>2. PICK i \in others : \A j \in others : i <= j
  <2>1. others \in SUBSET Nat
    BY DEF others
  <2> QED BY <1>1, <2>1, Smallest
<1>3. i \in Nat /\ i \in m..n /\ i \notin S /\ i # m
  BY <1>2 DEF others
<1>4. i - 1 \in m..n /\ i - 1 < n /\ (i - 1) + 1 = i
  BY <1>3
<1>5. i - 1 \in S
  <2>1. i - 1 \in Nat /\ ~(i <= i - 1)
    BY <1>3, <1>4
  <2>2. i - 1 \notin others
    BY <1>2, <2>1
  <2> QED BY <1>4, <2>1, <2>2 DEF others
<1> QED BY <1>3, <1>4, <1>5

(* What is defined by recursion over the numbers to n is there. *)
Unfolding(n, V, first, step) ==
    {f \in [0..n -> V] : f[0] = first /\ \A i \in 1..n : f[i] = step[<<i, f[i - 1]>>]}
LEMMA Unfolds ==
    ASSUME NEW n \in Nat, NEW V, NEW first \in V, NEW step \in [(1..n) \X V -> V]
    PROVE  Unfolding(n, V, first, step) # {}
<1> DEFINE To(k, f) == f \in [0..k -> V] /\ \A i \in 0..k : f[i] = IF i = 0 THEN first ELSE step[<<i, f[i - 1]>>]
           S == {k \in 0..n : \E f \in [0..k -> V] : To(k, f)}
<1>1. 0 \in S
  <2> DEFINE f == [i \in 0..0 |-> first]
  <2>1. f \in [0..0 -> V] /\ To(0, f)
    OBVIOUS
  <2>2. 0 \in 0..n
    OBVIOUS
  <2> HIDE DEF f
  <2> QED BY <2>1, <2>2
<1>2. ASSUME NEW k \in 0..n, k < n, k \in S PROVE k + 1 \in S
  <2>1. PICK f \in [0..k -> V] : To(k, f)
    BY <1>2
  <2>2. k \in Nat /\ k + 1 \in 1..n
    BY <1>2
  <2>3. step[<<k + 1, f[k]>>] \in V
    <3>1. f[k] \in V
      BY <2>1, <2>2
    <3> QED BY <2>2, <3>1
  <2> DEFINE g == [i \in 0..k + 1 |-> IF i = k + 1 THEN step[<<k + 1, f[k]>>] ELSE f[i]]
  <2>4. g \in [0..k + 1 -> V]
    <3>1. ASSUME NEW i \in 0..k + 1 PROVE (IF i = k + 1 THEN step[<<k + 1, f[k]>>] ELSE f[i]) \in V
      <4>1. i # k + 1 => i \in 0..k
        BY <2>2
      <4> QED BY <2>1, <2>3, <4>1
    <3> QED BY <3>1
  <2>5. ASSUME NEW i \in 0..k + 1 PROVE g[i] = IF i = 0 THEN first ELSE step[<<i, g[i - 1]>>]
    <3>1. CASE i = k + 1
      <4>1. k \in 0..k + 1 /\ k # k + 1 /\ i - 1 = k /\ i # 0
        BY <2>2, <3>1
      <4>2. g[k] = f[k]
        BY <4>1
      <4> QED BY <3>1, <4>1, <4>2
    <3>2. CASE i # k + 1
      <4>1. i \in 0..k /\ (i # 0 => i - 1 \in 0..k + 1 /\ i - 1 # k + 1)
        BY <2>2, <3>2
      <4>2. f[i] = IF i = 0 THEN first ELSE step[<<i, f[i - 1]>>]
        BY <2>1, <4>1
      <4>3. g[i] = f[i] /\ (i # 0 => g[i - 1] = f[i - 1])
        BY <3>2, <4>1
      <4> QED BY <4>2, <4>3
    <3> QED BY <3>1, <3>2
  <2>6. To(k + 1, g)
    BY <2>4, <2>5
  <2>7. k + 1 \in 0..n
    BY <2>2
  <2> QED BY <2>4, <2>6, <2>7
<1>3. n \in S
  <2> HIDE DEF S
  <2>1. \A k \in 0..n : k < n /\ k \in S => k + 1 \in S
    BY <1>2
  <2>2. \A k \in 0..n : k \in S
    BY <1>1, <2>1, GoesOn
  <2> QED BY <2>2
<1>4. PICK f \in [0..n -> V] : To(n, f)
  BY <1>3
<1>5. 0 \in 0..n /\ \A i \in 1..n : i \in 0..n /\ i # 0
  OBVIOUS
<1> QED BY <1>4, <1>5 DEF Unfolding


-----------------------------------------------------------------------------
(* Training pairs. *)
PassRows == [at : {"free", "fetch", "pair"} \cup OnDrive, rows : SUBSET (DOMAIN Pictures),
                 toFetch : SUBSET OnDrive, fetched : SUBSET OnDrive,
                 known : SUBSET (Originals \X FinalShots), shoots : SUBSET (DOMAIN ShootNames)]

(* What can be paired: pictures whose shoots have a house number in common. *)
OneHouse(op) ==
    LET a == ShootNames[Pictures[op[1]].shoot].words \cap Numbers
        b == ShootNames[Pictures[op[2]].shoot].words \cap Numbers
    IN  a # {} /\ b # {} => a \cap b # {}

PairsTyped ==
    /\ catalogued \subseteq DOMAIN Pictures /\ torn \in BOOLEAN /\ beside \in BOOLEAN
    /\ download \in [OnDrive -> {"none", "whole", "holed"}] /\ openers \in [OnDrive -> Seq(Passes)]
    /\ lines \in [Originals \X FinalShots -> Nat] /\ unended \subseteq Originals \X FinalShots /\ passOf \in [Passes -> PassRows]
    /\ pairBudget \in 0..PairIncidents

(* A pass by itself knows what is in the manifest when it pairs, and holds  *)
(* the file it writes.                                                      *)
ByItself ==
    /\ \A p, q \in Passes : UnderWay(p) /\ UnderWay(q) => p = q
    /\ \A p \in Passes : passOf[p].at = "pair" => \A op \in DOMAIN lines : lines[op] > 0 => op \in passOf[p].known
    /\ \A p \in Passes, f \in OnDrive : passOf[p].at = f => openers[f] # << >> /\ Last(openers[f]) = p
    /\ \A op \in DOMAIN lines : lines[op] <= 1
    /\ \A f \in OnDrive : download[f] # "holed"

PairsInv ==
    /\ PairsTyped
    /\ \A op \in DOMAIN lines : lines[op] > 0 => OneHouse(op)
    /\ \A op \in unended : lines[op] > 0
    /\ ~beside => ByItself

(* A step on the manifest loses no line but one without its newline. *)
LinesStay ==
    \A op \in DOMAIN lines : \/ lines'[op] >= lines[op]
                             \/ /\ op \in unended /\ op \notin unended'
                                /\ lines'[op] = lines[op] - 1

LEMMA PairsSettings ==
    /\ OnDrive \subseteq FinalShots /\ {"free", "fetch", "pair"} \cap OnDrive = {} /\ PairIncidents \in Nat
    /\ Alike \in Seq((DOMAIN Pictures) \X (DOMAIN Pictures))
    /\ \A x \in DOMAIN Pictures : Pictures[x].shoot \in DOMAIN ShootNames
  BY PairsAssumption DEF PairsAssumption, FinalShots

(* By name, and then by content, some originals with some finals. *)
LEMMA NamedAre ==
    ASSUME NEW originals, NEW finals
    PROVE  Named(originals, finals) \subseteq originals \X finals
<1> DEFINE of(group, name) == {x \in group : Pictures[x].name = name}
           shared == {Pictures[o].name : o \in originals} \cap {Pictures[f].name : f \in finals}
<1>1. ASSUME NEW n \in shared
      PROVE  <<CHOOSE o \in of(originals, n) : TRUE, CHOOSE f \in of(finals, n) : TRUE>> \in originals \X finals
  <2>1. PICK o \in originals, f \in finals : Pictures[o].name = n /\ Pictures[f].name = n
    OBVIOUS
  <2>2. o \in of(originals, n) /\ f \in of(finals, n)
    BY <2>1
  <2>3. (CHOOSE x \in of(originals, n) : TRUE) \in of(originals, n)
    BY <2>2
  <2>4. (CHOOSE x \in of(finals, n) : TRUE) \in of(finals, n)
    BY <2>2
  <2> QED BY <2>3, <2>4
<1>2. Named(originals, finals) =
        {<<CHOOSE o \in of(originals, n) : TRUE, CHOOSE f \in of(finals, n) : TRUE>> : n \in shared}
  BY DEF Named
<1> HIDE DEF of, shared
<1> QED BY <1>1, <1>2

LEMMA MatchIs ==
    ASSUME NEW originals, NEW finals
    PROVE  Match(originals, finals) \subseteq originals \X finals
<1> DEFINE V == SUBSET (originals \X finals)
           next(i, pairs) == Pick(pairs, originals, finals, Alike[i])
           Is(f) == f = [i \in 0..Len(Alike) |-> IF i = 0 THEN Named(originals, finals) ELSE next(i, f[i - 1])]
<1>1. PICK n \in Nat : n = Len(Alike)
  BY PairsSettings, LenProperties
<1>2. \A i \in 1..n, pairs \in V : next(i, pairs) \in V
  <2> SUFFICES ASSUME NEW i \in 1..n, NEW pairs \in V PROVE next(i, pairs) \in V
    OBVIOUS
  <2>1. PICK op \in (DOMAIN Pictures) \X (DOMAIN Pictures) : op = Alike[i]
    BY <1>1, PairsSettings
  <2>2. op[1] \in originals /\ op[2] \in finals => op \in originals \X finals
    OBVIOUS
  <2> QED BY <2>1, <2>2 DEF Pick
<1> DEFINE step == [p \in (1..n) \X V |-> next(p[1], p[2])]
<1>3. step \in [(1..n) \X V -> V]
  <2> HIDE DEF next, V
  <2> QED BY <1>2
<1>4. PICK f \in [0..n -> V] : f[0] = Named(originals, finals) /\ \A i \in 1..n : f[i] = step[<<i, f[i - 1]>>]
  <2>1. Named(originals, finals) \in V
    BY NamedAre
  <2> HIDE DEF V, step
  <2>2. Unfolding(n, V, Named(originals, finals), step) # {}
    BY <1>3, <2>1, Unfolds
  <2> QED BY <2>2 DEF Unfolding
<1>5. \A i \in 1..n : f[i] = next(i, f[i - 1])
  <2> TAKE i \in 1..n
  <2>1. i - 1 \in 0..n
    OBVIOUS
  <2>2. <<i, f[i - 1]>> \in (1..n) \X V
    BY <1>4, <2>1
  <2> HIDE DEF next, V
  <2>3. step[<<i, f[i - 1]>>] = next(i, f[i - 1])
    BY <2>2
  <2> QED BY <1>4, <2>3
<1> HIDE DEF next, V, step
<1>6. Is(f)
  <2>1. \A i \in 0..n : f[i] = IF i = 0 THEN Named(originals, finals) ELSE next(i, f[i - 1])
    <3> TAKE i \in 0..n
    <3>1. i # 0 => i \in 1..n
      OBVIOUS
    <3> QED BY <1>4, <1>5, <3>1
  <2>2. f = [i \in 0..n |-> f[i]]
    BY <1>4
  <2> QED BY <1>1, <2>1, <2>2
<1> DEFINE g == CHOOSE h : Is(h)
<1>7. Is(g)
  BY <1>6
<1>8. Match(originals, finals) = g[n]
  BY <1>1 DEF Match, next
<1>9. ASSUME NEW h, Is(h)
      PROVE  \A i \in 0..n : h[i] = IF i = 0 THEN Named(originals, finals) ELSE next(i, h[i - 1])
  BY <1>1, <1>9
<1> HIDE DEF g, Is
<1> DEFINE S == {i \in 0..n : g[i] = f[i]}
<1>10. 0 \in S
  <2>1. 0 \in 0..n
    OBVIOUS
  <2> QED BY <1>4, <1>7, <1>9, <2>1
<1>11. \A i \in 0..n : i < n /\ i \in S => i + 1 \in S
  <2> SUFFICES ASSUME NEW i \in 0..n, i < n, g[i] = f[i] PROVE i + 1 \in 0..n /\ g[i + 1] = f[i + 1]
    OBVIOUS
  <2>1. i + 1 \in 0..n /\ i + 1 \in 1..n /\ i + 1 # 0 /\ (i + 1) - 1 = i
    OBVIOUS
  <2>2. g[i + 1] = next(i + 1, g[i])
    BY <1>7, <1>9, <2>1
  <2>3. f[i + 1] = next(i + 1, f[i])
    BY <1>5, <2>1
  <2> QED BY <2>1, <2>2, <2>3
<1> HIDE DEF S
<1>12. \A i \in 0..n : i \in S
  <2>1. 0 \in Nat
    OBVIOUS
  <2> QED BY <1>10, <1>11, <2>1, GoesOn
<1>13. g[n] = f[n] /\ f[n] \in V
  <2>1. n \in 0..n
    OBVIOUS
  <2> QED BY <1>4, <1>12, <2>1 DEF S
<1> QED BY <1>8, <1>13 DEF V

LEMMA NewPairsAre ==
    ASSUME PairsInv, NEW p \in Passes, NEW s \in DOMAIN ShootNames
    PROVE  /\ NewPairs(p, s) \subseteq (Originals \X FinalShots) \ passOf[p].known
           /\ \A op \in NewPairs(p, s) : OneHouse(op)
<1>1. PICK at \in PassRows : at = passOf[p]
  BY DEF PairsInv, PairsTyped
<1> DEFINE originals == {o \in Originals \cap at.rows : Pictures[o].shoot = s}
           finals == {f \in (FinalShots \cap at.rows) \cup at.fetched : s \in ShootFor(f, at.rows)}
<1>2. originals \in SUBSET Originals /\ finals \in SUBSET FinalShots
  BY <1>1, PairsSettings DEF PassRows
<1>3. NewPairs(p, s) = Match(originals, finals) \ at.known
  <2> HIDE DEF originals, finals
  <2>1. Matching[<<originals, finals>>] = Match(originals, finals)
    BY <1>2 DEF Matching
  <2> QED BY <1>1, <2>1 DEF NewPairs, originals, finals
<1>4. Match(originals, finals) \subseteq originals \X finals
  BY MatchIs
<1>5. ASSUME NEW o \in originals, NEW f \in finals PROVE OneHouse(<<o, f>>)
  <2>1. Pictures[o].shoot = s /\ s \in ShootFor(f, at.rows)
    OBVIOUS
  <2>2. CASE f \in OnDrive
    <3>1. PICK shoots \in SUBSET (DOMAIN ShootNames) : shoots = ShootsIn(at.rows)
      <4>1. at.rows \in SUBSET (DOMAIN Pictures)
        BY DEF PassRows
      <4>2. ShootsIn(at.rows) \in SUBSET (DOMAIN ShootNames)
        BY <4>1, PairsSettings DEF ShootsIn
      <4> QED BY <4>2
    <3>0. BestOf[<<f, shoots>>] = BestShoots(ShootNames[Pictures[f].shoot], shoots)
      BY <2>2 DEF BestOf
    <3>4. ShootFor(f, at.rows) = BestOf[<<f, shoots>>]
      BY <2>2, <3>1 DEF ShootFor
    <3>2. s \in BestShoots(ShootNames[Pictures[f].shoot], shoots)
      BY <2>1, <3>0, <3>4
    <3>3. ~Different(ShootNames[Pictures[f].shoot], ShootNames[s])
      BY <3>2 DEF BestShoots, Similar
    <3> QED BY <2>1, <3>3 DEF Different, OneHouse
  <2>3. CASE f \notin OnDrive
    <3>1. Pictures[f].shoot = s
      BY <2>1, <2>3 DEF ShootFor
    <3> QED BY <2>1, <3>1 DEF OneHouse
  <2> QED BY <2>2, <2>3
<1> HIDE DEF originals, finals
<1>6. \A op \in originals \X finals : OneHouse(op)
  <2> TAKE op \in originals \X finals
  <2>1. op[1] \in originals /\ op[2] \in finals /\ op = <<op[1], op[2]>>
    OBVIOUS
  <2> QED BY <1>5, <2>1
<1> QED BY <1>1, <1>2, <1>3, <1>4, <1>6

-----------------------------------------------------------------------------
(* The steps of a pass. *)
LEMMA PairsInvStarts == PairsInit => PairsInv
<1> SUFFICES ASSUME PairsInit PROVE PairsInv
  OBVIOUS
<1>1. PairsTyped
  <2>1. NoPass \in PassRows
    BY DEF NoPass, PassRows
  <2>2. passOf \in [Passes -> PassRows]
    BY <2>1 DEF PairsInit
  <2>3. download \in [OnDrive -> {"none", "whole", "holed"}] /\ lines \in [Originals \X FinalShots -> Nat]
        /\ unended = {}
    BY DEF PairsInit
  <2>4. openers \in [OnDrive -> Seq(Passes)]
    BY EmptySeq DEF PairsInit
  <2>5. /\ catalogued \subseteq DOMAIN Pictures /\ torn \in BOOLEAN /\ beside \in BOOLEAN
        /\ pairBudget \in 0..PairIncidents
    <3>1. PICK n \in Nat : n = PairIncidents
      BY PairsSettings
    <3>2. pairBudget = n /\ n \in 0..n
      BY <3>1 DEF PairsInit
    <3>3. catalogued = {} /\ torn = FALSE /\ beside = FALSE
      BY DEF PairsInit
    <3> QED BY <3>1, <3>2, <3>3
  <2> QED BY <2>2, <2>3, <2>4, <2>5 DEF PairsTyped
<1>2. ByItself
  BY PairsSettings DEF PairsInit, ByItself, UnderWay, NoPass
<1> QED BY <1>1, <1>2 DEF PairsInv, PairsInit

LEMMA PairsIncidents == PairsInv /\ PairIncident => pairBudget' \in 0..PairIncidents
  BY PairsSettings DEF PairsInv, PairsTyped, PairIncident

LEMMA CatalogueKeeps ==
    ASSUME PairsInv, NEW x \in DOMAIN Pictures, Catalogue(x)
    PROVE  PairsInv'
  BY DEF Catalogue, manifest, PairsInv, PairsTyped, ByItself, UnderWay, OneHouse

LEMMA BeginPassKeeps ==
    ASSUME PairsInv, NEW p \in Passes, BeginPass(p)
    PROVE  PairsInv'
<1>1. PICK me \in PassRows :
        /\ me.at = "fetch" /\ passOf' = [passOf EXCEPT ![p] = me]
  <2> DEFINE me == [NoPass EXCEPT !.at = "fetch", !.rows = catalogued, !.shoots = ShootsIn(catalogued),
                                  !.toFetch = {f \in OnDrive : ShootFor(f, catalogued) # {}}]
  <2>1. ShootsIn(catalogued) \subseteq DOMAIN ShootNames
    BY PairsSettings DEF PairsInv, PairsTyped, ShootsIn
  <2>2. me \in PassRows /\ me.at = "fetch"
    BY <2>1 DEF NoPass, PassRows, PairsInv, PairsTyped
  <2> QED BY <2>2 DEF BeginPass
<1>2. UNCHANGED <<catalogued, download, openers, lines, torn, unended>> /\ ~UnderWay(p)
  BY DEF BeginPass, manifest
<1>3. /\ beside' \in BOOLEAN /\ pairBudget' \in 0..PairIncidents
      /\ ~beside' => ~beside /\ \A q \in Passes : ~UnderWay(q)
  BY PairsIncidents DEF BeginPass, PairsInv, PairsTyped
<1>4. PairsTyped'
  BY <1>1, <1>2, <1>3 DEF PairsInv, PairsTyped
<1>5. ASSUME ~beside' PROVE ByItself'
  <2>1. ByItself /\ passOf'[p] = me /\ \A q \in Passes \ {p} : passOf'[q] = passOf[q] /\ ~UnderWay(q)
    BY <1>1, <1>3, <1>5 DEF PairsInv, PairsTyped
  <2>2. \A q \in Passes \ {p} : passOf'[q].at = "free"
    BY <2>1 DEF UnderWay
  <2> QED BY <1>1, <1>2, <2>1, <2>2, PairsSettings DEF ByItself, UnderWay
<1> QED BY <1>2, <1>4, <1>5 DEF PairsInv, OneHouse

(* A pass that goes on, or is over. *)
LEMMA PassGoes ==
    ASSUME PairsInv, NEW p \in Passes, NEW me \in PassRows, passOf' = [passOf EXCEPT ![p] = me], UnderWay(p),
           UNCHANGED <<catalogued, beside>>, torn' \in BOOLEAN, pairBudget' \in 0..PairIncidents,
           download' \in [OnDrive -> {"none", "whole", "holed"}], openers' \in [OnDrive -> Seq(Passes)],
           lines' \in [Originals \X FinalShots -> Nat], unended' \in SUBSET (Originals \X FinalShots),
           \A op \in DOMAIN lines' : lines'[op] > 0 => OneHouse(op), \A op \in unended' : lines'[op] > 0,
           ~beside => /\ me.at = "pair" => \A op \in DOMAIN lines' : lines'[op] > 0 => op \in me.known
                      /\ \A f \in OnDrive : me.at = f => openers'[f] # << >> /\ Last(openers'[f]) = p
                      /\ \A op \in DOMAIN lines' : lines'[op] <= 1
                      /\ \A f \in OnDrive : download'[f] # "holed"
    PROVE  PairsInv'
<1>1. PairsTyped'
  BY DEF PairsInv, PairsTyped
<1>2. ASSUME ~beside PROVE ByItself'
  <2>1. ByItself /\ passOf'[p] = me /\ \A q \in Passes \ {p} : passOf'[q] = passOf[q] /\ ~UnderWay(q)
    BY <1>2 DEF PairsInv, PairsTyped, ByItself
  <2>2. \A q \in Passes \ {p} : passOf'[q].at = "free"
    BY <2>1 DEF UnderWay
  <2>3. \A q, r \in Passes : UnderWay(q)' /\ UnderWay(r)' => q = r
    BY <2>2 DEF UnderWay
  <2>4. \A q \in Passes : passOf'[q].at = "pair" =>
           \A op \in DOMAIN lines' : lines'[op] > 0 => op \in passOf'[q].known
    BY <1>2, <2>1, <2>2
  <2>5. \A q \in Passes, f \in OnDrive : passOf'[q].at = f => openers'[f] # << >> /\ Last(openers'[f]) = q
    BY <1>2, <2>1, <2>2, PairsSettings
  <2> QED BY <1>2, <2>3, <2>4, <2>5 DEF ByItself
<1> QED BY <1>1, <1>2 DEF PairsInv, OneHouse

LEMMA HaveItKeeps ==
    ASSUME PairsInv, NEW p \in Passes, NEW f \in OnDrive, HaveIt(p, f)
    PROVE  PairsInv'
<1>1. PICK old \in PassRows : old = passOf[p] /\ old.at = "fetch"
  BY DEF PairsInv, PairsTyped, HaveIt
<1>2. PICK me \in PassRows : me = [old EXCEPT !.toFetch = old.toFetch \ {f}, !.fetched = old.fetched \cup {f}]
                                 /\ me.at = "fetch"
  <2>1. [old EXCEPT !.toFetch = old.toFetch \ {f}, !.fetched = old.fetched \cup {f}] \in PassRows
    BY <1>1 DEF PassRows
  <2> QED BY <1>1, <2>1 DEF PassRows
<1>3. passOf' = [passOf EXCEPT ![p] = me]
  BY <1>1, <1>2 DEF HaveIt, PairsInv, PairsTyped
<1>4. UNCHANGED <<catalogued, download, openers, lines, torn, unended, beside, pairBudget>> /\ UnderWay(p)
  BY <1>1 DEF HaveIt, UnderWay, manifest
<1> QED BY <1>2, <1>3, <1>4, PassGoes, PairsSettings DEF PairsInv, PairsTyped, ByItself

LEMMA OpenPartKeeps ==
    ASSUME PairsInv, NEW p \in Passes, NEW f \in OnDrive, OpenPart(p, f)
    PROVE  PairsInv'
<1>1. PICK old \in PassRows : old = passOf[p] /\ old.at = "fetch"
  BY DEF PairsInv, PairsTyped, OpenPart
<1>2. PICK me \in PassRows : me = [old EXCEPT !.at = f] /\ me.at = f
  <2>1. [old EXCEPT !.at = f] \in PassRows
    BY <1>1 DEF PassRows
  <2> QED BY <1>1, <2>1 DEF PassRows
<1>3. passOf' = [passOf EXCEPT ![p] = me]
  BY <1>1, <1>2 DEF OpenPart, PairsInv, PairsTyped
<1>4. UNCHANGED <<catalogued, download, lines, torn, unended, beside, pairBudget>> /\ UnderWay(p)
  BY <1>1 DEF OpenPart, UnderWay, manifest
<1>5. PICK list \in Seq(Passes) : list = openers[f]
  BY DEF PairsInv, PairsTyped
<1>6. Append(list, p) \in Seq(Passes) /\ Append(list, p) # << >> /\ Last(Append(list, p)) = p
  <2>1. PICK n \in Nat : n = Len(list)
    BY LenProperties
  <2>2. Append(list, p) \in Seq(Passes) /\ Len(Append(list, p)) = Len(list) + 1 /\ Append(list, p)[Len(list) + 1] = p
    BY AppendProperties
  <2>3. Append(list, p) # << >>
    BY <2>1, <2>2
  <2>4. Last(Append(list, p)) = Append(list, p)[Len(Append(list, p))]
    BY DEF Last
  <2> QED BY <2>2, <2>3, <2>4
<1>7. openers' \in [OnDrive -> Seq(Passes)] /\ openers'[f] = Append(list, p)
  BY <1>5, <1>6 DEF OpenPart, PairsInv, PairsTyped
<1>8. \A g \in OnDrive : me.at = g => openers'[g] # << >> /\ Last(openers'[g]) = p
  BY <1>2, <1>6, <1>7
<1>9. me.at # "pair"
  BY <1>2, PairsSettings
<1> QED BY <1>3, <1>4, <1>7, <1>8, <1>9, PassGoes DEF PairsInv, PairsTyped, ByItself

LEMMA MoveInKeeps ==
    ASSUME PairsInv, NEW p \in Passes, NEW f \in OnDrive, MoveIn(p, f)
    PROVE  PairsInv'
<1>1. PICK old \in PassRows : old = passOf[p] /\ old.at = f
  BY DEF PairsInv, PairsTyped, MoveIn
<1>2. UNCHANGED <<catalogued, lines, torn, unended, beside, pairBudget>> /\ UnderWay(p)
  BY <1>1, PairsSettings DEF MoveIn, UnderWay, manifest
<1>3. CASE p \in ToSet(openers[f])
  <2>1. PICK me \in PassRows :
          /\ me = [old EXCEPT !.at = "fetch", !.toFetch = old.toFetch \ {f}, !.fetched = old.fetched \cup {f}]
          /\ me.at = "fetch"
    <3>1. [old EXCEPT !.at = "fetch", !.toFetch = old.toFetch \ {f}, !.fetched = old.fetched \cup {f}] \in PassRows
      BY <1>1 DEF PassRows
    <3> QED BY <1>1, <3>1 DEF PassRows
  <2>2. passOf' = [passOf EXCEPT ![p] = me]
    BY <1>1, <1>3, <2>1 DEF MoveIn, PairsInv, PairsTyped
  <2>3. /\ openers' = [openers EXCEPT ![f] = << >>]
        /\ download' = [download EXCEPT ![f] = IF Last(openers[f]) = p THEN "whole" ELSE "holed"]
    BY <1>3 DEF MoveIn
  <2>4. openers' \in [OnDrive -> Seq(Passes)] /\ download' \in [OnDrive -> {"none", "whole", "holed"}]
    BY <2>3 DEF PairsInv, PairsTyped
  <2>5. ~beside => \A g \in OnDrive : download'[g] # "holed"
    BY <1>1, <2>3 DEF PairsInv, PairsTyped, ByItself
  <2> QED BY <1>2, <2>1, <2>2, <2>4, <2>5, PassGoes, PairsSettings DEF PairsInv, PairsTyped, ByItself
<1>4. CASE p \notin ToSet(openers[f])
  <2>1. NoPass \in PassRows /\ NoPass.at = "free"
    BY DEF NoPass, PassRows
  <2>2. passOf' = [passOf EXCEPT ![p] = NoPass] /\ openers' = openers
        /\ download' = [download EXCEPT ![f] = "whole"]
    BY <1>4 DEF MoveIn
  <2>3. download' \in [OnDrive -> {"none", "whole", "holed"}]
    BY <2>2 DEF PairsInv, PairsTyped
  <2>4. ~beside => \A g \in OnDrive : download'[g] # "holed"
    BY <2>2 DEF PairsInv, PairsTyped, ByItself
  <2> QED BY <1>2, <2>1, <2>2, <2>3, <2>4, PassGoes, PairsSettings DEF PairsInv, PairsTyped, ByItself
<1> QED BY <1>3, <1>4

LEMMA LoadKnownKeeps ==
    ASSUME PairsInv, NEW p \in Passes, LoadKnown(p)
    PROVE  PairsInv'
<1>1. PICK old \in PassRows : old = passOf[p] /\ old.at = "fetch"
  BY DEF PairsInv, PairsTyped, LoadKnown
<1>2. PICK known \in SUBSET (Originals \X FinalShots) : known = {op \in DOMAIN lines : lines[op] > 0}
  BY DEF PairsInv, PairsTyped
<1>3. PICK me \in PassRows : me = [old EXCEPT !.at = "pair", !.known = known] /\ me.at = "pair" /\ me.known = known
  <2>1. [old EXCEPT !.at = "pair", !.known = known] \in PassRows
    BY <1>1, <1>2 DEF PassRows
  <2> QED BY <1>1, <2>1 DEF PassRows
<1>4. passOf' = [passOf EXCEPT ![p] = me]
  BY <1>1, <1>2, <1>3 DEF LoadKnown, PairsInv, PairsTyped
<1>5. UNCHANGED <<catalogued, download, openers, lines, torn, unended, beside, pairBudget>> /\ UnderWay(p)
  BY <1>1 DEF LoadKnown, UnderWay, manifest
<1>6. \A op \in DOMAIN lines' : lines'[op] > 0 => op \in me.known
  BY <1>2, <1>3, <1>5
<1> QED BY <1>3, <1>4, <1>5, <1>6, PassGoes, PairsSettings DEF PairsInv, PairsTyped, ByItself

LEMMA WrittenIs ==
    ASSUME PairsInv, NEW pairs \in SUBSET (Originals \X FinalShots), NEW joined,
           \A op \in pairs : OneHouse(op)
    PROVE  /\ Written(pairs, joined) \in [Originals \X FinalShots -> Nat]
           /\ \A op \in DOMAIN lines :
                 /\ \/ Written(pairs, joined)[op] >= lines[op]
                    \/ op \in unended /\ op \notin pairs \ joined /\ Written(pairs, joined)[op] = lines[op] - 1
                 /\ op \notin pairs => Written(pairs, joined)[op] <= lines[op]
                 /\ op \in pairs \ joined => Written(pairs, joined)[op] > 0
                 /\ Written(pairs, joined)[op] <= lines[op] + 1
                 /\ Written(pairs, joined)[op] > 0 => OneHouse(op)
<1>1. lines \in [Originals \X FinalShots -> Nat] /\ DOMAIN lines = Originals \X FinalShots
  BY DEF PairsInv, PairsTyped
<1>2. ASSUME NEW op \in DOMAIN lines
      PROVE  Written(pairs, joined)[op] = lines[op] + (IF op \in pairs \ joined THEN 1 ELSE 0)
                                                    - (IF joined # {} /\ op \in unended THEN 1 ELSE 0)
  BY DEF Written
<1>3. ASSUME NEW op \in DOMAIN lines
      PROVE  lines[op] \in Nat /\ (op \notin pairs /\ lines[op] > 0 => OneHouse(op)) /\ (op \in unended => lines[op] > 0)
  BY <1>1 DEF PairsInv
<1>4. ASSUME NEW op \in DOMAIN lines
      PROVE  /\ Written(pairs, joined)[op] \in Nat
             /\ \/ Written(pairs, joined)[op] >= lines[op]
                \/ op \in unended /\ op \notin pairs \ joined /\ Written(pairs, joined)[op] = lines[op] - 1
             /\ op \notin pairs => Written(pairs, joined)[op] <= lines[op]
             /\ op \in pairs \ joined => Written(pairs, joined)[op] > 0
             /\ Written(pairs, joined)[op] <= lines[op] + 1
  BY <1>2, <1>3
<1>5. Written(pairs, joined) \in [Originals \X FinalShots -> Nat]
  <2>1. DOMAIN Written(pairs, joined) = DOMAIN lines
    BY DEF Written
  <2>2. Written(pairs, joined) = [op \in DOMAIN lines |-> Written(pairs, joined)[op]]
    BY <2>1 DEF Written
  <2> HIDE DEF Written
  <2> QED BY <1>1, <1>4, <2>2
<1>6. ASSUME NEW op \in DOMAIN lines, Written(pairs, joined)[op] > 0
      PROVE  OneHouse(op)
  BY <1>3, <1>4, <1>6
<1> QED BY <1>4, <1>5, <1>6

LEMMA AppendNewKeeps ==
    ASSUME PairsInv, NEW p \in Passes, NEW s \in DOMAIN ShootNames, AppendNew(p, s)
    PROVE  PairsInv' /\ LinesStay
<1>1. PICK old \in PassRows : old = passOf[p] /\ old.at = "pair"
  BY DEF PairsInv, PairsTyped, AppendNew, NextShoot
<1>2. PICK new \in SUBSET (Originals \X FinalShots) :
        new = NewPairs(p, s) /\ (\A op \in new : op \notin old.known /\ OneHouse(op))
  BY <1>1, NewPairsAre
<1>3. PICK me \in PassRows : me = [old EXCEPT !.shoots = old.shoots \ {s}, !.known = old.known \cup new]
                                 /\ me.at = "pair" /\ me.known = old.known \cup new
  <2>1. [old EXCEPT !.shoots = old.shoots \ {s}, !.known = old.known \cup new] \in PassRows
    <3>1. old.known \cup new \in SUBSET (Originals \X FinalShots) /\ old.shoots \ {s} \in SUBSET (DOMAIN ShootNames)
      BY DEF PassRows
    <3> QED BY <1>1, <3>1 DEF PassRows
  <2> QED BY <1>1, <2>1 DEF PassRows
<1>4. passOf' = [passOf EXCEPT ![p] = me]
  BY <1>1, <1>2, <1>3 DEF AppendNew, PairsInv, PairsTyped
<1>5. UNCHANGED <<catalogued, download, openers, beside, pairBudget>> /\ UnderWay(p)
  BY <1>1 DEF AppendNew, UnderWay
<1>6. /\ \/ lines' = lines /\ unended' = unended
         \/ unended' = {} /\ \E joined : lines' = Written(new, joined)
      /\ torn' \in BOOLEAN
  <2>1. CASE new = {}
    <3>1. UNCHANGED <<lines, torn, unended>>
      BY <1>2, <2>1 DEF AppendNew, manifest
    <3> QED BY <3>1 DEF PairsInv, PairsTyped
  <2>2. CASE new # {}
    BY <1>2, <2>2 DEF AppendNew
  <2> QED BY <2>1, <2>2
<1>7. /\ lines' \in [Originals \X FinalShots -> Nat]
      /\ \A op \in DOMAIN lines : /\ op \notin new => lines'[op] <= lines[op]
                                  /\ lines'[op] <= lines[op] + 1
                                  /\ lines'[op] > 0 => OneHouse(op)
      /\ LinesStay /\ unended' \in SUBSET (Originals \X FinalShots) /\ \A op \in unended' : lines'[op] > 0
  <2>1. CASE lines' = lines /\ unended' = unended
    <3>1. \A op \in DOMAIN lines : lines[op] \in Nat /\ lines[op] >= lines[op] /\ lines[op] <= lines[op] + 1
      BY DEF PairsInv, PairsTyped
    <3> QED BY <2>1, <3>1 DEF PairsInv, PairsTyped, LinesStay
  <2>2. CASE unended' = {} /\ \E joined : lines' = Written(new, joined)
    <3>1. PICK joined : lines' = Written(new, joined)
      BY <2>2
    <3>2. \A op \in new : OneHouse(op)
      BY <1>2
    <3> QED BY <2>2, <3>1, <3>2, WrittenIs DEF LinesStay
  <2> QED BY <1>6, <2>1, <2>2
<1>8. DOMAIN lines' = DOMAIN lines /\ \A op \in DOMAIN lines : lines[op] \in Nat /\ lines'[op] \in Nat
  BY <1>7 DEF PairsInv, PairsTyped
<1>9. ~beside => \A op \in DOMAIN lines' : /\ lines'[op] > 0 => op \in me.known
                                           /\ lines'[op] <= 1
  <2> SUFFICES ASSUME ~beside, NEW op \in DOMAIN lines
               PROVE  (lines'[op] > 0 => op \in me.known) /\ lines'[op] <= 1
    BY <1>8
  <2>1. (lines[op] > 0 => op \in old.known) /\ lines[op] <= 1
    BY <1>1 DEF PairsInv, ByItself
  <2>2. CASE op \in new
    <3>1. op \in me.known /\ ~(lines[op] > 0)
      BY <1>2, <1>3, <2>1, <2>2
    <3>2. lines[op] = 0
      BY <1>8, <3>1
    <3>3. lines'[op] <= 0 + 1
      BY <1>7, <3>2
    <3> QED BY <1>8, <3>1, <3>3
  <2>3. CASE op \notin new
    <3>1. PICK k, l \in Nat : k = lines[op] /\ l = lines'[op]
      BY <1>8
    <3>2. l <= k /\ k <= 1 /\ (k > 0 => op \in old.known)
      BY <1>7, <2>1, <2>3, <3>1
    <3> QED BY <1>3, <3>1, <3>2
  <2> QED BY <2>2, <2>3
<1>10. PairsInv'
  BY <1>3, <1>4, <1>5, <1>6, <1>7, <1>8, <1>9, PassGoes, PairsSettings DEF PairsInv, PairsTyped, ByItself
<1> QED BY <1>7, <1>10

LEMMA EndPassKeeps ==
    ASSUME PairsInv, NEW p \in Passes, EndPass(p) \/ KillPass(p)
    PROVE  PairsInv'
<1>1. NoPass \in PassRows /\ NoPass.at = "free"
  BY DEF NoPass, PassRows
<1>2. /\ passOf' = [passOf EXCEPT ![p] = NoPass] /\ UnderWay(p)
      /\ UNCHANGED <<catalogued, download, openers, lines, torn, unended, beside>> /\ pairBudget' \in 0..PairIncidents
  BY PairsIncidents DEF EndPass, KillPass, manifest, UnderWay, PairsInv, PairsTyped
<1> QED BY <1>1, <1>2, PassGoes, PairsSettings DEF PairsInv, PairsTyped, ByItself

LEMMA TearKeeps ==
    ASSUME PairsInv, NEW p \in Passes, NEW s \in DOMAIN ShootNames, TearManifest(p, s)
    PROVE  PairsInv' /\ LinesStay
<1>1. PICK old \in PassRows : old = passOf[p] /\ old.at = "pair"
  BY DEF PairsInv, PairsTyped, TearManifest, NextShoot
<1>2. PICK new \in SUBSET (Originals \X FinalShots) :
        new = NewPairs(p, s) /\ (\A op \in new : op \notin old.known /\ OneHouse(op))
  BY <1>1, NewPairsAre
<1>3. PICK some \in SUBSET new :
        \E joined : lines' = Written(some, joined) /\ unended' \subseteq some \ joined
  <2>1. PICK done \in SUBSET new :
          \/ unended' = {} /\ \E joined : lines' = Written(done, joined)
          \/ \E last \in new : \E joined :
                \/ lines' = Written(done, joined) /\ unended' = {}
                \/ lines' = Written(done \cup {last}, joined) /\ unended' = {last} \ joined
    <3>1. PICK done \in SUBSET new :
            \/ /\ done # {} /\ \E joined \in Joins(done) : lines' = Written(done, joined)
               /\ torn' = FALSE /\ unended' = {}
            \/ /\ \E last \in new \ done : \E joined \in Joins(IF done = {} THEN {last} ELSE done) :
                      \/ lines' = Written(done, joined) /\ unended' = {}
                      \/ lines' = Written(done \cup {last}, joined) /\ unended' = {last} \ joined
               /\ torn' = TRUE
      <4> DEFINE Tears(n, done) ==
             \/ /\ done # {} /\ \E joined \in Joins(done) : lines' = Written(done, joined)
                /\ torn' = FALSE /\ unended' = {}
             \/ /\ \E last \in n \ done : \E joined \in Joins(IF done = {} THEN {last} ELSE done) :
                       \/ lines' = Written(done, joined) /\ unended' = {}
                       \/ lines' = Written(done \cup {last}, joined) /\ unended' = {last} \ joined
                /\ torn' = TRUE
      <4>1. \E n \in {NewPairs(p, s)} : \E done \in SUBSET n : Tears(n, done)
        BY DEF TearManifest
      <4> HIDE DEF Tears
      <4>2. \E done \in SUBSET new : Tears(new, done)
        BY <1>2, <4>1
      <4> QED BY <4>2 DEF Tears
    <3> QED BY <3>1
  <2>2. CASE unended' = {} /\ \E joined : lines' = Written(done, joined)
    BY <2>2
  <2>3. CASE \E last \in new : \E joined : lines' = Written(done \cup {last}, joined) /\ unended' = {last} \ joined
    <3>0. PICK last \in new : \E joined : lines' = Written(done \cup {last}, joined) /\ unended' = {last} \ joined
      BY <2>3
    <3>1. PICK joined : lines' = Written(done \cup {last}, joined) /\ unended' = {last} \ joined
      BY <3>0
    <3>2. done \cup {last} \in SUBSET new /\ {last} \ joined \subseteq (done \cup {last}) \ joined
      OBVIOUS
    <3> QED BY <3>1, <3>2
  <2> QED BY <2>1, <2>2, <2>3
<1>4. some \in SUBSET (Originals \X FinalShots) /\ \A op \in some : OneHouse(op)
  BY <1>2, <1>3
<1>5. /\ lines' \in [Originals \X FinalShots -> Nat]
      /\ \A op \in DOMAIN lines : /\ op \notin some => lines'[op] <= lines[op]
                                  /\ lines'[op] <= lines[op] + 1
                                  /\ lines'[op] > 0 => OneHouse(op)
      /\ LinesStay /\ unended' \in SUBSET (Originals \X FinalShots) /\ \A op \in unended' : lines'[op] > 0
  <2>1. PICK joined : lines' = Written(some, joined) /\ unended' \subseteq some \ joined
    BY <1>3
  <2>2. /\ Written(some, joined) \in [Originals \X FinalShots -> Nat]
        /\ \A op \in DOMAIN lines :
              /\ \/ Written(some, joined)[op] >= lines[op]
                 \/ op \in unended /\ op \notin some \ joined /\ Written(some, joined)[op] = lines[op] - 1
              /\ op \notin some => Written(some, joined)[op] <= lines[op]
              /\ op \in some \ joined => Written(some, joined)[op] > 0
              /\ Written(some, joined)[op] <= lines[op] + 1
              /\ Written(some, joined)[op] > 0 => OneHouse(op)
    BY <1>4, WrittenIs
  <2>3. LinesStay
    BY <2>1, <2>2 DEF LinesStay
  <2>4. \A op \in some : op \in DOMAIN lines
    BY <1>4 DEF PairsInv, PairsTyped
  <2> QED BY <1>4, <2>1, <2>2, <2>3, <2>4
<1>6. DOMAIN lines' = DOMAIN lines /\ \A op \in DOMAIN lines : lines[op] \in Nat /\ lines'[op] \in Nat
  BY <1>5 DEF PairsInv, PairsTyped
<1>7. ~beside => \A op \in DOMAIN lines' : lines'[op] <= 1
  <2> SUFFICES ASSUME ~beside, NEW op \in DOMAIN lines PROVE lines'[op] <= 1
    BY <1>6
  <2>1. (lines[op] > 0 => op \in old.known) /\ lines[op] <= 1
    BY <1>1 DEF PairsInv, ByItself
  <2>2. CASE op \in some
    <3>1. ~(lines[op] > 0)
      BY <1>2, <2>1, <2>2
    <3>2. lines[op] = 0
      BY <1>6, <3>1
    <3> QED BY <1>5, <3>2
  <2>3. CASE op \notin some
    <3>1. PICK k, l \in Nat : k = lines[op] /\ l = lines'[op]
      BY <1>6
    <3>2. l <= k /\ k <= 1 /\ (k > 0 => op \in old.known)
      BY <1>5, <2>1, <2>3, <3>1
    <3> QED BY <3>1, <3>2
  <2> QED BY <2>2, <2>3
<1>8. NoPass \in PassRows /\ NoPass.at = "free"
  BY DEF NoPass, PassRows
<1>9. /\ passOf' = [passOf EXCEPT ![p] = NoPass] /\ UnderWay(p) /\ torn' \in BOOLEAN
      /\ UNCHANGED <<catalogued, download, openers, beside>> /\ pairBudget' \in 0..PairIncidents
  BY <1>1, PairsIncidents DEF TearManifest, UnderWay
<1>10. PairsInv'
  BY <1>5, <1>6, <1>7, <1>8, <1>9, PassGoes, PairsSettings DEF PairsInv, PairsTyped, ByItself
<1> QED BY <1>5, <1>10

LEMMA PairsKept ==
    ASSUME PairsInv, [PairsNext]_pairsVars
    PROVE  PairsInv' /\ LinesStay
<1>0. ASSUME lines' = lines PROVE LinesStay
  BY <1>0 DEF PairsInv, PairsTyped, LinesStay
<1>1. ASSUME NEW x \in DOMAIN Pictures, Catalogue(x) PROVE PairsInv' /\ lines' = lines
  BY <1>1, CatalogueKeeps DEF Catalogue, manifest
<1>2. ASSUME NEW p \in Passes, BeginPass(p) PROVE PairsInv' /\ lines' = lines
  BY <1>2, BeginPassKeeps DEF BeginPass, manifest
<1>3. ASSUME NEW p \in Passes, NEW f \in OnDrive, HaveIt(p, f) \/ OpenPart(p, f) \/ MoveIn(p, f)
      PROVE  PairsInv' /\ lines' = lines
  <2>1. lines' = lines
    BY <1>3 DEF HaveIt, OpenPart, MoveIn, manifest
  <2> QED BY <1>3, <2>1, HaveItKeeps, OpenPartKeeps, MoveInKeeps
<1>4. ASSUME NEW p \in Passes, LoadKnown(p) PROVE PairsInv' /\ lines' = lines
  BY <1>4, LoadKnownKeeps DEF LoadKnown, manifest
<1>5. ASSUME NEW p \in Passes, EndPass(p) \/ KillPass(p) PROVE PairsInv' /\ lines' = lines
  BY <1>5, EndPassKeeps DEF EndPass, KillPass, manifest
<1>6. ASSUME NEW p \in Passes, NEW s \in DOMAIN ShootNames, AppendNew(p, s) \/ TearManifest(p, s)
      PROVE  PairsInv' /\ LinesStay
  BY <1>6, AppendNewKeeps, TearKeeps
<1>7. CASE UNCHANGED pairsVars
  BY <1>0, <1>7 DEF pairsVars, manifest, PairsInv, PairsTyped, ByItself, UnderWay, OneHouse
<1> QED BY <1>0, <1>1, <1>2, <1>3, <1>4, <1>5, <1>6, <1>7 DEF PairsNext, PassWorks

(* In every behaviour of Backroom, however passes overlap, are killed or    *)
(* refused and lines torn (training/pairs.py, integrations/gdrive.py): what *)
(* the manifest says and can be read stays, but for the one line a kill     *)
(* left without its newline; no pair mixes two houses; and as long as no    *)
(* two passes were under way at a time a pair is recorded once and a        *)
(* download that looks done is whole.                                       *)
THEOREM PairsHold == BackroomSpec => PairsCorrect
<1>1. BackroomInit => PairsInv
  BY PairsInvStarts DEF BackroomInit
<1>2. [BackroomNext]_backroomVars => [PairsNext]_pairsVars
  BY DEF BackroomNext, SlidesMove, MergeMoves, PairsMove, ShowcaseMoves, LocationsMove, BasemapsMove, backroomVars
<1>3. PairsInv /\ [BackroomNext]_backroomVars => PairsInv'
  BY <1>2, PairsKept
<1>4. PairsInv => PairsTypeOK /\ RecordedOnce /\ DoneIsWhole /\ SameHouse
  <2> SUFFICES ASSUME PairsInv PROVE PairsTypeOK /\ RecordedOnce /\ DoneIsWhole /\ SameHouse
    OBVIOUS
  <2>1. \A f \in OnDrive : ToSet(openers[f]) \subseteq Passes
    <3> SUFFICES ASSUME NEW f \in OnDrive PROVE ToSet(openers[f]) \subseteq Passes
      OBVIOUS
    <3>1. openers[f] \in Seq(Passes)
      BY DEF PairsInv, PairsTyped
    <3> QED BY <3>1, LenProperties DEF ToSet
  <2>2. PairsTypeOK
    BY <2>1 DEF PairsInv, PairsTyped, PairsTypeOK
  <2>3. RecordedOnce /\ DoneIsWhole
    BY DEF PairsInv, ByItself, RecordedOnce, DoneIsWhole
  <2>4. SameHouse
    BY DEF PairsInv, OneHouse, SameHouse
  <2> QED BY <2>2, <2>3, <2>4
<1>5. PairsInv /\ [BackroomNext]_backroomVars => [LinesStay]_pairsVars
  BY <1>2, PairsKept
<1> QED BY <1>1, <1>3, <1>4, <1>5, PTL DEF BackroomSpec, PairsCorrect, ReadableStays, LinesStay

(* Those, step by step. *)
StepsOf(list, places, f) ==
    /\ f[0] = << >>
    /\ \A i \in 1..Len(list) : f[i] = IF i \in places THEN Append(f[i - 1], list[i]) ELSE f[i - 1]
LEMMA ThoseSteps ==
    ASSUME NEW T, NEW list \in Seq(T), NEW places
    PROVE  \E f \in [0..Len(list) -> Seq(T)] : StepsOf(list, places, f) /\ Those(list, places) = f[Len(list)]
<1> DEFINE n == Len(list)
           V == Seq(T)
           step == [p \in (1..n) \X V |-> IF p[1] \in places THEN Append(p[2], list[p[1]]) ELSE p[2]]
           Is(f) == f = [i \in 0..n |-> IF i = 0 THEN << >>
                                        ELSE IF i \in places THEN Append(f[i - 1], list[i]) ELSE f[i - 1]]
<1>1. n \in Nat /\ << >> \in V
  OBVIOUS
<1>2. step \in [(1..n) \X V -> V]
  <2>1. ASSUME NEW p \in (1..n) \X V
        PROVE  (IF p[1] \in places THEN Append(p[2], list[p[1]]) ELSE p[2]) \in V
    <3>1. p[1] \in 1..n /\ p[2] \in Seq(T) /\ list[p[1]] \in T
      OBVIOUS
    <3> QED BY <3>1, AppendProperties
  <2> QED BY <2>1
<1>3. PICK f \in [0..n -> V] : f[0] = << >> /\ \A i \in 1..n : f[i] = step[<<i, f[i - 1]>>]
  <2> HIDE DEF n, V, step
  <2>1. Unfolding(n, V, << >>, step) # {}
    BY <1>1, <1>2, Unfolds
  <2> QED BY <2>1 DEF Unfolding
<1>4. \A i \in 1..n : step[<<i, f[i - 1]>>] = IF i \in places THEN Append(f[i - 1], list[i]) ELSE f[i - 1]
  <2> TAKE i \in 1..n
  <2>1. i - 1 \in 0..n
    BY <1>1
  <2>2. <<i, f[i - 1]>> \in (1..n) \X V
    BY <1>3, <2>1
  <2> QED BY <2>2
<1>5. Is(f)
  <2>1. \A i \in 0..n : f[i] = IF i = 0 THEN << >>
                               ELSE IF i \in places THEN Append(f[i - 1], list[i]) ELSE f[i - 1]
    <3> TAKE i \in 0..n
    <3>1. i # 0 => i \in 1..n
      BY <1>1
    <3>2. f[i] = IF i = 0 THEN << >> ELSE step[<<i, f[i - 1]>>]
      BY <1>3, <3>1
    <3> QED BY <1>4, <3>1, <3>2
  <2>2. f = [i \in 0..n |-> f[i]]
    BY <1>3
  <2> QED BY <2>1, <2>2
<1> DEFINE g == CHOOSE h : Is(h)
<1>6. Is(g)
  BY <1>5
<1>7. \A i \in 0..n : g[i] = f[i]
  <2>0. ASSUME NEW h, Is(h)
        PROVE  \A i \in 0..n : h[i] = IF i = 0 THEN << >>
                                       ELSE IF i \in places THEN Append(h[i - 1], list[i]) ELSE h[i - 1]
    BY <2>0
  <2> HIDE DEF g, Is
  <2> DEFINE S == {i \in 0..n : g[i] = f[i]}
  <2>1. 0 \in S
    <3>1. 0 \in 0..n
      BY <1>1
    <3>2. g[0] = << >> /\ f[0] = << >>
      BY <1>5, <1>6, <2>0, <3>1
    <3> QED BY <3>1, <3>2
  <2>2. \A i \in 0..n : i < n /\ i \in S => i + 1 \in S
    <3> SUFFICES ASSUME NEW i \in 0..n, i < n, g[i] = f[i] PROVE i + 1 \in 0..n /\ g[i + 1] = f[i + 1]
      OBVIOUS
    <3>1. i + 1 \in 0..n /\ i + 1 # 0 /\ (i + 1) - 1 = i
      BY <1>1
    <3>2. /\ g[i + 1] = IF i + 1 \in places THEN Append(g[i], list[i + 1]) ELSE g[i]
          /\ f[i + 1] = IF i + 1 \in places THEN Append(f[i], list[i + 1]) ELSE f[i]
      BY <1>5, <1>6, <2>0, <3>1
    <3> QED BY <3>1, <3>2
  <2> HIDE DEF S
  <2>3. \A i \in 0..n : i \in S
    BY <1>1, <2>1, <2>2, GoesOn
  <2> USE DEF S
  <2> QED BY <2>3
<1>8. Those(list, places) = g[n]
  BY DEF Those
<1>9. StepsOf(list, places, f)
  <2>1. f[0] = << >>
    BY <1>1, <1>5
  <2>2. \A i \in 1..n : i \in 0..n /\ i # 0
    BY <1>1
  <2> QED BY <1>5, <2>1, <2>2 DEF StepsOf
<1>10. Those(list, places) = f[n]
  <2>1. n \in 0..n
    BY <1>1
  <2> QED BY <1>7, <1>8, <2>1
<1> QED BY <1>3, <1>9, <1>10

(* Sequences. *)
LEMMA AppendHolds ==
    ASSUME NEW T, NEW s \in Seq(T), NEW x \in T
    PROVE  Len(Append(s, x)) = Len(s) + 1 /\ ToSet(Append(s, x)) = ToSet(s) \cup {x}
<1>1. PICK n \in Nat : n = Len(s)
  BY LenProperties
<1>2. Len(Append(s, x)) = n + 1 /\ \A i \in 1..n + 1 : Append(s, x)[i] = IF i = n + 1 THEN x ELSE s[i]
  BY <1>1, AppendProperties
<1>3. DOMAIN Append(s, x) = 1..n + 1 /\ DOMAIN s = 1..n
  BY <1>1, <1>2, AppendProperties, LenProperties
<1>4. 1..n + 1 = (1..n) \cup {n + 1} /\ n + 1 \notin 1..n
  OBVIOUS
<1>5. ToSet(Append(s, x)) = ToSet(s) \cup {x}
  BY <1>2, <1>3, <1>4 DEF ToSet
<1> QED BY <1>1, <1>2, <1>5
(* Those are what the list has there. *)
LEMMA ThoseAre ==
    ASSUME NEW T, NEW list \in Seq(T), NEW places
    PROVE  /\ Those(list, places) \in Seq(T)
           /\ Len(Those(list, places)) <= Len(list)
           /\ ToSet(Those(list, places)) = {list[i] : i \in places \cap (1..Len(list))}
<1>1. PICK f \in [0..Len(list) -> Seq(T)] : StepsOf(list, places, f) /\ Those(list, places) = f[Len(list)]
  BY ThoseSteps
<1>2. PICK n \in Nat : n = Len(list)
  BY LenProperties
<1> DEFINE S == {k \in 0..n : /\ Len(f[k]) <= k
                              /\ ToSet(f[k]) = {list[i] : i \in places \cap (1..k)}}
<1>3. 0 \in S
  BY <1>1 DEF StepsOf, ToSet
<1>4. ASSUME NEW k \in 0..n, k < n, k \in S PROVE k + 1 \in S
  <2>1. k + 1 \in 1..n /\ (k + 1) - 1 = k
    BY <1>4
  <2>2. f[k + 1] = IF k + 1 \in places THEN Append(f[k], list[k + 1]) ELSE f[k]
    BY <1>1, <1>2, <2>1 DEF StepsOf
  <2>3. /\ Len(f[k]) <= k /\ f[k] \in Seq(T) /\ list[k + 1] \in T /\ Len(f[k]) \in Nat
        /\ ToSet(f[k]) = {list[i] : i \in places \cap (1..k)}
    BY <1>1, <1>2, <1>4, <2>1, LenProperties
  <2>4. 1..k + 1 = (1..k) \cup {k + 1}
    OBVIOUS
  <2>5. CASE k + 1 \in places
    <3>1. /\ Len(f[k + 1]) = Len(f[k]) + 1
          /\ ToSet(f[k + 1]) = ToSet(f[k]) \cup {list[k + 1]}
      <4>1. PICK s \in Seq(T), x \in T : s = f[k] /\ x = list[k + 1]
        BY <2>3
      <4>2. Len(Append(s, x)) = Len(s) + 1 /\ ToSet(Append(s, x)) = ToSet(s) \cup {x}
        BY AppendHolds
      <4> QED BY <2>2, <2>5, <4>1, <4>2
    <3>2. {list[i] : i \in places \cap (1..k + 1)} = {list[i] : i \in places \cap (1..k)} \cup {list[k + 1]}
      BY <2>4, <2>5
    <3>3. PICK q \in Nat : q = Len(f[k])
      BY <2>3
    <3>4. q <= k /\ Len(f[k + 1]) = q + 1 /\ k \in Nat
      BY <2>3, <3>1, <3>3
    <3>5. Len(f[k + 1]) <= k + 1 /\ k + 1 \in 0..n
      BY <2>1, <3>4
    <3>6. ToSet(f[k + 1]) = {list[i] : i \in places \cap (1..k + 1)}
      BY <2>3, <3>1, <3>2
    <3> QED BY <3>5, <3>6
  <2>6. CASE k + 1 \notin places
    <3>1. {list[i] : i \in places \cap (1..k + 1)} = {list[i] : i \in places \cap (1..k)}
      BY <2>4, <2>6
    <3> QED BY <2>1, <2>2, <2>3, <2>6, <3>1
  <2> QED BY <2>5, <2>6
<1>5. n \in S
  <2> HIDE DEF S
  <2>1. \A k \in 0..n : k < n /\ k \in S => k + 1 \in S
    BY <1>4
  <2>2. \A k \in 0..n : k \in S
    BY <1>3, <2>1, GoesOn
  <2> QED BY <2>2
<1>6. f[n] \in Seq(T)
  BY <1>2
<1> QED BY <1>1, <1>2, <1>5, <1>6

LEMMA ItemsOf ==
    ASSUME NEW T, NEW list \in Seq(T)
    PROVE  ToSet(list) = {list[i] : i \in 1..Len(list)} /\ ToSet(list) \subseteq T
  BY LenProperties DEF ToSet

LEMMA KeptAre ==
    ASSUME NEW T, NEW list \in Seq(T), NEW S
    PROVE  /\ Kept(list, S) \in Seq(T) /\ Kept(list, S) \in Seq(T \cap S)
           /\ Len(Kept(list, S)) <= Len(list)
           /\ ToSet(Kept(list, S)) = ToSet(list) \cap S
<1> DEFINE places == {i \in DOMAIN list : list[i] \in S}
<1>1. /\ Those(list, places) \in Seq(T) /\ Len(Those(list, places)) <= Len(list)
      /\ ToSet(Those(list, places)) = {list[i] : i \in places \cap (1..Len(list))}
  <2> HIDE DEF places
  <2> QED BY ThoseAre
<1>2. {list[i] : i \in places \cap (1..Len(list))} = ToSet(list) \cap S
  BY LenProperties DEF ToSet
<1>3. ASSUME NEW kept \in Seq(T), ToSet(kept) \subseteq S PROVE kept \in Seq(T \cap S)
  <2>1. \A i \in 1..Len(kept) : kept[i] \in T \cap S
    BY <1>3, ItemsOf
  <2> QED BY <2>1, LenProperties
<1> QED BY <1>1, <1>2, <1>3 DEF Kept

(* Where one list follows another. *)
LEMMA FollowedBy ==
    ASSUME NEW T, NEW r \in Seq(T), NEW s \in Seq(T)
    PROVE  r \o s \in Seq(T) /\ ToSet(r \o s) = ToSet(r) \cup ToSet(s)
<1>1. PICK m \in Nat, n \in Nat : m = Len(r) /\ n = Len(s)
  BY LenProperties
<1>2. /\ r \o s \in Seq(T) /\ Len(r \o s) = m + n
      /\ \A i \in 1..m + n : (r \o s)[i] = IF i <= m THEN r[i] ELSE s[i - m]
  BY <1>1, ConcatProperties
<1>3. DOMAIN (r \o s) = 1..m + n /\ DOMAIN r = 1..m /\ DOMAIN s = 1..n
  BY <1>1, <1>2, LenProperties
<1>4. ASSUME NEW x \in ToSet(r \o s) PROVE x \in ToSet(r) \cup ToSet(s)
  <2>1. PICK i \in 1..m + n : x = (r \o s)[i]
    BY <1>3 DEF ToSet
  <2>2. CASE i <= m
    <3>1. i \in 1..m /\ x = r[i]
      BY <1>2, <2>1, <2>2
    <3> QED BY <1>3, <3>1 DEF ToSet
  <2>3. CASE ~(i <= m)
    <3>1. i - m \in 1..n /\ x = s[i - m]
      BY <1>2, <2>1, <2>3
    <3> QED BY <1>3, <3>1 DEF ToSet
  <2> QED BY <2>2, <2>3
<1>5. ASSUME NEW x \in ToSet(r) PROVE x \in ToSet(r \o s)
  <2>1. PICK i \in 1..m : x = r[i]
    BY <1>3 DEF ToSet
  <2>2. i \in 1..m + n /\ (r \o s)[i] = x
    BY <1>2, <2>1
  <2> QED BY <1>3, <2>2 DEF ToSet
<1>6. ASSUME NEW x \in ToSet(s) PROVE x \in ToSet(r \o s)
  <2>1. PICK i \in 1..n : x = s[i]
    BY <1>3 DEF ToSet
  <2>2. i + m \in 1..m + n /\ ~(i + m <= m) /\ (i + m) - m = i
    OBVIOUS
  <2>3. (r \o s)[i + m] = x
    BY <1>2, <2>1, <2>2
  <2> QED BY <1>3, <2>2, <2>3 DEF ToSet
<1> QED BY <1>2, <1>4, <1>5, <1>6

(* No two places of a list hold the same. *)
LEMMA AppendDistinct ==
    ASSUME NEW T, NEW s \in Seq(T), NEW x \in T, IsInjective(s), x \notin ToSet(s)
    PROVE  IsInjective(Append(s, x))
<1>1. PICK n \in Nat : n = Len(s)
  BY LenProperties
<1>2. Len(Append(s, x)) = n + 1 /\ \A i \in 1..n + 1 : Append(s, x)[i] = IF i = n + 1 THEN x ELSE s[i]
  BY <1>1, AppendProperties
<1>3. DOMAIN Append(s, x) = 1..n + 1 /\ DOMAIN s = 1..n
  BY <1>1, <1>2, AppendProperties, LenProperties
<1>4. ASSUME NEW i \in 1..n + 1, NEW j \in 1..n + 1, Append(s, x)[i] = Append(s, x)[j] PROVE i = j
  <2>1. \A k \in 1..n : s[k] # x
    BY <1>3 DEF ToSet
  <2>2. \A k \in 1..n + 1 : k # n + 1 => k \in 1..n
    OBVIOUS
  <2>3. \A k, l \in 1..n : s[k] = s[l] => k = l
    BY <1>3 DEF IsInjective
  <2> QED BY <1>2, <1>4, <2>1, <2>2, <2>3
<1> QED BY <1>3, <1>4 DEF IsInjective

LEMMA JoinedDistinct ==
    ASSUME NEW T, NEW r \in Seq(T), NEW s \in Seq(T), IsInjective(r), IsInjective(s),
           ToSet(r) \cap ToSet(s) = {}
    PROVE  IsInjective(r \o s)
<1>1. PICK m \in Nat, n \in Nat : m = Len(r) /\ n = Len(s)
  BY LenProperties
<1>2. /\ r \o s \in Seq(T) /\ Len(r \o s) = m + n
      /\ \A i \in 1..m + n : (r \o s)[i] = IF i <= m THEN r[i] ELSE s[i - m]
  BY <1>1, ConcatProperties
<1>3. DOMAIN (r \o s) = 1..m + n /\ DOMAIN r = 1..m /\ DOMAIN s = 1..n
  BY <1>1, <1>2, LenProperties
<1>4. \A i \in 1..m, j \in 1..n : r[i] # s[j]
  BY <1>3 DEF ToSet
<1>5. (\A i, j \in 1..m : r[i] = r[j] => i = j) /\ (\A i, j \in 1..n : s[i] = s[j] => i = j)
  BY <1>3 DEF IsInjective
<1>6. ASSUME NEW i \in 1..m + n, NEW j \in 1..m + n, (r \o s)[i] = (r \o s)[j] PROVE i = j
  <2>1. CASE i <= m /\ j <= m
    <3>1. i \in 1..m /\ j \in 1..m
      BY <2>1
    <3> QED BY <1>2, <1>5, <1>6, <2>1, <3>1
  <2>2. CASE ~(i <= m) /\ ~(j <= m)
    <3>1. i - m \in 1..n /\ j - m \in 1..n
      BY <2>2
    <3>2. i - m = j - m
      BY <1>2, <1>5, <1>6, <2>2, <3>1
    <3> QED BY <3>2
  <2>3. CASE i <= m /\ ~(j <= m)
    <3>1. i \in 1..m /\ j - m \in 1..n
      BY <2>3
    <3> QED BY <1>2, <1>4, <1>6, <2>3, <3>1
  <2>4. CASE ~(i <= m) /\ j <= m
    <3>1. j \in 1..m /\ i - m \in 1..n
      BY <2>4
    <3> QED BY <1>2, <1>4, <1>6, <2>4, <3>1
  <2> QED BY <2>1, <2>2, <2>3, <2>4
<1> QED BY <1>3, <1>6 DEF IsInjective

LEMMA KeptDistinct ==
    ASSUME NEW T, NEW list \in Seq(T), NEW S, IsInjective(list)
    PROVE  IsInjective(Kept(list, S))
<1> DEFINE places == {i \in DOMAIN list : list[i] \in S}
<1>1. PICK f \in [0..Len(list) -> Seq(T)] : StepsOf(list, places, f) /\ Those(list, places) = f[Len(list)]
  <2> HIDE DEF places
  <2> QED BY ThoseSteps
<1> HIDE DEF places
<1>2. PICK n \in Nat : n = Len(list)
  BY LenProperties
<1> DEFINE Fine == {k \in 0..n : IsInjective(f[k]) /\ ToSet(f[k]) \subseteq {list[i] : i \in 1..k}}
<1>3. 0 \in Fine
  BY <1>1 DEF StepsOf, ToSet, IsInjective
<1>4. ASSUME NEW k \in 0..n, k < n, k \in Fine PROVE k + 1 \in Fine
  <2>1. k + 1 \in 1..n /\ (k + 1) - 1 = k /\ k + 1 \in 0..n
    BY <1>4
  <2>2. f[k + 1] = IF k + 1 \in places THEN Append(f[k], list[k + 1]) ELSE f[k]
    BY <1>1, <1>2, <2>1 DEF StepsOf
  <2>3. PICK s \in Seq(T), x \in T : s = f[k] /\ x = list[k + 1]
    BY <1>1, <1>2, <2>1
  <2>4. IsInjective(s) /\ ToSet(s) \subseteq {list[i] : i \in 1..k}
    BY <1>4, <2>3
  <2>5. 1..k + 1 = (1..k) \cup {k + 1} /\ k + 1 \notin 1..k /\ 1..k \subseteq 1..n
    BY <2>1
  <2>6. x \notin ToSet(s)
    <3>1. \A i, j \in 1..n : list[i] = list[j] => i = j
      BY <1>2, LenProperties DEF IsInjective
    <3> QED BY <2>1, <2>3, <2>4, <2>5, <3>1
  <2>7. IsInjective(Append(s, x)) /\ ToSet(Append(s, x)) = ToSet(s) \cup {x}
    BY <2>4, <2>6, AppendDistinct, AppendHolds
  <2> QED BY <2>1, <2>2, <2>3, <2>4, <2>5, <2>7
<1>5. n \in Fine
  <2> HIDE DEF Fine
  <2>1. \A k \in 0..n : k < n /\ k \in Fine => k + 1 \in Fine
    BY <1>4
  <2>2. \A k \in 0..n : k \in Fine
    BY <1>3, <2>1, GoesOn
  <2> QED BY <2>2
<1> QED BY <1>1, <1>2, <1>5 DEF Kept, places

(* The beginning of a list. *)
LEMMA FirstOfIs ==
    ASSUME NEW T, NEW list \in Seq(T), NEW n \in Nat
    PROVE  /\ FirstOf(list, n) \in Seq(T) /\ ToSet(FirstOf(list, n)) \subseteq ToSet(list)
           /\ IsInjective(list) => IsInjective(FirstOf(list, n))
<1>1. PICK m \in Nat : m = Len(list)
  BY LenProperties
<1>2. PICK k \in Nat : k = (IF n < m THEN n ELSE m) /\ k <= m
  OBVIOUS
<1>3. FirstOf(list, n) = SubSeq(list, 1, k)
  BY <1>1, <1>2 DEF FirstOf
<1>4. /\ SubSeq(list, 1, k) \in Seq(T) /\ Len(SubSeq(list, 1, k)) = k
      /\ \A i \in 1..k : SubSeq(list, 1, k)[i] = list[i]
  BY <1>1, <1>2
<1>5. DOMAIN SubSeq(list, 1, k) = 1..k /\ DOMAIN list = 1..m /\ 1..k \subseteq 1..m
  BY <1>1, <1>2, <1>4, LenProperties
<1>6. ToSet(SubSeq(list, 1, k)) \subseteq ToSet(list)
  BY <1>4, <1>5 DEF ToSet
<1>7. IsInjective(list) => IsInjective(SubSeq(list, 1, k))
  BY <1>4, <1>5 DEF IsInjective
<1> QED BY <1>3, <1>4, <1>6, <1>7

-----------------------------------------------------------------------------
(* Slideshows: the choice. *)
LEMMA SlideSettings ==
    /\ IsFiniteSet(Photos) /\ IsFiniteSet(Persons) /\ Taken \in [Photos -> Nat]
    /\ Shows \in [Photos -> SUBSET Persons] /\ Merits \subseteq Nat /\ SlideCounts \subseteq Nat
    /\ Fps \in Nat /\ Presses \in Nat /\ Deaths \in Nat
    /\ \A p \in Paces : p.hold \in Nat /\ p.transition \in Nat
  BY SlideshowAssumption DEF SlideshowAssumption

LEMMA InsertIs ==
    ASSUME NEW s \in Seq(Photos), NEW f \in Photos, NEW rank
    PROVE  /\ Insert(s, f, rank) \in Seq(Photos) /\ ToSet(Insert(s, f, rank)) = ToSet(s) \cup {f}
           /\ IsInjective(s) /\ f \notin ToSet(s) => IsInjective(Insert(s, f, rank))
<1> DEFINE L == {g \in Photos : rank[g] <= rank[f]}
           R == {g \in Photos : ~(rank[g] <= rank[f])}
<1>1. L \cup R = Photos /\ L \cap R = {}
  OBVIOUS
<1>2. PICK before : before = Kept(s, L)
  OBVIOUS
<1>3. PICK after : after = Kept(s, R)
  OBVIOUS
<1>4. Insert(s, f, rank) = before \o << f >> \o after
  BY <1>2, <1>3 DEF Insert
<1> HIDE DEF L, R
<1>5. /\ before \in Seq(Photos) /\ ToSet(before) = ToSet(s) \cap L
      /\ after \in Seq(Photos) /\ ToSet(after) = ToSet(s) \cap R
  BY <1>2, <1>3, KeptAre
<1>6. PICK one \in Seq(Photos) : one = << f >>
  <2>1. << f >> \in Seq(Photos)
    OBVIOUS
  <2> QED BY <2>1
<1>7. ToSet(one) = {f} /\ IsInjective(one)
  BY <1>6 DEF ToSet, IsInjective
<1>8. before \o one \in Seq(Photos) /\ ToSet(before \o one) = ToSet(before) \cup ToSet(one)
  BY <1>5, FollowedBy
<1>9. PICK front \in Seq(Photos) : front = before \o one
  BY <1>8
<1>10. front \o after \in Seq(Photos) /\ ToSet(front \o after) = ToSet(front) \cup ToSet(after)
  BY <1>5, FollowedBy
<1>11. Insert(s, f, rank) = front \o after
  BY <1>4, <1>6, <1>9
<1>12. ToSet(front \o after) = ToSet(s) \cup {f}
  <2>1. ToSet(s) \subseteq Photos
    BY ItemsOf
  <2> QED BY <1>1, <1>5, <1>7, <1>8, <1>9, <1>10, <2>1
<1>13. ASSUME IsInjective(s), f \notin ToSet(s) PROVE IsInjective(front \o after)
  <2>1. IsInjective(before) /\ IsInjective(after)
    BY <1>2, <1>3, <1>13, KeptDistinct
  <2>2. ToSet(before) \cap ToSet(one) = {}
    BY <1>5, <1>7, <1>13
  <2>3. IsInjective(front)
    BY <1>5, <1>7, <1>9, <2>1, <2>2, JoinedDistinct
  <2>4. ToSet(front) \cap ToSet(after) = {}
    BY <1>1, <1>5, <1>7, <1>8, <1>9, <1>13
  <2> QED BY <1>5, <2>1, <2>3, <2>4, JoinedDistinct
<1> QED BY <1>10, <1>11, <1>12, <1>13

Sorts(list, rank, g) ==
    /\ g[0] = << >>
    /\ \A i \in 1..Len(list) : g[i] = Insert(g[i - 1], list[i], rank)
LEMMA SortedSteps ==
    ASSUME NEW list \in Seq(Photos), NEW rank
    PROVE  \E g \in [0..Len(list) -> Seq(Photos)] : Sorts(list, rank, g) /\ Sorted(list, rank) = g[Len(list)]
<1> DEFINE V == Seq(Photos)
           next(i, s) == Insert(s, list[i], rank)
           Is(h) == h = [i \in 0..Len(list) |-> IF i = 0 THEN << >> ELSE next(i, h[i - 1])]
<1>1. PICK n \in Nat : n = Len(list)
  BY LenProperties
<1>2. \A i \in 1..n, s \in V : next(i, s) \in V
  <2> SUFFICES ASSUME NEW i \in 1..n, NEW s \in V PROVE next(i, s) \in V
    OBVIOUS
  <2>1. list[i] \in Photos
    BY <1>1
  <2> QED BY <2>1, InsertIs
<1> DEFINE step == [p \in (1..n) \X V |-> next(p[1], p[2])]
<1> HIDE DEF next, V
<1>3. step \in [(1..n) \X V -> V]
  BY <1>2
<1>4. PICK f \in [0..n -> V] : f[0] = << >> /\ \A i \in 1..n : f[i] = step[<<i, f[i - 1]>>]
  <2>1. << >> \in V
    BY DEF V
  <2> HIDE DEF step
  <2>2. Unfolding(n, V, << >>, step) # {}
    BY <1>3, <2>1, Unfolds
  <2> QED BY <2>2 DEF Unfolding
<1>5. \A i \in 1..n : f[i] = next(i, f[i - 1])
  <2> TAKE i \in 1..n
  <2>1. i - 1 \in 0..n
    OBVIOUS
  <2>2. <<i, f[i - 1]>> \in (1..n) \X V
    BY <1>4, <2>1
  <2>3. step[<<i, f[i - 1]>>] = next(i, f[i - 1])
    BY <2>2
  <2> QED BY <1>4, <2>3
<1> HIDE DEF step
<1>6. Is(f)
  <2>1. \A i \in 0..n : f[i] = IF i = 0 THEN << >> ELSE next(i, f[i - 1])
    <3> TAKE i \in 0..n
    <3>1. i # 0 => i \in 1..n
      OBVIOUS
    <3> QED BY <1>4, <1>5, <3>1
  <2>2. f = [i \in 0..n |-> f[i]]
    BY <1>4
  <2> QED BY <1>1, <2>1, <2>2
<1> DEFINE g == CHOOSE h : Is(h)
<1>7. Is(g)
  BY <1>6
<1>8. Sorted(list, rank) = g[n]
  BY <1>1 DEF Sorted, next
<1>9. ASSUME NEW h, Is(h)
      PROVE  /\ h = [i \in 0..n |-> h[i]]
             /\ \A i \in 0..n : h[i] = IF i = 0 THEN << >> ELSE next(i, h[i - 1])
  BY <1>1, <1>9
<1> HIDE DEF g, Is
<1>10. g[0] = << >> /\ \A i \in 1..n : g[i] = next(i, g[i - 1])
  <2>1. 0 \in 0..n /\ \A i \in 1..n : i \in 0..n /\ i # 0
    OBVIOUS
  <2> QED BY <1>7, <1>9, <2>1
<1> DEFINE S == {i \in 0..n : g[i] \in V}
<1>11. 0 \in S
  <2>1. 0 \in 0..n /\ << >> \in Seq(Photos)
    OBVIOUS
  <2> QED BY <1>10, <2>1 DEF V
<1>12. \A i \in 0..n : i < n /\ i \in S => i + 1 \in S
  <2> SUFFICES ASSUME NEW i \in 0..n, i < n, g[i] \in V PROVE i + 1 \in 0..n /\ g[i + 1] \in V
    OBVIOUS
  <2>1. i + 1 \in 0..n /\ i + 1 \in 1..n /\ (i + 1) - 1 = i
    OBVIOUS
  <2> QED BY <1>2, <1>10, <2>1
<1> HIDE DEF S
<1>13. \A i \in 0..n : i \in S
  <2>1. 0 \in Nat
    OBVIOUS
  <2> QED BY <1>11, <1>12, <2>1, GoesOn
<1>14. g \in [0..n -> V]
  BY <1>7, <1>9, <1>13 DEF S
<1> QED BY <1>1, <1>8, <1>10, <1>14 DEF Sorts, V, next

LEMMA SortedIs ==
    ASSUME NEW list \in Seq(Photos), NEW rank
    PROVE  /\ Sorted(list, rank) \in Seq(Photos) /\ ToSet(Sorted(list, rank)) = ToSet(list)
           /\ IsInjective(list) => IsInjective(Sorted(list, rank))
<1>1. PICK g \in [0..Len(list) -> Seq(Photos)] : Sorts(list, rank, g) /\ Sorted(list, rank) = g[Len(list)]
  BY SortedSteps
<1>2. PICK n \in Nat : n = Len(list)
  BY LenProperties
<1> DEFINE S == {k \in 0..n : /\ ToSet(g[k]) = {list[i] : i \in 1..k}
                              /\ IsInjective(list) => IsInjective(g[k])}
<1>3. 0 \in S
  BY <1>1 DEF Sorts, ToSet, IsInjective
<1>4. ASSUME NEW k \in 0..n, k < n, k \in S PROVE k + 1 \in S
  <2>1. k + 1 \in 1..n /\ (k + 1) - 1 = k /\ k + 1 \in 0..n
    BY <1>4
  <2>2. g[k + 1] = Insert(g[k], list[k + 1], rank)
    BY <1>1, <1>2, <2>1 DEF Sorts
  <2>3. PICK s \in Seq(Photos), f \in Photos : s = g[k] /\ f = list[k + 1]
    BY <1>1, <1>2, <2>1
  <2>4. ToSet(s) = {list[i] : i \in 1..k} /\ (IsInjective(list) => IsInjective(s))
    BY <1>4, <2>3
  <2>5. 1..k + 1 = (1..k) \cup {k + 1} /\ k + 1 \notin 1..k /\ 1..k \subseteq 1..n
    BY <2>1
  <2>6. IsInjective(list) => f \notin ToSet(s)
    <3>1. IsInjective(list) => \A i, j \in 1..n : list[i] = list[j] => i = j
      BY <1>2, LenProperties DEF IsInjective
    <3> QED BY <2>1, <2>3, <2>4, <2>5, <3>1
  <2>7. /\ ToSet(Insert(s, f, rank)) = ToSet(s) \cup {f}
        /\ IsInjective(s) /\ f \notin ToSet(s) => IsInjective(Insert(s, f, rank))
    BY InsertIs
  <2>8. ToSet(g[k + 1]) = {list[i] : i \in 1..k + 1}
    BY <2>2, <2>3, <2>4, <2>5, <2>7
  <2> QED BY <2>1, <2>2, <2>3, <2>4, <2>6, <2>7, <2>8
<1>5. n \in S
  <2> HIDE DEF S
  <2>1. \A k \in 0..n : k < n /\ k \in S => k + 1 \in S
    BY <1>4
  <2>2. \A k \in 0..n : k \in S
    BY <1>3, <2>1, GoesOn
  <2> QED BY <2>2
<1>6. ToSet(list) = {list[i] : i \in 1..n}
  BY <1>2, ItemsOf
<1>7. Sorted(list, rank) \in Seq(Photos)
  <2>1. n \in 0..n
    OBVIOUS
  <2> QED BY <1>1, <1>2, <2>1
<1> QED BY <1>1, <1>2, <1>5, <1>6, <1>7

(* What is put in place of another, or behind all. *)
LEMMA WeighIs ==
    ASSUME NEW kept \in Seq(Photos), NEW f \in Photos, NEW twins, NEW merit
    PROVE  /\ Weigh(kept, f, twins, merit) \in Seq(Photos)
           /\ ToSet(Weigh(kept, f, twins, merit)) \subseteq ToSet(kept) \cup {f}
           /\ IsInjective(kept) /\ f \notin ToSet(kept) => IsInjective(Weigh(kept, f, twins, merit))
<1> DEFINE slots == Slots(kept, f, twins)
           m == Min(slots)
<1>1. PICK n \in Nat : n = Len(kept) /\ DOMAIN kept = 1..n
  BY LenProperties
<1>2. slots \subseteq 1..n
  BY <1>1 DEF Slots
<1>3. CASE slots = {}
  <2>1. Weigh(kept, f, twins, merit) = Append(kept, f)
    BY <1>3 DEF Weigh
  <2>2. Append(kept, f) \in Seq(Photos) /\ ToSet(Append(kept, f)) = ToSet(kept) \cup {f}
    BY AppendHolds, AppendProperties
  <2>3. IsInjective(kept) /\ f \notin ToSet(kept) => IsInjective(Append(kept, f))
    BY AppendDistinct
  <2> QED BY <2>1, <2>2, <2>3
<1>4. CASE slots # {}
  <2>1. m \in 1..n
    <3>1. \E u \in slots : \A w \in slots : u <= w
      <4>1. slots \in SUBSET Nat
        BY <1>2
      <4> HIDE DEF slots
      <4> QED BY <1>4, <4>1, Smallest
    <3>2. m \in slots
      BY <3>1 DEF Min
    <3> QED BY <1>2, <3>2
  <2> DEFINE new == [kept EXCEPT ![m] = f]
  <2>2. Weigh(kept, f, twins, merit) \in {new, kept}
    BY <1>4 DEF Weigh
  <2> HIDE DEF m
  <2>3. new \in Seq(Photos) /\ DOMAIN new = 1..n /\ \A i \in 1..n : new[i] = IF i = m THEN f ELSE kept[i]
    BY <1>1, <2>1
  <2> HIDE DEF new
  <2>4. ToSet(new) \subseteq ToSet(kept) \cup {f}
    BY <1>1, <2>3 DEF ToSet
  <2>5. IsInjective(kept) /\ f \notin ToSet(kept) => IsInjective(new)
    BY <1>1, <2>1, <2>3 DEF ToSet, IsInjective
  <2> QED BY <2>2, <2>3, <2>4, <2>5
<1> QED BY <1>3, <1>4

Collapses(frames, twins, merit, g) ==
    /\ g[0] = << >>
    /\ \A i \in 1..Len(frames) : g[i] = Weigh(g[i - 1], frames[i], twins, merit)
LEMMA CollapseSteps ==
    ASSUME NEW frames \in Seq(Photos), NEW twins, NEW merit
    PROVE  \E g \in [0..Len(frames) -> Seq(Photos)] : Collapses(frames, twins, merit, g) /\ Collapse(frames, twins, merit) = g[Len(frames)]
<1> DEFINE V == Seq(Photos)
           next(i, s) == Weigh(s, frames[i], twins, merit)
           Is(h) == h = [i \in 0..Len(frames) |-> IF i = 0 THEN << >> ELSE next(i, h[i - 1])]
<1>1. PICK n \in Nat : n = Len(frames)
  BY LenProperties
<1>2. \A i \in 1..n, s \in V : next(i, s) \in V
  <2> SUFFICES ASSUME NEW i \in 1..n, NEW s \in V PROVE next(i, s) \in V
    OBVIOUS
  <2>1. frames[i] \in Photos
    BY <1>1
  <2> QED BY <2>1, WeighIs
<1> DEFINE step == [p \in (1..n) \X V |-> next(p[1], p[2])]
<1> HIDE DEF next, V
<1>3. step \in [(1..n) \X V -> V]
  BY <1>2
<1>4. PICK f \in [0..n -> V] : f[0] = << >> /\ \A i \in 1..n : f[i] = step[<<i, f[i - 1]>>]
  <2>1. << >> \in V
    BY DEF V
  <2> HIDE DEF step
  <2>2. Unfolding(n, V, << >>, step) # {}
    BY <1>3, <2>1, Unfolds
  <2> QED BY <2>2 DEF Unfolding
<1>5. \A i \in 1..n : f[i] = next(i, f[i - 1])
  <2> TAKE i \in 1..n
  <2>1. i - 1 \in 0..n
    OBVIOUS
  <2>2. <<i, f[i - 1]>> \in (1..n) \X V
    BY <1>4, <2>1
  <2>3. step[<<i, f[i - 1]>>] = next(i, f[i - 1])
    BY <2>2
  <2> QED BY <1>4, <2>3
<1> HIDE DEF step
<1>6. Is(f)
  <2>1. \A i \in 0..n : f[i] = IF i = 0 THEN << >> ELSE next(i, f[i - 1])
    <3> TAKE i \in 0..n
    <3>1. i # 0 => i \in 1..n
      OBVIOUS
    <3> QED BY <1>4, <1>5, <3>1
  <2>2. f = [i \in 0..n |-> f[i]]
    BY <1>4
  <2> QED BY <1>1, <2>1, <2>2
<1> DEFINE g == CHOOSE h : Is(h)
<1>7. Is(g)
  BY <1>6
<1>8. Collapse(frames, twins, merit) = g[n]
  BY <1>1 DEF Collapse, next
<1>9. ASSUME NEW h, Is(h)
      PROVE  /\ h = [i \in 0..n |-> h[i]]
             /\ \A i \in 0..n : h[i] = IF i = 0 THEN << >> ELSE next(i, h[i - 1])
  BY <1>1, <1>9
<1> HIDE DEF g, Is
<1>10. g[0] = << >> /\ \A i \in 1..n : g[i] = next(i, g[i - 1])
  <2>1. 0 \in 0..n /\ \A i \in 1..n : i \in 0..n /\ i # 0
    OBVIOUS
  <2> QED BY <1>7, <1>9, <2>1
<1> DEFINE S == {i \in 0..n : g[i] \in V}
<1>11. 0 \in S
  <2>1. 0 \in 0..n /\ << >> \in Seq(Photos)
    OBVIOUS
  <2> QED BY <1>10, <2>1 DEF V
<1>12. \A i \in 0..n : i < n /\ i \in S => i + 1 \in S
  <2> SUFFICES ASSUME NEW i \in 0..n, i < n, g[i] \in V PROVE i + 1 \in 0..n /\ g[i + 1] \in V
    OBVIOUS
  <2>1. i + 1 \in 0..n /\ i + 1 \in 1..n /\ (i + 1) - 1 = i
    OBVIOUS
  <2> QED BY <1>2, <1>10, <2>1
<1> HIDE DEF S
<1>13. \A i \in 0..n : i \in S
  <2>1. 0 \in Nat
    OBVIOUS
  <2> QED BY <1>11, <1>12, <2>1, GoesOn
<1>14. g \in [0..n -> V]
  BY <1>7, <1>9, <1>13 DEF S
<1> QED BY <1>1, <1>8, <1>10, <1>14 DEF Collapses, V, next

LEMMA CollapseIs ==
    ASSUME NEW frames \in Seq(Photos), IsInjective(frames), NEW twins, NEW merit
    PROVE  Collapse(frames, twins, merit) \in Seq(Photos) /\ IsInjective(Collapse(frames, twins, merit))
<1>1. PICK g \in [0..Len(frames) -> Seq(Photos)] :
        Collapses(frames, twins, merit, g) /\ Collapse(frames, twins, merit) = g[Len(frames)]
  BY CollapseSteps
<1>2. PICK n \in Nat : n = Len(frames)
  BY LenProperties
<1> DEFINE S == {k \in 0..n : ToSet(g[k]) \subseteq {frames[i] : i \in 1..k} /\ IsInjective(g[k])}
<1>3. 0 \in S
  BY <1>1 DEF Collapses, ToSet, IsInjective
<1>4. ASSUME NEW k \in 0..n, k < n, k \in S PROVE k + 1 \in S
  <2>1. k + 1 \in 1..n /\ (k + 1) - 1 = k /\ k + 1 \in 0..n
    BY <1>4
  <2>2. g[k + 1] = Weigh(g[k], frames[k + 1], twins, merit)
    BY <1>1, <1>2, <2>1 DEF Collapses
  <2>3. PICK s \in Seq(Photos), f \in Photos : s = g[k] /\ f = frames[k + 1]
    BY <1>1, <1>2, <2>1
  <2>4. ToSet(s) \subseteq {frames[i] : i \in 1..k} /\ IsInjective(s)
    BY <1>4, <2>3
  <2>5. 1..k + 1 = (1..k) \cup {k + 1} /\ k + 1 \notin 1..k /\ 1..k \subseteq 1..n
    BY <2>1
  <2>6. f \notin ToSet(s)
    <3>1. \A i, j \in 1..n : frames[i] = frames[j] => i = j
      BY <1>2, LenProperties DEF IsInjective
    <3> QED BY <2>1, <2>3, <2>4, <2>5, <3>1
  <2>7. /\ ToSet(Weigh(s, f, twins, merit)) \subseteq ToSet(s) \cup {f}
        /\ IsInjective(Weigh(s, f, twins, merit))
    BY <2>4, <2>6, WeighIs
  <2>8. ToSet(g[k + 1]) \subseteq {frames[i] : i \in 1..k + 1}
    BY <2>2, <2>3, <2>4, <2>5, <2>7
  <2> QED BY <2>1, <2>2, <2>3, <2>7, <2>8
<1>5. n \in S
  <2> HIDE DEF S
  <2>1. \A k \in 0..n : k < n /\ k \in S => k + 1 \in S
    BY <1>4
  <2>2. \A k \in 0..n : k \in S
    BY <1>3, <2>1, GoesOn
  <2> QED BY <2>2
<1>6. Collapse(frames, twins, merit) \in Seq(Photos)
  <2>1. n \in 0..n
    OBVIOUS
  <2> QED BY <1>1, <1>2, <2>1
<1> QED BY <1>1, <1>2, <1>5, <1>6

(* Who is to appear. *)
Picks(ranked) == {s \in Seq(Photos) : IsInjective(s) /\ ToSet(s) \subseteq ToSet(ranked)}
Appears(person, s) == \E f \in ToSet(s) : person \in Shows[f]
LEMMA AddBestIs ==
    ASSUME NEW ranked \in Seq(Photos), NEW person \in Persons, NEW s \in Picks(ranked)
    PROVE  /\ AddBest(s, With(ranked, person, s)) \in Picks(ranked)
           /\ ToSet(s) \subseteq ToSet(AddBest(s, With(ranked, person, s)))
           /\ Appears(person, ranked) => Appears(person, AddBest(s, With(ranked, person, s)))
<1> DEFINE pool == {f \in Photos : person \in Shows[f]} \ ToSet(s)
<1>1. PICK best : best = With(ranked, person, s)
  OBVIOUS
<1>2. best = Kept(ranked, pool)
  BY <1>1 DEF With
<1>3. best \in Seq(Photos) /\ ToSet(best) = ToSet(ranked) \cap pool
  <2> HIDE DEF pool
  <2> QED BY <1>2, KeptAre
<1>4. s \in Seq(Photos) /\ IsInjective(s) /\ ToSet(s) \subseteq ToSet(ranked) /\ ToSet(ranked) \subseteq Photos
  BY ItemsOf DEF Picks
<1>5. CASE best = << >>
  <2>1. ToSet(best) = {}
    BY <1>5 DEF ToSet
  <2>2. Appears(person, ranked) => Appears(person, s)
    BY <1>3, <1>4, <2>1 DEF Appears
  <2>3. AddBest(s, best) = s
    BY <1>5 DEF AddBest
  <2> QED BY <1>1, <2>2, <2>3
<1>6. CASE best # << >>
  <2>1. Len(best) \in Nat /\ Len(best) # 0 /\ DOMAIN best = 1..Len(best)
    BY <1>3, <1>6, LenProperties, EmptySeq
  <2>2. 1 \in DOMAIN best
    BY <2>1
  <2>3. PICK f \in ToSet(best) : f = best[1]
    BY <2>2 DEF ToSet
  <2>4. f \in ToSet(ranked) /\ f \in Photos /\ person \in Shows[f] /\ f \notin ToSet(s)
    BY <1>3, <2>3
  <2>5. AddBest(s, best) = Append(s, f)
    BY <1>6, <2>3 DEF AddBest
  <2>6. Append(s, f) \in Seq(Photos) /\ ToSet(Append(s, f)) = ToSet(s) \cup {f}
    BY <1>4, <2>4, AppendHolds, AppendProperties
  <2>7. IsInjective(Append(s, f))
    BY <1>4, <2>4, AppendDistinct
  <2>8. Append(s, f) \in Picks(ranked) /\ Appears(person, Append(s, f))
    BY <1>4, <2>4, <2>6, <2>7 DEF Picks, Appears
  <2> QED BY <1>1, <2>5, <2>6, <2>8
<1> QED BY <1>5, <1>6

Gathers(ranked, required, g) ==
    /\ g[0] = << >>
    /\ \A i \in 1..Len(required) : g[i] = AddBest(g[i - 1], With(ranked, required[i], g[i - 1]))
LEMMA PeopleSteps ==
    ASSUME NEW ranked \in Seq(Photos), NEW required \in Seq(Persons)
    PROVE  \E g \in [0..Len(required) -> Picks(ranked)] : Gathers(ranked, required, g) /\ PeopleFirst(ranked, required) = g[Len(required)]
<1> DEFINE V == Picks(ranked)
           next(i, s) == AddBest(s, With(ranked, required[i], s))
           Is(h) == h = [i \in 0..Len(required) |-> IF i = 0 THEN << >> ELSE next(i, h[i - 1])]
<1>1. PICK n \in Nat : n = Len(required)
  BY LenProperties
<1>2. \A i \in 1..n, s \in V : next(i, s) \in V
  <2> SUFFICES ASSUME NEW i \in 1..n, NEW s \in V PROVE next(i, s) \in V
    OBVIOUS
  <2>1. required[i] \in Persons
    BY <1>1
  <2> QED BY <2>1, AddBestIs
<1> DEFINE step == [p \in (1..n) \X V |-> next(p[1], p[2])]
<1> HIDE DEF next, V
<1>3. step \in [(1..n) \X V -> V]
  BY <1>2
<1>4. PICK f \in [0..n -> V] : f[0] = << >> /\ \A i \in 1..n : f[i] = step[<<i, f[i - 1]>>]
  <2>1. << >> \in V
    BY DEF V, Picks, ToSet, IsInjective
  <2> HIDE DEF step
  <2>2. Unfolding(n, V, << >>, step) # {}
    BY <1>3, <2>1, Unfolds
  <2> QED BY <2>2 DEF Unfolding
<1>5. \A i \in 1..n : f[i] = next(i, f[i - 1])
  <2> TAKE i \in 1..n
  <2>1. i - 1 \in 0..n
    OBVIOUS
  <2>2. <<i, f[i - 1]>> \in (1..n) \X V
    BY <1>4, <2>1
  <2>3. step[<<i, f[i - 1]>>] = next(i, f[i - 1])
    BY <2>2
  <2> QED BY <1>4, <2>3
<1> HIDE DEF step
<1>6. Is(f)
  <2>1. \A i \in 0..n : f[i] = IF i = 0 THEN << >> ELSE next(i, f[i - 1])
    <3> TAKE i \in 0..n
    <3>1. i # 0 => i \in 1..n
      OBVIOUS
    <3> QED BY <1>4, <1>5, <3>1
  <2>2. f = [i \in 0..n |-> f[i]]
    BY <1>4
  <2> QED BY <1>1, <2>1, <2>2
<1> DEFINE g == CHOOSE h : Is(h)
<1>7. Is(g)
  BY <1>6
<1>8. PeopleFirst(ranked, required) = g[n]
  BY <1>1 DEF PeopleFirst, next
<1>9. ASSUME NEW h, Is(h)
      PROVE  /\ h = [i \in 0..n |-> h[i]]
             /\ \A i \in 0..n : h[i] = IF i = 0 THEN << >> ELSE next(i, h[i - 1])
  BY <1>1, <1>9
<1> HIDE DEF g, Is
<1>10. g[0] = << >> /\ \A i \in 1..n : g[i] = next(i, g[i - 1])
  <2>1. 0 \in 0..n /\ \A i \in 1..n : i \in 0..n /\ i # 0
    OBVIOUS
  <2> QED BY <1>7, <1>9, <2>1
<1> DEFINE S == {i \in 0..n : g[i] \in V}
<1>11. 0 \in S
  <2>1. 0 \in 0..n /\ << >> \in Picks(ranked)
    BY DEF Picks, ToSet, IsInjective
  <2> QED BY <1>10, <2>1 DEF V
<1>12. \A i \in 0..n : i < n /\ i \in S => i + 1 \in S
  <2> SUFFICES ASSUME NEW i \in 0..n, i < n, g[i] \in V PROVE i + 1 \in 0..n /\ g[i + 1] \in V
    OBVIOUS
  <2>1. i + 1 \in 0..n /\ i + 1 \in 1..n /\ (i + 1) - 1 = i
    OBVIOUS
  <2> QED BY <1>2, <1>10, <2>1
<1> HIDE DEF S
<1>13. \A i \in 0..n : i \in S
  <2>1. 0 \in Nat
    OBVIOUS
  <2> QED BY <1>11, <1>12, <2>1, GoesOn
<1>14. g \in [0..n -> V]
  BY <1>7, <1>9, <1>13 DEF S
<1> QED BY <1>1, <1>8, <1>10, <1>14 DEF Gathers, V, next

LEMMA PeopleFirstIs ==
    ASSUME NEW ranked \in Seq(Photos), NEW required \in Seq(Persons)
    PROVE  /\ PeopleFirst(ranked, required) \in Picks(ranked)
           /\ \A p \in ToSet(required) : Appears(p, ranked) => Appears(p, PeopleFirst(ranked, required))
<1>1. PICK g \in [0..Len(required) -> Picks(ranked)] :
        Gathers(ranked, required, g) /\ PeopleFirst(ranked, required) = g[Len(required)]
  BY PeopleSteps
<1>2. PICK n \in Nat : n = Len(required)
  BY LenProperties
<1> DEFINE S == {k \in 0..n : \A i \in 1..k : Appears(required[i], ranked) => Appears(required[i], g[k])}
<1>3. 0 \in S
  OBVIOUS
<1>4. ASSUME NEW k \in 0..n, k < n, k \in S PROVE k + 1 \in S
  <2>1. k + 1 \in 1..n /\ (k + 1) - 1 = k /\ k + 1 \in 0..n
    BY <1>4
  <2>2. g[k + 1] = AddBest(g[k], With(ranked, required[k + 1], g[k]))
    BY <1>1, <1>2, <2>1 DEF Gathers
  <2>3. PICK s \in Picks(ranked), p \in Persons : s = g[k] /\ p = required[k + 1]
    BY <1>1, <1>2, <2>1
  <2>4. /\ ToSet(s) \subseteq ToSet(AddBest(s, With(ranked, p, s)))
        /\ Appears(p, ranked) => Appears(p, AddBest(s, With(ranked, p, s)))
    BY AddBestIs
  <2>5. ToSet(s) \subseteq ToSet(g[k + 1]) /\ (Appears(p, ranked) => Appears(p, g[k + 1]))
    BY <2>2, <2>3, <2>4
  <2>6. ASSUME NEW i \in 1..k + 1, Appears(required[i], ranked) PROVE Appears(required[i], g[k + 1])
    <3>1. CASE i = k + 1
      BY <2>3, <2>5, <2>6, <3>1
    <3>2. CASE i # k + 1
      <4>1. i \in 1..k
        BY <3>2
      <4>2. Appears(required[i], s)
        BY <1>4, <2>3, <2>6, <4>1
      <4> QED BY <2>5, <4>2 DEF Appears
    <3> QED BY <3>1, <3>2
  <2> QED BY <2>1, <2>6
<1>5. n \in S
  <2> HIDE DEF S
  <2>1. \A k \in 0..n : k < n /\ k \in S => k + 1 \in S
    BY <1>4
  <2>2. \A k \in 0..n : k \in S
    BY <1>3, <2>1, GoesOn
  <2> QED BY <2>2
<1>6. PeopleFirst(ranked, required) \in Picks(ranked)
  <2>1. n \in 0..n
    OBVIOUS
  <2> QED BY <1>1, <1>2, <2>1
<1>7. ToSet(required) = {required[i] : i \in 1..n}
  BY <1>2, ItemsOf
<1> QED BY <1>1, <1>2, <1>5, <1>6, <1>7

(* Everyone who must appear and does in what is ranked is chosen, and no    *)
(* photograph twice.                                                        *)
LEMMA ChooseIs ==
    ASSUME NEW ranked \in Seq(Photos), IsInjective(ranked), NEW required \in Seq(Persons), NEW target \in Nat
    PROVE  /\ Choose(ranked, required, target) \in Seq(Photos)
           /\ IsInjective(Choose(ranked, required, target))
           /\ \A p \in ToSet(required) : Appears(p, ranked) => Appears(p, Choose(ranked, required, target))
<1>1. PICK people \in Seq(Photos) :
        /\ people = PeopleFirst(ranked, required) /\ IsInjective(people)
        /\ \A p \in ToSet(required) : Appears(p, ranked) => Appears(p, people)
  BY PeopleFirstIs DEF Picks
<1>2. PICK room \in Nat : room = IF target > Len(people) THEN target - Len(people) ELSE 0
  <2>1. PICK m \in Nat : m = Len(people)
    BY LenProperties
  <2>2. (IF target > m THEN target - m ELSE 0) \in Nat
    OBVIOUS
  <2> QED BY <2>1, <2>2
<1>3. PICK rest \in Seq(Photos) : /\ rest = Kept(ranked, Photos \ ToSet(people)) /\ IsInjective(rest)
                                  /\ ToSet(rest) \cap ToSet(people) = {}
  <2> DEFINE others == Photos \ ToSet(people)
  <2>1. Kept(ranked, others) \in Seq(Photos) /\ ToSet(Kept(ranked, others)) = ToSet(ranked) \cap others
    <3> HIDE DEF others
    <3> QED BY KeptAre
  <2>2. IsInjective(Kept(ranked, others))
    <3> HIDE DEF others
    <3> QED BY KeptDistinct
  <2> QED BY <2>1, <2>2
<1>4. PICK fill \in Seq(Photos) : fill = FirstOf(rest, room) /\ IsInjective(fill) /\ ToSet(fill) \subseteq ToSet(rest)
  BY <1>3, FirstOfIs
<1>5. people \o fill \in Seq(Photos) /\ ToSet(people \o fill) = ToSet(people) \cup ToSet(fill)
  BY FollowedBy
<1>6. IsInjective(people \o fill)
  <2>1. ToSet(people) \cap ToSet(fill) = {}
    BY <1>3, <1>4
  <2> QED BY <1>1, <1>4, <2>1, JoinedDistinct
<1>7. PICK all \in Seq(Photos) : all = people \o fill
  BY <1>5
<1>8. Choose(ranked, required, target) = Sorted(all, Taken)
  BY <1>1, <1>2, <1>3, <1>4, <1>7 DEF Choose
<1>9. /\ Sorted(all, Taken) \in Seq(Photos) /\ ToSet(Sorted(all, Taken)) = ToSet(all)
      /\ IsInjective(Sorted(all, Taken))
  BY <1>6, <1>7, SortedIs
<1>10. ToSet(people) \subseteq ToSet(Sorted(all, Taken))
  BY <1>5, <1>7, <1>9
<1> QED BY <1>1, <1>8, <1>9, <1>10 DEF Appears

LEMMA AllPhotosIs == SetToSeq(Photos) \in Seq(Photos) /\ IsInjective(SetToSeq(Photos))
<1>1. PICK n \in Nat : n = Cardinality(Photos) /\ ExistsBijection(1..n, Photos)
  BY SlideSettings, FS_CardinalityType
<1>2. \E f \in [1..n -> Photos] : IsInjective(f)
  BY <1>1 DEF ExistsBijection, Bijection, Injection, IsInjective
<1>3. SetToSeq(Photos) \in [1..n -> Photos] /\ IsInjective(SetToSeq(Photos))
  BY <1>1, <1>2 DEF SetToSeq
<1> QED BY <1>3

LEMMA RequiredIs ==
    ASSUME NEW required \in SetToAllKPermutations(Persons)
    PROVE  required \in Seq(Persons)
<1>1. PICK some \in SUBSET Persons : required \in SetToSeqs(some)
  BY DEF SetToAllKPermutations
<1>2. PICK n \in Nat : n = Cardinality(some)
  <2>1. IsFiniteSet(some)
    BY SlideSettings, FS_Subset
  <2> QED BY <2>1, FS_CardinalityType
<1>3. required \in [1..n -> some]
  BY <1>1, <1>2 DEF SetToSeqs
<1>4. required \in [1..n -> Persons]
  BY <1>3
<1> QED BY <1>4

-----------------------------------------------------------------------------
(* Slideshows: the renders. *)
RowStates == {"absent", "pending", "rendering", "ready", "failed", "deleted"}
AtWork == {"render", "encode", "stitch", "move", "done"}
Jobs == [pc : {"idle", "plan", "failing"} \cup AtWork, at : Nat]
ShowRows == [status : RowStates, slides : Seq(Photos), pace : Paces \cup {NoShow.pace}, path : BOOLEAN]
WorkDirs == [there : BOOLEAN, whole : SUBSET Nat, open : SUBSET Nat, staged : {"none", "partial", "whole"}]

SlidesTyped ==
    /\ proposal.chosen \in Seq(Photos) /\ IsInjective(proposal.chosen) /\ NobodyLeftOut
    /\ show \in ShowRows /\ press \in {"none", "checked", "committed"} /\ queued \in Nat
    /\ job \in [Renderers -> Jobs] /\ dir \in WorkDirs /\ tidy \in BOOLEAN /\ doubled \in BOOLEAN
    /\ film.state \in {"none", "partial", "whole"} /\ pressesLeft \in Nat /\ deathsLeft \in Nat

(* Every message comes of a press, of the creation or of a death. *)
MessagesCome ==
    queued + pressesLeft + deathsLeft + (IF press = "none" THEN 0 ELSE 1)
        <= Presses + Deaths + (IF show.status = "absent" THEN 0 ELSE 1)

(* Nothing is done for a row that is not there yet. *)
NothingYet ==
    show.status = "absent" =>
        press = "none" /\ queued = 0 /\ film.state = "none" /\ \A w \in Renderers : job[w].pc = "idle"

RowSound ==
    /\ show.status # "absent" => show.pace \in Paces
    /\ IsInjective(show.slides) /\ (show.status = "ready" => show.path)

(* What is rendered, or was, is the plan of the row. *)
FilmAsPlanned ==
    /\ film.state # "none" => film.cut = Plan /\ PlanFits
    /\ \A w \in Renderers : job[w].pc \in AtWork => PlanFits

(* A render by itself moves what it has joined. *)
RenderByItself ==
    ~doubled => /\ \A v, w \in Renderers : job[v].pc # "idle" /\ job[w].pc # "idle" => v = w
                /\ \A w \in Renderers : job[w].pc = "move" => dir.staged # "partial"
                /\ film.state # "partial"

(* A film the row does not name is about to be named. *)
FilmNamed ==
    tidy => /\ show.status = "deleted" => film.state = "none" /\ \A w \in Renderers : job[w].pc = "idle"
            /\ show.status # "deleted" /\ film.state # "none" /\ ~show.path =>
                  \E w \in Renderers : job[w].pc = "done"

SlidesInv ==
    /\ SlidesTyped /\ MessagesCome /\ NothingYet /\ RowSound
    /\ FilmAsPlanned /\ RenderByItself /\ FilmNamed

LEMMA SlidesInvStarts == SlidesInit => SlidesInv
<1> SUFFICES ASSUME SlidesInit PROVE SlidesInv
  OBVIOUS
<1>1. << >> \in Seq(Photos) /\ IsInjective(<< >>) /\ ToSet(<< >>) = {}
  BY DEF IsInjective, ToSet
<1>2. /\ proposal = NoProposal /\ show = NoShow /\ press = "none" /\ queued = 0
      /\ job = [w \in Renderers |-> Rest] /\ dir = NoDir /\ film = NoFilm
      /\ tidy = TRUE /\ doubled = FALSE /\ pressesLeft = Presses /\ deathsLeft = Deaths
  BY DEF SlidesInit
<1>3. NoShow \in ShowRows /\ Rest \in Jobs /\ NoDir \in WorkDirs
  BY <1>1 DEF NoShow, ShowRows, Rest, Jobs, NoDir, WorkDirs, RowStates
<1>4. NobodyLeftOut
  BY <1>1, <1>2 DEF NoProposal, NobodyLeftOut
<1>5. SlidesTyped
  BY <1>1, <1>2, <1>3, <1>4, SlideSettings DEF SlidesTyped, NoProposal, NoFilm
<1>6. MessagesCome
  <2>1. PICK p \in Nat, d \in Nat : p = Presses /\ d = Deaths
    BY SlideSettings
  <2>2. 0 + p + d + 0 <= p + d + 0
    OBVIOUS
  <2> QED BY <1>2, <2>1, <2>2 DEF MessagesCome, NoShow
<1>7. NothingYet /\ FilmAsPlanned /\ RenderByItself /\ FilmNamed
  BY <1>2 DEF NothingYet, FilmAsPlanned, RenderByItself, FilmNamed, NoFilm, Rest, NoShow, AtWork
<1>8. RowSound
  BY <1>1, <1>2 DEF RowSound, NoShow
<1> QED BY <1>5, <1>6, <1>7, <1>8 DEF SlidesInv

(* What is proposed shows everybody who must appear and could. *)
LEMMA ProposeIs ==
    ASSUME Propose
    PROVE  proposal'.chosen \in Seq(Photos) /\ IsInjective(proposal'.chosen) /\ NobodyLeftOut'
<1>1. PICK frames \in {Sorted(SetToSeq(Photos), Taken)}, merit \in [Photos -> Merits],
           twins \in SUBSET {{a, b} : a, b \in Photos} :
        \E kept \in {Collapse(frames, twins, merit)}, rank \in {BestFirstBy(merit)} :
        \E ranked \in {Sorted(kept, rank)}, target \in SlideCounts,
           required \in SetToAllKPermutations(Persons) :
            proposal' = Answer(kept, Choose(ranked, required, target), required)
  BY DEF Propose
<1>2. PICK kept \in {Collapse(frames, twins, merit)}, rank \in {BestFirstBy(merit)} :
        \E ranked \in {Sorted(kept, rank)}, target \in SlideCounts,
           required \in SetToAllKPermutations(Persons) :
            proposal' = Answer(kept, Choose(ranked, required, target), required)
  BY <1>1
<1>3. PICK ranked \in {Sorted(kept, rank)}, target \in SlideCounts,
           required \in SetToAllKPermutations(Persons) :
        proposal' = Answer(kept, Choose(ranked, required, target), required)
  BY <1>2
<1>4. /\ ranked \in Seq(Photos) /\ IsInjective(ranked) /\ ToSet(ranked) = ToSet(kept)
      /\ kept \in Seq(Photos)
  <2>1. frames = Sorted(SetToSeq(Photos), Taken) /\ kept = Collapse(frames, twins, merit)
    BY <1>2
  <2>2. frames \in Seq(Photos) /\ IsInjective(frames)
    BY <2>1, AllPhotosIs, SortedIs
  <2>3. kept \in Seq(Photos) /\ IsInjective(kept)
    BY <2>1, <2>2, CollapseIs
  <2>4. ranked = Sorted(kept, rank)
    BY <1>3
  <2> QED BY <2>3, <2>4, SortedIs
<1>5. required \in Seq(Persons) /\ target \in Nat
  BY RequiredIs, SlideSettings
<1>6. PICK chosen \in Seq(Photos) :
        /\ chosen = Choose(ranked, required, target) /\ IsInjective(chosen)
        /\ \A p \in ToSet(required) : Appears(p, ranked) => Appears(p, chosen)
  <2>1. /\ Choose(ranked, required, target) \in Seq(Photos)
        /\ IsInjective(Choose(ranked, required, target))
        /\ \A p \in ToSet(required) : Appears(p, ranked) => Appears(p, Choose(ranked, required, target))
    BY <1>4, <1>5, ChooseIs
  <2> QED BY <2>1
<1> DEFINE seen == UNION {Shows[f] : f \in ToSet(chosen)}
<1>7. proposal' = [chosen |-> chosen, kept |-> ToSet(kept), required |-> ToSet(required),
                   covered |-> seen \cap ToSet(required), missing |-> ToSet(required) \ seen]
  <2>1. proposal' = Answer(kept, chosen, required)
    BY <1>3, <1>6
  <2> QED BY <2>1 DEF Answer
<1>8. \A p : Appears(p, chosen) <=> p \in seen
  BY DEF Appears
<1> HIDE DEF seen
<1>9. \A f \in ToSet(kept) : Shows[f] \cap ToSet(required) \subseteq seen
  <2> SUFFICES ASSUME NEW f \in ToSet(kept), NEW p \in Shows[f] \cap ToSet(required) PROVE p \in seen
    OBVIOUS
  <2>1. Appears(p, ranked)
    BY <1>4 DEF Appears
  <2> QED BY <1>6, <1>8, <2>1
<1>10. /\ proposal'.chosen = chosen /\ proposal'.kept = ToSet(kept) /\ proposal'.required = ToSet(required)
       /\ proposal'.covered = seen \cap ToSet(required) /\ proposal'.missing = ToSet(required) \ seen
  BY <1>7
<1>11. NobodyLeftOut'
  BY <1>9, <1>10 DEF NobodyLeftOut
<1> QED BY <1>6, <1>10, <1>11

(* Once created, a row keeps its slides and its pace. *)
LEMMA RowStays ==
    ASSUME SlidesInv, SlidesNext
    PROVE  Create \/ ( /\ show'.slides = show.slides /\ show'.pace = show.pace /\ (show.path => show'.path)
                      /\ (show'.status = "absent" <=> show.status = "absent"))
<1>1. ASSUME Propose PROVE Create \/ ( /\ show'.slides = show.slides /\ show'.pace = show.pace /\ (show.path => show'.path)
                      /\ (show'.status = "absent" <=> show.status = "absent"))
  BY <1>1 DEF SlidesInv, SlidesTyped, NothingYet, ShowRows, RowStates, Propose, jobVars
<1>2. ASSUME Create PROVE Create \/ ( /\ show'.slides = show.slides /\ show'.pace = show.pace /\ (show.path => show'.path)
                      /\ (show'.status = "absent" <=> show.status = "absent"))
  BY <1>2 DEF SlidesInv, SlidesTyped, NothingYet, ShowRows, RowStates, Create, jobVars
<1>3. ASSUME Queue PROVE Create \/ ( /\ show'.slides = show.slides /\ show'.pace = show.pace /\ (show.path => show'.path)
                      /\ (show'.status = "absent" <=> show.status = "absent"))
  BY <1>3 DEF SlidesInv, SlidesTyped, NothingYet, ShowRows, RowStates, Queue, jobVars
<1>4. ASSUME CheckRerender PROVE Create \/ ( /\ show'.slides = show.slides /\ show'.pace = show.pace /\ (show.path => show'.path)
                      /\ (show'.status = "absent" <=> show.status = "absent"))
  BY <1>4 DEF SlidesInv, SlidesTyped, NothingYet, ShowRows, RowStates, CheckRerender, jobVars
<1>5. ASSUME Rerender PROVE Create \/ ( /\ show'.slides = show.slides /\ show'.pace = show.pace /\ (show.path => show'.path)
                      /\ (show'.status = "absent" <=> show.status = "absent"))
  BY <1>5 DEF SlidesInv, SlidesTyped, NothingYet, ShowRows, RowStates, Rerender, jobVars
<1>6. ASSUME DeleteShow PROVE Create \/ ( /\ show'.slides = show.slides /\ show'.pace = show.pace /\ (show.path => show'.path)
                      /\ (show'.status = "absent" <=> show.status = "absent"))
  BY <1>6 DEF SlidesInv, SlidesTyped, NothingYet, ShowRows, RowStates, DeleteShow, jobVars
<1>7. ASSUME NEW w \in Renderers, Begin(w) PROVE Create \/ ( /\ show'.slides = show.slides /\ show'.pace = show.pace /\ (show.path => show'.path)
                      /\ (show'.status = "absent" <=> show.status = "absent"))
  BY <1>7 DEF SlidesInv, SlidesTyped, NothingYet, ShowRows, RowStates, Begin, jobVars
<1>8. ASSUME NEW w \in Renderers, PlanRender(w) PROVE Create \/ ( /\ show'.slides = show.slides /\ show'.pace = show.pace /\ (show.path => show'.path)
                      /\ (show'.status = "absent" <=> show.status = "absent"))
  BY <1>8 DEF SlidesInv, SlidesTyped, NothingYet, ShowRows, RowStates, PlanRender, jobVars
<1>9. ASSUME NEW w \in Renderers, OpenPiece(w) PROVE Create \/ ( /\ show'.slides = show.slides /\ show'.pace = show.pace /\ (show.path => show'.path)
                      /\ (show'.status = "absent" <=> show.status = "absent"))
  BY <1>9 DEF SlidesInv, SlidesTyped, NothingYet, ShowRows, RowStates, OpenPiece, jobVars
<1>10. ASSUME NEW w \in Renderers, ClosePiece(w) PROVE Create \/ ( /\ show'.slides = show.slides /\ show'.pace = show.pace /\ (show.path => show'.path)
                      /\ (show'.status = "absent" <=> show.status = "absent"))
  BY <1>10 DEF SlidesInv, SlidesTyped, NothingYet, ShowRows, RowStates, ClosePiece, jobVars
<1>11. ASSUME NEW w \in Renderers, Stitch(w) PROVE Create \/ ( /\ show'.slides = show.slides /\ show'.pace = show.pace /\ (show.path => show'.path)
                      /\ (show'.status = "absent" <=> show.status = "absent"))
  BY <1>11 DEF SlidesInv, SlidesTyped, NothingYet, ShowRows, RowStates, Stitch, jobVars
<1>12. ASSUME NEW w \in Renderers, Joined(w) PROVE Create \/ ( /\ show'.slides = show.slides /\ show'.pace = show.pace /\ (show.path => show'.path)
                      /\ (show'.status = "absent" <=> show.status = "absent"))
  BY <1>12 DEF SlidesInv, SlidesTyped, NothingYet, ShowRows, RowStates, Joined, jobVars
<1>13. ASSUME NEW w \in Renderers, Move(w) PROVE Create \/ ( /\ show'.slides = show.slides /\ show'.pace = show.pace /\ (show.path => show'.path)
                      /\ (show'.status = "absent" <=> show.status = "absent"))
  BY <1>13 DEF SlidesInv, SlidesTyped, NothingYet, ShowRows, RowStates, Move, jobVars
<1>14. ASSUME NEW w \in Renderers, Finish(w) PROVE Create \/ ( /\ show'.slides = show.slides /\ show'.pace = show.pace /\ (show.path => show'.path)
                      /\ (show'.status = "absent" <=> show.status = "absent"))
  BY <1>14 DEF SlidesInv, SlidesTyped, NothingYet, ShowRows, RowStates, Finish, jobVars
<1>15. ASSUME NEW w \in Renderers, Fail(w) PROVE Create \/ ( /\ show'.slides = show.slides /\ show'.pace = show.pace /\ (show.path => show'.path)
                      /\ (show'.status = "absent" <=> show.status = "absent"))
  BY <1>15 DEF SlidesInv, SlidesTyped, NothingYet, ShowRows, RowStates, Fail, jobVars
<1>16. ASSUME NEW w \in Renderers, CheckFails(w) PROVE Create \/ ( /\ show'.slides = show.slides /\ show'.pace = show.pace /\ (show.path => show'.path)
                      /\ (show'.status = "absent" <=> show.status = "absent"))
  BY <1>16 DEF SlidesInv, SlidesTyped, NothingYet, ShowRows, RowStates, CheckFails, jobVars
<1>17. ASSUME NEW w \in Renderers, EncodeFails(w) PROVE Create \/ ( /\ show'.slides = show.slides /\ show'.pace = show.pace /\ (show.path => show'.path)
                      /\ (show'.status = "absent" <=> show.status = "absent"))
  BY <1>17 DEF SlidesInv, SlidesTyped, NothingYet, ShowRows, RowStates, EncodeFails, jobVars
<1>18. ASSUME NEW w \in Renderers, WorkerDies(w) PROVE Create \/ ( /\ show'.slides = show.slides /\ show'.pace = show.pace /\ (show.path => show'.path)
                      /\ (show'.status = "absent" <=> show.status = "absent"))
  BY <1>18 DEF SlidesInv, SlidesTyped, NothingYet, ShowRows, RowStates, WorkerDies, jobVars
<1> QED BY <1>1, <1>2, <1>3, <1>4, <1>5, <1>6, <1>7, <1>8, <1>9, <1>10, <1>11, <1>12, <1>13, <1>14, <1>15, <1>16, <1>17, <1>18 DEF SlidesNext, RenderStep

LEMMA ShowTyped ==
    ASSUME SlidesInv, SlidesNext
    PROVE  show' \in ShowRows
<1>1. ASSUME Propose PROVE show' \in ShowRows
  BY <1>1 DEF SlidesInv, SlidesTyped, ShowRows, RowStates, Propose, jobVars
<1>2. ASSUME Create PROVE show' \in ShowRows
  BY <1>2 DEF SlidesInv, SlidesTyped, ShowRows, RowStates, Create, jobVars
<1>3. ASSUME Queue PROVE show' \in ShowRows
  BY <1>3 DEF SlidesInv, SlidesTyped, ShowRows, RowStates, Queue, jobVars
<1>4. ASSUME CheckRerender PROVE show' \in ShowRows
  BY <1>4 DEF SlidesInv, SlidesTyped, ShowRows, RowStates, CheckRerender, jobVars
<1>5. ASSUME Rerender PROVE show' \in ShowRows
  BY <1>5 DEF SlidesInv, SlidesTyped, ShowRows, RowStates, Rerender, jobVars
<1>6. ASSUME DeleteShow PROVE show' \in ShowRows
  BY <1>6 DEF SlidesInv, SlidesTyped, ShowRows, RowStates, DeleteShow, jobVars
<1>7. ASSUME NEW w \in Renderers, Begin(w) PROVE show' \in ShowRows
  BY <1>7 DEF SlidesInv, SlidesTyped, ShowRows, RowStates, Begin, jobVars
<1>8. ASSUME NEW w \in Renderers, PlanRender(w) PROVE show' \in ShowRows
  BY <1>8 DEF SlidesInv, SlidesTyped, ShowRows, RowStates, PlanRender, jobVars
<1>9. ASSUME NEW w \in Renderers, OpenPiece(w) PROVE show' \in ShowRows
  BY <1>9 DEF SlidesInv, SlidesTyped, ShowRows, RowStates, OpenPiece, jobVars
<1>10. ASSUME NEW w \in Renderers, ClosePiece(w) PROVE show' \in ShowRows
  BY <1>10 DEF SlidesInv, SlidesTyped, ShowRows, RowStates, ClosePiece, jobVars
<1>11. ASSUME NEW w \in Renderers, Stitch(w) PROVE show' \in ShowRows
  BY <1>11 DEF SlidesInv, SlidesTyped, ShowRows, RowStates, Stitch, jobVars
<1>12. ASSUME NEW w \in Renderers, Joined(w) PROVE show' \in ShowRows
  BY <1>12 DEF SlidesInv, SlidesTyped, ShowRows, RowStates, Joined, jobVars
<1>13. ASSUME NEW w \in Renderers, Move(w) PROVE show' \in ShowRows
  BY <1>13 DEF SlidesInv, SlidesTyped, ShowRows, RowStates, Move, jobVars
<1>14. ASSUME NEW w \in Renderers, Finish(w) PROVE show' \in ShowRows
  BY <1>14 DEF SlidesInv, SlidesTyped, ShowRows, RowStates, Finish, jobVars
<1>15. ASSUME NEW w \in Renderers, Fail(w) PROVE show' \in ShowRows
  BY <1>15 DEF SlidesInv, SlidesTyped, ShowRows, RowStates, Fail, jobVars
<1>16. ASSUME NEW w \in Renderers, CheckFails(w) PROVE show' \in ShowRows
  BY <1>16 DEF SlidesInv, SlidesTyped, ShowRows, RowStates, CheckFails, jobVars
<1>17. ASSUME NEW w \in Renderers, EncodeFails(w) PROVE show' \in ShowRows
  BY <1>17 DEF SlidesInv, SlidesTyped, ShowRows, RowStates, EncodeFails, jobVars
<1>18. ASSUME NEW w \in Renderers, WorkerDies(w) PROVE show' \in ShowRows
  BY <1>18 DEF SlidesInv, SlidesTyped, ShowRows, RowStates, WorkerDies, jobVars
<1> QED BY <1>1, <1>2, <1>3, <1>4, <1>5, <1>6, <1>7, <1>8, <1>9, <1>10, <1>11, <1>12, <1>13, <1>14, <1>15, <1>16, <1>17, <1>18 DEF SlidesNext, RenderStep

LEMMA JobTyped ==
    ASSUME SlidesInv, SlidesNext
    PROVE  job' \in [Renderers -> Jobs]
<1>1. ASSUME Propose PROVE job' \in [Renderers -> Jobs]
  BY <1>1 DEF SlidesInv, SlidesTyped, Jobs, AtWork, Rest, Propose, jobVars
<1>2. ASSUME Create PROVE job' \in [Renderers -> Jobs]
  BY <1>2 DEF SlidesInv, SlidesTyped, Jobs, AtWork, Rest, Create, jobVars
<1>3. ASSUME Queue PROVE job' \in [Renderers -> Jobs]
  BY <1>3 DEF SlidesInv, SlidesTyped, Jobs, AtWork, Rest, Queue, jobVars
<1>4. ASSUME CheckRerender PROVE job' \in [Renderers -> Jobs]
  BY <1>4 DEF SlidesInv, SlidesTyped, Jobs, AtWork, Rest, CheckRerender, jobVars
<1>5. ASSUME Rerender PROVE job' \in [Renderers -> Jobs]
  BY <1>5 DEF SlidesInv, SlidesTyped, Jobs, AtWork, Rest, Rerender, jobVars
<1>6. ASSUME DeleteShow PROVE job' \in [Renderers -> Jobs]
  BY <1>6 DEF SlidesInv, SlidesTyped, Jobs, AtWork, Rest, DeleteShow, jobVars
<1>7. ASSUME NEW w \in Renderers, Begin(w) PROVE job' \in [Renderers -> Jobs]
  BY <1>7 DEF SlidesInv, SlidesTyped, Jobs, AtWork, Rest, Begin, jobVars
<1>8. ASSUME NEW w \in Renderers, PlanRender(w) PROVE job' \in [Renderers -> Jobs]
  BY <1>8 DEF SlidesInv, SlidesTyped, Jobs, AtWork, Rest, PlanRender, jobVars
<1>9. ASSUME NEW w \in Renderers, OpenPiece(w) PROVE job' \in [Renderers -> Jobs]
  <2>1. job' = [job EXCEPT ![w].pc = "encode"] \/ job' = [job EXCEPT ![w].pc = "failing"]
    BY <1>9 DEF OpenPiece
  <2> QED BY <2>1 DEF SlidesInv, SlidesTyped, Jobs, AtWork
<1>10. ASSUME NEW w \in Renderers, ClosePiece(w) PROVE job' \in [Renderers -> Jobs]
  BY <1>10 DEF SlidesInv, SlidesTyped, Jobs, AtWork, Rest, ClosePiece, jobVars
<1>11. ASSUME NEW w \in Renderers, Stitch(w) PROVE job' \in [Renderers -> Jobs]
  BY <1>11 DEF SlidesInv, SlidesTyped, Jobs, AtWork, Rest, Stitch, jobVars
<1>12. ASSUME NEW w \in Renderers, Joined(w) PROVE job' \in [Renderers -> Jobs]
  BY <1>12 DEF SlidesInv, SlidesTyped, Jobs, AtWork, Rest, Joined, jobVars
<1>13. ASSUME NEW w \in Renderers, Move(w) PROVE job' \in [Renderers -> Jobs]
  BY <1>13 DEF SlidesInv, SlidesTyped, Jobs, AtWork, Rest, Move, jobVars
<1>14. ASSUME NEW w \in Renderers, Finish(w) PROVE job' \in [Renderers -> Jobs]
  BY <1>14 DEF SlidesInv, SlidesTyped, Jobs, AtWork, Rest, Finish, jobVars
<1>15. ASSUME NEW w \in Renderers, Fail(w) PROVE job' \in [Renderers -> Jobs]
  BY <1>15 DEF SlidesInv, SlidesTyped, Jobs, AtWork, Rest, Fail, jobVars
<1>16. ASSUME NEW w \in Renderers, CheckFails(w) PROVE job' \in [Renderers -> Jobs]
  BY <1>16 DEF SlidesInv, SlidesTyped, Jobs, AtWork, Rest, CheckFails, jobVars
<1>17. ASSUME NEW w \in Renderers, EncodeFails(w) PROVE job' \in [Renderers -> Jobs]
  BY <1>17 DEF SlidesInv, SlidesTyped, Jobs, AtWork, Rest, EncodeFails, jobVars
<1>18. ASSUME NEW w \in Renderers, WorkerDies(w) PROVE job' \in [Renderers -> Jobs]
  BY <1>18 DEF SlidesInv, SlidesTyped, Jobs, AtWork, Rest, WorkerDies, jobVars
<1> QED BY <1>1, <1>2, <1>3, <1>4, <1>5, <1>6, <1>7, <1>8, <1>9, <1>10, <1>11, <1>12, <1>13, <1>14, <1>15, <1>16, <1>17, <1>18 DEF SlidesNext, RenderStep

LEMMA DirTyped ==
    ASSUME SlidesInv, SlidesNext
    PROVE  dir' \in WorkDirs
<1>1. ASSUME Propose PROVE dir' \in WorkDirs
  BY <1>1 DEF SlidesInv, SlidesTyped, Jobs, WorkDirs, NoDir, Propose, jobVars
<1>2. ASSUME Create PROVE dir' \in WorkDirs
  BY <1>2 DEF SlidesInv, SlidesTyped, Jobs, WorkDirs, NoDir, Create, jobVars
<1>3. ASSUME Queue PROVE dir' \in WorkDirs
  BY <1>3 DEF SlidesInv, SlidesTyped, Jobs, WorkDirs, NoDir, Queue, jobVars
<1>4. ASSUME CheckRerender PROVE dir' \in WorkDirs
  BY <1>4 DEF SlidesInv, SlidesTyped, Jobs, WorkDirs, NoDir, CheckRerender, jobVars
<1>5. ASSUME Rerender PROVE dir' \in WorkDirs
  BY <1>5 DEF SlidesInv, SlidesTyped, Jobs, WorkDirs, NoDir, Rerender, jobVars
<1>6. ASSUME DeleteShow PROVE dir' \in WorkDirs
  BY <1>6 DEF SlidesInv, SlidesTyped, Jobs, WorkDirs, NoDir, DeleteShow, jobVars
<1>7. ASSUME NEW w \in Renderers, Begin(w) PROVE dir' \in WorkDirs
  BY <1>7 DEF SlidesInv, SlidesTyped, Jobs, WorkDirs, NoDir, Begin, jobVars
<1>8. ASSUME NEW w \in Renderers, PlanRender(w) PROVE dir' \in WorkDirs
  BY <1>8 DEF SlidesInv, SlidesTyped, Jobs, WorkDirs, NoDir, PlanRender, jobVars
<1>9. ASSUME NEW w \in Renderers, OpenPiece(w) PROVE dir' \in WorkDirs
  <2>1. PICK k \in Nat : k = job[w].at
    BY DEF SlidesInv, SlidesTyped, Jobs
  <2>2. dir' \in {dir, [dir EXCEPT !.whole = dir.whole \ {k}, !.open = dir.open \cup {k}]}
    BY <1>9, <2>1 DEF OpenPiece
  <2>3. dir \in WorkDirs /\ dir.whole \ {k} \in SUBSET Nat /\ dir.open \cup {k} \in SUBSET Nat
    BY DEF SlidesInv, SlidesTyped, WorkDirs
  <2> QED BY <2>2, <2>3 DEF WorkDirs
<1>10. ASSUME NEW w \in Renderers, ClosePiece(w) PROVE dir' \in WorkDirs
  <2>1. PICK k \in Nat : k = job[w].at
    BY DEF SlidesInv, SlidesTyped, Jobs
  <2>2. dir' \in {dir, [dir EXCEPT !.whole = dir.whole \cup {k}, !.open = dir.open \ {k}]}
    BY <1>10, <2>1 DEF ClosePiece
  <2>3. dir \in WorkDirs /\ dir.whole \cup {k} \in SUBSET Nat /\ dir.open \ {k} \in SUBSET Nat
    BY DEF SlidesInv, SlidesTyped, WorkDirs
  <2> QED BY <2>2, <2>3 DEF WorkDirs
<1>11. ASSUME NEW w \in Renderers, Stitch(w) PROVE dir' \in WorkDirs
  BY <1>11 DEF SlidesInv, SlidesTyped, Jobs, WorkDirs, NoDir, Stitch, jobVars
<1>12. ASSUME NEW w \in Renderers, Joined(w) PROVE dir' \in WorkDirs
  BY <1>12 DEF SlidesInv, SlidesTyped, Jobs, WorkDirs, NoDir, Joined, jobVars
<1>13. ASSUME NEW w \in Renderers, Move(w) PROVE dir' \in WorkDirs
  BY <1>13 DEF SlidesInv, SlidesTyped, Jobs, WorkDirs, NoDir, Move, jobVars
<1>14. ASSUME NEW w \in Renderers, Finish(w) PROVE dir' \in WorkDirs
  <2>1. dir' \in {dir, NoDir}
    BY <1>14 DEF Finish
  <2>2. NoDir \in WorkDirs
    BY DEF NoDir, WorkDirs
  <2> QED BY <2>1, <2>2 DEF SlidesInv, SlidesTyped
<1>15. ASSUME NEW w \in Renderers, Fail(w) PROVE dir' \in WorkDirs
  BY <1>15 DEF SlidesInv, SlidesTyped, Jobs, WorkDirs, NoDir, Fail, jobVars
<1>16. ASSUME NEW w \in Renderers, CheckFails(w) PROVE dir' \in WorkDirs
  BY <1>16 DEF SlidesInv, SlidesTyped, Jobs, WorkDirs, NoDir, CheckFails, jobVars
<1>17. ASSUME NEW w \in Renderers, EncodeFails(w) PROVE dir' \in WorkDirs
  BY <1>17 DEF SlidesInv, SlidesTyped, Jobs, WorkDirs, NoDir, EncodeFails, jobVars
<1>18. ASSUME NEW w \in Renderers, WorkerDies(w) PROVE dir' \in WorkDirs
  BY <1>18 DEF SlidesInv, SlidesTyped, Jobs, WorkDirs, NoDir, WorkerDies, jobVars
<1> QED BY <1>1, <1>2, <1>3, <1>4, <1>5, <1>6, <1>7, <1>8, <1>9, <1>10, <1>11, <1>12, <1>13, <1>14, <1>15, <1>16, <1>17, <1>18 DEF SlidesNext, RenderStep

LEMMA ChoiceKept ==
    ASSUME SlidesInv, SlidesNext
    PROVE  proposal'.chosen \in Seq(Photos) /\ IsInjective(proposal'.chosen) /\ NobodyLeftOut'
<1>1. ASSUME Propose PROVE proposal'.chosen \in Seq(Photos) /\ IsInjective(proposal'.chosen) /\ NobodyLeftOut'
  BY <1>1, ProposeIs
<1>2. ASSUME Create PROVE proposal'.chosen \in Seq(Photos) /\ IsInjective(proposal'.chosen) /\ NobodyLeftOut'
  <2>1. proposal' = NoProposal
    BY <1>2 DEF Create
  <2>2. << >> \in Seq(Photos) /\ IsInjective(<< >>)
    BY DEF IsInjective
  <2> QED BY <2>1, <2>2 DEF NoProposal, NobodyLeftOut
<1>3. ASSUME Queue PROVE proposal'.chosen \in Seq(Photos) /\ IsInjective(proposal'.chosen) /\ NobodyLeftOut'
  BY <1>3 DEF SlidesInv, SlidesTyped, NobodyLeftOut, Queue, jobVars
<1>4. ASSUME CheckRerender PROVE proposal'.chosen \in Seq(Photos) /\ IsInjective(proposal'.chosen) /\ NobodyLeftOut'
  BY <1>4 DEF SlidesInv, SlidesTyped, NobodyLeftOut, CheckRerender, jobVars
<1>5. ASSUME Rerender PROVE proposal'.chosen \in Seq(Photos) /\ IsInjective(proposal'.chosen) /\ NobodyLeftOut'
  BY <1>5 DEF SlidesInv, SlidesTyped, NobodyLeftOut, Rerender, jobVars
<1>6. ASSUME DeleteShow PROVE proposal'.chosen \in Seq(Photos) /\ IsInjective(proposal'.chosen) /\ NobodyLeftOut'
  BY <1>6 DEF SlidesInv, SlidesTyped, NobodyLeftOut, DeleteShow, jobVars
<1>7. ASSUME NEW w \in Renderers, Begin(w) PROVE proposal'.chosen \in Seq(Photos) /\ IsInjective(proposal'.chosen) /\ NobodyLeftOut'
  BY <1>7 DEF SlidesInv, SlidesTyped, NobodyLeftOut, Begin, jobVars
<1>8. ASSUME NEW w \in Renderers, PlanRender(w) PROVE proposal'.chosen \in Seq(Photos) /\ IsInjective(proposal'.chosen) /\ NobodyLeftOut'
  BY <1>8 DEF SlidesInv, SlidesTyped, NobodyLeftOut, PlanRender, jobVars
<1>9. ASSUME NEW w \in Renderers, OpenPiece(w) PROVE proposal'.chosen \in Seq(Photos) /\ IsInjective(proposal'.chosen) /\ NobodyLeftOut'
  BY <1>9 DEF SlidesInv, SlidesTyped, NobodyLeftOut, OpenPiece, jobVars
<1>10. ASSUME NEW w \in Renderers, ClosePiece(w) PROVE proposal'.chosen \in Seq(Photos) /\ IsInjective(proposal'.chosen) /\ NobodyLeftOut'
  BY <1>10 DEF SlidesInv, SlidesTyped, NobodyLeftOut, ClosePiece, jobVars
<1>11. ASSUME NEW w \in Renderers, Stitch(w) PROVE proposal'.chosen \in Seq(Photos) /\ IsInjective(proposal'.chosen) /\ NobodyLeftOut'
  BY <1>11 DEF SlidesInv, SlidesTyped, NobodyLeftOut, Stitch, jobVars
<1>12. ASSUME NEW w \in Renderers, Joined(w) PROVE proposal'.chosen \in Seq(Photos) /\ IsInjective(proposal'.chosen) /\ NobodyLeftOut'
  BY <1>12 DEF SlidesInv, SlidesTyped, NobodyLeftOut, Joined, jobVars
<1>13. ASSUME NEW w \in Renderers, Move(w) PROVE proposal'.chosen \in Seq(Photos) /\ IsInjective(proposal'.chosen) /\ NobodyLeftOut'
  BY <1>13 DEF SlidesInv, SlidesTyped, NobodyLeftOut, Move, jobVars
<1>14. ASSUME NEW w \in Renderers, Finish(w) PROVE proposal'.chosen \in Seq(Photos) /\ IsInjective(proposal'.chosen) /\ NobodyLeftOut'
  BY <1>14 DEF SlidesInv, SlidesTyped, NobodyLeftOut, Finish, jobVars
<1>15. ASSUME NEW w \in Renderers, Fail(w) PROVE proposal'.chosen \in Seq(Photos) /\ IsInjective(proposal'.chosen) /\ NobodyLeftOut'
  BY <1>15 DEF SlidesInv, SlidesTyped, NobodyLeftOut, Fail, jobVars
<1>16. ASSUME NEW w \in Renderers, CheckFails(w) PROVE proposal'.chosen \in Seq(Photos) /\ IsInjective(proposal'.chosen) /\ NobodyLeftOut'
  BY <1>16 DEF SlidesInv, SlidesTyped, NobodyLeftOut, CheckFails, jobVars
<1>17. ASSUME NEW w \in Renderers, EncodeFails(w) PROVE proposal'.chosen \in Seq(Photos) /\ IsInjective(proposal'.chosen) /\ NobodyLeftOut'
  BY <1>17 DEF SlidesInv, SlidesTyped, NobodyLeftOut, EncodeFails, jobVars
<1>18. ASSUME NEW w \in Renderers, WorkerDies(w) PROVE proposal'.chosen \in Seq(Photos) /\ IsInjective(proposal'.chosen) /\ NobodyLeftOut'
  BY <1>18 DEF SlidesInv, SlidesTyped, NobodyLeftOut, WorkerDies, jobVars
<1> QED BY <1>1, <1>2, <1>3, <1>4, <1>5, <1>6, <1>7, <1>8, <1>9, <1>10, <1>11, <1>12, <1>13, <1>14, <1>15, <1>16, <1>17, <1>18 DEF SlidesNext, RenderStep

LEMMA OthersTyped ==
    ASSUME SlidesInv, SlidesNext
    PROVE  /\ press' \in {"none", "checked", "committed"} /\ queued' \in Nat /\ tidy' \in BOOLEAN
           /\ doubled' \in BOOLEAN /\ film'.state \in {"none", "partial", "whole"}
           /\ pressesLeft' \in Nat /\ deathsLeft' \in Nat
<1>1. ASSUME Propose PROVE /\ press' \in {"none", "checked", "committed"} /\ queued' \in Nat /\ tidy' \in BOOLEAN
           /\ doubled' \in BOOLEAN /\ film'.state \in {"none", "partial", "whole"}
           /\ pressesLeft' \in Nat /\ deathsLeft' \in Nat
  BY <1>1 DEF SlidesInv, SlidesTyped, WorkDirs, NoFilm, Propose, jobVars
<1>2. ASSUME Create PROVE /\ press' \in {"none", "checked", "committed"} /\ queued' \in Nat /\ tidy' \in BOOLEAN
           /\ doubled' \in BOOLEAN /\ film'.state \in {"none", "partial", "whole"}
           /\ pressesLeft' \in Nat /\ deathsLeft' \in Nat
  BY <1>2 DEF SlidesInv, SlidesTyped, WorkDirs, NoFilm, Create, jobVars
<1>3. ASSUME Queue PROVE /\ press' \in {"none", "checked", "committed"} /\ queued' \in Nat /\ tidy' \in BOOLEAN
           /\ doubled' \in BOOLEAN /\ film'.state \in {"none", "partial", "whole"}
           /\ pressesLeft' \in Nat /\ deathsLeft' \in Nat
  BY <1>3 DEF SlidesInv, SlidesTyped, WorkDirs, NoFilm, Queue, jobVars
<1>4. ASSUME CheckRerender PROVE /\ press' \in {"none", "checked", "committed"} /\ queued' \in Nat /\ tidy' \in BOOLEAN
           /\ doubled' \in BOOLEAN /\ film'.state \in {"none", "partial", "whole"}
           /\ pressesLeft' \in Nat /\ deathsLeft' \in Nat
  BY <1>4 DEF SlidesInv, SlidesTyped, WorkDirs, NoFilm, CheckRerender, jobVars
<1>5. ASSUME Rerender PROVE /\ press' \in {"none", "checked", "committed"} /\ queued' \in Nat /\ tidy' \in BOOLEAN
           /\ doubled' \in BOOLEAN /\ film'.state \in {"none", "partial", "whole"}
           /\ pressesLeft' \in Nat /\ deathsLeft' \in Nat
  BY <1>5 DEF SlidesInv, SlidesTyped, WorkDirs, NoFilm, Rerender, jobVars
<1>6. ASSUME DeleteShow PROVE /\ press' \in {"none", "checked", "committed"} /\ queued' \in Nat /\ tidy' \in BOOLEAN
           /\ doubled' \in BOOLEAN /\ film'.state \in {"none", "partial", "whole"}
           /\ pressesLeft' \in Nat /\ deathsLeft' \in Nat
  BY <1>6 DEF SlidesInv, SlidesTyped, WorkDirs, NoFilm, DeleteShow, jobVars
<1>7. ASSUME NEW w \in Renderers, Begin(w) PROVE /\ press' \in {"none", "checked", "committed"} /\ queued' \in Nat /\ tidy' \in BOOLEAN
           /\ doubled' \in BOOLEAN /\ film'.state \in {"none", "partial", "whole"}
           /\ pressesLeft' \in Nat /\ deathsLeft' \in Nat
  <2>1. doubled' \in BOOLEAN
    BY <1>7 DEF Begin, SlidesInv, SlidesTyped
  <2>2. queued' \in Nat /\ UNCHANGED <<press, tidy, film, pressesLeft, deathsLeft>>
    BY <1>7 DEF Begin, jobVars, SlidesInv, SlidesTyped
  <2> QED BY <2>1, <2>2 DEF SlidesInv, SlidesTyped
<1>8. ASSUME NEW w \in Renderers, PlanRender(w) PROVE /\ press' \in {"none", "checked", "committed"} /\ queued' \in Nat /\ tidy' \in BOOLEAN
           /\ doubled' \in BOOLEAN /\ film'.state \in {"none", "partial", "whole"}
           /\ pressesLeft' \in Nat /\ deathsLeft' \in Nat
  BY <1>8 DEF SlidesInv, SlidesTyped, WorkDirs, NoFilm, PlanRender, jobVars
<1>9. ASSUME NEW w \in Renderers, OpenPiece(w) PROVE /\ press' \in {"none", "checked", "committed"} /\ queued' \in Nat /\ tidy' \in BOOLEAN
           /\ doubled' \in BOOLEAN /\ film'.state \in {"none", "partial", "whole"}
           /\ pressesLeft' \in Nat /\ deathsLeft' \in Nat
  BY <1>9 DEF SlidesInv, SlidesTyped, WorkDirs, NoFilm, OpenPiece, jobVars
<1>10. ASSUME NEW w \in Renderers, ClosePiece(w) PROVE /\ press' \in {"none", "checked", "committed"} /\ queued' \in Nat /\ tidy' \in BOOLEAN
           /\ doubled' \in BOOLEAN /\ film'.state \in {"none", "partial", "whole"}
           /\ pressesLeft' \in Nat /\ deathsLeft' \in Nat
  BY <1>10 DEF SlidesInv, SlidesTyped, WorkDirs, NoFilm, ClosePiece, jobVars
<1>11. ASSUME NEW w \in Renderers, Stitch(w) PROVE /\ press' \in {"none", "checked", "committed"} /\ queued' \in Nat /\ tidy' \in BOOLEAN
           /\ doubled' \in BOOLEAN /\ film'.state \in {"none", "partial", "whole"}
           /\ pressesLeft' \in Nat /\ deathsLeft' \in Nat
  BY <1>11 DEF SlidesInv, SlidesTyped, WorkDirs, NoFilm, Stitch, jobVars
<1>12. ASSUME NEW w \in Renderers, Joined(w) PROVE /\ press' \in {"none", "checked", "committed"} /\ queued' \in Nat /\ tidy' \in BOOLEAN
           /\ doubled' \in BOOLEAN /\ film'.state \in {"none", "partial", "whole"}
           /\ pressesLeft' \in Nat /\ deathsLeft' \in Nat
  BY <1>12 DEF SlidesInv, SlidesTyped, WorkDirs, NoFilm, Joined, jobVars
<1>13. ASSUME NEW w \in Renderers, Move(w) PROVE /\ press' \in {"none", "checked", "committed"} /\ queued' \in Nat /\ tidy' \in BOOLEAN
           /\ doubled' \in BOOLEAN /\ film'.state \in {"none", "partial", "whole"}
           /\ pressesLeft' \in Nat /\ deathsLeft' \in Nat
  BY <1>13 DEF SlidesInv, SlidesTyped, WorkDirs, NoFilm, Move, jobVars
<1>14. ASSUME NEW w \in Renderers, Finish(w) PROVE /\ press' \in {"none", "checked", "committed"} /\ queued' \in Nat /\ tidy' \in BOOLEAN
           /\ doubled' \in BOOLEAN /\ film'.state \in {"none", "partial", "whole"}
           /\ pressesLeft' \in Nat /\ deathsLeft' \in Nat
  BY <1>14 DEF SlidesInv, SlidesTyped, WorkDirs, NoFilm, Finish, jobVars
<1>15. ASSUME NEW w \in Renderers, Fail(w) PROVE /\ press' \in {"none", "checked", "committed"} /\ queued' \in Nat /\ tidy' \in BOOLEAN
           /\ doubled' \in BOOLEAN /\ film'.state \in {"none", "partial", "whole"}
           /\ pressesLeft' \in Nat /\ deathsLeft' \in Nat
  BY <1>15 DEF SlidesInv, SlidesTyped, WorkDirs, NoFilm, Fail, jobVars
<1>16. ASSUME NEW w \in Renderers, CheckFails(w) PROVE /\ press' \in {"none", "checked", "committed"} /\ queued' \in Nat /\ tidy' \in BOOLEAN
           /\ doubled' \in BOOLEAN /\ film'.state \in {"none", "partial", "whole"}
           /\ pressesLeft' \in Nat /\ deathsLeft' \in Nat
  BY <1>16 DEF SlidesInv, SlidesTyped, WorkDirs, NoFilm, CheckFails, jobVars
<1>17. ASSUME NEW w \in Renderers, EncodeFails(w) PROVE /\ press' \in {"none", "checked", "committed"} /\ queued' \in Nat /\ tidy' \in BOOLEAN
           /\ doubled' \in BOOLEAN /\ film'.state \in {"none", "partial", "whole"}
           /\ pressesLeft' \in Nat /\ deathsLeft' \in Nat
  BY <1>17 DEF SlidesInv, SlidesTyped, WorkDirs, NoFilm, EncodeFails, jobVars
<1>18. ASSUME NEW w \in Renderers, WorkerDies(w) PROVE /\ press' \in {"none", "checked", "committed"} /\ queued' \in Nat /\ tidy' \in BOOLEAN
           /\ doubled' \in BOOLEAN /\ film'.state \in {"none", "partial", "whole"}
           /\ pressesLeft' \in Nat /\ deathsLeft' \in Nat
  <2>1. queued' \in Nat /\ deathsLeft' \in Nat
    BY <1>18 DEF WorkerDies, SlidesInv, SlidesTyped
  <2>2. tidy' = FALSE /\ UNCHANGED <<press, doubled, film, pressesLeft>>
    BY <1>18 DEF WorkerDies, jobVars
  <2> QED BY <2>1, <2>2 DEF SlidesInv, SlidesTyped
<1> QED BY <1>1, <1>2, <1>3, <1>4, <1>5, <1>6, <1>7, <1>8, <1>9, <1>10, <1>11, <1>12, <1>13, <1>14, <1>15, <1>16, <1>17, <1>18 DEF SlidesNext, RenderStep

LEMMA TypedKept == SlidesInv /\ SlidesNext => SlidesTyped'
  BY ShowTyped, JobTyped, DirTyped, ChoiceKept, OthersTyped DEF SlidesTyped

LEMMA MessagesKept ==
    ASSUME SlidesInv, SlidesNext
    PROVE  MessagesCome'
<1>1. ASSUME Propose PROVE MessagesCome'
  BY <1>1, SlideSettings DEF SlidesInv, SlidesTyped, MessagesCome, NothingYet, ShowRows, RowStates, Propose, jobVars
<1>2. ASSUME Create PROVE MessagesCome'
  BY <1>2, SlideSettings DEF SlidesInv, SlidesTyped, MessagesCome, NothingYet, ShowRows, RowStates, Create, jobVars
<1>3. ASSUME Queue PROVE MessagesCome'
  <2>1. PICK q \in Nat, p \in Nat, d \in Nat : q = queued /\ p = pressesLeft /\ d = deathsLeft
    BY DEF SlidesInv, SlidesTyped
  <2>2. PICK m \in Nat : m = Presses + Deaths + (IF show.status = "absent" THEN 0 ELSE 1)
    BY SlideSettings
  <2>3. /\ q + p + d + 1 <= m /\ queued' \in {q, q + 1} /\ press' = "none"
        /\ UNCHANGED <<show, pressesLeft, deathsLeft>>
    BY <1>3, <2>1, <2>2 DEF Queue, SlidesInv, MessagesCome
  <2>4. queued' + p + d + 0 <= m
    <3>1. q + p + d + 0 <= m /\ (q + 1) + p + d + 0 <= m
      BY <2>3
    <3> QED BY <2>3, <3>1
  <2> QED BY <2>1, <2>2, <2>3, <2>4 DEF MessagesCome
<1>4. ASSUME CheckRerender PROVE MessagesCome'
  BY <1>4, SlideSettings DEF SlidesInv, SlidesTyped, MessagesCome, NothingYet, ShowRows, RowStates, CheckRerender, jobVars
<1>5. ASSUME Rerender PROVE MessagesCome'
  BY <1>5, SlideSettings DEF SlidesInv, SlidesTyped, MessagesCome, NothingYet, ShowRows, RowStates, Rerender, jobVars
<1>6. ASSUME DeleteShow PROVE MessagesCome'
  BY <1>6, SlideSettings DEF SlidesInv, SlidesTyped, MessagesCome, NothingYet, ShowRows, RowStates, DeleteShow, jobVars
<1>7. ASSUME NEW w \in Renderers, Begin(w) PROVE MessagesCome'
  BY <1>7, SlideSettings DEF SlidesInv, SlidesTyped, MessagesCome, NothingYet, ShowRows, RowStates, Begin, jobVars
<1>8. ASSUME NEW w \in Renderers, PlanRender(w) PROVE MessagesCome'
  BY <1>8, SlideSettings DEF SlidesInv, SlidesTyped, MessagesCome, NothingYet, ShowRows, RowStates, PlanRender, jobVars
<1>9. ASSUME NEW w \in Renderers, OpenPiece(w) PROVE MessagesCome'
  BY <1>9, SlideSettings DEF SlidesInv, SlidesTyped, MessagesCome, NothingYet, ShowRows, RowStates, OpenPiece, jobVars
<1>10. ASSUME NEW w \in Renderers, ClosePiece(w) PROVE MessagesCome'
  BY <1>10, SlideSettings DEF SlidesInv, SlidesTyped, MessagesCome, NothingYet, ShowRows, RowStates, ClosePiece, jobVars
<1>11. ASSUME NEW w \in Renderers, Stitch(w) PROVE MessagesCome'
  BY <1>11, SlideSettings DEF SlidesInv, SlidesTyped, MessagesCome, NothingYet, ShowRows, RowStates, Stitch, jobVars
<1>12. ASSUME NEW w \in Renderers, Joined(w) PROVE MessagesCome'
  BY <1>12, SlideSettings DEF SlidesInv, SlidesTyped, MessagesCome, NothingYet, ShowRows, RowStates, Joined, jobVars
<1>13. ASSUME NEW w \in Renderers, Move(w) PROVE MessagesCome'
  BY <1>13, SlideSettings DEF SlidesInv, SlidesTyped, MessagesCome, NothingYet, ShowRows, RowStates, Move, jobVars
<1>14. ASSUME NEW w \in Renderers, Finish(w) PROVE MessagesCome'
  BY <1>14, SlideSettings DEF SlidesInv, SlidesTyped, MessagesCome, NothingYet, ShowRows, RowStates, Finish, jobVars
<1>15. ASSUME NEW w \in Renderers, Fail(w) PROVE MessagesCome'
  BY <1>15, SlideSettings DEF SlidesInv, SlidesTyped, MessagesCome, NothingYet, ShowRows, RowStates, Fail, jobVars
<1>16. ASSUME NEW w \in Renderers, CheckFails(w) PROVE MessagesCome'
  BY <1>16, SlideSettings DEF SlidesInv, SlidesTyped, MessagesCome, NothingYet, ShowRows, RowStates, CheckFails, jobVars
<1>17. ASSUME NEW w \in Renderers, EncodeFails(w) PROVE MessagesCome'
  BY <1>17, SlideSettings DEF SlidesInv, SlidesTyped, MessagesCome, NothingYet, ShowRows, RowStates, EncodeFails, jobVars
<1>18. ASSUME NEW w \in Renderers, WorkerDies(w) PROVE MessagesCome'
  BY <1>18, SlideSettings DEF SlidesInv, SlidesTyped, MessagesCome, NothingYet, ShowRows, RowStates, WorkerDies, jobVars
<1> QED BY <1>1, <1>2, <1>3, <1>4, <1>5, <1>6, <1>7, <1>8, <1>9, <1>10, <1>11, <1>12, <1>13, <1>14, <1>15, <1>16, <1>17, <1>18 DEF SlidesNext, RenderStep

LEMMA NothingKept ==
    ASSUME SlidesInv, SlidesNext
    PROVE  NothingYet'
<1>1. ASSUME Propose PROVE NothingYet'
  BY <1>1, SlideSettings DEF SlidesInv, SlidesTyped, NothingYet, ShowRows, RowStates, Jobs, Rest, Propose, jobVars
<1>2. ASSUME Create PROVE NothingYet'
  BY <1>2, SlideSettings DEF SlidesInv, SlidesTyped, NothingYet, ShowRows, RowStates, Jobs, Rest, Create, jobVars
<1>3. ASSUME Queue PROVE NothingYet'
  BY <1>3, SlideSettings DEF SlidesInv, SlidesTyped, NothingYet, ShowRows, RowStates, Jobs, Rest, Queue, jobVars
<1>4. ASSUME CheckRerender PROVE NothingYet'
  BY <1>4, SlideSettings DEF SlidesInv, SlidesTyped, NothingYet, ShowRows, RowStates, Jobs, Rest, CheckRerender, jobVars
<1>5. ASSUME Rerender PROVE NothingYet'
  BY <1>5, SlideSettings DEF SlidesInv, SlidesTyped, NothingYet, ShowRows, RowStates, Jobs, Rest, Rerender, jobVars
<1>6. ASSUME DeleteShow PROVE NothingYet'
  BY <1>6, SlideSettings DEF SlidesInv, SlidesTyped, NothingYet, ShowRows, RowStates, Jobs, Rest, DeleteShow, jobVars
<1>7. ASSUME NEW w \in Renderers, Begin(w) PROVE NothingYet'
  BY <1>7, SlideSettings DEF SlidesInv, SlidesTyped, NothingYet, ShowRows, RowStates, Jobs, Rest, Begin, jobVars
<1>8. ASSUME NEW w \in Renderers, PlanRender(w) PROVE NothingYet'
  BY <1>8, SlideSettings DEF SlidesInv, SlidesTyped, NothingYet, ShowRows, RowStates, Jobs, Rest, PlanRender, jobVars
<1>9. ASSUME NEW w \in Renderers, OpenPiece(w) PROVE NothingYet'
  BY <1>9, SlideSettings DEF SlidesInv, SlidesTyped, NothingYet, ShowRows, RowStates, Jobs, Rest, OpenPiece, jobVars
<1>10. ASSUME NEW w \in Renderers, ClosePiece(w) PROVE NothingYet'
  BY <1>10, SlideSettings DEF SlidesInv, SlidesTyped, NothingYet, ShowRows, RowStates, Jobs, Rest, ClosePiece, jobVars
<1>11. ASSUME NEW w \in Renderers, Stitch(w) PROVE NothingYet'
  BY <1>11, SlideSettings DEF SlidesInv, SlidesTyped, NothingYet, ShowRows, RowStates, Jobs, Rest, Stitch, jobVars
<1>12. ASSUME NEW w \in Renderers, Joined(w) PROVE NothingYet'
  BY <1>12, SlideSettings DEF SlidesInv, SlidesTyped, NothingYet, ShowRows, RowStates, Jobs, Rest, Joined, jobVars
<1>13. ASSUME NEW w \in Renderers, Move(w) PROVE NothingYet'
  BY <1>13, SlideSettings DEF SlidesInv, SlidesTyped, NothingYet, ShowRows, RowStates, Jobs, Rest, Move, jobVars
<1>14. ASSUME NEW w \in Renderers, Finish(w) PROVE NothingYet'
  BY <1>14, SlideSettings DEF SlidesInv, SlidesTyped, NothingYet, ShowRows, RowStates, Jobs, Rest, Finish, jobVars
<1>15. ASSUME NEW w \in Renderers, Fail(w) PROVE NothingYet'
  BY <1>15, SlideSettings DEF SlidesInv, SlidesTyped, NothingYet, ShowRows, RowStates, Jobs, Rest, Fail, jobVars
<1>16. ASSUME NEW w \in Renderers, CheckFails(w) PROVE NothingYet'
  BY <1>16, SlideSettings DEF SlidesInv, SlidesTyped, NothingYet, ShowRows, RowStates, Jobs, Rest, CheckFails, jobVars
<1>17. ASSUME NEW w \in Renderers, EncodeFails(w) PROVE NothingYet'
  BY <1>17, SlideSettings DEF SlidesInv, SlidesTyped, NothingYet, ShowRows, RowStates, Jobs, Rest, EncodeFails, jobVars
<1>18. ASSUME NEW w \in Renderers, WorkerDies(w) PROVE NothingYet'
  BY <1>18, SlideSettings DEF SlidesInv, SlidesTyped, NothingYet, ShowRows, RowStates, Jobs, Rest, WorkerDies, jobVars
<1> QED BY <1>1, <1>2, <1>3, <1>4, <1>5, <1>6, <1>7, <1>8, <1>9, <1>10, <1>11, <1>12, <1>13, <1>14, <1>15, <1>16, <1>17, <1>18 DEF SlidesNext, RenderStep

LEMMA RowKept ==
    ASSUME SlidesInv, SlidesNext
    PROVE  RowSound'
<1>1. ASSUME Propose PROVE RowSound'
  BY <1>1, SlideSettings DEF SlidesInv, SlidesTyped, RowSound, ShowRows, RowStates, Propose, jobVars
<1>2. ASSUME Create PROVE RowSound'
  BY <1>2, SlideSettings DEF SlidesInv, SlidesTyped, RowSound, ShowRows, RowStates, Create, jobVars
<1>3. ASSUME Queue PROVE RowSound'
  BY <1>3, SlideSettings DEF SlidesInv, SlidesTyped, RowSound, ShowRows, RowStates, Queue, jobVars
<1>4. ASSUME CheckRerender PROVE RowSound'
  BY <1>4, SlideSettings DEF SlidesInv, SlidesTyped, RowSound, ShowRows, RowStates, CheckRerender, jobVars
<1>5. ASSUME Rerender PROVE RowSound'
  <2>1. /\ show'.slides = show.slides /\ show'.pace = show.pace
        /\ show.status = "absent" => show'.status = "absent"
        /\ show'.status = "ready" => show'.path
    BY <1>5 DEF Rerender, SlidesInv, SlidesTyped, RowSound, NothingYet, ShowRows, RowStates
  <2> QED BY <2>1 DEF SlidesInv, RowSound, IsInjective
<1>6. ASSUME DeleteShow PROVE RowSound'
  BY <1>6, SlideSettings DEF SlidesInv, SlidesTyped, RowSound, ShowRows, RowStates, DeleteShow, jobVars
<1>7. ASSUME NEW w \in Renderers, Begin(w) PROVE RowSound'
  <2>1. /\ show'.slides = show.slides /\ show'.pace = show.pace
        /\ show.status = "absent" => show'.status = "absent"
        /\ show'.status = "ready" => show'.path
    BY <1>7 DEF Begin, SlidesInv, SlidesTyped, RowSound, NothingYet, ShowRows, RowStates
  <2> QED BY <2>1 DEF SlidesInv, RowSound, IsInjective
<1>8. ASSUME NEW w \in Renderers, PlanRender(w) PROVE RowSound'
  BY <1>8, SlideSettings DEF SlidesInv, SlidesTyped, RowSound, ShowRows, RowStates, PlanRender, jobVars
<1>9. ASSUME NEW w \in Renderers, OpenPiece(w) PROVE RowSound'
  BY <1>9, SlideSettings DEF SlidesInv, SlidesTyped, RowSound, ShowRows, RowStates, OpenPiece, jobVars
<1>10. ASSUME NEW w \in Renderers, ClosePiece(w) PROVE RowSound'
  BY <1>10, SlideSettings DEF SlidesInv, SlidesTyped, RowSound, ShowRows, RowStates, ClosePiece, jobVars
<1>11. ASSUME NEW w \in Renderers, Stitch(w) PROVE RowSound'
  BY <1>11, SlideSettings DEF SlidesInv, SlidesTyped, RowSound, ShowRows, RowStates, Stitch, jobVars
<1>12. ASSUME NEW w \in Renderers, Joined(w) PROVE RowSound'
  BY <1>12, SlideSettings DEF SlidesInv, SlidesTyped, RowSound, ShowRows, RowStates, Joined, jobVars
<1>13. ASSUME NEW w \in Renderers, Move(w) PROVE RowSound'
  BY <1>13, SlideSettings DEF SlidesInv, SlidesTyped, RowSound, ShowRows, RowStates, Move, jobVars
<1>14. ASSUME NEW w \in Renderers, Finish(w) PROVE RowSound'
  <2>1. /\ show'.slides = show.slides /\ show'.pace = show.pace
        /\ show.status = "absent" => show'.status = "absent"
        /\ show'.status = "ready" => show'.path
    BY <1>14 DEF Finish, SlidesInv, SlidesTyped, RowSound, NothingYet, ShowRows, RowStates
  <2> QED BY <2>1 DEF SlidesInv, RowSound, IsInjective
<1>15. ASSUME NEW w \in Renderers, Fail(w) PROVE RowSound'
  <2>1. /\ show'.slides = show.slides /\ show'.pace = show.pace
        /\ show.status = "absent" => show'.status = "absent"
        /\ show'.status = "ready" => show'.path
    BY <1>15 DEF Fail, SlidesInv, SlidesTyped, RowSound, NothingYet, ShowRows, RowStates
  <2> QED BY <2>1 DEF SlidesInv, RowSound, IsInjective
<1>16. ASSUME NEW w \in Renderers, CheckFails(w) PROVE RowSound'
  BY <1>16, SlideSettings DEF SlidesInv, SlidesTyped, RowSound, ShowRows, RowStates, CheckFails, jobVars
<1>17. ASSUME NEW w \in Renderers, EncodeFails(w) PROVE RowSound'
  BY <1>17, SlideSettings DEF SlidesInv, SlidesTyped, RowSound, ShowRows, RowStates, EncodeFails, jobVars
<1>18. ASSUME NEW w \in Renderers, WorkerDies(w) PROVE RowSound'
  BY <1>18, SlideSettings DEF SlidesInv, SlidesTyped, RowSound, ShowRows, RowStates, WorkerDies, jobVars
<1> QED BY <1>1, <1>2, <1>3, <1>4, <1>5, <1>6, <1>7, <1>8, <1>9, <1>10, <1>11, <1>12, <1>13, <1>14, <1>15, <1>16, <1>17, <1>18 DEF SlidesNext, RenderStep

LEMMA ByItselfKept ==
    ASSUME SlidesInv, SlidesNext
    PROVE  RenderByItself'
<1>1. ASSUME Propose PROVE RenderByItself'
  BY <1>1, SlideSettings DEF SlidesInv, SlidesTyped, RenderByItself, Jobs, AtWork, WorkDirs, Rest, NoDir, NoFilm, Propose, jobVars
<1>2. ASSUME Create PROVE RenderByItself'
  BY <1>2, SlideSettings DEF SlidesInv, SlidesTyped, RenderByItself, Jobs, AtWork, WorkDirs, Rest, NoDir, NoFilm, Create, jobVars
<1>3. ASSUME Queue PROVE RenderByItself'
  BY <1>3, SlideSettings DEF SlidesInv, SlidesTyped, RenderByItself, Jobs, AtWork, WorkDirs, Rest, NoDir, NoFilm, Queue, jobVars
<1>4. ASSUME CheckRerender PROVE RenderByItself'
  BY <1>4, SlideSettings DEF SlidesInv, SlidesTyped, RenderByItself, Jobs, AtWork, WorkDirs, Rest, NoDir, NoFilm, CheckRerender, jobVars
<1>5. ASSUME Rerender PROVE RenderByItself'
  BY <1>5, SlideSettings DEF SlidesInv, SlidesTyped, RenderByItself, Jobs, AtWork, WorkDirs, Rest, NoDir, NoFilm, Rerender, jobVars
<1>6. ASSUME DeleteShow PROVE RenderByItself'
  BY <1>6, SlideSettings DEF SlidesInv, SlidesTyped, RenderByItself, Jobs, AtWork, WorkDirs, Rest, NoDir, NoFilm, DeleteShow, jobVars
<1>7. ASSUME NEW w \in Renderers, Begin(w) PROVE RenderByItself'
  <2>1. CASE UNCHANGED <<job, doubled>>
    BY <1>7, <2>1 DEF Begin, SlidesInv, RenderByItself
  <2>2. CASE job' = [job EXCEPT ![w].pc = "plan"] /\ doubled' = (doubled \/ \E v \in Renderers : job[v].pc # "idle")
    <3>1. job'[w].pc = "plan" /\ \A v \in Renderers \ {w} : job'[v] = job[v]
      BY <2>2 DEF SlidesInv, SlidesTyped, Jobs
    <3>2. ~doubled' => ~doubled /\ \A v \in Renderers : job[v].pc = "idle"
      BY <2>2
    <3>3. UNCHANGED <<dir, film>>
      BY <1>7 DEF Begin
    <3> QED BY <3>1, <3>2, <3>3 DEF SlidesInv, RenderByItself
  <2> QED BY <1>7, <2>1, <2>2 DEF Begin
<1>8. ASSUME NEW w \in Renderers, PlanRender(w) PROVE RenderByItself'
  BY <1>8, SlideSettings DEF SlidesInv, SlidesTyped, RenderByItself, Jobs, AtWork, WorkDirs, Rest, NoDir, NoFilm, PlanRender, jobVars
<1>9. ASSUME NEW w \in Renderers, OpenPiece(w) PROVE RenderByItself'
  <2>1. /\ job'[w].pc \in {"encode", "failing"} /\ job[w].pc # "idle"
        /\ \A v \in Renderers \ {w} : job'[v] = job[v]
    BY <1>9 DEF OpenPiece, SlidesInv, SlidesTyped, Jobs
  <2>2. dir'.staged = dir.staged /\ UNCHANGED <<film, doubled>>
    BY <1>9 DEF OpenPiece, SlidesInv, SlidesTyped, WorkDirs
  <2> QED BY <2>1, <2>2 DEF SlidesInv, RenderByItself
<1>10. ASSUME NEW w \in Renderers, ClosePiece(w) PROVE RenderByItself'
  <2>1. /\ job'[w].pc \in {"render", "failing"} /\ job[w].pc # "idle"
        /\ \A v \in Renderers \ {w} : job'[v] = job[v]
    BY <1>10 DEF ClosePiece, SlidesInv, SlidesTyped, Jobs
  <2>2. dir'.staged = dir.staged /\ UNCHANGED <<film, doubled>>
    BY <1>10 DEF ClosePiece, SlidesInv, SlidesTyped, WorkDirs
  <2> QED BY <2>1, <2>2 DEF SlidesInv, RenderByItself
<1>11. ASSUME NEW w \in Renderers, Stitch(w) PROVE RenderByItself'
  BY <1>11, SlideSettings DEF SlidesInv, SlidesTyped, RenderByItself, Jobs, AtWork, WorkDirs, Rest, NoDir, NoFilm, Stitch, jobVars
<1>12. ASSUME NEW w \in Renderers, Joined(w) PROVE RenderByItself'
  BY <1>12, SlideSettings DEF SlidesInv, SlidesTyped, RenderByItself, Jobs, AtWork, WorkDirs, Rest, NoDir, NoFilm, Joined, jobVars
<1>13. ASSUME NEW w \in Renderers, Move(w) PROVE RenderByItself'
  <2>1. /\ job'[w].pc \in {"done", "failing"} /\ job[w].pc = "move" /\ \A v \in Renderers \ {w} : job'[v] = job[v]
        /\ doubled' = doubled
    BY <1>13 DEF Move, jobVars, SlidesInv, SlidesTyped, Jobs
  <2>2. /\ film' = film \/ film'.state = dir.staged
        /\ dir'.staged \in {dir.staged, "none"}
    BY <1>13 DEF Move, SlidesInv, SlidesTyped, WorkDirs
  <2> QED BY <2>1, <2>2 DEF SlidesInv, RenderByItself
<1>14. ASSUME NEW w \in Renderers, Finish(w) PROVE RenderByItself'
  BY <1>14, SlideSettings DEF SlidesInv, SlidesTyped, RenderByItself, Jobs, AtWork, WorkDirs, Rest, NoDir, NoFilm, Finish, jobVars
<1>15. ASSUME NEW w \in Renderers, Fail(w) PROVE RenderByItself'
  BY <1>15, SlideSettings DEF SlidesInv, SlidesTyped, RenderByItself, Jobs, AtWork, WorkDirs, Rest, NoDir, NoFilm, Fail, jobVars
<1>16. ASSUME NEW w \in Renderers, CheckFails(w) PROVE RenderByItself'
  BY <1>16, SlideSettings DEF SlidesInv, SlidesTyped, RenderByItself, Jobs, AtWork, WorkDirs, Rest, NoDir, NoFilm, CheckFails, jobVars
<1>17. ASSUME NEW w \in Renderers, EncodeFails(w) PROVE RenderByItself'
  BY <1>17, SlideSettings DEF SlidesInv, SlidesTyped, RenderByItself, Jobs, AtWork, WorkDirs, Rest, NoDir, NoFilm, EncodeFails, jobVars
<1>18. ASSUME NEW w \in Renderers, WorkerDies(w) PROVE RenderByItself'
  BY <1>18, SlideSettings DEF SlidesInv, SlidesTyped, RenderByItself, Jobs, AtWork, WorkDirs, Rest, NoDir, NoFilm, WorkerDies, jobVars
<1> QED BY <1>1, <1>2, <1>3, <1>4, <1>5, <1>6, <1>7, <1>8, <1>9, <1>10, <1>11, <1>12, <1>13, <1>14, <1>15, <1>16, <1>17, <1>18 DEF SlidesNext, RenderStep

LEMMA NamedKept ==
    ASSUME SlidesInv, SlidesNext
    PROVE  FilmNamed'
<1>1. ASSUME Propose PROVE FilmNamed'
  BY <1>1, SlideSettings DEF SlidesInv, SlidesTyped, FilmNamed, NothingYet, ShowRows, RowStates, Jobs, AtWork, Rest, NoFilm, Propose, jobVars
<1>2. ASSUME Create PROVE FilmNamed'
  BY <1>2, SlideSettings DEF SlidesInv, SlidesTyped, FilmNamed, NothingYet, ShowRows, RowStates, Jobs, AtWork, Rest, NoFilm, Create, jobVars
<1>3. ASSUME Queue PROVE FilmNamed'
  BY <1>3, SlideSettings DEF SlidesInv, SlidesTyped, FilmNamed, NothingYet, ShowRows, RowStates, Jobs, AtWork, Rest, NoFilm, Queue, jobVars
<1>4. ASSUME CheckRerender PROVE FilmNamed'
  BY <1>4, SlideSettings DEF SlidesInv, SlidesTyped, FilmNamed, NothingYet, ShowRows, RowStates, Jobs, AtWork, Rest, NoFilm, CheckRerender, jobVars
<1>5. ASSUME Rerender PROVE FilmNamed'
  BY <1>5, SlideSettings DEF SlidesInv, SlidesTyped, FilmNamed, NothingYet, ShowRows, RowStates, Jobs, AtWork, Rest, NoFilm, Rerender, jobVars
<1>6. ASSUME DeleteShow PROVE FilmNamed'
  BY <1>6, SlideSettings DEF SlidesInv, SlidesTyped, FilmNamed, NothingYet, ShowRows, RowStates, Jobs, AtWork, Rest, NoFilm, DeleteShow, jobVars
<1>7. ASSUME NEW w \in Renderers, Begin(w) PROVE FilmNamed'
  <2>1. UNCHANGED <<film, tidy>> /\ (show.status = "deleted" => UNCHANGED <<show, job>>)
    BY <1>7 DEF Begin
  <2>2. show.status # "deleted" => show'.status = "rendering" /\ show'.path = show.path
    BY <1>7 DEF Begin, SlidesInv, SlidesTyped, ShowRows
  <2>3. job[w].pc = "idle" /\ \A v \in Renderers \ {w} : job'[v] = job[v]
    BY <1>7 DEF Begin, Rest, SlidesInv, SlidesTyped
  <2> QED BY <2>1, <2>2, <2>3 DEF SlidesInv, FilmNamed
<1>8. ASSUME NEW w \in Renderers, PlanRender(w) PROVE FilmNamed'
  BY <1>8, SlideSettings DEF SlidesInv, SlidesTyped, FilmNamed, NothingYet, ShowRows, RowStates, Jobs, AtWork, Rest, NoFilm, PlanRender, jobVars
<1>9. ASSUME NEW w \in Renderers, OpenPiece(w) PROVE FilmNamed'
  BY <1>9, SlideSettings DEF SlidesInv, SlidesTyped, FilmNamed, NothingYet, ShowRows, RowStates, Jobs, AtWork, Rest, NoFilm, OpenPiece, jobVars
<1>10. ASSUME NEW w \in Renderers, ClosePiece(w) PROVE FilmNamed'
  BY <1>10, SlideSettings DEF SlidesInv, SlidesTyped, FilmNamed, NothingYet, ShowRows, RowStates, Jobs, AtWork, Rest, NoFilm, ClosePiece, jobVars
<1>11. ASSUME NEW w \in Renderers, Stitch(w) PROVE FilmNamed'
  BY <1>11, SlideSettings DEF SlidesInv, SlidesTyped, FilmNamed, NothingYet, ShowRows, RowStates, Jobs, AtWork, Rest, NoFilm, Stitch, jobVars
<1>12. ASSUME NEW w \in Renderers, Joined(w) PROVE FilmNamed'
  BY <1>12, SlideSettings DEF SlidesInv, SlidesTyped, FilmNamed, NothingYet, ShowRows, RowStates, Jobs, AtWork, Rest, NoFilm, Joined, jobVars
<1>13. ASSUME NEW w \in Renderers, Move(w) PROVE FilmNamed'
  BY <1>13, SlideSettings DEF SlidesInv, SlidesTyped, FilmNamed, NothingYet, ShowRows, RowStates, Jobs, AtWork, Rest, NoFilm, Move, jobVars
<1>14. ASSUME NEW w \in Renderers, Finish(w) PROVE FilmNamed'
  BY <1>14, SlideSettings DEF SlidesInv, SlidesTyped, FilmNamed, NothingYet, ShowRows, RowStates, Jobs, AtWork, Rest, NoFilm, Finish, jobVars
<1>15. ASSUME NEW w \in Renderers, Fail(w) PROVE FilmNamed'
  BY <1>15, SlideSettings DEF SlidesInv, SlidesTyped, FilmNamed, NothingYet, ShowRows, RowStates, Jobs, AtWork, Rest, NoFilm, Fail, jobVars
<1>16. ASSUME NEW w \in Renderers, CheckFails(w) PROVE FilmNamed'
  BY <1>16, SlideSettings DEF SlidesInv, SlidesTyped, FilmNamed, NothingYet, ShowRows, RowStates, Jobs, AtWork, Rest, NoFilm, CheckFails, jobVars
<1>17. ASSUME NEW w \in Renderers, EncodeFails(w) PROVE FilmNamed'
  BY <1>17, SlideSettings DEF SlidesInv, SlidesTyped, FilmNamed, NothingYet, ShowRows, RowStates, Jobs, AtWork, Rest, NoFilm, EncodeFails, jobVars
<1>18. ASSUME NEW w \in Renderers, WorkerDies(w) PROVE FilmNamed'
  BY <1>18, SlideSettings DEF SlidesInv, SlidesTyped, FilmNamed, NothingYet, ShowRows, RowStates, Jobs, AtWork, Rest, NoFilm, WorkerDies, jobVars
<1> QED BY <1>1, <1>2, <1>3, <1>4, <1>5, <1>6, <1>7, <1>8, <1>9, <1>10, <1>11, <1>12, <1>13, <1>14, <1>15, <1>16, <1>17, <1>18 DEF SlidesNext, RenderStep

(* The plan is the row's. *)
LEMMA PlanStays ==
    ASSUME show'.slides = show.slides, show'.pace = show.pace
    PROVE  Plan' = Plan /\ (PlanFits <=> PlanFits')
<1>1. UNCHANGED <<SlideFrames, FadeFrames>>
  BY DEF SlideFrames, FadeFrames
<1>2. \A i : BodyBounds(i)' = BodyBounds(i) /\ Fade(i)' = Fade(i)
  BY <1>1 DEF BodyBounds, Fade
<1> QED BY <1>1, <1>2 DEF Plan, PlanFits

LEMMA PlannedKept ==
    ASSUME SlidesInv, SlidesNext
    PROVE  FilmAsPlanned'
<1>1. ASSUME Propose PROVE FilmAsPlanned'
  <2>1. Plan' = Plan /\ (PlanFits <=> PlanFits')
    <3>1. show'.slides = show.slides /\ show'.pace = show.pace
      BY <1>1 DEF Propose, jobVars, SlidesInv, SlidesTyped, ShowRows
    <3> QED BY <3>1, PlanStays
  <2> QED BY <1>1, <2>1 DEF SlidesInv, SlidesTyped, FilmAsPlanned, Jobs, AtWork, Rest, NoFilm, Propose, jobVars
<1>2. ASSUME Create PROVE FilmAsPlanned'
  <2>1. film.state = "none" /\ \A w \in Renderers : job[w].pc = "idle"
    BY <1>2 DEF Create, SlidesInv, NothingYet
  <2>2. UNCHANGED <<film, job>>
    BY <1>2 DEF Create
  <2> QED BY <2>1, <2>2 DEF FilmAsPlanned, AtWork
<1>3. ASSUME Queue PROVE FilmAsPlanned'
  <2>1. Plan' = Plan /\ (PlanFits <=> PlanFits')
    <3>1. show'.slides = show.slides /\ show'.pace = show.pace
      BY <1>3 DEF Queue, jobVars, SlidesInv, SlidesTyped, ShowRows
    <3> QED BY <3>1, PlanStays
  <2> QED BY <1>3, <2>1 DEF SlidesInv, SlidesTyped, FilmAsPlanned, Jobs, AtWork, Rest, NoFilm, Queue, jobVars
<1>4. ASSUME CheckRerender PROVE FilmAsPlanned'
  <2>1. Plan' = Plan /\ (PlanFits <=> PlanFits')
    <3>1. show'.slides = show.slides /\ show'.pace = show.pace
      BY <1>4 DEF CheckRerender, jobVars, SlidesInv, SlidesTyped, ShowRows
    <3> QED BY <3>1, PlanStays
  <2> QED BY <1>4, <2>1 DEF SlidesInv, SlidesTyped, FilmAsPlanned, Jobs, AtWork, Rest, NoFilm, CheckRerender, jobVars
<1>5. ASSUME Rerender PROVE FilmAsPlanned'
  <2>1. Plan' = Plan /\ (PlanFits <=> PlanFits')
    <3>1. show'.slides = show.slides /\ show'.pace = show.pace
      BY <1>5 DEF Rerender, jobVars, SlidesInv, SlidesTyped, ShowRows
    <3> QED BY <3>1, PlanStays
  <2> QED BY <1>5, <2>1 DEF SlidesInv, SlidesTyped, FilmAsPlanned, Jobs, AtWork, Rest, NoFilm, Rerender, jobVars
<1>6. ASSUME DeleteShow PROVE FilmAsPlanned'
  <2>1. Plan' = Plan /\ (PlanFits <=> PlanFits')
    <3>1. show'.slides = show.slides /\ show'.pace = show.pace
      BY <1>6 DEF DeleteShow, jobVars, SlidesInv, SlidesTyped, ShowRows
    <3> QED BY <3>1, PlanStays
  <2> QED BY <1>6, <2>1 DEF SlidesInv, SlidesTyped, FilmAsPlanned, Jobs, AtWork, Rest, NoFilm, DeleteShow, jobVars
<1>7. ASSUME NEW w \in Renderers, Begin(w) PROVE FilmAsPlanned'
  <2>1. Plan' = Plan /\ (PlanFits <=> PlanFits')
    <3>1. show'.slides = show.slides /\ show'.pace = show.pace
      BY <1>7 DEF Begin, jobVars, SlidesInv, SlidesTyped, ShowRows
    <3> QED BY <3>1, PlanStays
  <2>2. UNCHANGED film /\ (job' = job \/ job' = [job EXCEPT ![w].pc = "plan"])
    BY <1>7 DEF Begin
  <2>3. job \in [Renderers -> Jobs]
    BY DEF SlidesInv, SlidesTyped
  <2>4. \A v \in Renderers : job'[v].pc \in AtWork => job[v].pc \in AtWork
    BY <2>2, <2>3 DEF Jobs, AtWork
  <2> QED BY <2>1, <2>2, <2>4 DEF SlidesInv, FilmAsPlanned
<1>8. ASSUME NEW w \in Renderers, PlanRender(w) PROVE FilmAsPlanned'
  <2>1. Plan' = Plan /\ (PlanFits <=> PlanFits')
    <3>1. show'.slides = show.slides /\ show'.pace = show.pace
      BY <1>8 DEF PlanRender, jobVars, SlidesInv, SlidesTyped, ShowRows
    <3> QED BY <3>1, PlanStays
  <2> QED BY <1>8, <2>1 DEF SlidesInv, SlidesTyped, FilmAsPlanned, Jobs, AtWork, Rest, NoFilm, PlanRender, jobVars
<1>9. ASSUME NEW w \in Renderers, OpenPiece(w) PROVE FilmAsPlanned'
  <2>1. Plan' = Plan /\ (PlanFits <=> PlanFits')
    <3>1. show'.slides = show.slides /\ show'.pace = show.pace
      BY <1>9 DEF OpenPiece, jobVars, SlidesInv, SlidesTyped, ShowRows
    <3> QED BY <3>1, PlanStays
  <2> QED BY <1>9, <2>1 DEF SlidesInv, SlidesTyped, FilmAsPlanned, Jobs, AtWork, Rest, NoFilm, OpenPiece, jobVars
<1>10. ASSUME NEW w \in Renderers, ClosePiece(w) PROVE FilmAsPlanned'
  <2>1. Plan' = Plan /\ (PlanFits <=> PlanFits')
    <3>1. show'.slides = show.slides /\ show'.pace = show.pace
      BY <1>10 DEF ClosePiece, jobVars, SlidesInv, SlidesTyped, ShowRows
    <3> QED BY <3>1, PlanStays
  <2> QED BY <1>10, <2>1 DEF SlidesInv, SlidesTyped, FilmAsPlanned, Jobs, AtWork, Rest, NoFilm, ClosePiece, jobVars
<1>11. ASSUME NEW w \in Renderers, Stitch(w) PROVE FilmAsPlanned'
  <2>1. Plan' = Plan /\ (PlanFits <=> PlanFits')
    <3>1. show'.slides = show.slides /\ show'.pace = show.pace
      BY <1>11 DEF Stitch, jobVars, SlidesInv, SlidesTyped, ShowRows
    <3> QED BY <3>1, PlanStays
  <2> QED BY <1>11, <2>1 DEF SlidesInv, SlidesTyped, FilmAsPlanned, Jobs, AtWork, Rest, NoFilm, Stitch, jobVars
<1>12. ASSUME NEW w \in Renderers, Joined(w) PROVE FilmAsPlanned'
  <2>1. Plan' = Plan /\ (PlanFits <=> PlanFits')
    <3>1. show'.slides = show.slides /\ show'.pace = show.pace
      BY <1>12 DEF Joined, jobVars, SlidesInv, SlidesTyped, ShowRows
    <3> QED BY <3>1, PlanStays
  <2> QED BY <1>12, <2>1 DEF SlidesInv, SlidesTyped, FilmAsPlanned, Jobs, AtWork, Rest, NoFilm, Joined, jobVars
<1>13. ASSUME NEW w \in Renderers, Move(w) PROVE FilmAsPlanned'
  <2>1. Plan' = Plan /\ (PlanFits <=> PlanFits')
    <3>1. show'.slides = show.slides /\ show'.pace = show.pace
      BY <1>13 DEF Move, jobVars, SlidesInv, SlidesTyped, ShowRows
    <3> QED BY <3>1, PlanStays
  <2> QED BY <1>13, <2>1 DEF SlidesInv, SlidesTyped, FilmAsPlanned, Jobs, AtWork, Rest, NoFilm, Move, jobVars
<1>14. ASSUME NEW w \in Renderers, Finish(w) PROVE FilmAsPlanned'
  <2>1. Plan' = Plan /\ (PlanFits <=> PlanFits')
    <3>1. show'.slides = show.slides /\ show'.pace = show.pace
      BY <1>14 DEF Finish, jobVars, SlidesInv, SlidesTyped, ShowRows
    <3> QED BY <3>1, PlanStays
  <2> QED BY <1>14, <2>1 DEF SlidesInv, SlidesTyped, FilmAsPlanned, Jobs, AtWork, Rest, NoFilm, Finish, jobVars
<1>15. ASSUME NEW w \in Renderers, Fail(w) PROVE FilmAsPlanned'
  <2>1. Plan' = Plan /\ (PlanFits <=> PlanFits')
    <3>1. show'.slides = show.slides /\ show'.pace = show.pace
      BY <1>15 DEF Fail, jobVars, SlidesInv, SlidesTyped, ShowRows
    <3> QED BY <3>1, PlanStays
  <2> QED BY <1>15, <2>1 DEF SlidesInv, SlidesTyped, FilmAsPlanned, Jobs, AtWork, Rest, NoFilm, Fail, jobVars
<1>16. ASSUME NEW w \in Renderers, CheckFails(w) PROVE FilmAsPlanned'
  <2>1. Plan' = Plan /\ (PlanFits <=> PlanFits')
    <3>1. show'.slides = show.slides /\ show'.pace = show.pace
      BY <1>16 DEF CheckFails, jobVars, SlidesInv, SlidesTyped, ShowRows
    <3> QED BY <3>1, PlanStays
  <2> QED BY <1>16, <2>1 DEF SlidesInv, SlidesTyped, FilmAsPlanned, Jobs, AtWork, Rest, NoFilm, CheckFails, jobVars
<1>17. ASSUME NEW w \in Renderers, EncodeFails(w) PROVE FilmAsPlanned'
  <2>1. Plan' = Plan /\ (PlanFits <=> PlanFits')
    <3>1. show'.slides = show.slides /\ show'.pace = show.pace
      BY <1>17 DEF EncodeFails, jobVars, SlidesInv, SlidesTyped, ShowRows
    <3> QED BY <3>1, PlanStays
  <2> QED BY <1>17, <2>1 DEF SlidesInv, SlidesTyped, FilmAsPlanned, Jobs, AtWork, Rest, NoFilm, EncodeFails, jobVars
<1>18. ASSUME NEW w \in Renderers, WorkerDies(w) PROVE FilmAsPlanned'
  <2>1. Plan' = Plan /\ (PlanFits <=> PlanFits')
    <3>1. show'.slides = show.slides /\ show'.pace = show.pace
      BY <1>18 DEF WorkerDies, jobVars, SlidesInv, SlidesTyped, ShowRows
    <3> QED BY <3>1, PlanStays
  <2> QED BY <1>18, <2>1 DEF SlidesInv, SlidesTyped, FilmAsPlanned, Jobs, AtWork, Rest, NoFilm, WorkerDies, jobVars
<1> QED BY <1>1, <1>2, <1>3, <1>4, <1>5, <1>6, <1>7, <1>8, <1>9, <1>10, <1>11, <1>12, <1>13, <1>14, <1>15, <1>16, <1>17, <1>18 DEF SlidesNext, RenderStep

(* Bodies and fades abut: every slide is played from its first frame to its *)
(* last, none of it twice.                                                  *)
LEMMA PlanWhole ==
    ASSUME show.slides \in Seq(Photos), show.pace \in Paces, film.cut = Plan, PlanFits,
           NEW i \in DOMAIN show.slides
    PROVE  /\ \A r, s \in Played(i) : r # s => r.to <= s.from \/ s.to <= r.from
           /\ \E r \in Played(i) : r.from = 0
           /\ \A r \in Played(i) : r.to = SlideFrames \/ \E s \in Played(i) : s.from = r.to
<1>1. PICK n \in Nat : n = Len(show.slides) /\ DOMAIN show.slides = 1..n /\ i \in 1..n
  BY LenProperties
<1>2. \A x \in Int : AtLeastOne(x) \in Nat
  BY DEF AtLeastOne
<1>3. \A x \in Nat : Rounded(x, 1000) \in Int
  BY DEF Rounded
<1>4. \A p \in Nat, q \in Nat : p * q \in Nat
  OBVIOUS
<1>5. PICK D \in Nat, F \in Nat : D = SlideFrames /\ F = FadeFrames
  <2>1. PICK h \in Nat, t \in Nat, fps \in Nat : h = show.pace.hold /\ t = show.pace.transition /\ fps = Fps
    BY SlideSettings
  <2>2. h * fps \in Nat /\ t * fps \in Nat
    BY <1>4
  <2>3. Rounded(h * fps, 1000) \in Int /\ Rounded(t * fps, 1000) \in Int
    BY <1>3, <2>2
  <2>4. AtLeastOne(Rounded(h * fps, 1000)) \in Nat /\ AtLeastOne(Rounded(t * fps, 1000)) \in Nat
    BY <1>2, <2>3
  <2>5. /\ SlideFrames = AtLeastOne(Rounded(h * fps, 1000))
        /\ FadeFrames = AtLeastOne(Rounded(t * fps, 1000))
    BY <2>1 DEF SlideFrames, FadeFrames
  <2> QED BY <2>4, <2>5
<1> DEFINE body == [slide |-> i, from |-> IF i > 1 THEN F ELSE 0, to |-> D - (IF i < n THEN F ELSE 0)]
           head == [slide |-> i, from |-> 0, to |-> F]
           tail == [slide |-> i, from |-> D - F, to |-> D]
<1>6. BodyBounds(i) = body /\ body.from < body.to
  BY <1>1, <1>5 DEF BodyBounds, PlanFits
<1>7. \A j : (\A r \in {BodyBounds(j)} : r.slide = j) /\ Fade(j) = {[slide |-> j, from |-> D - F, to |-> D],
                                                                  [slide |-> j + 1, from |-> 0, to |-> F]}
  BY <1>5 DEF BodyBounds, Fade
<1>8. /\ DOMAIN film.cut = 1..2 * n - 1
      /\ \A k \in 1..2 * n - 1 : film.cut[k] = IF k % 2 = 1 THEN {BodyBounds((k + 1) \div 2)} ELSE Fade(k \div 2)
  BY <1>1 DEF Plan
<1>9. ASSUME NEW r \in Played(i)
      PROVE  r = body \/ (i < n /\ r = tail) \/ (i > 1 /\ r = head)
  <2>1. PICK k \in 1..2 * n - 1 : r \in film.cut[k] /\ r.slide = i
    BY <1>8 DEF Played
  <2>2. CASE k % 2 = 1
    <3>1. r = BodyBounds((k + 1) \div 2)
      BY <1>8, <2>1, <2>2
    <3> QED BY <1>6, <1>7, <2>1, <3>1
  <2>3. CASE k % 2 # 1
    <3>1. PICK j \in Nat : j = k \div 2 /\ 1 <= j /\ j <= n - 1
      BY <2>1, <2>3
    <3>2. r \in Fade(j)
      BY <1>8, <2>1, <2>3, <3>1
    <3>3. r = [slide |-> j, from |-> D - F, to |-> D] \/ r = [slide |-> j + 1, from |-> 0, to |-> F]
      BY <1>7, <3>2
    <3>4. r = [slide |-> j, from |-> D - F, to |-> D] => j = i
      BY <2>1
    <3>5. r = [slide |-> j + 1, from |-> 0, to |-> F] => j + 1 = i
      BY <2>1
    <3> QED BY <3>1, <3>3, <3>4, <3>5
  <2> QED BY <2>2, <2>3
<1>10. body \in Played(i)
  <2>1. 2 * i - 1 \in 1..2 * n - 1 /\ (2 * i - 1) % 2 = 1 /\ ((2 * i - 1) + 1) \div 2 = i
    <3>1. PICK m \in Nat : m = i - 1 /\ i = m + 1
      BY <1>1
    <3>2. 2 * i - 1 = 2 * m + 1 /\ (2 * m + 1) % 2 = 1
      BY <3>1
    <3>3. (2 * i - 1) + 1 = 2 * i /\ (2 * i) \div 2 = i
      BY <1>1
    <3>4. 2 * i - 1 \in 1..2 * n - 1
      BY <1>1
    <3> QED BY <3>2, <3>3, <3>4
  <2>2. BodyBounds(i) \in film.cut[2 * i - 1]
    BY <1>8, <2>1
  <2> QED BY <1>6, <1>8, <2>1, <2>2 DEF Played
<1>11. i < n => tail \in Played(i)
  <2> SUFFICES ASSUME i < n PROVE tail \in Played(i)
    OBVIOUS
  <2>1. 2 * i \in 1..2 * n - 1 /\ (2 * i) % 2 # 1 /\ (2 * i) \div 2 = i
    BY <1>1
  <2>2. tail \in film.cut[2 * i]
    BY <1>7, <1>8, <2>1
  <2>3. tail.slide = i
    OBVIOUS
  <2> QED BY <1>8, <2>1, <2>2, <2>3 DEF Played
<1>12. i > 1 => head \in Played(i)
  <2> SUFFICES ASSUME i > 1 PROVE head \in Played(i)
    OBVIOUS
  <2>1. 2 * i - 2 \in 1..2 * n - 1 /\ (2 * i - 2) % 2 # 1 /\ (2 * i - 2) \div 2 = i - 1 /\ (i - 1) + 1 = i
    BY <1>1
  <2>2. Fade(i - 1) = {[slide |-> i - 1, from |-> D - F, to |-> D], [slide |-> (i - 1) + 1, from |-> 0, to |-> F]}
    BY <1>7
  <2>3. head \in film.cut[2 * i - 2]
    BY <1>8, <2>1, <2>2
  <2>4. head.slide = i
    OBVIOUS
  <2> QED BY <1>8, <2>1, <2>3, <2>4 DEF Played
<1>13. PICK a \in Int, b \in Int : /\ a = body.from /\ b = body.to /\ a < b
                                  /\ a = (IF i > 1 THEN F ELSE 0) /\ b = (IF i < n THEN D - F ELSE D)
  <2>1. body.from \in Int /\ body.to \in Int
    BY <1>1
  <2> QED BY <1>1, <1>6, <2>1
<1>14. head.from = 0 /\ head.to = F /\ tail.from = D - F /\ tail.to = D
  OBVIOUS
<1> HIDE DEF body, head, tail
<1>15. ASSUME NEW r \in Played(i), NEW s \in Played(i), r # s
       PROVE  r.to <= s.from \/ s.to <= r.from
  <2>1. i > 1 => a = F /\ head.to <= body.from
    BY <1>1, <1>13, <1>14
  <2>2. i < n => b = D - F /\ body.to <= tail.from
    BY <1>1, <1>13, <1>14
  <2>3. i > 1 /\ i < n => head.to <= tail.from
    BY <1>1, <1>5, <1>13, <1>14
  <2>4. r = body \/ (i < n /\ r = tail) \/ (i > 1 /\ r = head)
    BY <1>9
  <2>5. s = body \/ (i < n /\ s = tail) \/ (i > 1 /\ s = head)
    BY <1>9
  <2>6. CASE r = body
    BY <1>15, <2>1, <2>2, <2>5, <2>6
  <2>7. CASE i < n /\ r = tail
    BY <1>15, <2>2, <2>3, <2>5, <2>7
  <2>8. CASE i > 1 /\ r = head
    BY <1>15, <2>1, <2>3, <2>5, <2>8
  <2> QED BY <2>4, <2>6, <2>7, <2>8
<1>16. \E r \in Played(i) : r.from = 0
  BY <1>1, <1>10, <1>12, <1>13, <1>14
<1>17. ASSUME NEW r \in Played(i)
       PROVE  r.to = SlideFrames \/ \E s \in Played(i) : s.from = r.to
  BY <1>1, <1>5, <1>9, <1>10, <1>11, <1>13, <1>14
<1> QED BY <1>15, <1>16, <1>17

LEMMA SlidesInvKept == SlidesInv /\ [SlidesNext]_slideVars => SlidesInv'
<1>1. ASSUME SlidesInv, SlidesNext PROVE SlidesInv'
  BY <1>1, TypedKept, MessagesKept, NothingKept, RowKept, PlannedKept, ByItselfKept, NamedKept DEF SlidesInv
<1>2. ASSUME SlidesInv, UNCHANGED slideVars PROVE SlidesInv'
  <2>1. UNCHANGED <<proposal, show, press, queued, job, dir, film, tidy, doubled, pressesLeft, deathsLeft>>
    BY <1>2 DEF slideVars
  <2>2. Plan' = Plan /\ (PlanFits <=> PlanFits')
    BY <2>1, PlanStays
  <2>3. SlidesTyped' /\ MessagesCome' /\ NothingYet' /\ RowSound'
    BY <1>2, <2>1 DEF SlidesInv, SlidesTyped, MessagesCome, NothingYet, RowSound, NobodyLeftOut
  <2>4. FilmAsPlanned' /\ RenderByItself' /\ FilmNamed'
    BY <1>2, <2>1, <2>2 DEF SlidesInv, FilmAsPlanned, RenderByItself, FilmNamed
  <2> QED BY <2>3, <2>4 DEF SlidesInv
<1> QED BY <1>1, <1>2

LEMMA SlidesShown ==
    SlidesInv => SlidesTypeOK /\ NobodyLeftOut /\ FilmIsWhole /\ WatchedIsFinished /\ DeletedIsGone
<1> SUFFICES ASSUME SlidesInv
             PROVE  SlidesTypeOK /\ NobodyLeftOut /\ FilmIsWhole /\ WatchedIsFinished /\ DeletedIsGone
  OBVIOUS
<1>1. queued \in 0..Presses + Deaths + 1
  <2>1. PICK q \in Nat, p \in Nat, d \in Nat : q = queued /\ p = pressesLeft /\ d = deathsLeft
    BY DEF SlidesInv, SlidesTyped
  <2>2. PICK m \in Nat : m = Presses + Deaths
    BY SlideSettings
  <2>3. \E x \in {0, 1}, y \in {0, 1} : q + p + d + x <= m + y
    BY <2>1, <2>2 DEF SlidesInv, MessagesCome
  <2>4. q <= m + 1
    BY <2>3
  <2> QED BY <2>1, <2>2, <2>4
<1>2. ToSet(show.slides) \subseteq Photos /\ show.slides \in Seq(Photos)
  BY ItemsOf DEF SlidesInv, SlidesTyped, ShowRows
<1>3. SlidesTypeOK
  <2>1. show.status \in RowStates /\ IsInjective(show.slides) /\ (show.status = "ready" => show.path)
    BY DEF SlidesInv, SlidesTyped, ShowRows, RowSound
  <2>2. \A w \in Renderers : job[w].pc \in {"idle", "plan", "failing"} \cup AtWork
    BY DEF SlidesInv, SlidesTyped, Jobs
  <2>3. dir.staged \in {"none", "partial", "whole"}
    BY DEF SlidesInv, SlidesTyped, WorkDirs
  <2> QED BY <1>1, <1>2, <2>1, <2>2, <2>3 DEF SlidesInv, SlidesTyped, SlidesTypeOK, RowStates, AtWork
<1>4. FilmIsWhole
  <2> SUFFICES ASSUME film.state = "whole", NEW i \in DOMAIN show.slides
               PROVE  /\ \A r, s \in Played(i) : r # s => r.to <= s.from \/ s.to <= r.from
                      /\ \E r \in Played(i) : r.from = 0
                      /\ \A r \in Played(i) : r.to = SlideFrames \/ \E s \in Played(i) : s.from = r.to
    BY DEF FilmIsWhole
  <2>1. film.cut = Plan /\ PlanFits
    BY DEF SlidesInv, FilmAsPlanned
  <2>2. show.pace \in Paces
    BY DEF SlidesInv, RowSound, NothingYet
  <2> QED BY <1>2, <2>1, <2>2, PlanWhole
<1>5. NobodyLeftOut /\ WatchedIsFinished /\ DeletedIsGone
  BY DEF SlidesInv, SlidesTyped, RenderByItself, FilmNamed, WatchedIsFinished, DeletedIsGone
<1> QED BY <1>3, <1>4, <1>5

(* For any photographs, people, paces, renderers, presses and deaths        *)
(* (media/slideshow.py, media/render.py, media/pipeline.py): nobody who     *)
(* must appear and could is left out, no photograph is shown twice, a whole *)
(* film plays every slide from its first frame to its last, what is served  *)
(* is no half-written file unless two renders shared the directory, and a   *)
(* deleted slideshow leaves no film unless a worker died or was at work.    *)
THEOREM SlidesHold == BackroomSpec => []SlidesCorrect
<1>1. BackroomInit => SlidesInv
  BY SlidesInvStarts DEF BackroomInit
<1>2. [BackroomNext]_backroomVars => [SlidesNext]_slideVars
  BY DEF BackroomNext, SlidesMove, MergeMoves, PairsMove, ShowcaseMoves, LocationsMove, BasemapsMove, backroomVars
<1>3. SlidesInv /\ [BackroomNext]_backroomVars => SlidesInv'
  BY <1>2, SlidesInvKept
<1>4. SlidesInv => SlidesCorrect
  BY SlidesShown DEF SlidesCorrect
<1> QED BY <1>1, <1>3, <1>4, PTL DEF BackroomSpec

=============================================================================
