----------------------------- MODULE HouseProofs -----------------------------
(***************************************************************************)
(* Proofs about House: remote access, the removals of a photograph, and the *)
(* people and their faces.  Each has an invariant that adds to what the run *)
(* checks what makes it inductive; the other parts leave it alone.          *)
(***************************************************************************)
EXTENDS House, FiniteSetTheorems, WellFoundedInduction, TLAPS

-----------------------------------------------------------------------------
(* Numbers.  A nonempty set of numbers has a least one, and one that is     *)
(* bounded a greatest.                                                      *)
Lesser == {pair \in Nat \X Nat : pair[1] < pair[2]}

LEMMA LeastNumber ==
    ASSUME NEW T, T \subseteq Nat, T # {}
    PROVE  \E n \in T : \A m \in T : n <= m
<1>1. IsWellFoundedOn(Lesser, Nat)
  <2>1. Lesser = OpToRel(<, Nat)
    BY DEF Lesser, OpToRel
  <2> QED BY <2>1, NatLessThanWellFounded
<1>2. \E n \in T : \A m \in T : <<m, n>> \notin Lesser
  BY <1>1, WFMin
<1>3. \A m, n \in Nat : n <= m \/ <<m, n>> \in Lesser
  BY DEF Lesser
<1> QED BY <1>2, <1>3

LEMMA GreatestNumber ==
    ASSUME NEW S, NEW n \in Nat, S \subseteq 0..n, S # {}
    PROVE  Max(S) \in S /\ \A m \in S : m <= Max(S)
<1> DEFINE bounds == {m \in Nat : \A x \in S : x <= m}
<1>1. n \in bounds
  OBVIOUS
<1>2. PICK least \in bounds : \A m \in bounds : least <= m
  BY <1>1, LeastNumber
<1>3. least \in S
  <2>1. SUFFICES ASSUME least \notin S PROVE FALSE
    OBVIOUS
  <2>2. \A x \in S : x \in Nat /\ x <= least /\ x # least
    BY <1>2, <2>1
  <2>3. PICK x \in S : TRUE
    OBVIOUS
  <2>4. least - 1 \in bounds
    BY <2>2, <2>3, <1>2
  <2> QED BY <1>2, <2>4
<1>4. \E x \in S : \A y \in S : x >= y
  BY <1>2, <1>3
<1>5. Max(S) \in S /\ \A y \in S : Max(S) >= y
  BY <1>4 DEF Max
<1> QED BY <1>5

-----------------------------------------------------------------------------
(* Remote access.  A request that has loaded the row asks for one of four   *)
(* things, with a value that fits it; the sidecar has a record to publish.  *)
ConfigRows == [public : BOOLEAN, record : Records, host : Hosts \cup {Nothing}]
RequestHolds(c) ==
    /\ caller[c] \in [pc : {"idle", "loaded"}, op : {"none", "kill", "open", "rename", "visit"},
                      loaded : [public : BOOLEAN, record : Records \cup {Nothing},
                                host : Hosts \cup {Nothing}],
                      asks : Records \cup Hosts \cup {Nothing}]
    /\ caller[c].pc = "loaded" =>
          /\ caller[c].loaded \in ConfigRows
          /\ \/ caller[c].op \in {"kill", "open"}
             \/ caller[c].op = "rename" /\ caller[c].asks \in Records
             \/ caller[c].op = "visit" /\ caller[c].asks \in Hosts
RemoteInv ==
    /\ config \in ConfigRows /\ address \in Addresses
    /\ dns \in [Records -> Addresses \cup {Nothing}] /\ published \in Addresses \cup {Nothing}
    /\ sidecar \in [pc : {"idle", "loaded", "sent"}, record : Records \cup {Nothing},
                    last : Addresses \cup {Nothing}]
    /\ sidecar.pc = "loaded" => sidecar.record \in Records
    /\ sidecar.pc = "sent" => sidecar.last \in Addresses
    /\ caller \in [Callers -> [pc : {"idle", "loaded"}, op : {"none", "kill", "open", "rename", "visit"},
                      loaded : [public : BOOLEAN, record : Records \cup {Nothing},
                                host : Hosts \cup {Nothing}],
                      asks : Records \cup Hosts \cup {Nothing}]]
    /\ \A c \in Callers : RequestHolds(c)
    /\ gate \in [allow : BOOLEAN, fresh : BOOLEAN, reading : {"on", "off", Nothing}]
    /\ remoteBudget \in 0..RemoteIncidents

(* Initially nobody asks for anything and the sidecar sleeps.               *)
LEMMA RemoteInvStarts == RemoteInit => RemoteInv
<1> SUFFICES ASSUME RemoteInit PROVE RemoteInv
  OBVIOUS
<1> USE DEF RemoteInit
<1>1. (CHOOSE r \in Records : TRUE) \in Records /\ (CHOOSE a \in Addresses : TRUE) \in Addresses
  BY RemoteAssumption DEF RemoteAssumption
<1>2. remoteBudget \in 0..RemoteIncidents
  BY RemoteAssumption DEF RemoteAssumption
<1>3. config \in ConfigRows /\ address \in Addresses /\ published \in Addresses \cup {Nothing}
  BY <1>1 DEF ConfigRows
<1>4. dns \in [Records -> Addresses \cup {Nothing}]
  BY <1>3
<1> QED BY <1>2, <1>3, <1>4 DEF RemoteInv, RequestHolds, Away, Asleep, Nothing

(* What a request writes is a row, and it is public only on purpose.        *)
LEMMA WantedIsRow ==
    ASSUME RemoteInv, NEW c \in Callers, caller[c].pc = "loaded"
    PROVE  /\ Wanted(c) \in ConfigRows
           /\ Wanted(c).public => caller[c].op = "open" \/ caller[c].loaded.public
<1> DEFINE l == caller[c].loaded
<1>1. l \in ConfigRows
  BY DEF RemoteInv, RequestHolds
<1>2. CASE caller[c].op \in {"kill", "open"}
  BY <1>1, <1>2 DEF Wanted, ConfigRows
<1>3. CASE caller[c].op = "rename" /\ caller[c].asks \in Records
  BY <1>1, <1>3 DEF Wanted, ConfigRows
<1>4. CASE caller[c].op = "visit" /\ caller[c].asks \in Hosts
  BY <1>1, <1>4 DEF Wanted, ConfigRows
<1> QED BY <1>2, <1>3, <1>4 DEF RemoteInv, RequestHolds

(* The bound on misfortunes only runs down.                                 *)
LEMMA MisfortuneCounts ==
    ASSUME remoteBudget \in 0..RemoteIncidents, Misfortune
    PROVE  remoteBudget' \in 0..RemoteIncidents
<1>1. RemoteIncidents \in Nat
  BY RemoteAssumption DEF RemoteAssumption
<1> QED BY <1>1 DEF Misfortune

(* A save writes a row of its own making, or the row as it is.              *)
LEMMA SaveKeeps ==
    ASSUME RemoteInv, NEW c \in Callers, SaveConfig(c)
    PROVE  /\ RemoteInv'
           /\ ~config.public /\ config'.public => caller[c].op = "open" \/ caller[c].loaded.public
<1>1. caller[c].pc = "loaded" /\ caller' = [caller EXCEPT ![c] = Away]
      /\ config' = (IF Wanted(c) = caller[c].loaded THEN config ELSE Wanted(c))
      /\ UNCHANGED <<address, dns, published, sidecar, gate, remoteBudget>>
  BY DEF SaveConfig, Saves
<1>2. config' \in ConfigRows
  BY <1>1, WantedIsRow DEF RemoteInv
<1>3. \A d \in Callers : RequestHolds(d)'
  BY <1>1 DEF RemoteInv, RequestHolds, Away, Nothing
<1>4. RemoteInv'
  BY <1>1, <1>2, <1>3 DEF RemoteInv, Away, Nothing
<1> QED BY <1>1, <1>4, WantedIsRow

(* Every step keeps the rows rows; public access comes on by a save alone.  *)
LEMMA RemoteStep ==
    ASSUME RemoteInv, RemoteNext
    PROVE  /\ RemoteInv'
           /\ ~config.public /\ config'.public =>
                 \E c \in Callers : /\ caller[c].pc = "loaded" /\ caller'[c].pc = "idle"
                                    /\ (caller[c].op = "open" \/ caller[c].loaded.public)
<1>1. ASSUME NEW c \in Callers, LoadConfig(c) PROVE RemoteInv' /\ UNCHANGED config
  <2>1. PICK ask \in {<<"kill", Nothing>>, <<"open", Nothing>>} \cup ({"rename"} \X Records)
                       \cup ({"visit"} \X Hosts) :
          caller' = [caller EXCEPT ![c] = [pc |-> "loaded", op |-> ask[1], asks |-> ask[2],
                                           loaded |-> config]]
    BY <1>1 DEF LoadConfig
  <2>2. /\ ask[1] \in {"kill", "open", "rename", "visit"} /\ ask[2] \in Records \cup Hosts \cup {Nothing}
        /\ ask[1] = "rename" => ask[2] \in Records
        /\ ask[1] = "visit" => ask[2] \in Hosts
    OBVIOUS
  <2>3. UNCHANGED <<config, address, dns, published, sidecar, gate>>
    BY <1>1 DEF LoadConfig
  <2>4. \A d \in Callers : RequestHolds(d)'
    <3>1. ASSUME NEW d \in Callers \ {c} PROVE RequestHolds(d)'
      <4>1. caller'[d] = caller[d]
        BY <2>1 DEF RemoteInv
      <4> QED BY <4>1 DEF RequestHolds, RemoteInv
    <3>2. RequestHolds(c)'
      <4>1. caller'[c] = [pc |-> "loaded", op |-> ask[1], asks |-> ask[2], loaded |-> config]
        BY <2>1 DEF RemoteInv
      <4> QED BY <2>2, <4>1 DEF RequestHolds, RemoteInv, ConfigRows
    <3> QED BY <3>1, <3>2
  <2>5. caller' \in [Callers -> [pc : {"idle", "loaded"}, op : {"none", "kill", "open", "rename", "visit"},
                      loaded : [public : BOOLEAN, record : Records \cup {Nothing},
                                host : Hosts \cup {Nothing}],
                      asks : Records \cup Hosts \cup {Nothing}]]
    <3>1. caller'= [d \in Callers |-> caller'[d]]
      BY <2>1 DEF RemoteInv
    <3> QED BY <3>1, <2>4 DEF RequestHolds
  <2>6. remoteBudget' \in 0..RemoteIncidents
    BY <1>1, MisfortuneCounts DEF LoadConfig, RemoteInv
  <2> QED BY <2>3, <2>4, <2>5, <2>6 DEF RemoteInv
<1>2. ASSUME NEW c \in Callers, SaveConfig(c)
      PROVE  /\ RemoteInv'
             /\ ~config.public /\ config'.public =>
                   /\ caller[c].pc = "loaded" /\ caller'[c].pc = "idle"
                   /\ (caller[c].op = "open" \/ caller[c].loaded.public)
  <2>1. caller[c].pc = "loaded" /\ caller'[c].pc = "idle"
    BY <1>2 DEF SaveConfig, Saves, Away, RemoteInv
  <2> QED BY <1>2, <2>1, SaveKeeps
<1>3. ASSUME SidecarActs \/ AnswerLost \/ PublishFails \/ NewAddress PROVE RemoteInv' /\ UNCHANGED config
  <2>1. CASE Wake
    BY <2>1 DEF Wake, RemoteInv, RequestHolds, ConfigRows
  <2>2. CASE Publish
    <3>1. CASE address = sidecar.last
      BY <2>2, <3>1 DEF Publish, RemoteInv, RequestHolds, Asleep
    <3>2. CASE address # sidecar.last
      <4>1. sidecar' = [sidecar EXCEPT !.pc = "sent", !.last = address]
            /\ dns' = [dns EXCEPT ![sidecar.record] = address]
        BY <2>2, <3>2 DEF Publish
      <4>2. /\ sidecar' \in [pc : {"idle", "loaded", "sent"}, record : Records \cup {Nothing},
                               last : Addresses \cup {Nothing}]
            /\ sidecar'.pc = "sent" /\ sidecar'.last = address
        BY <4>1 DEF RemoteInv
      <4>3. dns' \in [Records -> Addresses \cup {Nothing}]
        BY <4>1 DEF RemoteInv
      <4> QED BY <2>2, <4>2, <4>3 DEF Publish, RemoteInv, RequestHolds
    <3> QED BY <3>1, <3>2
  <2>5. CASE SaveState
    BY <2>5 DEF SaveState, RemoteInv, RequestHolds, Asleep
  <2>6. CASE AnswerLost
    BY <2>6, MisfortuneCounts DEF AnswerLost, RemoteInv, RequestHolds, Asleep
  <2>3. CASE PublishFails
    BY <2>3, MisfortuneCounts DEF PublishFails, RemoteInv, RequestHolds, Asleep
  <2>4. CASE NewAddress
    BY <2>4, MisfortuneCounts DEF NewAddress, RemoteInv, RequestHolds
  <2> QED BY <1>3, <2>1, <2>2, <2>3, <2>4, <2>5, <2>6 DEF SidecarActs
<1>4. ASSUME GateActs \/ GateFails PROVE RemoteInv' /\ UNCHANGED config
  <2>1. UNCHANGED <<config, address, dns, published, sidecar, caller>>
    BY <1>4 DEF GateActs, GateFails, Expire, GateReads, GateStores
  <2>2. gate' \in [allow : BOOLEAN, fresh : BOOLEAN, reading : {"on", "off", Nothing}]
    <3> DEFINE Gates == [allow : BOOLEAN, fresh : BOOLEAN, reading : {"on", "off", Nothing}]
    <3>1. gate \in Gates
      BY DEF RemoteInv
    <3>2. CASE Expire
      BY <3>1, <3>2 DEF Expire
    <3>3. CASE GateReads
      <4>1. (IF config.public THEN "on" ELSE "off") \in {"on", "off", Nothing}
        OBVIOUS
      <4> QED BY <3>1, <3>3, <4>1 DEF GateReads
    <3>4. CASE GateStores
      <4>1. (gate.reading = "on") \in BOOLEAN
        OBVIOUS
      <4> QED BY <3>4, <4>1 DEF GateStores
    <3>5. CASE GateFails
      BY <3>5 DEF GateFails
    <3> QED BY <1>4, <3>2, <3>3, <3>4, <3>5 DEF GateActs
  <2>3. remoteBudget' \in 0..RemoteIncidents
    BY <1>4, MisfortuneCounts DEF GateActs, GateFails, Expire, GateReads, GateStores, RemoteInv
  <2> QED BY <2>1, <2>2, <2>3 DEF RemoteInv, RequestHolds
<1> QED BY <1>1, <1>2, <1>3, <1>4 DEF RemoteNext

(* Public access that is off comes back on only because an update asked for *)
(* it, or with a row loaded while it was on, whatever the sidecar, the gate *)
(* and other requests do meanwhile (api/v1/remote_access.py).               *)
THEOREM RemoteHolds == HouseSpec => RemoteCorrect
<1> DEFINE Purposely == ~config.public /\ config'.public =>
              \E c \in Callers : /\ caller[c].pc = "loaded" /\ caller'[c].pc = "idle"
                                 /\ (caller[c].op = "open" \/ caller[c].loaded.public)
<1>1. HouseInit => RemoteInv
  BY RemoteInvStarts DEF HouseInit
<1>2. [HouseNext]_houseVars => [RemoteNext]_remoteVars
  BY DEF HouseNext, PeopleMove, DevelopMoves, WatcherMoves, RemoteMoves, houseVars
<1>3. RemoteInv /\ UNCHANGED remoteVars => RemoteInv'
  BY DEF RemoteInv, RequestHolds, remoteVars
<1>4. RemoteInv /\ [HouseNext]_houseVars => RemoteInv' /\ [Purposely]_remoteVars
  BY <1>2, <1>3, RemoteStep
<1>5. RemoteInv => RemoteTypeOK
  BY DEF RemoteInv, RemoteTypeOK, ConfigRows
<1> QED BY <1>1, <1>4, <1>5, PTL DEF HouseSpec, RemoteCorrect, OpenedOnPurpose

-----------------------------------------------------------------------------
(* The removals of a photograph.  Each version has a round of its own, and  *)
(* a row says how far its round got.                                        *)
RowType == [round : Rounds, status : {"queued", "running", "ready", "failed"}, path : BOOLEAN]
WorkType == [pc : {"free", "message", "running", "painting", "end", "done", "over"}, base : SUBSET Rounds]
ViewType == [pc : {"idle", "resolved", "drawn"}, base : Nat, shown : SUBSET Rounds]
DevelopTyped ==
    /\ Versions \subseteq 1..Cardinality(Rounds)
    /\ inpaint \in [Versions -> RowType]
    /\ \A u, v \in Versions : inpaint[u].round = inpaint[v].round => u = v
    /\ \A v \in Ready : inpaint[v].path
    /\ disk \in [DOMAIN disk -> SUBSET Rounds] /\ 0 \notin DOMAIN disk
    /\ bases \in [DOMAIN bases -> SUBSET Rounds] /\ masks \in [DOMAIN masks -> SUBSET Rounds]
    /\ asked \in [Editors -> {"idle", "checked"} \cup Rounds]
    /\ undoing \in {"none"} \cup Rounds /\ cut \subseteq Rounds
    /\ work \in [Rounds -> WorkType] /\ view \in [Viewers -> ViewType]
    /\ uses \in [1..Cardinality(Rounds) -> 0..2] /\ \A v \in Versions : uses[v] > 0
    /\ raced \in BOOLEAN /\ devBudget \in 0..DevelopIncidents

RowsFollow ==
    /\ \A e, f \in Editors : asked[e] \in Rounds /\ asked[e] = asked[f] => e = f
    /\ \A e \in Editors : asked[e] \in Rounds => work[asked[e]].pc = "free"
    /\ \A v \in Versions :
          LET pc == work[inpaint[v].round].pc
          IN  /\ pc = "free" => inpaint[v].status = "queued"
              /\ pc \in {"running", "painting", "end"} => inpaint[v].status = "running"

(* As long as no round was undone before its work was over, ran again under *)
(* a newer one or was queued beside an open one: the newest alone is open,  *)
(* no round under way has lost its row, and what is painted on is what the  *)
(* ready results below say.                                                 *)
Below(v) == {inpaint[u].round : u \in {x \in Ready : x < v}}
OneOpen ==
    ~raced =>
        /\ Open \subseteq {Newest}
        /\ \A e \in Editors : asked[e] \in Rounds => RowOf(asked[e]) # {}
        /\ \A r \in Rounds : work[r].pc \notin {"free", "over"} => RowOf(r) # {}
        /\ \A v \in Versions : work[inpaint[v].round].pc = "painting" =>
              work[inpaint[v].round].base = Below(v)

(* A round that is being undone is over, and a ready row without its file   *)
(* is one whose undo removed it: nothing above it was painted or is being.  *)
Unlinked ==
    ~raced =>
        /\ undoing \in Rounds => /\ work[undoing].pc = "over"
                                 /\ \A v \in RowOf(undoing) : v \in Ready => v \notin DOMAIN disk
        /\ \A v \in Ready \ DOMAIN disk :
              /\ inpaint[v].round \in cut
              /\ \A u \in Versions : u > v => ~inpaint[u].path /\ work[inpaint[u].round].pc # "painting"

(* The file of a version that was painted says its own removal and those    *)
(* ready below it.                                                          *)
Painted == {v \in Versions : inpaint[v].path}
Carries(v) == Below(v) \cup {inpaint[v].round}
DiskCarries == ~raced => \A v \in Painted : v \in DOMAIN disk => disk[v] = Carries(v)

(* And whatever is kept of a version whose number was given once is of one  *)
(* and the same picture; of a round not painted yet nothing is kept.        *)
Unkept(v) ==
    /\ v \notin DOMAIN bases /\ v \notin DOMAIN masks
    /\ \A w \in Viewers : view[w].pc = "resolved" => view[w].base # v
Picture(v, pixels) ==
    /\ v \in DOMAIN disk => disk[v] = pixels
    /\ v \in DOMAIN bases => bases[v] = pixels
    /\ v \in DOMAIN masks => masks[v] = pixels
    /\ \A w \in Viewers : view[w].pc = "resolved" /\ view[w].base = v => view[w].shown = pixels
PictureOf(v) ==
    /\ \E pixels \in SUBSET Rounds : Picture(v, pixels)
    /\ uses[v] = 0 \/ v \in Versions \ Painted => Unkept(v)
    /\ v \in Painted => Picture(v, Carries(v))
OnePicture == Picture(0, Original) /\ (~raced => \A v \in Once : PictureOf(v))

DevelopInv == DevelopTyped /\ RowsFollow /\ OneOpen /\ Unlinked /\ DiskCarries /\ OnePicture

PreviewStep ==
    \A w \in Viewers : view[w].pc = "resolved" /\ view'[w].pc = "drawn"
                       /\ view[w].base \in {0} \cup Once /\ ~raced =>
        /\ view'[w].shown = view[w].shown
        /\ masks'[view[w].base] = view'[w].shown

(* The number of rounds is a number, and the newest version is one of them. *)
LEMMA RoundsCounted == Cardinality(Rounds) \in Nat
BY FS_CardinalityType, DevelopAssumption DEF DevelopAssumption

LEMMA NewestOf ==
    ASSUME NEW S, S \subseteq 1..Cardinality(Rounds)
    PROVE  /\ S \subseteq Nat \ {0} /\ Max({0} \cup S) \in {0} \cup S /\ Max({0} \cup S) \in Nat
           /\ \A v \in S : v <= Max({0} \cup S)
<1> DEFINE T == {0} \cup S
           n == Cardinality(Rounds)
<1>1. n \in Nat /\ T \subseteq 0..n /\ T # {}
  BY RoundsCounted
<1> HIDE DEF n
<1>2. Max(T) \in T /\ \A m \in T : m <= Max(T)
  BY <1>1, GreatestNumber
<1>3. S \subseteq Nat \ {0}
  BY <1>1 DEF n
<1>4. Max(T) \in Nat
  <2>1. \A m \in T : m \in Nat
    BY <1>1
  <2> HIDE DEF T
  <2> QED BY <1>2, <2>1
<1>5. \A v \in S : v <= Max(T)
  BY <1>2
<1> QED BY <1>2, <1>3, <1>4, <1>5

LEMMA NewestIs ==
    ASSUME DevelopTyped
    PROVE  /\ Versions \subseteq Nat \ {0} /\ Newest \in {0} \cup Versions /\ Newest \in Nat
           /\ \A v \in Versions : v <= Newest
BY NewestOf DEF DevelopTyped, Newest

(* The bound on incidents only runs down.                                   *)
LEMMA DevelopSpends ==
    ASSUME devBudget \in 0..DevelopIncidents, DevelopSpend
    PROVE  devBudget' \in 0..DevelopIncidents
<1>1. DevelopIncidents \in Nat
  BY DevelopAssumption DEF DevelopAssumption
<1> QED BY <1>1 DEF DevelopSpend

(* Initially there is no round and nothing is kept.                         *)
LEMMA DevelopInvStarts == DevelopInit => DevelopInv
<1> SUFFICES ASSUME DevelopInit PROVE DevelopInv
  OBVIOUS
<1> USE DEF DevelopInit
<1>1. Versions = {} /\ Open = {} /\ Ready = {} /\ Painted = {}
  BY DEF Versions, Open, Ready, Painted
<1>3. devBudget \in 0..DevelopIncidents
  BY DevelopAssumption DEF DevelopAssumption
<1>4. \A v \in DOMAIN uses : uses[v] = 0
  OBVIOUS
<1>5. \A v : Unkept(v) /\ v \notin DOMAIN disk
  BY DEF Unkept, IdleView
<1>6. (\A e \in Editors : asked[e] \notin Rounds) /\ undoing \notin Rounds
  BY DevelopAssumption DEF DevelopAssumption
<1>7. DevelopTyped
  <2>1. inpaint \in [Versions -> RowType] /\ disk \in [DOMAIN disk -> SUBSET Rounds] /\ 0 \notin DOMAIN disk
    BY DEF Versions
  <2>2. bases \in [DOMAIN bases -> SUBSET Rounds] /\ masks \in [DOMAIN masks -> SUBSET Rounds]
    OBVIOUS
  <2>4. view \in [Viewers -> ViewType]
    BY DEF IdleView, Original, ViewType
  <2>5. uses \in [1..Cardinality(Rounds) -> 0..2]
    OBVIOUS
  <2>6. work \in [Rounds -> WorkType]
    BY DEF Original, WorkType
  <2>7. asked \in [Editors -> {"idle", "checked"} \cup Rounds] /\ raced \in BOOLEAN
        /\ undoing \in {"none"} \cup Rounds /\ cut \subseteq Rounds
    OBVIOUS
  <2> QED BY <1>1, <1>3, <2>1, <2>2, <2>4, <2>5, <2>6, <2>7 DEF DevelopTyped
<1>8. RowsFollow /\ OneOpen /\ Unlinked /\ DiskCarries
  BY <1>1, <1>6 DEF RowsFollow, OneOpen, Unlinked, DiskCarries
<1>9. \A v : \A p \in SUBSET Rounds : Picture(v, p)
  BY <1>5 DEF Unkept, Picture
<1>10. OnePicture
  <2>1. {} \in SUBSET Rounds
    OBVIOUS
  <2> QED BY <1>1, <1>5, <1>9, <2>1 DEF OnePicture, PictureOf, Original
<1> QED BY <1>7, <1>8, <1>10 DEF DevelopInv

(* The invariant says of the ready results what the run checks.             *)
LEMMA ChainFollows == ASSUME DevelopInv PROVE ChainHolds
<1> SUFFICES ASSUME ~raced, NEW v \in Ready
             PROVE  IF v \in DOMAIN disk THEN disk[v] = {inpaint[u].round : u \in {x \in Ready : x <= v}}
                    ELSE inpaint[v].round \in cut /\ \A u \in Ready : u <= v
  BY DEF ChainHolds
<1>1. Ready \subseteq Painted /\ Painted \subseteq Versions /\ Versions \subseteq Nat
  BY NewestIs DEF DevelopInv, DevelopTyped, Ready, Painted
<1>2. CASE v \in DOMAIN disk
  <2>1. disk[v] = Carries(v)
    BY <1>1, <1>2 DEF DevelopInv, DiskCarries
  <2>2. {x \in Ready : x <= v} = {x \in Ready : x < v} \cup {v}
    <3>1. v \in Nat /\ \A x \in Ready : x \in Nat
      BY <1>1
    <3>2. \A x \in Ready : x <= v <=> (x < v \/ x = v)
      BY <3>1
    <3> QED BY <3>2
  <2>3. Carries(v) = {inpaint[u].round : u \in {x \in Ready : x <= v}}
    BY <2>2 DEF Carries, Below
  <2> QED BY <1>2, <2>1, <2>3
<1>3. CASE v \notin DOMAIN disk
  <2>1. inpaint[v].round \in cut /\ \A u \in Versions : u > v => u \notin Painted
    BY <1>3 DEF DevelopInv, Unlinked, Painted
  <2>2. \A u \in Ready : u <= v
    BY <1>1, <2>1
  <2> QED BY <1>3, <2>1, <2>2
<1> QED BY <1>2, <1>3

(* The rows stay: so does everything said of them.                          *)
LEMMA RowsStay ==
    ASSUME UNCHANGED inpaint
    PROVE  /\ Versions' = Versions /\ Newest' = Newest /\ Ready' = Ready /\ Open' = Open /\ Painted' = Painted
           /\ (\A q : RowOf(q)' = RowOf(q)) /\ (\A v : Below(v)' = Below(v)) /\ (\A v : Carries(v)' = Carries(v))
BY DEF Versions, Newest, Ready, Open, Painted, RowOf, Below, Carries

(* What is kept stays of one picture when no file, cache or preview comes   *)
(* to say something else, and the rows that are left say what they said.    *)
LEMMA PicturesStay ==
    ASSUME DevelopInv, uses' = uses, ~raced' => ~raced,
           \A u : \A p : (u # 0 \/ p = Original) /\ Picture(u, p) => Picture(u, p)',
           \A u \in Once : u \notin Painted /\ Unkept(u) => Unkept(u)',
           ~raced' => \A u \in Versions' : /\ u \in Versions /\ (u \in Painted' <=> u \in Painted)
                                           /\ u \in Painted => Carries(u)' = Carries(u)
    PROVE  OnePicture'
<1>1. Picture(0, Original)'
  BY DEF DevelopInv, OnePicture, Original
<1>2. \A u \in Once : u # 0 /\ (uses[u] = 0 => u \notin Painted)
  BY RoundsCounted DEF Once, Painted, DevelopInv, DevelopTyped
<1>3. ASSUME ~raced', NEW u \in Once PROVE PictureOf(u)'
  <2>1. PictureOf(u)
    BY <1>3 DEF DevelopInv, OnePicture
  <2>2. \E p \in SUBSET Rounds : Picture(u, p)'
    BY <1>2, <2>1 DEF PictureOf
  <2>3. uses'[u] = 0 \/ u \in Versions' \ Painted' => Unkept(u)'
    BY <1>2, <1>3, <2>1 DEF PictureOf
  <2>4. ASSUME u \in Painted' PROVE Picture(u, Carries(u))'
    <3>1. u \in Versions' /\ u \in Painted /\ Carries(u)' = Carries(u)
      BY <1>3, <2>4 DEF Painted
    <3>2. PICK p : p = Carries(u)
      OBVIOUS
    <3>3. Picture(u, p)'
      BY <1>2, <2>1, <3>1, <3>2 DEF PictureOf
    <3>4. p = Carries(u)'
      BY <3>1, <3>2
    <3> QED BY <3>3, <3>4
  <2> QED BY <2>2, <2>3, <2>4 DEF PictureOf
<1>4. Once' = Once
  BY DEF Once
<1> QED BY <1>1, <1>3, <1>4 DEF OnePicture

LEMMA PicturesRest ==
    ASSUME UNCHANGED <<disk, bases, masks, view>>
    PROVE  (\A u : \A p : Picture(u, p) => Picture(u, p)') /\ (\A u : Unkept(u) => Unkept(u)')
BY DEF Picture, Unkept

(* A request's look at the other rows, an undo given up, a preview, an      *)
(* eviction: no row, no round and no file moves.                            *)
LEMMA RowsRest ==
    ASSUME DevelopInv, UNCHANGED <<inpaint, disk, work, uses, cut, raced>>,
           \A e \in Editors : asked'[e] \in Rounds => asked'[e] = asked[e],
           undoing' \in Rounds => undoing' = undoing,
           DevelopTyped', OnePicture'
    PROVE  DevelopInv'
<1>1. Versions' = Versions /\ Newest' = Newest /\ Ready' = Ready /\ Open' = Open /\ Painted' = Painted
      /\ (\A q : RowOf(q)' = RowOf(q)) /\ (\A v : Below(v)' = Below(v)) /\ (\A v : Carries(v)' = Carries(v))
  BY RowsStay
<1>2. RowsFollow'
  BY <1>1 DEF DevelopInv, RowsFollow
<1>3. OneOpen'
  BY <1>1 DEF DevelopInv, OneOpen
<1>4. Unlinked'
  <2>1. undoing' \in Rounds => RowOf(undoing') = RowOf(undoing) /\ RowOf(undoing)' = RowOf(undoing')
    BY DEF RowOf, Versions
  <2> QED BY <1>1, <2>1 DEF DevelopInv, Unlinked
<1>5. DiskCarries'
  BY <1>1 DEF DevelopInv, DiskCarries
<1> QED BY <1>2, <1>3, <1>4, <1>5 DEF DevelopInv

LEMMA OnePictureRests ==
    ASSUME DevelopInv, UNCHANGED <<inpaint, disk, kept, uses, raced>> PROVE OnePicture'
<1>1. Versions' = Versions /\ Painted' = Painted /\ \A v : Carries(v)' = Carries(v)
  BY RowsStay
<1>2. (\A u : \A p : Picture(u, p) => Picture(u, p)') /\ (\A u : Unkept(u) => Unkept(u)')
  BY PicturesRest DEF kept
<1> QED BY <1>1, <1>2, PicturesStay

(* The requests: a check, an undo given up, a message, a message lost.      *)
LEMMA CheckKeeps ==
    ASSUME DevelopInv, (\E e \in Editors : CheckPending(e)) \/ UndoCut PROVE DevelopInv'
<1>1. UNCHANGED <<inpaint, disk, work, kept, uses, cut, raced>>
  BY DEF CheckPending, UndoCut
<1>2. devBudget' \in 0..DevelopIncidents
  BY DevelopSpends DEF DevelopInv, DevelopTyped, CheckPending, UndoCut
<1>3. asked' \in [Editors -> {"idle", "checked"} \cup Rounds] /\ undoing' \in {undoing, "none"}
  BY DEF DevelopInv, DevelopTyped, CheckPending, UndoCut
<1>4. DevelopTyped'
  BY <1>1, <1>2, <1>3, RowsStay DEF DevelopInv, DevelopTyped, kept
<1>5. \A e \in Editors : asked'[e] \in Rounds => asked'[e] = asked[e]
  BY DevelopAssumption DEF DevelopInv, DevelopTyped, CheckPending, UndoCut, DevelopAssumption
<1>6. undoing' \in Rounds => undoing' = undoing
  BY <1>3, DevelopAssumption DEF DevelopAssumption
<1> QED BY <1>1, <1>4, <1>5, <1>6, OnePictureRests, RowsRest

(* An execution moves, its row stays: what the invariant asks of where it   *)
(* is then.                                                                 *)
LEMMA WorkMoves ==
    ASSUME DevelopInv, NEW r \in Rounds, NEW x \in WorkType,
           work' = [work EXCEPT ![r] = x],
           UNCHANGED <<inpaint, disk, undoing, kept, uses, cut, raced>>,
           asked' \in [Editors -> {"idle", "checked"} \cup Rounds],
           \A e \in Editors : asked'[e] \in Rounds => asked'[e] = asked[e] /\ asked[e] # r,
           devBudget' \in 0..DevelopIncidents,
           work[r].pc # "over", x.pc # "free",
           x.pc \in {"running", "painting", "end"} => \A v \in RowOf(r) : inpaint[v].status = "running",
           ~raced /\ x.pc # "over" => RowOf(r) # {},
           ~raced /\ x.pc = "painting" => \A v \in RowOf(r) :
               x.base = Below(v) /\ \A u \in Ready \ DOMAIN disk : ~(v > u)
    PROVE  DevelopInv'
<1>1. Versions' = Versions /\ Newest' = Newest /\ Ready' = Ready /\ Open' = Open /\ Painted' = Painted
      /\ (\A q : RowOf(q)' = RowOf(q)) /\ (\A v : Below(v)' = Below(v)) /\ (\A v : Carries(v)' = Carries(v))
  BY RowsStay
<1>2. work' \in [Rounds -> WorkType] /\ work'[r] = x /\ \A q \in Rounds \ {r} : work'[q] = work[q]
  BY DEF DevelopInv, DevelopTyped
<1>3. DevelopTyped'
  BY <1>1, <1>2 DEF DevelopInv, DevelopTyped, kept
<1>5. \A v \in Versions : inpaint[v].round \in Rounds /\ (inpaint[v].round = r <=> v \in RowOf(r))
  BY DEF DevelopInv, DevelopTyped, RowType, RowOf
<1>6. RowsFollow'
  <2>1. ASSUME NEW v \in Versions
        PROVE  LET pc == work'[inpaint[v].round].pc
               IN  /\ pc = "free" => inpaint[v].status = "queued"
                   /\ pc \in {"running", "painting", "end"} => inpaint[v].status = "running"
    <3>1. CASE inpaint[v].round = r
      BY <1>2, <1>5, <2>1, <3>1
    <3>2. CASE inpaint[v].round # r
      BY <1>2, <1>5, <2>1, <3>2 DEF DevelopInv, RowsFollow
    <3> QED BY <3>1, <3>2
  <2>2. \A f \in Editors : asked'[f] \in Rounds => work'[asked'[f]].pc = "free"
    BY <1>2 DEF DevelopInv, RowsFollow
  <2>3. \A e, f \in Editors : asked'[e] \in Rounds /\ asked'[e] = asked'[f] => e = f
    BY DEF DevelopInv, RowsFollow
  <2> QED BY <1>1, <2>1, <2>2, <2>3 DEF RowsFollow
<1>7. OneOpen'
  <2>1. ASSUME ~raced, NEW q \in Rounds, work'[q].pc \notin {"free", "over"}
        PROVE  RowOf(q) # {}
    BY <1>2, <2>1 DEF DevelopInv, OneOpen
  <2>2. ASSUME ~raced, NEW v \in Versions, work'[inpaint[v].round].pc = "painting"
        PROVE  work'[inpaint[v].round].base = Below(v)
    BY <1>2, <1>5, <2>2 DEF DevelopInv, OneOpen
  <2>3. ~raced => \A e \in Editors : asked'[e] \in Rounds => RowOf(asked'[e]) # {}
    BY DEF DevelopInv, OneOpen
  <2>4. ~raced => Open \subseteq {Newest}
    BY DEF DevelopInv, OneOpen
  <2> QED BY <1>1, <2>1, <2>2, <2>3, <2>4 DEF OneOpen
<1>8. Unlinked'
  <2>1. ASSUME ~raced, undoing \in Rounds
        PROVE  work'[undoing].pc = "over" /\ \A v \in RowOf(undoing) : v \in Ready => v \notin DOMAIN disk
    <3>1. undoing # r
      BY <2>1 DEF DevelopInv, Unlinked
    <3> QED BY <1>2, <2>1, <3>1 DEF DevelopInv, Unlinked
  <2>2. ASSUME ~raced, NEW v \in Ready \ DOMAIN disk
        PROVE  /\ inpaint[v].round \in cut
               /\ \A u \in Versions : u > v => ~inpaint[u].path /\ work'[inpaint[u].round].pc # "painting"
    BY <1>2, <1>5, <2>2 DEF DevelopInv, Unlinked
  <2>3. undoing' = undoing /\ raced' = raced /\ disk' = disk /\ cut' = cut /\ inpaint' = inpaint
    OBVIOUS
  <2>4. ~raced /\ undoing' \in Rounds =>
           work'[undoing'].pc = "over" /\ \A v \in RowOf(undoing') : v \in Ready => v \notin DOMAIN disk
    BY <2>1, <2>3
  <2> QED BY <1>1, <2>2, <2>3, <2>4 DEF Unlinked
<1>9. DiskCarries'
  BY <1>1 DEF DevelopInv, DiskCarries
<1> QED BY <1>3, <1>6, <1>7, <1>8, <1>9, OnePictureRests DEF DevelopInv

LEMMA SendKeeps ==
    ASSUME DevelopInv, NEW e \in Editors, SendRound(e) \/ SendLost(e) PROVE DevelopInv'
<1> DEFINE r == asked[e]
<1>1. r \in Rounds /\ work[r].pc = "free"
  BY DEF SendRound, SendLost, DevelopInv, RowsFollow
<1>2. PICK pc \in {"message", "over"} : work' = [work EXCEPT ![r].pc = pc]
  BY DEF SendRound, SendLost
<1> DEFINE x == [work[r] EXCEPT !.pc = pc]
<1>3. work \in [Rounds -> WorkType]
  BY DEF DevelopInv, DevelopTyped
<1>4. work' = [work EXCEPT ![r] = x] /\ x \in WorkType /\ x.pc = pc
  BY <1>1, <1>2, <1>3 DEF WorkType
<1>5. UNCHANGED <<inpaint, disk, undoing, kept, uses, cut, raced>>
  BY DEF SendRound, SendLost
<1>6. devBudget' \in 0..DevelopIncidents
  BY DevelopSpends DEF DevelopInv, DevelopTyped, SendRound, SendLost
<1>7. asked \in [Editors -> {"idle", "checked"} \cup Rounds] /\ asked' = [asked EXCEPT ![e] = "idle"]
  BY DEF DevelopInv, DevelopTyped, SendRound, SendLost
<1>8. asked' \in [Editors -> {"idle", "checked"} \cup Rounds]
  BY <1>7
<1>9. \A f \in Editors : asked'[f] \in Rounds => asked'[f] = asked[f] /\ asked[f] # r
  <2>1. ASSUME NEW f \in Editors, asked'[f] \in Rounds PROVE f # e /\ asked'[f] = asked[f]
    BY <1>7, <2>1, DevelopAssumption DEF DevelopAssumption
  <2> QED BY <1>1, <2>1 DEF DevelopInv, RowsFollow
<1>10. ~raced => RowOf(r) # {}
  BY <1>1 DEF DevelopInv, OneOpen
<1> HIDE DEF x, r
<1> QED BY <1>1, <1>2, <1>4, <1>5, <1>6, <1>8, <1>9, <1>10, WorkMoves

(* An execution fails, dies, or ends and its message with it.               *)
LEMMA StopKeeps ==
    ASSUME DevelopInv, NEW r \in Rounds,
           FailRound(r) \/ RoundDies(r) \/ Acknowledge(r) \/ CommitFails(r)
    PROVE  DevelopInv'
<1>1. PICK pc \in {"message", "end", "over"} : work' = [work EXCEPT ![r].pc = pc]
                                               /\ (pc = "end" => work[r].pc \in {"running", "painting"})
  BY DEF FailRound, RoundDies, Acknowledge, CommitFails
<1> DEFINE x == [work[r] EXCEPT !.pc = pc]
<1>2. work \in [Rounds -> WorkType]
  BY DEF DevelopInv, DevelopTyped
<1>3. work' = [work EXCEPT ![r] = x] /\ x \in WorkType /\ x.pc = pc
  BY <1>1, <1>2 DEF WorkType
<1>4. work[r].pc \in {"message", "running", "painting", "end", "done"}
  BY DEF FailRound, RoundDies, Acknowledge, CommitFails
<1>5. pc = "end" => \A v \in RowOf(r) : inpaint[v].status = "running"
  BY <1>1 DEF DevelopInv, RowsFollow, RowOf
<1>6. ~raced => RowOf(r) # {}
  BY <1>4 DEF DevelopInv, OneOpen
<1>7. UNCHANGED <<inpaint, disk, asked, undoing, kept, uses, cut, raced>>
  BY DEF FailRound, RoundDies, Acknowledge, CommitFails
<1>8. devBudget' \in 0..DevelopIncidents
  BY DevelopSpends DEF DevelopInv, DevelopTyped, FailRound, RoundDies, Acknowledge, CommitFails
<1>9. asked' \in [Editors -> {"idle", "checked"} \cup Rounds]
  BY <1>7 DEF DevelopInv, DevelopTyped
<1>10. \A f \in Editors : asked'[f] \in Rounds => asked'[f] = asked[f] /\ asked[f] # r
  BY <1>4, <1>7 DEF DevelopInv, RowsFollow
<1> HIDE DEF x
<1> QED BY <1>1, <1>3, <1>4, <1>5, <1>6, <1>7, <1>8, <1>9, <1>10, WorkMoves

(* The base a round opens is what the ready rows below it say; if its file  *)
(* is there, no ready row below is without one.                             *)
LEMMA BaseIsBelow ==
    ASSUME DevelopInv, NEW v \in Versions
    PROVE  LET below == Max({0} \cup {u \in Ready : u < v})
           IN  /\ below = 0 => Below(v) = Original /\ \A u \in Ready : ~(v > u)
               /\ ~raced /\ below \in DOMAIN disk =>
                     disk[below] = Below(v) /\ \A u \in Ready \ DOMAIN disk : ~(v > u)
<1> DEFINE under == {u \in Ready : u < v}
           below == Max({0} \cup under)
<1>1. Versions \subseteq Nat \ {0} /\ Ready \subseteq Painted /\ Painted \subseteq Versions /\ 0 \notin DOMAIN disk
  BY NewestIs DEF DevelopInv, DevelopTyped, Ready, Painted
<1>2. below \in {0} \cup under /\ \A m \in {0} \cup under : m <= below
  <2>1. under \subseteq 1..Cardinality(Rounds)
    BY <1>1 DEF DevelopInv, DevelopTyped
  <2>2. below \in {0} \cup under /\ \A m \in under : m <= below
    BY <2>1, NewestOf
  <2>3. below \in Nat
    BY <2>1, NewestOf
  <2> QED BY <2>2, <2>3
<1> HIDE DEF below
<1>3. below = 0 => under = {}
  <2>1. \A m \in under : m \in Nat \ {0} /\ m <= below
    BY <1>1, <1>2
  <2> QED BY <2>1
<1>4. ASSUME below \in DOMAIN disk PROVE below \in Ready /\ {x \in Ready : x < below} \cup {below} = under
  <2>1. below \in Ready /\ below < v /\ \A m \in under : m <= below
    BY <1>1, <1>2, <1>4
  <2>2. \A x \in Ready : (x < below \/ x = below) <=> x < v
    BY <1>1, <2>1
  <2> QED BY <2>1, <2>2
<1>5. below = 0 => Below(v) = Original /\ \A u \in Ready : ~(v > u)
  BY <1>1, <1>3 DEF Below, Original
<1>6. ASSUME ~raced, below \in DOMAIN disk PROVE disk[below] = Below(v)
  <2>1. disk[below] = Carries(below)
    BY <1>1, <1>4, <1>6 DEF DevelopInv, DiskCarries
  <2> QED BY <1>4, <1>6, <2>1 DEF Carries, Below
<1>7. ASSUME ~raced, below \in DOMAIN disk, NEW u \in Ready \ DOMAIN disk, v > u PROVE FALSE
  <2>1. below \in Painted /\ u \in under /\ u # below
    BY <1>1, <1>4, <1>7
  <2>2. below > u
    BY <1>1, <1>2, <2>1
  <2> QED BY <1>1, <1>7, <2>1, <2>2 DEF DevelopInv, Unlinked, Painted
<1> QED BY <1>5, <1>6, <1>7 DEF below

LEMMA OpenBaseKeeps ==
    ASSUME DevelopInv, NEW r \in Rounds, OpenBase(r) PROVE DevelopInv'
<1>1. PICK v \in RowOf(r) :
          LET below == Max({0} \cup {u \in Ready : u < v})
          IN  IF below = 0 THEN work' = [work EXCEPT ![r] = [pc |-> "painting", base |-> Original]]
              ELSE IF below \in DOMAIN disk
              THEN work' = [work EXCEPT ![r] = [pc |-> "painting", base |-> disk[below]]]
              ELSE work' = [work EXCEPT ![r].pc = "end"]
  BY DEF OpenBase
<1> DEFINE below == Max({0} \cup {u \in Ready : u < v})
<1>2. v \in Versions /\ inpaint[v].round = r
  BY <1>1 DEF RowOf
<1>3. RowOf(r) = {v}
  BY <1>2 DEF DevelopInv, DevelopTyped, RowOf
<1>4. work[r].pc = "running" /\ inpaint[v].status = "running" /\ work \in [Rounds -> WorkType]
  BY <1>2 DEF OpenBase, DevelopInv, RowsFollow, DevelopTyped
<1>5. below = 0 => Below(v) = Original /\ \A u \in Ready : ~(v > u)
  BY <1>2, BaseIsBelow
<1>6. ~raced /\ below \in DOMAIN disk => disk[below] = Below(v) /\ \A u \in Ready \ DOMAIN disk : ~(v > u)
  BY <1>2, BaseIsBelow
<1>7. UNCHANGED <<inpaint, disk, asked, undoing, kept, uses, cut, raced>> /\ devBudget' \in 0..DevelopIncidents
      /\ asked' \in [Editors -> {"idle", "checked"} \cup Rounds]
  BY DEF OpenBase, DevelopInv, DevelopTyped
<1>8. \A f \in Editors : asked'[f] \in Rounds => asked'[f] = asked[f] /\ asked[f] # r
  BY <1>4, <1>7 DEF DevelopInv, RowsFollow
<1> HIDE DEF below
<1>9. ASSUME NEW x \in WorkType, work' = [work EXCEPT ![r] = x], x.pc \in {"painting", "end"},
             ~raced /\ x.pc = "painting" => x.base = Below(v) /\ \A u \in Ready \ DOMAIN disk : ~(v > u)
      PROVE  DevelopInv'
  BY <1>3, <1>4, <1>7, <1>8, <1>9, WorkMoves
<1>10. CASE below = 0
  <2>1. work' = [work EXCEPT ![r] = [pc |-> "painting", base |-> Original]]
    BY <1>1, <1>10 DEF below
  <2>2. [pc |-> "painting", base |-> Original] \in WorkType
    BY DEF WorkType, Original
  <2> QED BY <1>5, <1>9, <1>10, <2>1, <2>2
<1>11. CASE below # 0 /\ below \in DOMAIN disk
  <2>1. work' = [work EXCEPT ![r] = [pc |-> "painting", base |-> disk[below]]]
    BY <1>1, <1>11 DEF below
  <2>2. [pc |-> "painting", base |-> disk[below]] \in WorkType
    BY <1>11 DEF WorkType, DevelopInv, DevelopTyped
  <2> QED BY <1>6, <1>9, <1>11, <2>1, <2>2
<1>12. CASE below # 0 /\ below \notin DOMAIN disk
  <2> DEFINE x == [work[r] EXCEPT !.pc = "end"]
  <2>1. work' = [work EXCEPT ![r] = x]
    BY <1>1, <1>12 DEF below
  <2>2. x \in WorkType /\ x.pc = "end"
    BY <1>4 DEF WorkType
  <2> HIDE DEF x
  <2> QED BY <1>9, <2>1, <2>2
<1> QED BY <1>10, <1>11, <1>12

(* A row is given another status, and its round's execution moves with it.  *)
LEMMA StatusMoves ==
    ASSUME DevelopInv, NEW r \in Rounds, NEW st \in {"running", "failed"},
           NEW pc \in {"running", "done", "over"},
           inpaint' = WithStatus(r, st), work' = [work EXCEPT ![r].pc = pc],
           work[r].pc # "over", pc = "running" => st = "running",
           raced' \in BOOLEAN,
           ~raced' => ~raced /\ RowOf(r) \subseteq {Newest} /\ (pc # "over" => RowOf(r) # {}),
           UNCHANGED <<disk, undoing, kept, uses, cut>>,
           devBudget' \in 0..DevelopIncidents,
           asked' \in [Editors -> {"idle", "checked"} \cup Rounds],
           \A e \in Editors : asked'[e] \in Rounds => asked'[e] = asked[e] /\ asked[e] # r
    PROVE  DevelopInv'
<1>1. inpaint \in [Versions -> RowType] /\ work \in [Rounds -> WorkType]
  BY DEF DevelopInv, DevelopTyped
<1>2. /\ Versions' = Versions /\ inpaint' \in [Versions -> RowType]
      /\ \A v \in Versions : /\ inpaint'[v].round = inpaint[v].round
                             /\ inpaint'[v].path = inpaint[v].path
                             /\ inpaint'[v].status = IF v \in RowOf(r) THEN st ELSE inpaint[v].status
  <2>1. /\ DOMAIN inpaint' = Versions
        /\ \A v \in Versions : inpaint'[v] = IF v \in RowOf(r) THEN [inpaint[v] EXCEPT !.status = st]
                                                              ELSE inpaint[v]
        /\ inpaint' = [v \in Versions |-> inpaint'[v]]
    BY DEF WithStatus
  <2>2. \A v \in Versions : inpaint[v] \in RowType
    BY <1>1
  <2>3. \A y \in RowType : /\ [y EXCEPT !.status = st] \in RowType
                           /\ [y EXCEPT !.status = st].round = y.round
                           /\ [y EXCEPT !.status = st].path = y.path
                           /\ [y EXCEPT !.status = st].status = st
    BY DEF RowType
  <2>4. Versions' = Versions
    BY <2>1 DEF Versions
  <2>5. \A v \in Versions : inpaint'[v] \in RowType
    BY <2>1, <2>2, <2>3
  <2>6. ASSUME NEW v \in Versions
        PROVE  /\ inpaint'[v].round = inpaint[v].round
               /\ inpaint'[v].path = inpaint[v].path
               /\ inpaint'[v].status = IF v \in RowOf(r) THEN st ELSE inpaint[v].status
    <3>1. PICK y \in RowType : y = inpaint[v]
      BY <2>2
    <3>2. inpaint'[v] = IF v \in RowOf(r) THEN [y EXCEPT !.status = st] ELSE y
      BY <2>1, <3>1
    <3> QED BY <2>3, <3>1, <3>2
  <2>7. inpaint' \in [Versions -> RowType]
    BY <2>1, <2>5
  <2> QED BY <2>4, <2>6, <2>7
<1>3. Newest' = Newest /\ Painted' = Painted /\ \A q : RowOf(q)' = RowOf(q)
  BY <1>2 DEF Newest, Painted, RowOf
<1>4. Ready' = Ready \ RowOf(r) /\ Open' \subseteq Open \cup RowOf(r)
  BY <1>2 DEF Ready, Open
<1>5. ASSUME ~raced', NEW u \in Versions PROVE Below(u)' = Below(u) /\ Carries(u)' = Carries(u)
  <2>1. {x \in Ready' : x < u} = {x \in Ready : x < u} /\ Ready \subseteq Versions
    BY <1>4, <1>5, NewestIs DEF DevelopInv, Ready
  <2>2. \A x \in {y \in Ready : y < u} : inpaint'[x].round = inpaint[x].round
    BY <1>2, <2>1
  <2> QED BY <1>2, <2>1, <2>2 DEF Below, Carries
<1>6. /\ work' \in [Rounds -> WorkType] /\ \A q \in Rounds \ {r} : work'[q] = work[q]
      /\ work'[r].pc = pc
  BY <1>1 DEF WorkType
<1>7. \A v \in Versions : inpaint[v].round \in Rounds /\ (inpaint[v].round = r <=> v \in RowOf(r))
  BY <1>1 DEF RowType, RowOf
<1>8. DevelopTyped'
  <2>1. \A u, v \in Versions : inpaint'[u].round = inpaint'[v].round => u = v
    BY <1>2 DEF DevelopInv, DevelopTyped
  <2>2. \A v \in Ready' : inpaint'[v].path
    BY <1>2, <1>4 DEF DevelopInv, DevelopTyped, Ready
  <2> QED BY <1>2, <1>6, <2>1, <2>2 DEF DevelopInv, DevelopTyped, kept
<1>9. RowsFollow'
  <2>1. ASSUME NEW v \in Versions
        PROVE  LET c == work'[inpaint'[v].round].pc
               IN  /\ c = "free" => inpaint'[v].status = "queued"
                   /\ c \in {"running", "painting", "end"} => inpaint'[v].status = "running"
    <3>1. inpaint'[v].round = inpaint[v].round
      BY <1>2
    <3>2. CASE v \in RowOf(r)
      <4>1. work'[inpaint[v].round].pc = pc /\ inpaint'[v].status = st
        BY <1>2, <1>6, <1>7, <3>2
      <4> QED BY <3>1, <4>1
    <3>3. CASE v \notin RowOf(r)
      <4>1. work'[inpaint[v].round] = work[inpaint[v].round] /\ inpaint'[v].status = inpaint[v].status
        BY <1>2, <1>6, <1>7, <3>3
      <4> QED BY <3>1, <4>1 DEF DevelopInv, RowsFollow
    <3> QED BY <3>2, <3>3
  <2>2. \A e \in Editors : asked'[e] \in Rounds => work'[asked'[e]].pc = "free"
    BY <1>6 DEF DevelopInv, RowsFollow
  <2>3. \A e, f \in Editors : asked'[e] \in Rounds /\ asked'[e] = asked'[f] => e = f
    BY DEF DevelopInv, RowsFollow
  <2> QED BY <1>2, <2>1, <2>2, <2>3 DEF RowsFollow
<1>10. OneOpen'
  <2>1. ASSUME ~raced', NEW q \in Rounds, work'[q].pc \notin {"free", "over"}
        PROVE  RowOf(q) # {}
    BY <1>6, <2>1 DEF DevelopInv, OneOpen
  <2>2. ASSUME ~raced', NEW v \in Versions, work'[inpaint'[v].round].pc = "painting"
        PROVE  work'[inpaint'[v].round].base = Below(v)'
    BY <1>2, <1>5, <1>6, <1>7, <2>2 DEF DevelopInv, OneOpen
  <2>3. ~raced' => Open' \subseteq {Newest}
    BY <1>4 DEF DevelopInv, OneOpen
  <2>4. ~raced' => \A e \in Editors : asked'[e] \in Rounds => RowOf(asked'[e]) # {}
    BY DEF DevelopInv, OneOpen
  <2> QED BY <1>2, <1>3, <2>1, <2>2, <2>3, <2>4 DEF OneOpen
<1>11. Unlinked'
  <2>1. ASSUME ~raced', undoing \in Rounds
        PROVE  work'[undoing].pc = "over" /\ \A v \in RowOf(undoing) : v \in Ready' => v \notin DOMAIN disk
    <3>1. undoing # r
      BY <2>1 DEF DevelopInv, Unlinked
    <3> QED BY <1>4, <1>6, <2>1, <3>1 DEF DevelopInv, Unlinked
  <2>2. ASSUME ~raced', NEW v \in Ready' \ DOMAIN disk
        PROVE  /\ inpaint'[v].round \in cut
               /\ \A u \in Versions : u > v => ~inpaint'[u].path /\ work'[inpaint'[u].round].pc # "painting"
    <3>1. v \in Ready \ DOMAIN disk /\ v \in Versions
      BY <1>4, <2>2 DEF Ready
    <3>2. inpaint[v].round \in cut
          /\ \A u \in Versions : u > v => ~inpaint[u].path /\ work[inpaint[u].round].pc # "painting"
      BY <2>2, <3>1 DEF DevelopInv, Unlinked
    <3>3. ASSUME NEW u \in Versions, work'[inpaint[u].round].pc = "painting"
          PROVE  work[inpaint[u].round].pc = "painting"
      BY <1>6, <1>7, <3>3
    <3> QED BY <1>2, <3>1, <3>2, <3>3
  <2>3. undoing' = undoing /\ disk' = disk /\ cut' = cut /\ Versions' = Versions
    BY <1>2
  <2>4. ~raced' /\ undoing' \in Rounds =>
           work'[undoing'].pc = "over" /\ \A v \in RowOf(undoing)' : v \in Ready' => v \notin DOMAIN disk'
    BY <1>3, <2>1, <2>3
  <2> QED BY <2>2, <2>3, <2>4 DEF Unlinked
<1>12. DiskCarries'
  <2>1. Painted \subseteq Versions
    BY DEF Painted
  <2> QED BY <1>3, <1>5, <2>1 DEF DevelopInv, DiskCarries
<1>13. OnePicture'
  <2>1. (\A u : \A p : Picture(u, p) => Picture(u, p)') /\ (\A u : Unkept(u) => Unkept(u)')
    BY PicturesRest DEF kept
  <2> QED BY <1>2, <1>3, <1>5, <2>1, PicturesStay
<1> QED BY <1>8, <1>9, <1>10, <1>11, <1>12, <1>13 DEF DevelopInv

LEMMA RunKeeps ==
    ASSUME DevelopInv, NEW r \in Rounds, Run(r) PROVE DevelopInv'
<1>1. work[r].pc = "message" /\ UNCHANGED <<disk, asked, undoing, kept, uses, cut, devBudget>>
  BY DEF Run
<1>2. PICK pc \in {"running", "over"} : pc = IF RowOf(r) = {} THEN "over" ELSE "running"
  OBVIOUS
<1>3. inpaint' = WithStatus(r, "running") /\ work' = [work EXCEPT ![r].pc = pc]
  BY <1>2 DEF Run
<1>4. raced' \in BOOLEAN /\ (~raced' => ~raced /\ RowOf(r) \subseteq {Newest})
  <2>1. RowOf(r) \subseteq Versions /\ raced' = (raced \/ \E v \in RowOf(r) : v < Newest)
    BY DEF RowOf, Run
  <2>2. Versions \subseteq Nat /\ Newest \in Nat /\ \A v \in Versions : v <= Newest
    BY NewestIs DEF DevelopInv
  <2>3. \A v \in RowOf(r) : ~(v < Newest) => v = Newest
    <3>1. PICK n \in Nat : n = Newest
      BY <2>2
    <3>2. \A v \in RowOf(r) : v \in Nat /\ v <= n
      BY <2>1, <2>2, <3>1
    <3> QED BY <3>1, <3>2
  <2> QED BY <2>1, <2>3 DEF DevelopInv, DevelopTyped
<1>5. \A e \in Editors : asked'[e] \in Rounds => asked'[e] = asked[e] /\ asked[e] # r
  BY <1>1 DEF DevelopInv, RowsFollow
<1>6. asked' \in [Editors -> {"idle", "checked"} \cup Rounds] /\ devBudget' \in 0..DevelopIncidents
  BY <1>1 DEF DevelopInv, DevelopTyped
<1>7. "running" \in {"running", "failed"}
  OBVIOUS
<1> QED BY <1>1, <1>2, <1>3, <1>4, <1>5, <1>6, <1>7, StatusMoves

LEMMA SendRefusedKeeps ==
    ASSUME DevelopInv, NEW e \in Editors, SendRefused(e) PROVE DevelopInv'
<1> DEFINE r == asked[e]
<1>1. r \in Rounds /\ work[r].pc = "free" /\ UNCHANGED <<disk, undoing, kept, uses, cut, raced>>
  BY DEF SendRefused, DevelopInv, RowsFollow
<1>2. devBudget' \in 0..DevelopIncidents
  BY DevelopSpends DEF SendRefused, DevelopInv, DevelopTyped
<1>3. RowOf(r) \subseteq Open
  BY <1>1 DEF DevelopInv, RowsFollow, RowOf, Open
<1>4. inpaint' = WithStatus(r, "failed") /\ work' = [work EXCEPT ![r].pc = "over"]
  BY DEF SendRefused
<1>5. asked \in [Editors -> {"idle", "checked"} \cup Rounds] /\ asked' = [asked EXCEPT ![e] = "idle"]
  BY DEF SendRefused, DevelopInv, DevelopTyped
<1>6. asked' \in [Editors -> {"idle", "checked"} \cup Rounds]
  BY <1>5
<1>7. \A f \in Editors : asked'[f] \in Rounds => asked'[f] = asked[f] /\ asked[f] # r
  <2>1. ASSUME NEW f \in Editors, asked'[f] \in Rounds PROVE f # e /\ asked'[f] = asked[f]
    BY <1>5, <2>1, DevelopAssumption DEF DevelopAssumption
  <2> QED BY <1>1, <2>1 DEF DevelopInv, RowsFollow
<1>8. raced' \in BOOLEAN /\ (~raced' => ~raced /\ RowOf(r) \subseteq {Newest})
  BY <1>1, <1>3 DEF DevelopInv, DevelopTyped, OneOpen
<1>9. "failed" \in {"running", "failed"} /\ "over" \in {"running", "done", "over"}
  OBVIOUS
<1> HIDE DEF r
<1> QED BY <1>1, <1>2, <1>4, <1>6, <1>7, <1>8, <1>9, StatusMoves

LEMMA MarkFailedKeeps ==
    ASSUME DevelopInv, NEW r \in Rounds, MarkFailed(r) PROVE DevelopInv'
<1>1. /\ work[r].pc = "end" /\ RowOf(r) # {}
      /\ UNCHANGED <<disk, asked, undoing, kept, uses, cut, raced, devBudget>>
  BY DEF MarkFailed
<1>2. inpaint' = WithStatus(r, "failed") /\ work' = [work EXCEPT ![r].pc = "done"]
  BY DEF MarkFailed
<1>3. RowOf(r) \subseteq Open
  BY <1>1 DEF DevelopInv, RowsFollow, RowOf, Open
<1>4. \A e \in Editors : asked'[e] \in Rounds => asked'[e] = asked[e] /\ asked[e] # r
  BY <1>1 DEF DevelopInv, RowsFollow
<1>5. asked' \in [Editors -> {"idle", "checked"} \cup Rounds] /\ devBudget' \in 0..DevelopIncidents
  BY <1>1 DEF DevelopInv, DevelopTyped
<1>6. raced' \in BOOLEAN /\ (~raced' => ~raced /\ RowOf(r) \subseteq {Newest})
  BY <1>1, <1>3 DEF DevelopInv, DevelopTyped, OneOpen
<1>7. "failed" \in {"running", "failed"} /\ "done" \in {"running", "done", "over"}
  OBVIOUS
<1> QED BY <1>1, <1>2, <1>4, <1>5, <1>6, <1>7, StatusMoves

(* The file of a result says what was painted.                              *)
LEMMA ResultWritten ==
    ASSUME DevelopInv, NEW r \in Rounds, NEW v \in Versions, WritesResult(r, v), UNCHANGED kept
    PROVE  /\ RowOf(r) = {v} /\ inpaint[v].round = r /\ inpaint[v].status = "running" /\ v \in Open
           /\ disk' \in [DOMAIN disk' -> SUBSET Rounds] /\ 0 \notin DOMAIN disk'
           /\ DOMAIN disk' = DOMAIN disk \cup {v} /\ \A u \in DOMAIN disk \ {v} : disk'[u] = disk[u]
           /\ \A u : u # v => \A p : Picture(u, p) => Picture(u, p)'
           /\ \A u : Unkept(u) => Unkept(u)'
           /\ ~raced => disk'[v] = Carries(v) /\ v = Newest /\ \A u \in Ready \ DOMAIN disk : ~(v > u)
           /\ ~raced /\ v \in Once => \A p : p = Carries(v) => Picture(v, p)'
<1>1. work[r].pc = "painting" /\ v \in RowOf(r) /\ disk' = Put(disk, v, work[r].base \cup {r})
  BY DEF WritesResult
<1>2. work \in [Rounds -> WorkType] /\ disk \in [DOMAIN disk -> SUBSET Rounds] /\ 0 \notin DOMAIN disk
  BY DEF DevelopInv, DevelopTyped
<1>3. inpaint[v].round = r /\ RowOf(r) = {v} /\ inpaint[v].status = "running" /\ v \in Open
  BY <1>1 DEF DevelopInv, DevelopTyped, RowsFollow, RowOf, Open
<1>4. v # 0
  BY NewestIs DEF DevelopInv
<1>5. PICK pixels \in SUBSET Rounds : pixels = work[r].base \cup {r}
  <2>1. work[r].base \cup {r} \in SUBSET Rounds
    BY <1>2 DEF WorkType
  <2> QED BY <2>1
<1>6. /\ disk' \in [DOMAIN disk' -> SUBSET Rounds] /\ DOMAIN disk' = DOMAIN disk \cup {v}
      /\ disk'[v] = pixels /\ \A u \in DOMAIN disk \ {v} : disk'[u] = disk[u]
  <2>1. disk' = Put(disk, v, pixels)
    BY <1>1, <1>5
  <2>2. /\ Put(disk, v, pixels) \in [DOMAIN Put(disk, v, pixels) -> SUBSET Rounds]
        /\ DOMAIN Put(disk, v, pixels) = DOMAIN disk \cup {v}
        /\ Put(disk, v, pixels)[v] = pixels
        /\ \A u \in DOMAIN disk \ {v} : Put(disk, v, pixels)[u] = disk[u]
    BY <1>2 DEF Put
  <2> QED BY <2>1, <2>2
<1>7. UNCHANGED <<bases, masks, view>>
  BY DEF kept
<1>8. \A u : u # v => \A p : Picture(u, p) => Picture(u, p)'
  BY <1>6, <1>7 DEF Picture
<1>9. \A u : Unkept(u) => Unkept(u)'
  BY <1>7 DEF Unkept
<1>10. ASSUME ~raced PROVE pixels = Carries(v) /\ v = Newest /\ \A u \in Ready \ DOMAIN disk : ~(v > u)
  <2>1. work[r].base = Below(v) /\ v = Newest
    BY <1>1, <1>3, <1>10 DEF DevelopInv, OneOpen
  <2>2. \A u \in Ready \ DOMAIN disk : ~(v > u)
    BY <1>1, <1>3, <1>10 DEF DevelopInv, Unlinked
  <2> QED BY <1>3, <1>5, <2>1, <2>2 DEF Carries
<1>11. ASSUME ~raced, v \in Once PROVE Picture(v, pixels)'
  <2>1. (v \notin Painted => Unkept(v)) /\ (v \in Painted => Picture(v, Carries(v)))
    BY <1>11 DEF DevelopInv, OnePicture, PictureOf
  <2>2. CASE v \in Painted
    <3>1. Picture(v, pixels)
      BY <1>10, <1>11, <2>1, <2>2
    <3> QED BY <1>6, <1>7, <3>1 DEF Picture
  <2>3. CASE v \notin Painted
    BY <1>6, <1>7, <2>1, <2>3 DEF Unkept, Picture
  <2> QED BY <2>2, <2>3
<1> QED BY <1>2, <1>3, <1>4, <1>6, <1>8, <1>9, <1>10, <1>11

(* What is kept of every version stays of one picture.                      *)
LEMMA ResultPictured ==
    ASSUME DevelopInv, NEW r \in Rounds, NEW v \in Versions, WritesResult(r, v),
           UNCHANGED <<kept, uses, raced>>,
           Versions' = Versions, Painted \subseteq Painted', Painted' \subseteq Painted \cup {v},
           ~raced => \A u \in Versions : Carries(u)' = Carries(u)
    PROVE  OnePicture'
<1>1. /\ \A u : u # v => \A p : Picture(u, p) => Picture(u, p)'
      /\ \A u : Unkept(u) => Unkept(u)'
      /\ ~raced /\ v \in Once => \A p : p = Carries(v) => Picture(v, p)'
  BY ResultWritten
<1>2. v # 0 /\ uses[v] > 0 /\ Once' = Once
  BY NewestIs DEF DevelopInv, DevelopTyped, Once
<1>3. Picture(0, Original)'
  BY <1>1, <1>2 DEF DevelopInv, OnePicture, Original
<1>4. ASSUME ~raced, NEW u \in Once PROVE PictureOf(u)'
  <2>1. PictureOf(u)
    BY <1>4 DEF DevelopInv, OnePicture
  <2>2. CASE u # v
    <3>1. \E p \in SUBSET Rounds : Picture(u, p)'
      BY <1>1, <2>1, <2>2 DEF PictureOf
    <3>2. uses'[u] = 0 \/ u \in Versions' \ Painted' => Unkept(u)'
      BY <1>1, <2>1 DEF PictureOf
    <3>3. ASSUME u \in Painted' PROVE Picture(u, Carries(u))'
      <4>1. PICK p : p = Carries(u)
        OBVIOUS
      <4>2. u \in Painted /\ u \in Versions
        BY <2>2, <3>3 DEF Painted
      <4>3. Picture(u, p)' /\ p = Carries(u)'
        BY <1>1, <1>4, <2>1, <2>2, <4>1, <4>2 DEF PictureOf
      <4> QED BY <4>3
    <3> QED BY <3>1, <3>2, <3>3 DEF PictureOf
  <2>3. CASE u = v
    <3>1. PICK p : p = Carries(v)
      OBVIOUS
    <3>2. Picture(v, p)' /\ p = Carries(v)'
      BY <1>1, <1>4, <2>3, <3>1
    <3>3. p \in SUBSET Rounds
      <4>1. \A x \in Versions : inpaint[x].round \in Rounds
        BY DEF DevelopInv, DevelopTyped, RowType
      <4> QED BY <3>1, <4>1 DEF Carries, Below, Ready
    <3>4. Picture(v, Carries(v))'
      BY <3>2
    <3>5. uses'[v] = 0 \/ v \in Versions' \ Painted' => Unkept(v)'
      BY <1>1, <1>2, <2>1, <2>3 DEF PictureOf
    <3> QED BY <2>3, <3>2, <3>3, <3>4, <3>5 DEF PictureOf
  <2> QED BY <2>2, <2>3
<1> QED BY <1>2, <1>3, <1>4 DEF OnePicture

LEMMA SaveResultKeeps ==
    ASSUME DevelopInv, NEW r \in Rounds, SaveResult(r) PROVE DevelopInv'
<1>1. PICK v \in Versions : WritesResult(r, v)
  BY DEF SaveResult
<1>2. UNCHANGED <<inpaint, asked, undoing, work, kept, uses, cut, raced, devBudget>>
  BY DEF SaveResult
<1>3. /\ Versions' = Versions /\ Newest' = Newest /\ Ready' = Ready /\ Open' = Open /\ Painted' = Painted
      /\ (\A q : RowOf(q)' = RowOf(q)) /\ (\A u : Below(u)' = Below(u)) /\ (\A u : Carries(u)' = Carries(u))
  BY <1>2, RowsStay
<1>4. /\ RowOf(r) = {v} /\ disk' \in [DOMAIN disk' -> SUBSET Rounds] /\ 0 \notin DOMAIN disk'
      /\ DOMAIN disk' = DOMAIN disk \cup {v} /\ \A u \in DOMAIN disk \ {v} : disk'[u] = disk[u]
      /\ ~raced => disk'[v] = Carries(v)
  BY <1>1, <1>2, ResultWritten
<1>5. DevelopTyped'
  BY <1>2, <1>3, <1>4 DEF DevelopInv, DevelopTyped, kept
<1>6. RowsFollow' /\ OneOpen'
  BY <1>2, <1>3 DEF DevelopInv, RowsFollow, OneOpen
<1>7. Unlinked'
  <2>1. ASSUME ~raced, undoing \in Rounds
        PROVE  work[undoing].pc = "over" /\ \A u \in RowOf(undoing) : u \in Ready => u \notin DOMAIN disk'
    <3>1. work[undoing].pc = "over" /\ \A u \in RowOf(undoing) : u \in Ready => u \notin DOMAIN disk
      BY <2>1 DEF DevelopInv, Unlinked
    <3>2. undoing # r
      BY <1>1, <3>1 DEF WritesResult
    <3>3. v \notin RowOf(undoing)
      BY <1>4, <3>2 DEF RowOf
    <3> QED BY <1>4, <3>1, <3>3
  <2>2. ASSUME ~raced, NEW u \in Ready \ DOMAIN disk' PROVE u \in Ready \ DOMAIN disk
    BY <1>4, <2>2
  <2>3. RowOf(undoing)' = RowOf(undoing)
    BY <1>2 DEF RowOf, Versions
  <2>4. undoing' = undoing /\ cut' = cut /\ inpaint' = inpaint /\ work' = work /\ raced' = raced
    BY <1>2
  <2> QED BY <1>3, <2>1, <2>2, <2>3, <2>4 DEF DevelopInv, Unlinked
<1>8. DiskCarries'
  BY <1>2, <1>3, <1>4 DEF DevelopInv, DiskCarries
<1>9. OnePicture'
  BY <1>1, <1>2, <1>3, ResultPictured
<1> QED BY <1>5, <1>6, <1>7, <1>8, <1>9 DEF DevelopInv

(* A result is written: its file and its row say what was painted.          *)
LEMMA PaintKeeps ==
    ASSUME DevelopInv, NEW r \in Rounds, Paint(r) PROVE DevelopInv'
<1>1. PICK v \in Versions : WritesResult(r, v)
                            /\ inpaint' = [inpaint EXCEPT ![v].status = "ready", ![v].path = TRUE]
  BY DEF Paint
<1>2. /\ work[r].pc = "painting" /\ work' = [work EXCEPT ![r].pc = "done"]
      /\ UNCHANGED <<asked, undoing, kept, uses, cut, raced, devBudget>>
  BY <1>1 DEF Paint, WritesResult
<1>3. work \in [Rounds -> WorkType] /\ inpaint \in [Versions -> RowType]
  BY DEF DevelopInv, DevelopTyped
<1>4. /\ RowOf(r) = {v} /\ inpaint[v].round = r /\ inpaint[v].status = "running" /\ v \in Open
      /\ disk' \in [DOMAIN disk' -> SUBSET Rounds] /\ 0 \notin DOMAIN disk'
      /\ DOMAIN disk' = DOMAIN disk \cup {v} /\ \A u \in DOMAIN disk \ {v} : disk'[u] = disk[u]
      /\ ~raced => disk'[v] = Carries(v) /\ v = Newest /\ \A u \in Ready \ DOMAIN disk : ~(v > u)
  BY <1>1, <1>2, ResultWritten
<1>5. /\ Versions' = Versions /\ inpaint' \in [Versions -> RowType]
      /\ \A u \in Versions \ {v} : inpaint'[u] = inpaint[u]
      /\ inpaint'[v].round = r /\ inpaint'[v].status = "ready" /\ inpaint'[v].path
  <2>1. inpaint[v] \in RowType
    BY <1>3
  <2> QED BY <1>1, <1>3, <1>4, <2>1 DEF Versions, RowType
<1>6. \A u \in Versions : inpaint'[u].round = inpaint[u].round
  BY <1>4, <1>5
<1>7. Newest' = Newest /\ \A q : RowOf(q)' = RowOf(q)
  BY <1>5, <1>6 DEF Newest, RowOf
<1>8. Ready' = Ready \cup {v} /\ Open' = Open \ {v} /\ v \notin Ready /\ Painted' = Painted \cup {v}
  BY <1>4, <1>5 DEF Ready, Open, Painted
<1>9. ASSUME ~raced, NEW u \in Versions PROVE Below(u)' = Below(u) /\ Carries(u)' = Carries(u)
  <2>1. Ready \subseteq Versions /\ v = Newest
    BY <1>4, <1>9 DEF Ready
  <2>2. ~(v < u)
    BY <1>9, <2>1, NewestIs DEF DevelopInv
  <2>3. {x \in Ready' : x < u} = {x \in Ready : x < u}
    BY <1>8, <2>2
  <2>4. \A x \in {y \in Ready : y < u} : inpaint'[x].round = inpaint[x].round
    BY <1>6, <2>1
  <2> QED BY <1>6, <2>3, <2>4 DEF Below, Carries
<1>10. work' \in [Rounds -> WorkType] /\ work'[r].pc = "done" /\ \A q \in Rounds \ {r} : work'[q] = work[q]
  BY <1>2, <1>3 DEF WorkType
<1>11. \A u \in Versions \ {v} : inpaint[u].round \in Rounds \ {r} /\ work'[inpaint[u].round] = work[inpaint[u].round]
  BY <1>3, <1>4, <1>10 DEF RowType, DevelopInv, DevelopTyped
<1>12. DevelopTyped'
  <2>1. \A u, w \in Versions : inpaint'[u].round = inpaint'[w].round => u = w
    BY <1>6 DEF DevelopInv, DevelopTyped
  <2>2. \A u \in Ready' : inpaint'[u].path
    BY <1>5, <1>8 DEF DevelopInv, DevelopTyped, Ready
  <2> QED BY <1>2, <1>4, <1>5, <1>10, <2>1, <2>2 DEF DevelopInv, DevelopTyped, kept
<1>13. RowsFollow'
  <2>1. ASSUME NEW u \in Versions
        PROVE  LET pc == work'[inpaint'[u].round].pc
               IN  /\ pc = "free" => inpaint'[u].status = "queued"
                   /\ pc \in {"running", "painting", "end"} => inpaint'[u].status = "running"
    <3>1. CASE u = v
      BY <1>5, <1>10, <3>1
    <3>2. CASE u # v
      BY <1>5, <1>11, <3>2 DEF DevelopInv, RowsFollow
    <3> QED BY <3>1, <3>2
  <2>2. \A e \in Editors : asked[e] \in Rounds => asked[e] # r /\ work[asked[e]].pc = "free"
    BY <1>2 DEF DevelopInv, RowsFollow
  <2>3. \A e \in Editors : asked[e] \in Rounds => work'[asked[e]].pc = "free"
    BY <1>10, <2>2
  <2> QED BY <1>2, <1>5, <2>1, <2>3 DEF DevelopInv, RowsFollow
<1>14. ASSUME ~raced, NEW u \in Versions, work'[inpaint'[u].round].pc = "painting" PROVE FALSE
  <2>1. u # v
    BY <1>5, <1>10, <1>14
  <2>2. u \in Open
    BY <1>5, <1>11, <1>14, <2>1 DEF DevelopInv, RowsFollow, Open
  <2> QED BY <1>4, <1>14, <2>1, <2>2 DEF DevelopInv, OneOpen
<1>15. OneOpen'
  <2>1. ASSUME ~raced, NEW q \in Rounds, work'[q].pc \notin {"free", "over"}
        PROVE  RowOf(q) # {}
    BY <1>4, <1>10, <2>1 DEF DevelopInv, OneOpen
  <2>2. ~raced => \A e \in Editors : asked[e] \in Rounds => RowOf(asked[e]) # {}
    BY DEF DevelopInv, OneOpen
  <2>3. ~raced => Open' \subseteq {Newest}
    BY <1>8 DEF DevelopInv, OneOpen
  <2> QED BY <1>2, <1>5, <1>7, <1>14, <2>1, <2>2, <2>3 DEF OneOpen
<1>16. Unlinked'
  <2>1. ASSUME ~raced, undoing \in Rounds
        PROVE  work'[undoing].pc = "over" /\ \A u \in RowOf(undoing) : u \in Ready' => u \notin DOMAIN disk'
    <3>1. work[undoing].pc = "over" /\ \A u \in RowOf(undoing) : u \in Ready => u \notin DOMAIN disk
      BY <2>1 DEF DevelopInv, Unlinked
    <3>2. undoing # r
      BY <1>2, <3>1
    <3>3. v \notin RowOf(undoing)
      BY <1>4, <3>2 DEF RowOf
    <3> QED BY <1>4, <1>8, <1>10, <2>1, <3>1, <3>2, <3>3
  <2>2. ASSUME ~raced, NEW u \in Ready' \ DOMAIN disk'
        PROVE  /\ inpaint'[u].round \in cut
               /\ \A w \in Versions : w > u => ~inpaint'[w].path /\ work'[inpaint'[w].round].pc # "painting"
    <3>1. u \in Ready \ DOMAIN disk /\ u \in Versions /\ ~(v > u)
      BY <1>4, <1>8, <2>2 DEF Ready
    <3>2. inpaint[u].round \in cut /\ \A w \in Versions : w > u => ~inpaint[w].path
      BY <2>2, <3>1 DEF DevelopInv, Unlinked
    <3>3. \A w \in Versions : w > u => ~inpaint'[w].path
      BY <1>5, <3>1, <3>2
    <3> QED BY <1>6, <1>14, <2>2, <3>1, <3>2, <3>3
  <2>3. RowOf(undoing)' = RowOf(undoing)
    BY <1>2, <1>7
  <2>4. undoing' = undoing /\ cut' = cut /\ raced' = raced
    BY <1>2
  <2> QED BY <1>5, <2>1, <2>2, <2>3, <2>4 DEF Unlinked
<1>17. DiskCarries'
  <2>1. Painted \subseteq Versions
    BY DEF Painted
  <2> QED BY <1>2, <1>4, <1>8, <1>9, <2>1 DEF DevelopInv, DiskCarries
<1>18. OnePicture'
  <2>1. UNCHANGED <<kept, uses, raced>> /\ Painted \subseteq Painted' /\ Painted' \subseteq Painted \cup {v}
    BY <1>2, <1>8
  <2> QED BY <1>1, <1>5, <1>9, <2>1, ResultPictured
<1> QED BY <1>12, <1>13, <1>15, <1>16, <1>17, <1>18 DEF DevelopInv

(* An execution whose row is gone may leave a file: a round was undone at   *)
(* work, and only the types have to survive it.                             *)
LEMMA PaintGoneKeeps ==
    ASSUME DevelopInv, NEW r \in Rounds, PaintGone(r) PROVE DevelopInv'
<1>1. /\ work[r].pc \in {"running", "painting", "end"} /\ RowOf(r) = {}
      /\ work' = [work EXCEPT ![r].pc = "over"]
      /\ UNCHANGED <<inpaint, asked, undoing, kept, uses, cut, raced, devBudget>>
  BY DEF PaintGone
<1>2. raced
  BY <1>1 DEF DevelopInv, DevelopTyped, OneOpen
<1>3. work \in [Rounds -> WorkType] /\ disk \in [DOMAIN disk -> SUBSET Rounds] /\ 0 \notin DOMAIN disk
  BY DEF DevelopInv, DevelopTyped
<1>4. /\ work' \in [Rounds -> WorkType] /\ work'[r].pc = "over"
      /\ \A q \in Rounds \ {r} : work'[q] = work[q]
  BY <1>1, <1>3 DEF WorkType
<1>5. Versions' = Versions /\ Ready' = Ready
  BY <1>1, RowsStay
<1>6. disk' \in [DOMAIN disk' -> SUBSET Rounds] /\ 0 \notin DOMAIN disk'
  <2>1. PICK pixels \in SUBSET Rounds : pixels = work[r].base \cup {r}
    <3>1. work[r].base \cup {r} \in SUBSET Rounds
      BY <1>3 DEF WorkType
    <3> QED BY <3>1
  <2>2. CASE UNCHANGED disk
    BY <1>3, <2>2
  <2>3. ASSUME NEW v \in Nat \ {0}, disk' = Put(disk, v, pixels)
        PROVE  disk' \in [DOMAIN disk' -> SUBSET Rounds] /\ 0 \notin DOMAIN disk'
    BY <1>3, <2>3 DEF Put
  <2>4. Newest + 1 \in Nat \ {0} /\ (Versions # {} => Newest \in Nat \ {0})
    <3>1. PICK n \in Nat : n = Newest
      BY NewestIs DEF DevelopInv
    <3>2. \A v \in Versions : v \in Nat \ {0} /\ v <= n
      BY <3>1, NewestIs DEF DevelopInv
    <3> QED BY <3>1, <3>2
  <2>5. \/ UNCHANGED disk \/ disk' = Put(disk, Newest + 1, pixels)
        \/ Versions # {} /\ disk' = Put(disk, Newest, pixels)
    BY <2>1 DEF PaintGone
  <2> QED BY <2>2, <2>3, <2>4, <2>5
<1>7. DevelopTyped'
  BY <1>1, <1>4, <1>5, <1>6 DEF DevelopInv, DevelopTyped, kept
<1>8. RowsFollow'
  <2>1. \A v \in Versions : inpaint[v].round \in Rounds \ {r}
    BY <1>1 DEF DevelopInv, DevelopTyped, RowType, RowOf
  <2>2. \A e \in Editors : asked[e] \in Rounds => asked[e] # r
    BY <1>1 DEF DevelopInv, RowsFollow
  <2>3. \A v \in Versions : work'[inpaint[v].round] = work[inpaint[v].round]
    BY <1>4, <2>1
  <2>4. \A e \in Editors : asked[e] \in Rounds => work'[asked[e]] = work[asked[e]]
    BY <1>4, <2>2
  <2> QED BY <1>1, <1>5, <2>3, <2>4 DEF DevelopInv, RowsFollow
<1>9. OneOpen' /\ Unlinked' /\ DiskCarries'
  BY <1>1, <1>2 DEF OneOpen, Unlinked, DiskCarries
<1>10. OnePicture'
  <2>1. Picture(0, Original)'
    BY <1>1, <1>6 DEF DevelopInv, OnePicture, Picture, kept
  <2> QED BY <1>1, <1>2, <2>1 DEF OnePicture
<1> QED BY <1>7, <1>8, <1>9, <1>10 DEF DevelopInv

(* The newest removal is taken back: its file first, then its row.          *)
LEMMA UndoFileKeeps ==
    ASSUME DevelopInv, UndoFile PROVE DevelopInv'
<1>1. PICK v \in Versions : v = Newest /\ v \in Nat /\ \A u \in Versions : u \in Nat /\ u <= v
  <2>1. Newest \in Versions
    <3>1. PICK n \in Nat : n = Newest
      BY NewestIs DEF DevelopInv
    <3>2. PICK u \in Versions : u \in Nat \ {0} /\ u <= n
      BY <3>1, NewestIs DEF DevelopInv, UndoFile
    <3>3. n # 0
      BY <3>1, <3>2
    <3> QED BY <3>1, <3>3, NewestIs DEF DevelopInv
  <2> QED BY <2>1, NewestIs DEF DevelopInv
<1> DEFINE r == inpaint[v].round
<1>2. /\ undoing' = r
      /\ IF inpaint[v].path THEN disk' = Restrict(disk, DOMAIN disk \ {v}) /\ cut' = cut \cup {r}
                            ELSE UNCHANGED <<disk, cut>>
      /\ raced' = (raced \/ work[r].pc # "over")
      /\ UNCHANGED <<inpaint, asked, work, kept, uses>>
  BY <1>1 DEF UndoFile, UndoFileOf
<1>3. r \in Rounds /\ RowOf(r) = {v}
  BY DEF DevelopInv, DevelopTyped, RowType, RowOf
<1>4. /\ Versions' = Versions /\ Newest' = Newest /\ Ready' = Ready /\ Open' = Open /\ Painted' = Painted
      /\ (\A q : RowOf(q)' = RowOf(q)) /\ (\A u : Below(u)' = Below(u)) /\ (\A u : Carries(u)' = Carries(u))
  BY <1>2, RowsStay
<1>5. /\ disk' \in [DOMAIN disk' -> SUBSET Rounds] /\ 0 \notin DOMAIN disk' /\ DOMAIN disk' \subseteq DOMAIN disk
      /\ \A u \in DOMAIN disk' : disk'[u] = disk[u]
      /\ \A u \in DOMAIN disk \ {v} : u \in DOMAIN disk'
      /\ inpaint[v].path => v \notin DOMAIN disk'
  <2>1. disk \in [DOMAIN disk -> SUBSET Rounds] /\ 0 \notin DOMAIN disk
    BY DEF DevelopInv, DevelopTyped
  <2>2. CASE inpaint[v].path
    BY <1>2, <2>1, <2>2 DEF Restrict
  <2>3. CASE ~inpaint[v].path
    BY <1>2, <2>1, <2>3
  <2> QED BY <2>2, <2>3
<1>6. cut' \subseteq Rounds /\ cut \subseteq cut' /\ (inpaint[v].path => r \in cut')
  BY <1>2, <1>3 DEF DevelopInv, DevelopTyped
<1>7. raced' \in BOOLEAN /\ (~raced' => ~raced /\ work[r].pc = "over")
  BY <1>2 DEF DevelopInv, DevelopTyped
<1>8. devBudget' \in 0..DevelopIncidents
  BY DevelopSpends DEF UndoFile, UndoFileOf, DevelopInv, DevelopTyped
<1> HIDE DEF r
<1>9. DevelopTyped'
  BY <1>2, <1>3, <1>4, <1>5, <1>6, <1>7, <1>8 DEF DevelopInv, DevelopTyped, kept
<1>10. RowsFollow' /\ OneOpen'
  BY <1>2, <1>4, <1>7 DEF DevelopInv, RowsFollow, OneOpen
<1>11. Unlinked'
  <2>1. v \in Ready => inpaint[v].path
    BY DEF DevelopInv, DevelopTyped
  <2>2. ASSUME ~raced', NEW x \in Ready \ DOMAIN disk'
        PROVE  /\ inpaint[x].round \in cut'
               /\ \A u \in Versions : u > x => ~inpaint[u].path /\ work[inpaint[u].round].pc # "painting"
    <3>1. CASE x = v
      <4>1. r \in cut' /\ inpaint[x].round = r
        BY <1>6, <2>1, <2>2, <3>1 DEF r
      <4>2. \A u \in Versions : ~(u > x)
        BY <1>1, <3>1
      <4> QED BY <4>1, <4>2
    <3>2. CASE x # v
      BY <1>5, <1>6, <1>7, <2>2, <3>2 DEF DevelopInv, Unlinked
    <3> QED BY <3>1, <3>2
  <2>3. RowOf(undoing)' = {v}
    BY <1>2, <1>3, <1>4
  <2>4. ~raced' => work[undoing'].pc = "over" /\ (v \in Ready => v \notin DOMAIN disk')
    BY <1>2, <1>5, <1>7, <2>1
  <2> QED BY <1>2, <1>4, <2>2, <2>3, <2>4 DEF Unlinked
<1>12. DiskCarries'
  BY <1>4, <1>5, <1>7 DEF DevelopInv, DiskCarries
<1>13. OnePicture'
  <2>1. (\A u : \A p : Picture(u, p) => Picture(u, p)') /\ (\A u : Unkept(u) => Unkept(u)')
    BY <1>2, <1>5 DEF Picture, Unkept, kept
  <2> QED BY <1>2, <1>4, <1>7, <2>1, PicturesStay
<1> QED BY <1>9, <1>10, <1>11, <1>12, <1>13 DEF DevelopInv

LEMMA UndoRowKeeps ==
    ASSUME DevelopInv, UndoRow PROVE DevelopInv'
<1> DEFINE gone == RowOf(undoing)
<1>1. /\ undoing \in Rounds /\ undoing' = "none"
      /\ inpaint' = Restrict(inpaint, Versions \ gone) /\ masks' = << >>
      /\ UNCHANGED <<disk, asked, work, bases, view, uses, cut, raced, devBudget>>
  BY DEF UndoRow
<1>2. inpaint \in [Versions -> RowType] /\ work \in [Rounds -> WorkType]
  BY DEF DevelopInv, DevelopTyped
<1>3. Versions' = Versions \ gone /\ \A u \in Versions' : inpaint'[u] = inpaint[u]
  BY <1>1, <1>2 DEF Versions, Restrict
<1>4. inpaint' \in [Versions' -> RowType]
  BY <1>1, <1>2, <1>3 DEF Restrict
<1>5. Ready' = Ready \ gone /\ Open' = Open \ gone /\ Painted' = Painted \ gone
  BY <1>3 DEF Ready, Open, Painted
<1>6. \A q \in Rounds : q # undoing => RowOf(q)' = RowOf(q)
  BY <1>3 DEF RowOf
<1>7. Newest \in Versions' => Newest' = Newest
  <2>1. Versions' \subseteq Versions /\ Versions \subseteq 1..Cardinality(Rounds)
    BY <1>3 DEF DevelopInv, DevelopTyped
  <2>2. PICK m : m = Newest'
    OBVIOUS
  <2>3. m \in {0} \cup Versions' /\ m \in Nat /\ \A x \in Versions' : x <= m
    BY <2>1, <2>2, NewestOf DEF Newest
  <2>4. PICK n : n = Newest
    OBVIOUS
  <2>5. n \in Nat /\ \A x \in Versions : x <= n /\ x \in Nat \ {0}
    BY <2>4, NewestIs DEF DevelopInv
  <2>6. ASSUME n \in Versions' PROVE m = n
    BY <2>1, <2>3, <2>5, <2>6
  <2> QED BY <2>2, <2>4, <2>6
<1>8. ASSUME ~raced PROVE work[undoing].pc = "over" /\ \A v \in gone : v \in Ready => v \notin DOMAIN disk
  BY <1>1, <1>8 DEF DevelopInv, Unlinked
<1>9. ASSUME ~raced, NEW u \in Versions', NEW v \in gone, v \in Ready, v < u
      PROVE  ~inpaint[u].path /\ work[inpaint[u].round].pc # "painting"
  <2>1. v \notin DOMAIN disk /\ u \in Versions /\ v \in Versions
    BY <1>3, <1>8, <1>9 DEF RowOf
  <2>2. u > v
    BY <1>9, <2>1, NewestIs DEF DevelopInv
  <2> QED BY <1>9, <2>1, <2>2 DEF DevelopInv, Unlinked
<1>10. ASSUME ~raced, NEW u \in Versions', inpaint[u].path \/ work[inpaint[u].round].pc = "painting"
       PROVE  Below(u)' = Below(u) /\ Carries(u)' = Carries(u)
  <2>1. \A v \in gone : v \in Ready => ~(v < u)
    BY <1>9, <1>10
  <2>2. {x \in Ready' : x < u} = {x \in Ready : x < u} /\ \A x \in {y \in Ready : y < u} : x \in Versions'
    BY <1>3, <1>5, <2>1 DEF Ready
  <2>3. \A x \in {y \in Ready : y < u} : inpaint'[x].round = inpaint[x].round
    BY <1>3, <2>2
  <2>4. inpaint'[u].round = inpaint[u].round
    BY <1>3
  <2> QED BY <2>2, <2>3, <2>4 DEF Below, Carries
<1>11. DevelopTyped'
  <2>1. \A u, w \in Versions' : inpaint'[u].round = inpaint'[w].round => u = w
    BY <1>3 DEF DevelopInv, DevelopTyped
  <2>2. \A u \in Ready' : inpaint'[u].path
    BY <1>3, <1>5 DEF DevelopInv, DevelopTyped, Ready
  <2>3. Versions' \subseteq 1..Cardinality(Rounds) /\ \A u \in Versions' : uses[u] > 0
    BY <1>3 DEF DevelopInv, DevelopTyped
  <2>4. masks' \in [DOMAIN masks' -> SUBSET Rounds]
    BY <1>1
  <2> QED BY <1>1, <1>4, <2>1, <2>2, <2>3, <2>4 DEF DevelopInv, DevelopTyped
<1>12. RowsFollow'
  BY <1>1, <1>3 DEF DevelopInv, RowsFollow
<1>13. OneOpen'
  <2>1. ASSUME ~raced PROVE Open' \subseteq {Newest'}
    <3>1. \A u \in Open' : u = Newest /\ u \in Versions'
      BY <1>3, <1>5, <2>1 DEF DevelopInv, OneOpen, Open
    <3> QED BY <1>7, <3>1
  <2>2. ASSUME ~raced, NEW e \in Editors, asked[e] \in Rounds PROVE RowOf(asked[e])' # {}
    <3>1. work[asked[e]].pc = "free" /\ RowOf(asked[e]) # {}
      BY <2>2 DEF DevelopInv, RowsFollow, OneOpen
    <3>2. PICK q \in Rounds : q = asked[e]
      BY <2>2
    <3>3. RowOf(q)' # {}
      BY <1>6, <1>8, <2>2, <3>1, <3>2
    <3>4. q = asked'[e]
      BY <1>1, <3>2
    <3> QED BY <3>3, <3>4 DEF RowOf
  <2>3. ASSUME ~raced, NEW q \in Rounds, work[q].pc \notin {"free", "over"} PROVE RowOf(q)' # {}
    BY <1>6, <1>8, <2>3 DEF DevelopInv, OneOpen
  <2>4. ASSUME ~raced, NEW u \in Versions', work[inpaint'[u].round].pc = "painting"
        PROVE  work[inpaint'[u].round].base = Below(u)'
    <3>1. u \in Versions /\ inpaint'[u] = inpaint[u]
      BY <1>3
    <3> QED BY <1>10, <2>4, <3>1 DEF DevelopInv, OneOpen
  <2> QED BY <1>1, <2>1, <2>2, <2>3, <2>4 DEF OneOpen
<1>14. Unlinked'
  <2>1. undoing' \notin Rounds
    BY <1>1, DevelopAssumption DEF DevelopAssumption
  <2>2. ASSUME ~raced, NEW x \in Ready' \ DOMAIN disk
        PROVE  /\ inpaint'[x].round \in cut
               /\ \A u \in Versions' : u > x => ~inpaint'[u].path /\ work[inpaint'[u].round].pc # "painting"
    <3>1. x \in Ready \ DOMAIN disk /\ x \in Versions'
      BY <1>3, <1>5, <2>2 DEF Ready
    <3> QED BY <1>3, <2>2, <3>1 DEF DevelopInv, Unlinked
  <2> QED BY <1>1, <2>1, <2>2 DEF Unlinked
<1>15. ASSUME ~raced, NEW u \in Painted' PROVE u \in Painted /\ u \in Versions' /\ Carries(u)' = Carries(u)
  BY <1>3, <1>5, <1>10, <1>15 DEF Painted
<1>16. DiskCarries'
  BY <1>1, <1>15 DEF DevelopInv, DiskCarries
<1>17. OnePicture'
  <2>0. DOMAIN masks' = {} /\ bases' = bases /\ view' = view /\ disk' = disk
    BY <1>1
  <2>1. (\A u : \A p : Picture(u, p) => Picture(u, p)') /\ (\A u : Unkept(u) => Unkept(u)')
    BY <2>0 DEF Picture, Unkept
  <2>2. ASSUME ~raced, NEW u \in Versions'
        PROVE  u \in Versions /\ (u \in Painted' <=> u \in Painted) /\ (u \in Painted => Carries(u)' = Carries(u))
    BY <1>3, <1>5, <1>15, <2>2
  <2> QED BY <1>1, <2>1, <2>2, PicturesStay
<1> QED BY <1>11, <1>12, <1>13, <1>14, <1>16, <1>17 DEF DevelopInv

(* The next version is given to a round.                                    *)
LEMMA QueueRoundKeeps ==
    ASSUME DevelopInv, NEW e \in Editors, QueueRound(e) PROVE DevelopInv'
<1>1. PICK v \in Nat : v = Newest + 1
  BY NewestIs DEF DevelopInv
<1>2. PICK r \in Rounds :
          /\ work[r].pc = "free" /\ RowOf(r) = {} /\ \A f \in Editors : asked[f] # r
          /\ inpaint' = Put(inpaint, v, [round |-> r, status |-> "queued", path |-> FALSE])
          /\ asked' = [asked EXCEPT ![e] = r]
  BY <1>1 DEF QueueRound, QueueAt, Fresh
<1>3. /\ v \in DOMAIN uses /\ uses' = [uses EXCEPT ![v] = IF @ = 0 THEN 1 ELSE 2]
      /\ raced' = (raced \/ Open # {})
      /\ UNCHANGED <<disk, undoing, work, kept, cut, devBudget>>
  BY <1>1 DEF QueueRound, QueueAt
<1>4. /\ v \in 1..Cardinality(Rounds) /\ v \notin Versions /\ \A u \in Versions : u \in Nat /\ u < v
      /\ DOMAIN uses = 1..Cardinality(Rounds)
  <2>1. PICK n \in Nat : n = Newest
    BY NewestIs DEF DevelopInv
  <2>2. v = n + 1 /\ \A u \in Versions : u \in Nat /\ u <= n
    BY <1>1, <2>1, NewestIs DEF DevelopInv
  <2>3. \A u \in Versions : u \in Nat /\ u < v
    BY <2>2
  <2>4. v \notin Versions
    BY <2>3
  <2> QED BY <1>3, <2>3, <2>4 DEF DevelopInv, DevelopTyped
<1>5. inpaint \in [Versions -> RowType]
  BY DEF DevelopInv, DevelopTyped
<1>6. /\ Versions' = Versions \cup {v} /\ \A u \in Versions : inpaint'[u] = inpaint[u]
      /\ inpaint'[v] = [round |-> r, status |-> "queued", path |-> FALSE]
  BY <1>2, <1>4 DEF Versions, Put
<1>7. inpaint' \in [Versions' -> RowType]
  <2>1. [round |-> r, status |-> "queued", path |-> FALSE] \in RowType
    BY DEF RowType
  <2>2. inpaint' = [u \in Versions' |-> inpaint'[u]]
    BY <1>2 DEF Versions, Put
  <2> QED BY <1>5, <1>6, <2>1, <2>2
<1>8. Versions' \subseteq 1..Cardinality(Rounds)
  BY <1>4, <1>6 DEF DevelopInv, DevelopTyped
<1>9. Newest' = v
  <2>1. PICK m : m = Newest'
    OBVIOUS
  <2>2. m \in {0} \cup Versions' /\ m \in Nat /\ \A x \in Versions' : x <= m
    BY <1>8, <2>1, NewestOf DEF Newest
  <2>3. v \in Versions' /\ v # 0 /\ v <= m
    BY <1>4, <1>6, <2>2, RoundsCounted
  <2>4. m = v
    BY <1>4, <1>6, <2>2, <2>3
  <2> QED BY <2>1, <2>4
<1>10. Ready' = Ready /\ Open' = Open \cup {v} /\ Painted' = Painted /\ Ready \subseteq Versions
  BY <1>4, <1>6 DEF Ready, Open, Painted
<1>11. RowOf(r)' = {v} /\ \A q : q # r => RowOf(q)' = RowOf(q)
  <2>1. \A q : RowOf(q)' = {u \in Versions' : inpaint'[u].round = q} /\ RowOf(q) = {u \in Versions : inpaint[u].round = q}
    BY DEF RowOf
  <2>2. \A u \in Versions : inpaint'[u].round = inpaint[u].round /\ inpaint[u].round # r
    BY <1>2, <1>6, <2>1
  <2>3. inpaint'[v].round = r
    BY <1>6
  <2> QED BY <1>4, <1>6, <2>1, <2>2, <2>3
<1>12. (\A u : Below(u)' = Below(u)) /\ \A u \in Versions : Carries(u)' = Carries(u)
  BY <1>6, <1>10 DEF Below, Carries
<1>13. uses' \in [1..Cardinality(Rounds) -> 0..2] /\ uses'[v] = (IF uses[v] = 0 THEN 1 ELSE 2)
       /\ \A u \in DOMAIN uses \ {v} : uses'[u] = uses[u]
  BY <1>3, <1>4 DEF DevelopInv, DevelopTyped
<1>14. DOMAIN uses' = DOMAIN uses
  BY <1>3
<1>15. asked' \in [Editors -> {"idle", "checked"} \cup Rounds] /\ asked'[e] = r
       /\ \A f \in Editors \ {e} : asked'[f] = asked[f]
  BY <1>2 DEF DevelopInv, DevelopTyped
<1>16. \A u \in Versions : inpaint[u].round \in Rounds \ {r}
  BY <1>2, <1>5 DEF RowType, RowOf
<1>17. DevelopTyped'
  <2>2. \A u, w \in Versions' : inpaint'[u].round = inpaint'[w].round => u = w
    BY <1>6, <1>16 DEF DevelopInv, DevelopTyped
  <2>3. \A u \in Ready' : inpaint'[u].path
    BY <1>6, <1>10 DEF DevelopInv, DevelopTyped
  <2>4. raced' \in BOOLEAN
    BY <1>3 DEF DevelopInv, DevelopTyped
  <2>5. \A u \in Versions' : uses'[u] > 0
    <3>1. uses'[v] > 0
      BY <1>13
    <3>2. \A u \in Versions : u \in DOMAIN uses \ {v} /\ uses[u] > 0
      BY <1>4, <1>14, RoundsCounted DEF DevelopInv, DevelopTyped
    <3> QED BY <1>6, <1>13, <3>1, <3>2
  <2> QED BY <1>3, <1>7, <1>8, <1>13, <1>15, <2>2, <2>3, <2>4, <2>5 DEF DevelopInv, DevelopTyped, kept
<1>18. RowsFollow'
  <2>1. \A f, g \in Editors : asked'[f] \in Rounds /\ asked'[f] = asked'[g] => f = g
    BY <1>2, <1>15 DEF DevelopInv, RowsFollow
  <2>2. \A f \in Editors : asked'[f] \in Rounds => work[asked'[f]].pc = "free"
    BY <1>2, <1>15 DEF DevelopInv, RowsFollow
  <2>3. ASSUME NEW u \in Versions'
        PROVE  LET pc == work[inpaint'[u].round].pc
               IN  /\ pc = "free" => inpaint'[u].status = "queued"
                   /\ pc \in {"running", "painting", "end"} => inpaint'[u].status = "running"
    <3>1. CASE u = v
      BY <1>2, <1>6, <3>1
    <3>2. CASE u \in Versions
      BY <1>6, <1>10, <3>2 DEF DevelopInv, RowsFollow
    <3> QED BY <1>6, <3>1, <3>2
  <2> QED BY <1>3, <2>1, <2>2, <2>3 DEF RowsFollow
<1>19. ~raced' => ~raced /\ Open = {}
  BY <1>3
<1>20. OneOpen'
  <2>1. ASSUME ~raced', NEW f \in Editors, asked'[f] \in Rounds PROVE RowOf(asked[f])' # {}
    <3>1. CASE asked'[f] = r
      <4>1. v \in Versions' /\ inpaint'[v].round = r
        BY <1>6
      <4> QED BY <3>1, <4>1 DEF RowOf
    <3>2. CASE asked'[f] # r
      <4>1. PICK q \in Rounds : q = asked'[f]
        BY <2>1
      <4>2. q = asked[f] /\ RowOf(q) # {}
        BY <1>15, <1>19, <2>1, <3>2, <4>1 DEF DevelopInv, OneOpen
      <4>3. PICK u \in Versions : inpaint[u].round = q
        BY <4>2 DEF RowOf
      <4>4. u \in Versions' /\ inpaint'[u].round = q
        BY <1>6, <4>3
      <4> QED BY <4>1, <4>4 DEF RowOf
    <3> QED BY <3>1, <3>2
  <2>2. ASSUME ~raced', NEW q \in Rounds, work[q].pc \notin {"free", "over"}
        PROVE  RowOf(q)' # {}
    <3>1. q # r /\ RowOf(q) # {}
      BY <1>2, <1>19, <2>2 DEF DevelopInv, OneOpen
    <3> QED BY <1>11, <3>1
  <2>3. ASSUME ~raced', NEW u \in Versions', work[inpaint'[u].round].pc = "painting"
        PROVE  work[inpaint'[u].round].base = Below(u)
    <3>1. u \in Versions
      BY <1>2, <1>6, <2>3
    <3> QED BY <1>6, <1>19, <2>3, <3>1 DEF DevelopInv, OneOpen
  <2> QED BY <1>3, <1>9, <1>10, <1>12, <1>19, <2>1, <2>2, <2>3 DEF OneOpen
<1>21. Unlinked'
  <2>1. ASSUME ~raced', undoing \in Rounds
        PROVE  work[undoing].pc = "over" /\ \A u \in RowOf(undoing)' : u \in Ready => u \notin DOMAIN disk
    <3>1. work[undoing].pc = "over" /\ \A u \in RowOf(undoing) : u \in Ready => u \notin DOMAIN disk
      BY <1>19, <2>1 DEF DevelopInv, Unlinked
    <3>2. undoing' = undoing /\ undoing # r
      BY <1>2, <1>3, <3>1
    <3>3. RowOf(undoing)' = RowOf(undoing)
      BY <1>11, <3>2
    <3> QED BY <3>1, <3>3
  <2>2. ASSUME ~raced', NEW x \in Ready \ DOMAIN disk
        PROVE  /\ inpaint'[x].round \in cut
               /\ \A u \in Versions' : u > x => ~inpaint'[u].path /\ work[inpaint'[u].round].pc # "painting"
    <3>1. x \in Versions /\ inpaint[x].round \in cut
          /\ \A u \in Versions : u > x => ~inpaint[u].path /\ work[inpaint[u].round].pc # "painting"
      BY <1>10, <1>19, <2>2 DEF DevelopInv, Unlinked
    <3>2. ~inpaint'[v].path /\ work[inpaint'[v].round].pc # "painting"
      BY <1>2, <1>6
    <3> QED BY <1>6, <3>1, <3>2
  <2> QED BY <1>3, <1>10, <2>1, <2>2 DEF Unlinked
<1>22. DiskCarries'
  <2>1. Painted \subseteq Versions
    BY DEF Painted
  <2> QED BY <1>3, <1>10, <1>12, <1>19, <2>1 DEF DevelopInv, DiskCarries
<1>23. OnePicture'
  <2>1. \A u : \A p : Picture(u, p)' <=> Picture(u, p)
    BY <1>3 DEF Picture, kept
  <2>2. \A u : Unkept(u)' <=> Unkept(u)
    BY <1>3 DEF Unkept, kept
  <2>3. Picture(0, Original)'
    BY <2>1 DEF DevelopInv, OnePicture, Original
  <2>4. ASSUME ~raced', NEW u \in Once' PROVE PictureOf(u)'
    <3>1. u \in DOMAIN uses /\ uses'[u] < 2
      BY <1>14, <2>4 DEF Once
    <3>2. CASE u = v
      <4>1. uses[v] = 0 /\ v \in Once
        BY <1>13, <3>1, <3>2 DEF Once
      <4>2. Unkept(v) /\ \E p \in SUBSET Rounds : Picture(v, p)
        BY <1>19, <2>4, <4>1 DEF DevelopInv, OnePicture, PictureOf
      <4>3. v \notin Painted'
        BY <1>6, <1>10 DEF Painted
      <4> QED BY <2>1, <2>2, <3>2, <4>2, <4>3 DEF PictureOf
    <3>3. CASE u # v
      <4>1. u \in Once /\ uses'[u] = uses[u]
        BY <1>13, <3>1, <3>3 DEF Once
      <4>2. PictureOf(u)
        BY <1>19, <2>4, <4>1 DEF DevelopInv, OnePicture
      <4>3. \E p \in SUBSET Rounds : Picture(u, p)'
        BY <2>1, <4>2 DEF PictureOf
      <4>4. uses'[u] = 0 \/ u \in Versions' \ Painted' => Unkept(u)'
        BY <1>6, <1>10, <2>2, <3>3, <4>1, <4>2 DEF PictureOf
      <4>5. ASSUME u \in Painted' PROVE Picture(u, Carries(u))'
        <5>1. PICK p : p = Carries(u)
          OBVIOUS
        <5>2. u \in Painted /\ u \in Versions
          BY <1>10, <4>5 DEF Painted
        <5>3. Picture(u, p)' /\ p = Carries(u)'
          BY <1>12, <2>1, <4>2, <5>1, <5>2 DEF PictureOf
        <5> QED BY <5>3
      <4> QED BY <4>3, <4>4, <4>5 DEF PictureOf
    <3> QED BY <3>2, <3>3
  <2> QED BY <2>3, <2>4 DEF OnePicture
<1> QED BY <1>17, <1>18, <1>20, <1>21, <1>22, <1>23 DEF DevelopInv

(* A preview resolves its base.                                             *)
LEMMA ResolveKeeps ==
    ASSUME DevelopInv, NEW w \in Viewers, Resolve(w) PROVE DevelopInv' /\ view'[w].pc = "resolved"
                                                            /\ \A o \in Viewers \ {w} : view'[o] = view[o]
<1> DEFINE last == Max({0} \cup Ready)
<1>1. disk \in [DOMAIN disk -> SUBSET Rounds] /\ 0 \notin DOMAIN disk /\ view \in [Viewers -> ViewType]
  BY DEF DevelopInv, DevelopTyped
<1>2. Ready \subseteq Painted /\ Painted \subseteq Versions /\ Ready \subseteq 1..Cardinality(Rounds)
  BY DEF DevelopInv, DevelopTyped, Ready, Painted
<1>3. last \in {0} \cup Ready /\ last \in Nat
  BY <1>2, NewestOf
<1>4. PICK v \in Nat : v = last
  BY <1>3
<1>5. PICK x \in ViewType : x = [pc |-> "resolved", base |-> IF v \in DOMAIN disk THEN v ELSE 0,
                                  shown |-> IF v \in DOMAIN disk THEN disk[v] ELSE Original]
  <2>1. (IF v \in DOMAIN disk THEN v ELSE 0) \in Nat
    OBVIOUS
  <2>2. (IF v \in DOMAIN disk THEN disk[v] ELSE Original) \in SUBSET Rounds
    BY <1>1 DEF Original
  <2>3. [pc |-> "resolved", base |-> IF v \in DOMAIN disk THEN v ELSE 0,
         shown |-> IF v \in DOMAIN disk THEN disk[v] ELSE Original] \in ViewType
    BY <2>1, <2>2 DEF ViewType
  <2> QED BY <2>3
<1>6. /\ view' = [view EXCEPT ![w] = x] /\ DevelopSpend
      /\ UNCHANGED <<inpaint, disk, asked, undoing, work, bases, masks, uses, cut, raced>>
  BY <1>4, <1>5 DEF Resolve
<1>7. view' \in [Viewers -> ViewType] /\ view'[w] = x /\ \A o \in Viewers \ {w} : view'[o] = view[o]
  BY <1>1, <1>6
<1>8. devBudget' \in 0..DevelopIncidents
  BY <1>6, DevelopSpends DEF DevelopInv, DevelopTyped
<1>9. DevelopTyped'
  BY <1>6, <1>7, <1>8, RowsStay DEF DevelopInv, DevelopTyped
<1>10. \/ x.base = 0 /\ x.shown = Original
       \/ x.base = v /\ v \in DOMAIN disk /\ x.shown = disk[v] /\ v \in Painted
  BY <1>1, <1>2, <1>3, <1>4, <1>5
<1>11. OnePicture'
  <2>1. \A u : \A p : (u # 0 \/ p = Original) /\ Picture(u, p) => (u = x.base => x.shown = p)
    BY <1>1, <1>10 DEF Picture
  <2>2. \A u : \A p : (u # 0 \/ p = Original) /\ Picture(u, p) => Picture(u, p)'
    BY <1>6, <1>7, <2>1 DEF Picture
  <2>3. ASSUME 0 \in Painted PROVE FALSE
    BY <1>2, <2>3, NewestIs DEF DevelopInv
  <2>4. \A u : u # x.base /\ Unkept(u) => Unkept(u)'
    BY <1>6, <1>7 DEF Unkept
  <2>5. ASSUME NEW u \in Once, u \notin Painted PROVE u # x.base
    BY <1>10, <2>5, RoundsCounted DEF Once, DevelopInv, DevelopTyped
  <2>6. \A u \in Versions : Carries(u)' = Carries(u) /\ Versions' = Versions /\ Painted' = Painted
    BY <1>6, RowsStay
  <2>7. \A u \in Once : u \notin Painted /\ Unkept(u) => Unkept(u)'
    BY <2>4, <2>5
  <2> QED BY <1>6, <2>2, <2>6, <2>7, RowsStay, PicturesStay
<1>12. \A e \in Editors : asked'[e] \in Rounds => asked'[e] = asked[e]
  BY <1>6
<1>13. x.pc = "resolved"
  BY <1>5
<1> QED BY <1>6, <1>7, <1>9, <1>11, <1>12, <1>13, RowsRest

(* The base is decoded, or its entry is found, and drawn.                   *)
LEMMA DecodeKeeps ==
    ASSUME DevelopInv, NEW w \in Viewers, Decode(w)
    PROVE  /\ DevelopInv' /\ \A o \in Viewers \ {w} : view'[o] = view[o]
           /\ view'[w].pc = "drawn" /\ view[w].base \in {0} \cup Once /\ ~raced =>
                  view'[w].shown = view[w].shown /\ masks'[view[w].base] = view'[w].shown
<1>1. /\ disk \in [DOMAIN disk -> SUBSET Rounds] /\ 0 \notin DOMAIN disk /\ view \in [Viewers -> ViewType]
      /\ bases \in [DOMAIN bases -> SUBSET Rounds] /\ masks \in [DOMAIN masks -> SUBSET Rounds]
  BY DEF DevelopInv, DevelopTyped
<1>2. view[w].pc = "resolved"
      /\ UNCHANGED <<inpaint, disk, asked, undoing, work, uses, cut, raced, devBudget>>
  BY DEF Decode
<1>3. PICK v \in Nat : v = view[w].base
  BY <1>1 DEF ViewType
<1>4. /\ Versions' = Versions /\ Painted' = Painted /\ \A u \in Versions : Carries(u)' = Carries(u)
      /\ \A e \in Editors : asked'[e] \in Rounds => asked'[e] = asked[e]
  BY <1>2, RowsStay
<1>5. IdleView \in ViewType /\ IdleView.pc = "idle"
  BY DEF IdleView, ViewType, Original
<1>6. CASE ~(v \in DOMAIN bases \/ v = 0 \/ v \in DOMAIN disk)
  <2>1. view' = [view EXCEPT ![w] = IdleView] /\ UNCHANGED <<bases, masks>>
    BY <1>3, <1>6 DEF Decode
  <2>2. view' \in [Viewers -> ViewType] /\ view'[w] = IdleView /\ \A o \in Viewers \ {w} : view'[o] = view[o]
    BY <1>1, <1>5, <2>1
  <2>3. DevelopTyped'
    BY <1>2, <2>1, <2>2, RowsStay DEF DevelopInv, DevelopTyped
  <2>4. \A u : \A p : Picture(u, p) => Picture(u, p)'
    BY <1>2, <1>5, <2>1, <2>2 DEF Picture
  <2>5. \A u : Unkept(u) => Unkept(u)'
    BY <1>2, <1>5, <2>1, <2>2 DEF Unkept
  <2>6. OnePicture'
    BY <1>2, <1>4, <2>4, <2>5, PicturesStay
  <2> QED BY <1>2, <1>4, <1>5, <2>2, <2>3, <2>6, RowsRest
<1>7. CASE v \in DOMAIN bases \/ v = 0 \/ v \in DOMAIN disk
  <2>1. PICK pixels \in SUBSET Rounds : pixels = IF v \in DOMAIN bases THEN bases[v] ELSE Pixels(v)
    <3>1. (IF v \in DOMAIN bases THEN bases[v] ELSE Pixels(v)) \in SUBSET Rounds
      BY <1>1, <1>7 DEF Pixels, Original
    <3> QED BY <3>1
  <2>2. /\ bases' = Put(bases, v, pixels)
        /\ masks' = IF v \in DOMAIN masks THEN masks ELSE Put(masks, v, pixels)
        /\ view' = [view EXCEPT ![w].pc = "drawn", ![w].shown = pixels]
    BY <1>3, <1>7, <2>1 DEF Decode
  <2>3. /\ DOMAIN bases' = DOMAIN bases \cup {v} /\ bases'[v] = pixels
        /\ \A u \in DOMAIN bases \ {v} : bases'[u] = bases[u]
        /\ bases' \in [DOMAIN bases' -> SUBSET Rounds]
    BY <1>1, <2>2 DEF Put
  <2>4. /\ DOMAIN masks' = DOMAIN masks \cup {v}
        /\ masks'[v] = IF v \in DOMAIN masks THEN masks[v] ELSE pixels
        /\ \A u \in DOMAIN masks \ {v} : masks'[u] = masks[u]
        /\ masks' \in [DOMAIN masks' -> SUBSET Rounds]
    <3>1. CASE v \in DOMAIN masks
      BY <1>1, <2>2, <3>1
    <3>2. CASE v \notin DOMAIN masks
      BY <1>1, <2>2, <3>2 DEF Put
    <3> QED BY <3>1, <3>2
  <2>5. /\ view' \in [Viewers -> ViewType] /\ view'[w].pc = "drawn" /\ view'[w].shown = pixels
        /\ \A o \in Viewers \ {w} : view'[o] = view[o]
    <3>1. view[w] \in ViewType
      BY <1>1
    <3> QED BY <1>1, <2>2, <3>1 DEF ViewType
  <2>6. DevelopTyped'
    BY <1>2, <2>3, <2>4, <2>5, RowsStay DEF DevelopInv, DevelopTyped
  <2>7. ASSUME NEW p, Picture(v, p), v # 0 \/ p = Original
        PROVE  view[w].shown = p /\ pixels = p /\ masks'[v] = p
    <3>1. view[w].shown = p
      BY <1>2, <1>3, <2>7 DEF Picture
    <3>2. CASE v \in DOMAIN bases
      BY <2>1, <2>4, <2>7, <3>1, <3>2 DEF Picture
    <3>3. CASE v \notin DOMAIN bases /\ v = 0
      BY <2>1, <2>4, <2>7, <3>1, <3>3 DEF Picture, Pixels
    <3>4. CASE v \notin DOMAIN bases /\ v # 0
      BY <1>7, <2>1, <2>4, <2>7, <3>1, <3>4 DEF Picture, Pixels
    <3> QED BY <3>2, <3>3, <3>4
  <2>8. \A u : \A p : Picture(u, p) /\ (u = v => pixels = p) => Picture(u, p)'
    BY <1>2, <2>3, <2>4, <2>5 DEF Picture
  <2>9. \A u : \A p : (u # 0 \/ p = Original) /\ Picture(u, p) => Picture(u, p)'
    BY <2>7, <2>8
  <2>10. \A u : Unkept(u) => u # v
    BY <1>2, <1>3 DEF Unkept
  <2>11. \A u : u # v /\ Unkept(u) => Unkept(u)'
    BY <1>2, <2>3, <2>4, <2>5 DEF Unkept
  <2>12. OnePicture'
    BY <1>2, <1>4, <2>9, <2>10, <2>11, PicturesStay
  <2>13. ASSUME v \in {0} \cup Once, ~raced PROVE pixels = view[w].shown /\ masks'[v] = pixels
    <3>1. \E p : Picture(v, p) /\ (v # 0 \/ p = Original)
      <4>1. CASE v = 0
        BY <4>1 DEF DevelopInv, OnePicture
      <4>2. CASE v # 0
        BY <2>13, <4>2 DEF DevelopInv, OnePicture, PictureOf
      <4> QED BY <4>1, <4>2
    <3> QED BY <2>7, <3>1
  <2> QED BY <1>2, <1>3, <1>4, <2>5, <2>6, <2>12, <2>13, RowsRest
<1> QED BY <1>6, <1>7

LEMMA AnswerEvictKeep ==
    ASSUME DevelopInv, (\E w \in Viewers : Answer(w)) \/ Evict
    PROVE  DevelopInv' /\ \A w \in Viewers : view[w].pc = "resolved" => view'[w] = view[w]
<1>1. view \in [Viewers -> ViewType] /\ bases \in [DOMAIN bases -> SUBSET Rounds]
  BY DEF DevelopInv, DevelopTyped
<1>2. IdleView \in ViewType /\ IdleView.pc = "idle"
  BY DEF IdleView, ViewType, Original
<1>3. UNCHANGED <<inpaint, disk, asked, undoing, work, uses, cut, raced>>
  BY DEF Answer, Evict
<1>4. view' \in [Viewers -> ViewType] /\ \A w \in Viewers : view'[w] = view[w] \/ (view[w].pc = "drawn" /\ view'[w] = IdleView)
  <2>1. CASE UNCHANGED view
    BY <1>1, <2>1
  <2>2. ASSUME NEW o \in Viewers, Answer(o)
        PROVE  view' \in [Viewers -> ViewType]
               /\ \A w \in Viewers : view'[w] = view[w] \/ (view[w].pc = "drawn" /\ view'[w] = IdleView)
    BY <1>1, <1>2, <2>2 DEF Answer
  <2> QED BY <2>1, <2>2 DEF Evict
<1>5. /\ bases' \in [DOMAIN bases' -> SUBSET Rounds] /\ masks' \in [DOMAIN masks' -> SUBSET Rounds]
      /\ \A u \in DOMAIN bases' : u \in DOMAIN bases /\ bases'[u] = bases[u]
      /\ \A u \in DOMAIN masks' : u \in DOMAIN masks /\ masks'[u] = masks[u]
  <2>1. CASE UNCHANGED <<bases, masks>>
    BY <1>1, <2>1 DEF DevelopInv, DevelopTyped
  <2>2. CASE bases' \in {<< >>, bases} /\ masks' = << >>
    <3>1. DOMAIN masks' = {} /\ masks' \in [DOMAIN masks' -> SUBSET Rounds]
      BY <2>2
    <3>2. CASE bases' = bases
      BY <1>1, <3>1, <3>2
    <3>3. CASE bases' = << >>
      <4>1. DOMAIN bases' = {} /\ bases' \in [DOMAIN bases' -> SUBSET Rounds]
        BY <3>3
      <4> QED BY <3>1, <4>1
    <3> QED BY <2>2, <3>2, <3>3
  <2> QED BY <2>1, <2>2 DEF Answer, Evict
<1>6. devBudget' \in 0..DevelopIncidents
  BY DevelopSpends DEF Answer, Evict, DevelopInv, DevelopTyped
<1>7. DevelopTyped'
  BY <1>3, <1>4, <1>5, <1>6, RowsStay DEF DevelopInv, DevelopTyped
<1>8. \A u : \A p : Picture(u, p) => Picture(u, p)'
  BY <1>2, <1>3, <1>4, <1>5 DEF Picture
<1>9. \A u : Unkept(u) => Unkept(u)'
  BY <1>2, <1>3, <1>4, <1>5 DEF Unkept
<1>10. /\ Versions' = Versions /\ Painted' = Painted /\ \A u \in Versions : Carries(u)' = Carries(u)
       /\ \A e \in Editors : asked'[e] \in Rounds => asked'[e] = asked[e]
  BY <1>3, RowsStay
<1>11. OnePicture'
  BY <1>3, <1>8, <1>9, <1>10, PicturesStay
<1> QED BY <1>2, <1>3, <1>4, <1>7, <1>10, <1>11, RowsRest

(* Every step keeps the invariant, and a preview drawn in it agrees.        *)
LEMMA DevelopStep ==
    ASSUME DevelopInv, DevelopNext PROVE DevelopInv' /\ PreviewStep
<1>1. ASSUME UNCHANGED view PROVE PreviewStep
  BY <1>1 DEF PreviewStep
<1>2. ASSUME NEW e \in Editors, CheckPending(e) \/ Asking(e) \/ SendRefused(e) \/ SendLost(e)
      PROVE  DevelopInv' /\ PreviewStep
  <2>1. UNCHANGED view
    BY <1>2 DEF CheckPending, Asking, QueueRound, QueueAt, SendRound, SendRefused, SendLost, kept
  <2>2. DevelopInv'
    BY <1>2, CheckKeeps, QueueRoundKeeps, SendKeeps, SendRefusedKeeps DEF Asking
  <2> QED BY <1>1, <2>1, <2>2
<1>3. ASSUME NEW r \in Rounds, Removing(r) \/ SaveResult(r) \/ FailRound(r) \/ CommitFails(r) \/ RoundDies(r)
      PROVE  DevelopInv' /\ PreviewStep
  <2>1. UNCHANGED view
    BY <1>3 DEF Removing, Run, OpenBase, SaveResult, Paint, PaintGone, MarkFailed, Acknowledge,
                FailRound, CommitFails, RoundDies, kept
  <2>2. DevelopInv'
    BY <1>3, RunKeeps, OpenBaseKeeps, SaveResultKeeps, PaintKeeps, PaintGoneKeeps, MarkFailedKeeps,
       StopKeeps DEF Removing
  <2> QED BY <1>1, <2>1, <2>2
<1>4. ASSUME NEW w \in Viewers, Resolve(w) PROVE DevelopInv' /\ PreviewStep
  <2>1. DevelopInv' /\ view'[w].pc = "resolved" /\ \A o \in Viewers \ {w} : view'[o] = view[o]
    BY <1>4, ResolveKeeps
  <2> QED BY <2>1 DEF PreviewStep
<1>5. ASSUME NEW w \in Viewers, Decode(w) PROVE DevelopInv' /\ PreviewStep
  <2>1. /\ DevelopInv' /\ \A o \in Viewers \ {w} : view'[o] = view[o]
        /\ view'[w].pc = "drawn" /\ view[w].base \in {0} \cup Once /\ ~raced =>
               view'[w].shown = view[w].shown /\ masks'[view[w].base] = view'[w].shown
    BY <1>5, DecodeKeeps
  <2> QED BY <2>1 DEF PreviewStep
<1>6. ASSUME (\E w \in Viewers : Answer(w)) \/ Evict PROVE DevelopInv' /\ PreviewStep
  <2>1. DevelopInv' /\ \A w \in Viewers : view[w].pc = "resolved" => view'[w] = view[w]
    BY <1>6, AnswerEvictKeep
  <2> QED BY <2>1 DEF PreviewStep
<1>7. CASE UndoFile \/ UndoRow \/ UndoCut
  <2>1. UNCHANGED view
    BY <1>7 DEF UndoFile, UndoFileOf, UndoRow, UndoCut, kept
  <2> QED BY <1>1, <1>7, <2>1, UndoFileKeeps, UndoRowKeeps, CheckKeeps
<1> QED BY <1>2, <1>3, <1>4, <1>5, <1>6, <1>7 DEF DevelopNext, Viewing

(* A ready removal's file carries its own round and those of the ready ones *)
(* below it, and a ready row without its file is the newest and had it      *)
(* removed by an undo, unless a round was undone before its work was over,  *)
(* ran again under a newer one, or was queued while another was open; and a *)
(* preview and its mask show the pixels that were resolved, as long as the  *)
(* version's number was given once (api/v1/develop.py, processing/tasks.py  *)
(* inpaint_asset).                                                          *)
THEOREM DevelopHolds == HouseSpec => DevelopCorrect
<1>1. HouseInit => DevelopInv
  BY DevelopInvStarts DEF HouseInit
<1>2. [HouseNext]_houseVars => [DevelopNext]_developVars
  BY DEF HouseNext, PeopleMove, DevelopMoves, WatcherMoves, RemoteMoves, houseVars
<1>3. DevelopInv /\ UNCHANGED developVars => DevelopInv'
  <2> SUFFICES ASSUME DevelopInv, UNCHANGED developVars PROVE DevelopInv'
    OBVIOUS
  <2>1. UNCHANGED <<inpaint, disk, asked, undoing, work, kept, uses, cut, raced, devBudget>>
    BY DEF developVars
  <2>2. DevelopTyped'
    BY <2>1, RowsStay DEF DevelopInv, DevelopTyped, kept
  <2> QED BY <2>1, <2>2, OnePictureRests, RowsRest
<1>4. DevelopInv /\ [HouseNext]_houseVars => DevelopInv' /\ [PreviewStep]_developVars
  BY <1>2, <1>3, DevelopStep
<1>5. DevelopInv => DevelopTypeOK /\ ChainHolds
  <2> SUFFICES ASSUME DevelopInv PROVE DevelopTypeOK
    BY ChainFollows
  <2>1. DOMAIN inpaint \subseteq 1..Cardinality(Rounds)
    BY DEF DevelopInv, DevelopTyped, Versions
  <2>2. \A v \in DOMAIN inpaint : inpaint[v] \in RowType /\ (inpaint[v].status = "ready" => inpaint[v].path)
    BY DEF DevelopInv, DevelopTyped, Versions, Ready
  <2>3. \A v \in DOMAIN disk : disk[v] \subseteq Rounds
    BY DEF DevelopInv, DevelopTyped
  <2>4. /\ \A e \in Editors : asked[e] \in {"idle", "checked"} \cup Rounds
        /\ undoing \in {"none"} \cup Rounds /\ cut \subseteq Rounds
        /\ \A r \in Rounds : work[r] \in WorkType
        /\ devBudget \in 0..DevelopIncidents
    BY DEF DevelopInv, DevelopTyped
  <2> QED BY <2>1, <2>2, <2>3, <2>4 DEF DevelopTypeOK, RowType, WorkType
<1> QED BY <1>1, <1>4, <1>5, PTL DEF HouseSpec, DevelopCorrect, PreviewsAgree, PreviewStep

-----------------------------------------------------------------------------
(* The people and their faces.                                              *)
FaceType == [who : Persons \cup {"none"}, source : {"detected", "confirmed", "rejected"},
             slot : Persons \cup {"none"}, state : {"none", "pending", "rejected"}]
PersonType == [name : Names \cup {""}, proto : SUBSET Detections, cover : Detections \cup {"none"}]
TabType == [pc : {"idle", "learn", "write", "offer"}, about : Seq(Persons), rows : SUBSET Detections]
TabsTyped ==
    /\ desk \in [Tabs -> TabType]
    /\ \A t \in Tabs : /\ desk[t].pc = "idle" => desk[t] = IdleTab
                       /\ desk[t].pc # "idle" => Len(desk[t].about) \in 1..2
                       /\ Len(desk[t].about) = 2 => desk[t].about[1] # desk[t].about[2]
PeopleTyped ==
    /\ Rows \subseteq Detections /\ face \in [Rows -> FaceType]
    /\ \A r \in Rows : {face[r].who, face[r].slot} \subseteq Known \cup {"none"}
    /\ Known \subseteq Persons /\ person \in [Known -> PersonType]
    /\ TabsTyped
    /\ DOMAIN detect = Detections
    /\ \A d \in Detections : detect[d].pc \in {"new", "seen", "matching", "over"}
    /\ cluster.pc \in {"none", "queued", "read"}
    /\ unlearned \subseteq Known /\ faceBudget \in 0..PeopleIncidents

(* A row and a cover are of a detection that inserted its row; a cover that *)
(* nobody reviewed, and no match or clustering took, is still in its group, *)
(* and the group has no name.                                               *)
Inserted(d) == d \in Detections /\ detect[d].pc \in {"matching", "over"}
CoverStays(p) ==
    LET c == person[p].cover
    IN  /\ c # "none" => Inserted(c)
        /\ c \in Rows /\ c \notin claimed /\ face[c].source = "detected" =>
              face[c].who = p /\ ~Named(p)
CoversStay == (\A r \in Rows : Inserted(r)) /\ (\A p \in Known : CoverStays(p))

(* A named person whose evidence did not go unlearned is the mean of it, or *)
(* a request is still to learn it; what a request has read and not yet      *)
(* written is the evidence; and a request about someone who is gone will    *)
(* teach nobody.                                                            *)
Evidence(p) == Of(p, {"confirmed"})
Judging(t) == desk[t].pc \in {"learn", "write"}
ToLearn(p) == \E t \in Tabs : Judging(t) /\ p \in Range(desk[t].about)
Learned ==
    /\ \A p \in Known \ unlearned : Named(p) => ToLearn(p) \/ person[p].proto = Evidence(p)
    /\ \A t \in Tabs : desk[t].pc = "write" /\ desk[t].about[1] \in Known \ unlearned =>
                          desk[t].rows = Evidence(desk[t].about[1])
    /\ \A t \in Tabs : Judging(t) /\ desk[t].about[1] \notin Known =>
                          Range(desk[t].about) \cap Known \subseteq unlearned

PeopleInv == PeopleTyped /\ CoversStay /\ Learned

LEMMA PeopleInvStarts == PeopleInit => PeopleInv
<1> SUFFICES ASSUME PeopleInit PROVE PeopleInv
  OBVIOUS
<1> USE DEF PeopleInit
<1>1. Rows = {} /\ Known = {}
  BY DEF Rows, Known
<1>2. face \in [Rows -> FaceType] /\ person \in [Known -> PersonType]
  BY <1>1
<1>3. \A t \in Tabs : desk[t] = IdleTab
  OBVIOUS
<1>4. IdleTab \in TabType /\ IdleTab.pc = "idle" /\ Len(IdleTab.about) = 0
  BY DEF IdleTab, TabType
<1>5. desk \in [Tabs -> TabType]
  BY <1>4
<1>6. faceBudget \in 0..PeopleIncidents
  <2>1. PeopleIncidents \in Nat
    BY PeopleAssumption DEF PeopleAssumption
  <2>2. faceBudget = PeopleIncidents
    OBVIOUS
  <2> QED BY <2>1, <2>2
<1>7. DOMAIN detect = Detections /\ (\A d \in Detections : detect[d].pc = "new") /\ cluster.pc = "none"
  BY DEF FreshDetection, NoCluster
<1>8. PeopleTyped
  BY <1>1, <1>2, <1>3, <1>4, <1>5, <1>6, <1>7 DEF PeopleTyped, TabsTyped
<1>9. CoversStay /\ Learned
  BY <1>1, <1>3, <1>4 DEF CoversStay, Learned, Judging
<1> QED BY <1>8, <1>9 DEF PeopleInv

(* The bound on incidents only runs down.                                   *)
LEMMA PeopleSpends ==
    ASSUME faceBudget \in 0..PeopleIncidents, PeopleSpend
    PROVE  faceBudget' \in 0..PeopleIncidents
<1>1. PeopleIncidents \in Nat
  BY PeopleAssumption DEF PeopleAssumption
<1> QED BY <1>1 DEF PeopleSpend

(* Covers stay where rows, covers and names change in no way that matters.  *)
LEMMA CoversKept ==
    ASSUME PeopleInv, claimed \subseteq claimed', Rows' \subseteq Rows,
           \A d \in Detections : Inserted(d) => Inserted(d)',
           \A p \in Known' :
              /\ p \in Known /\ person'[p].cover \in {"none", person[p].cover}
              /\ \A c \in Rows' : c = person[p].cover /\ c \notin claimed' /\ face'[c].source = "detected" =>
                    /\ face[c].source = "detected"
                    /\ face[c].who = p /\ ~Named(p) => face'[c].who = p /\ ~Named(p)'
    PROVE  CoversStay'
<1>1. \A r \in Rows' : Inserted(r)'
  BY DEF PeopleInv, CoversStay, Inserted
<1>2. ASSUME NEW p \in Known' PROVE CoverStays(p)'
  <2>1. p \in Known /\ CoverStays(p) /\ person'[p].cover \in {"none", person[p].cover}
    BY DEF PeopleInv, CoversStay
  <2>2. CASE person'[p].cover = "none"
    <3>1. "none" \notin Rows'
      BY PeopleAssumption DEF PeopleInv, PeopleTyped, PeopleAssumption
    <3> QED BY <2>2, <3>1 DEF CoverStays
  <2>3. CASE person'[p].cover = person[p].cover
    BY <2>1, <2>3 DEF CoverStays, Inserted
  <2> QED BY <2>1, <2>2, <2>3
<1> QED BY <1>1, <1>2 DEF CoversStay

(* A judgement leaves every person it does not name to be learned as they   *)
(* were; who is under another request goes unlearned.                       *)
LEMMA JudgedLearns ==
    ASSUME PeopleInv, NEW t \in Tabs, NEW people \in Seq(Persons), NEW lost, Judged(t, people, lost),
           Len(people) \in 1..2, Len(people) = 2 => people[1] # people[2],
           people[1] \in Known',
           \A p \in Known' \ (Range(people) \cup lost) :
              /\ p \in Known /\ person'[p].name = person[p].name /\ person'[p].proto = person[p].proto
              /\ Evidence(p)' = Evidence(p)
    PROVE  /\ Learned' /\ unlearned' \subseteq Known' /\ faceBudget' \in 0..PeopleIncidents
           /\ TabsTyped' /\ UNCHANGED <<detect, cluster, claimed>>
<1> DEFINE mine == [pc |-> "learn", about |-> people, rows |-> {}]
<1>1. desk \in [Tabs -> TabType] /\ desk[t].pc = "idle" /\ PeopleSpend /\ UNCHANGED <<detect, cluster, claimed>>
  BY DEF Judged, PeopleInv, PeopleTyped, TabsTyped
<1>2. mine \in TabType /\ mine.pc = "learn" /\ mine.about = people
  BY DEF TabType
<1>3. desk' \in [Tabs -> TabType] /\ desk'[t] = mine /\ \A u \in Tabs \ {t} : desk'[u] = desk[u]
  BY <1>1, <1>2 DEF Judged
<1> HIDE DEF mine
<1>4. unlearned' = Known' \cap (unlearned \cup lost
          \cup IF Others(t) = {} THEN {}
               ELSE Range(people) \cup UNION {Range(desk[u].about) : u \in Others(t)})
  BY DEF Judged, Known
<1>5. \A u \in Tabs \ {t} : desk[u].pc # "idle" => Range(desk[u].about) \cap Known' \subseteq unlearned'
  BY <1>4 DEF Others
<1>6. ASSUME NEW u \in Tabs
      PROVE  /\ desk'[u].pc = "idle" => desk'[u] = IdleTab
             /\ desk'[u].pc # "idle" => Len(desk'[u].about) \in 1..2
             /\ Len(desk'[u].about) = 2 => desk'[u].about[1] # desk'[u].about[2]
  <2>1. CASE u = t
    BY <1>2, <1>3, <2>1
  <2>2. CASE u # t
    BY <1>3, <2>2 DEF PeopleInv, PeopleTyped, TabsTyped
  <2> QED BY <2>1, <2>2
<1>7. ASSUME NEW u \in Tabs \ {t}, desk[u].pc # "idle" PROVE desk[u].about[1] \in Range(desk[u].about)
  <2>1. desk[u].about \in Seq(Persons) /\ Len(desk[u].about) \in 1..2
    BY <1>1, <1>7 DEF PeopleInv, PeopleTyped, TabsTyped, TabType
  <2>2. 1 \in DOMAIN desk[u].about
    BY <2>1
  <2> QED BY <2>2 DEF Range
<1>8. ASSUME NEW p \in Known' \ unlearned', Named(p)'
      PROVE  ToLearn(p)' \/ person'[p].proto = Evidence(p)'
  <2>1. CASE p \in Range(people)
    <3>1. Judging(t)' /\ p \in Range(desk'[t].about)
      BY <1>2, <1>3, <2>1 DEF Judging
    <3> QED BY <3>1 DEF ToLearn
  <2>2. CASE p \notin Range(people)
    <3>1. p \notin lost /\ p \notin unlearned
      BY <1>4, <1>8
    <3>2. /\ p \in Known /\ person'[p].name = person[p].name /\ person'[p].proto = person[p].proto
          /\ Evidence(p)' = Evidence(p)
      BY <2>2, <3>1
    <3>3. Named(p)
      BY <1>8, <3>2 DEF Named
    <3>4. ~ToLearn(p)
      BY <1>1, <1>5, <1>8 DEF ToLearn, Judging
    <3> QED BY <3>1, <3>2, <3>3, <3>4 DEF PeopleInv, Learned
  <2> QED BY <2>1, <2>2
<1>9. ASSUME NEW u \in Tabs, desk'[u].pc = "write", desk'[u].about[1] \in Known' \ unlearned' PROVE FALSE
  BY <1>2, <1>3, <1>5, <1>7, <1>9
<1>10. ASSUME NEW u \in Tabs, Judging(u)', desk'[u].about[1] \notin Known'
       PROVE  Range(desk'[u].about) \cap Known' \subseteq unlearned'
  BY <1>2, <1>3, <1>5, <1>10 DEF Judging
<1>11. Learned'
  BY <1>8, <1>9, <1>10 DEF Learned
<1>12. unlearned' \subseteq Known'
  BY <1>4
<1>13. faceBudget' \in 0..PeopleIncidents
  BY <1>1, PeopleSpends DEF PeopleInv, PeopleTyped
<1> QED BY <1>1, <1>3, <1>6, <1>11, <1>12, <1>13 DEF TabsTyped

LEMMA OneJudged ==
    ASSUME PeopleInv, NEW t \in Tabs, NEW p \in Persons, p \in Known', NEW lost, Judged(t, <<p>>, lost),
           \A x \in Known' \ ({p} \cup lost) :
              /\ x \in Known /\ person'[x].name = person[x].name /\ person'[x].proto = person[x].proto
              /\ Evidence(x)' = Evidence(x)
    PROVE  /\ Learned' /\ unlearned' \subseteq Known' /\ faceBudget' \in 0..PeopleIncidents
           /\ TabsTyped' /\ UNCHANGED <<detect, cluster, claimed>>
<1>1. PICK people \in Seq(Persons) : people = <<p>>
  BY <<p>> \in Seq(Persons)
<1>2. Len(people) = 1 /\ people[1] = p /\ Range(people) = {p}
  BY <1>1 DEF Range
<1>3. Judged(t, people, lost)
  BY <1>1
<1>4. \A x \in Known' \ (Range(people) \cup lost) :
              /\ x \in Known /\ person'[x].name = person[x].name /\ person'[x].proto = person[x].proto
              /\ Evidence(x)' = Evidence(x)
  BY <1>2
<1>5. Len(people) \in 1..2 /\ (Len(people) = 2 => people[1] # people[2]) /\ people[1] \in Known'
  BY <1>2
<1> QED BY <1>3, <1>4, <1>5, JudgedLearns

(* A row after a change of its review: everything but who has which name.   *)
LEMMA JudgeGives ==
    ASSUME PeopleInv, NEW rows \in SUBSET Rows, NEW source \in {"confirmed", "rejected"}, Judge(rows, source)
    PROVE  /\ Rows' = Rows /\ face' \in [Rows -> FaceType]
           /\ \A r \in Rows : /\ face'[r].who = face[r].who /\ face'[r].slot = face[r].slot
                              /\ face'[r].state = face[r].state
                              /\ face'[r].source = IF r \in rows THEN source ELSE face[r].source
           /\ \A p : (\A r \in rows : face[r].who # p) => Evidence(p)' = Evidence(p)
<1>1. face \in [Rows -> FaceType]
  BY DEF PeopleInv, PeopleTyped
<1>2. face' = [r \in Rows |-> IF r \in rows THEN [face[r] EXCEPT !.source = source] ELSE face[r]]
  BY DEF Judge, Shift
<1>3. Rows' = Rows
  BY <1>2 DEF Rows
<1>4. ASSUME NEW r \in Rows
      PROVE  /\ face'[r] \in FaceType
             /\ face'[r].who = face[r].who /\ face'[r].slot = face[r].slot /\ face'[r].state = face[r].state
             /\ face'[r].source = IF r \in rows THEN source ELSE face[r].source
  <2>1. face[r] \in FaceType /\ face'[r] = IF r \in rows THEN [face[r] EXCEPT !.source = source] ELSE face[r]
    BY <1>1, <1>2
  <2> QED BY <2>1 DEF FaceType
<1>5. face' \in [Rows -> FaceType]
  BY <1>2, <1>4
<1>6. ASSUME NEW p, \A r \in rows : face[r].who # p PROVE Evidence(p)' = Evidence(p)
  BY <1>3, <1>4, <1>6 DEF Evidence, Of
<1> QED BY <1>3, <1>4, <1>5, <1>6

(* name_person.                                                             *)
LEMMA NameKeeps ==
    ASSUME PeopleInv, NEW t \in Tabs, NEW p \in Persons, NEW n \in Names, Name(t, p, n) PROVE PeopleInv'
<1> DEFINE rows == Of(p, {"detected"})
<1>1. p \in Known /\ person' = [person EXCEPT ![p].name = n] /\ Judge(rows, "confirmed") /\ Judged(t, <<p>>, {})
  BY DEF Name
<1>2. rows \subseteq Rows /\ \A r \in rows : face[r].who = p
  BY DEF Of
<1>3. \A r \in Rows : face[r].who = p /\ face[r].source = "detected" => r \in rows
  BY DEF Of
<1> HIDE DEF rows
<1>4. /\ Rows' = Rows /\ face' \in [Rows -> FaceType]
      /\ \A r \in Rows : /\ face'[r].who = face[r].who /\ face'[r].slot = face[r].slot
                         /\ face'[r].state = face[r].state
                         /\ face'[r].source = IF r \in rows THEN "confirmed" ELSE face[r].source
      /\ \A x : x # p => Evidence(x)' = Evidence(x)
  BY <1>1, <1>2, JudgeGives
<1>5. /\ Known' = Known /\ person' \in [Known -> PersonType]
      /\ \A x \in Known : person'[x].proto = person[x].proto /\ person'[x].cover = person[x].cover
      /\ \A x \in Known \ {p} : person'[x] = person[x]
  <2>1. person \in [Known -> PersonType]
    BY DEF PeopleInv, PeopleTyped
  <2>2. person[p] \in PersonType
    BY <1>1, <2>1
  <2> QED BY <1>1, <2>1, <2>2 DEF Known, PersonType
<1>6. /\ Learned' /\ unlearned' \subseteq Known' /\ faceBudget' \in 0..PeopleIncidents
      /\ TabsTyped' /\ UNCHANGED <<detect, cluster, claimed>>
  BY <1>1, <1>4, <1>5, OneJudged
<1>7. PeopleTyped'
  BY <1>4, <1>5, <1>6 DEF PeopleInv, PeopleTyped
<1>8. CoversStay'
  <2>1. ASSUME NEW x \in Known', NEW c \in Rows', face'[c].source = "detected", c = person[x].cover
        PROVE  /\ face[c].source = "detected"
               /\ face[c].who = x /\ ~Named(x) => face'[c].who = x /\ ~Named(x)'
    <3>1. c \in Rows /\ c \notin rows /\ face[c].source = "detected" /\ face'[c].who = face[c].who
      BY <1>4, <2>1
    <3>2. face[c].who # p
      BY <1>3, <3>1
    <3> QED BY <1>5, <3>1, <3>2 DEF Named
  <2> QED BY <1>4, <1>5, <1>6, <2>1, CoversKept DEF Inserted
<1> QED BY <1>6, <1>7, <1>8 DEF PeopleInv

(* confirm_faces, reject_faces: the rows of one person.                     *)
LEMMA ReviewKeeps ==
    ASSUME PeopleInv, NEW t \in Tabs, NEW p \in Known, NEW rows \in SUBSET Rows,
           Confirm(t, p, rows) \/ Reject(t, p, rows)
    PROVE  PeopleInv'
<1>1. PICK source \in {"confirmed", "rejected"} : Judge(rows, source)
  BY DEF Confirm, Reject
<1>2. Judged(t, <<p>>, {}) /\ \A r \in rows : face[r].who = p
  BY DEF Confirm, Reject, Of
<1>3. /\ Rows' = Rows /\ face' \in [Rows -> FaceType]
      /\ \A r \in Rows : /\ face'[r].who = face[r].who /\ face'[r].slot = face[r].slot
                         /\ face'[r].state = face[r].state
                         /\ face'[r].source = IF r \in rows THEN source ELSE face[r].source
      /\ \A x : x # p => Evidence(x)' = Evidence(x)
  BY <1>1, <1>2, JudgeGives
<1>4. /\ Known' = Known /\ person' \in [Known -> PersonType]
      /\ \A x \in Known : /\ person'[x].name = person[x].name /\ person'[x].proto = person[x].proto
                          /\ person'[x].cover \in {"none", person[x].cover}
  <2>1. person \in [Known -> PersonType]
    BY DEF PeopleInv, PeopleTyped
  <2>2. CASE UNCHANGED person
    BY <2>1, <2>2 DEF Known
  <2>3. CASE person' = [person EXCEPT ![p].cover = IF @ \in rows THEN "none" ELSE @]
    <3>1. PICK c \in {"none", person[p].cover} : person' = [person EXCEPT ![p].cover = c]
      BY <2>1, <2>3
    <3>2. person[p] \in PersonType
      BY <2>1
    <3> QED BY <2>1, <3>1, <3>2 DEF Known, PersonType
  <2> QED BY <2>2, <2>3 DEF Confirm, Reject
<1>5. p \in Persons
  BY DEF PeopleInv, PeopleTyped
<1>6. /\ Learned' /\ unlearned' \subseteq Known' /\ faceBudget' \in 0..PeopleIncidents
      /\ TabsTyped' /\ UNCHANGED <<detect, cluster, claimed>>
  BY <1>2, <1>3, <1>4, <1>5, OneJudged
<1>7. PeopleTyped'
  BY <1>3, <1>4, <1>6 DEF PeopleInv, PeopleTyped
<1>8. CoversStay'
  <2>1. ASSUME NEW x \in Known', NEW c \in Rows', face'[c].source = "detected"
        PROVE  /\ face[c].source = "detected"
               /\ face[c].who = x /\ ~Named(x) => face'[c].who = x /\ ~Named(x)'
    BY <1>3, <1>4, <2>1 DEF Named
  <2> QED BY <1>3, <1>4, <1>6, <2>1, CoversKept DEF Inserted
<1> QED BY <1>6, <1>7, <1>8 DEF PeopleInv

(* accept_suggestions, reject_suggestions.                                  *)
LEMMA SuggestedKeeps ==
    ASSUME PeopleInv, NEW t \in Tabs, NEW p \in Known, NEW rows \in SUBSET Rows,
           Accept(t, p, rows) \/ RejectSuggestion(t, p, rows)
    PROVE  PeopleInv'
<1> DEFINE gained == [who |-> p, source |-> "confirmed", slot |-> "none", state |-> "none"]
<1>1. face \in [Rows -> FaceType] /\ UNCHANGED person /\ p \in Persons
  BY DEF PeopleInv, PeopleTyped, Accept, RejectSuggestion
<1>2. Known' = Known /\ \A x \in Known : Named(x)' <=> Named(x)
  BY <1>1 DEF Known, Named
<1>3. /\ Rows' = Rows /\ face' \in [Rows -> FaceType]
      /\ \A r \in Rows : \/ face'[r] = gained
                         \/ /\ face'[r].who = face[r].who /\ face'[r].slot = face[r].slot
                            /\ face'[r].source = face[r].source
  <2>1. CASE Accept(t, p, rows)
    <3>1. face' = [r \in Rows |-> IF r \in rows THEN gained ELSE face[r]]
      BY <2>1 DEF Accept, Shift
    <3>2. gained \in FaceType
      BY <1>1 DEF FaceType
    <3> HIDE DEF gained
    <3> QED BY <1>1, <3>1, <3>2 DEF Rows
  <2>2. CASE RejectSuggestion(t, p, rows)
    <3>1. face' = [r \in Rows |-> IF r \in rows THEN [face[r] EXCEPT !.state = "rejected"] ELSE face[r]]
      BY <2>2 DEF RejectSuggestion, Shift
    <3>2. ASSUME NEW r \in Rows
          PROVE  /\ face'[r] \in FaceType /\ face'[r].who = face[r].who /\ face'[r].slot = face[r].slot
                 /\ face'[r].source = face[r].source
      <4>1. face[r] \in FaceType /\ face'[r] = IF r \in rows THEN [face[r] EXCEPT !.state = "rejected"] ELSE face[r]
        BY <1>1, <3>1
      <4> QED BY <4>1 DEF FaceType
    <3> QED BY <3>1, <3>2 DEF Rows
  <2> QED BY <2>1, <2>2
<1>4. PICK lost : Judged(t, <<p>>, lost) /\ \A x \in Known \ ({p} \cup lost) : Evidence(x)' = Evidence(x)
  <2>1. CASE Accept(t, p, rows)
    <3> DEFINE gone == {face[r].who : r \in rows} \ {p, "none"}
    <3>1. face' = [r \in Rows |-> IF r \in rows THEN gained ELSE face[r]] /\ Judged(t, <<p>>, gone)
      BY <2>1 DEF Accept, Shift
    <3>2. ASSUME NEW x \in Known \ ({p} \cup gone) PROVE Evidence(x)' = Evidence(x)
      <4>1. x # "none" /\ \A r \in rows : face[r].who # x
        BY <3>2, PeopleAssumption DEF PeopleInv, PeopleTyped, PeopleAssumption
      <4>2. \A r \in Rows : r \notin rows => face'[r] = face[r]
        BY <3>1
      <4>3. \A r \in rows : face'[r].who # x
        BY <3>1, <3>2
      <4> QED BY <1>3, <4>1, <4>2, <4>3 DEF Evidence, Of
    <3> QED BY <3>1, <3>2
  <2>2. CASE RejectSuggestion(t, p, rows)
    <3>1. Judged(t, <<p>>, {})
      BY <2>2 DEF RejectSuggestion
    <3>2. face' = [r \in Rows |-> IF r \in rows THEN [face[r] EXCEPT !.state = "rejected"] ELSE face[r]]
      BY <2>2 DEF RejectSuggestion, Shift
    <3>3. \A r \in Rows : face'[r].who = face[r].who /\ face'[r].source = face[r].source
      BY <1>1, <3>2 DEF FaceType
    <3>4. \A x : Evidence(x)' = Evidence(x)
      BY <1>3, <3>3 DEF Evidence, Of
    <3> QED BY <3>1, <3>4
  <2> QED BY <2>1, <2>2
<1>5. /\ Learned' /\ unlearned' \subseteq Known' /\ faceBudget' \in 0..PeopleIncidents
      /\ TabsTyped' /\ UNCHANGED <<detect, cluster, claimed>>
  BY <1>1, <1>2, <1>4, OneJudged
<1>6. \A r \in Rows' : {face'[r].who, face'[r].slot} \subseteq Known' \cup {"none"}
  BY <1>2, <1>3 DEF PeopleInv, PeopleTyped
<1>7. PeopleTyped'
  BY <1>1, <1>2, <1>3, <1>5, <1>6 DEF PeopleInv, PeopleTyped
<1>8. CoversStay'
  <2>1. ASSUME NEW x \in Known', NEW c \in Rows', face'[c].source = "detected"
        PROVE  /\ face[c].source = "detected"
               /\ face[c].who = x /\ ~Named(x) => face'[c].who = x /\ ~Named(x)'
    BY <1>2, <1>3, <2>1
  <2> QED BY <1>1, <1>2, <1>3, <1>5, <2>1, CoversKept DEF Inserted
<1> QED BY <1>5, <1>7, <1>8 DEF PeopleInv

(* merge_people.                                                            *)
LEMMA MergeGives ==
    ASSUME PeopleInv, NEW t \in Tabs, NEW p \in Known, NEW q \in Known, Merge(t, p, q)
    PROVE  /\ Rows' = Rows /\ face' \in [Rows -> FaceType] /\ p # q /\ p \in Persons
           /\ Known' = Known \ {q} /\ person' = [x \in Known \ {q} |-> person[x]]
           /\ \A r \in Rows : /\ face'[r].source = face[r].source
                              /\ face'[r].who = IF face[r].who = q THEN p ELSE face[r].who
           /\ \A r \in Rows : \/ face'[r].who = p /\ face'[r].slot = "none"
                              \/ /\ face'[r].slot = IF face[r].slot = q THEN p ELSE face[r].slot
                                 /\ face'[r].state = face[r].state
<1>1. face \in [Rows -> FaceType] /\ p # q /\ p \in Persons
  BY DEF PeopleInv, PeopleTyped, Merge
<1>2. Known' = Known \ {q} /\ person' = [x \in Known \ {q} |-> person[x]]
  BY DEF Merge, Known
<1>3. face' = [r \in Rows |->
          LET moved == IF face[r].who = q THEN p ELSE face[r].who
          IN  IF moved = p /\ face[r].slot \in {p, q}
              THEN [who |-> p, source |-> face[r].source, slot |-> "none", state |-> "none"]
              ELSE [face[r] EXCEPT !.who = moved, !.slot = IF @ = q THEN p ELSE @]]
  BY DEF Merge
<1>4. Rows' = Rows
  BY <1>3 DEF Rows
<1>5. ASSUME NEW r \in Rows
      PROVE  /\ face'[r] \in FaceType /\ face'[r].source = face[r].source
             /\ face'[r].who = IF face[r].who = q THEN p ELSE face[r].who
             /\ \/ face'[r].who = p /\ face'[r].slot = "none"
                \/ /\ face'[r].slot = IF face[r].slot = q THEN p ELSE face[r].slot
                   /\ face'[r].state = face[r].state
  <2> DEFINE moved == IF face[r].who = q THEN p ELSE face[r].who
             slot == IF face[r].slot = q THEN p ELSE face[r].slot
  <2>1. face[r] \in FaceType /\ moved \in Persons \cup {"none"} /\ slot \in Persons \cup {"none"}
    BY <1>1 DEF FaceType
  <2>2. CASE moved = p /\ face[r].slot \in {p, q}
    <3>1. face'[r] = [who |-> p, source |-> face[r].source, slot |-> "none", state |-> "none"]
      BY <1>3, <2>2
    <3> QED BY <1>1, <2>1, <2>2, <3>1 DEF FaceType
  <2>3. CASE ~(moved = p /\ face[r].slot \in {p, q})
    <3>1. face'[r] = [face[r] EXCEPT !.who = moved, !.slot = slot]
      BY <1>3, <2>3
    <3> HIDE DEF moved, slot
    <3>2. /\ face'[r] \in FaceType /\ face'[r].source = face[r].source /\ face'[r].who = moved
          /\ face'[r].slot = slot /\ face'[r].state = face[r].state
      BY <2>1, <3>1 DEF FaceType
    <3> QED BY <2>3, <3>2 DEF moved, slot
  <2> QED BY <2>2, <2>3
<1>6. face' \in [Rows -> FaceType]
  BY <1>3, <1>5
<1> QED BY <1>1, <1>2, <1>4, <1>5, <1>6

LEMMA MergeKeeps ==
    ASSUME PeopleInv, NEW t \in Tabs, NEW p \in Known, NEW q \in Known, Merge(t, p, q)
    PROVE  PeopleInv'
<1>1. /\ Rows' = Rows /\ face' \in [Rows -> FaceType] /\ p # q /\ p \in Persons
      /\ Known' = Known \ {q} /\ person' = [x \in Known \ {q} |-> person[x]]
      /\ \A r \in Rows : /\ face'[r].source = face[r].source
                         /\ face'[r].who = IF face[r].who = q THEN p ELSE face[r].who
      /\ \A r \in Rows : \/ face'[r].who = p /\ face'[r].slot = "none"
                         \/ /\ face'[r].slot = IF face[r].slot = q THEN p ELSE face[r].slot
                            /\ face'[r].state = face[r].state
  BY MergeGives
<1>2. \A r \in Rows : /\ face'[r].source = face[r].source
                      /\ face'[r].who = IF face[r].who = q THEN p ELSE face[r].who
                      /\ face'[r].slot \in {"none", p, face[r].slot} \ {q}
  <2>2. ASSUME NEW r \in Rows PROVE face'[r].slot \in {"none", p, face[r].slot} \ {q}
    <3>1. face'[r].slot = "none" \/ face'[r].slot = IF face[r].slot = q THEN p ELSE face[r].slot
      BY <1>1
    <3>2. q # "none"
      BY PeopleAssumption DEF PeopleInv, PeopleTyped, PeopleAssumption
    <3> QED BY <1>1, <3>1, <3>2
  <2> QED BY <1>1, <2>2
<1>3. Judged(t, <<p>>, {})
  BY DEF Merge
<1>4. /\ \A x \in Known' : person'[x] = person[x] /\ (Named(x)' <=> Named(x))
      /\ \A x \in Known' \ {p} : Evidence(x)' = Evidence(x)
  BY <1>1, <1>2 DEF Named, Evidence, Of
<1>5. /\ Learned' /\ unlearned' \subseteq Known' /\ faceBudget' \in 0..PeopleIncidents
      /\ TabsTyped' /\ UNCHANGED <<detect, cluster, claimed>>
  BY <1>1, <1>3, <1>4, OneJudged
<1>6. PeopleTyped'
  <2>1. person' \in [Known' -> PersonType] /\ Known' \subseteq Persons
    BY <1>1 DEF PeopleInv, PeopleTyped
  <2>2. \A r \in Rows : {face'[r].who, face'[r].slot} \subseteq Known' \cup {"none"}
    BY <1>1, <1>2 DEF PeopleInv, PeopleTyped
  <2> QED BY <1>1, <1>5, <2>1, <2>2 DEF PeopleInv, PeopleTyped
<1>7. CoversStay'
  <2>1. ASSUME NEW x \in Known', NEW c \in Rows', face'[c].source = "detected"
        PROVE  /\ face[c].source = "detected"
               /\ face[c].who = x /\ ~Named(x) => face'[c].who = x /\ ~Named(x)'
    BY <1>1, <1>2, <1>4, <2>1
  <2> QED BY <1>1, <1>4, <1>5, <2>1, CoversKept DEF Inserted
<1> QED BY <1>5, <1>6, <1>7 DEF PeopleInv

(* assign_face.                                                             *)
LEMMA AssignKeeps ==
    ASSUME PeopleInv, NEW t \in Tabs, NEW r \in Rows, NEW p \in Persons, NEW n \in Names, Assign(t, r, p, n)
    PROVE  PeopleInv'
<1>1. PICK before \in Known \cup {"none"} : before = face[r].who
  BY DEF PeopleInv, PeopleTyped
<1> DEFINE gains == IF p \in Known THEN [person[p] EXCEPT !.cover = IF @ = "none" THEN r ELSE @]
                    ELSE [name |-> n, proto |-> {}, cover |-> r]
           moves == before \notin {"none", p}
<1>2. /\ face' = [s \in Rows |-> IF s \in {r} THEN [face[s] EXCEPT !.who = p, !.source = "confirmed"] ELSE face[s]]
      /\ person' = [x \in Known \cup {p} |->
             CASE x = p -> gains
               [] x = before /\ moves /\ person[x].cover = r -> [person[x] EXCEPT !.cover = "none"]
               [] OTHER -> person[x]]
      /\ Judged(t, IF moves THEN <<p, before>> ELSE <<p>>, {})
  BY <1>1 DEF Assign, Shift
<1>3. /\ face \in [Rows -> FaceType] /\ person \in [Known -> PersonType] /\ r \in Detections
      /\ Rows \subseteq Detections /\ Known \subseteq Persons
  BY DEF PeopleInv, PeopleTyped
<1>4. /\ Rows' = Rows /\ face' \in [Rows -> FaceType]
      /\ face'[r].who = p /\ face'[r].source = "confirmed" /\ face'[r].slot = face[r].slot
      /\ \A s \in Rows \ {r} : face'[s] = face[s]
  <2>1. face[r] \in FaceType /\ face'[r] = [face[r] EXCEPT !.who = p, !.source = "confirmed"]
    BY <1>2, <1>3
  <2>2. face'[r] \in FaceType /\ face'[r].who = p /\ face'[r].source = "confirmed" /\ face'[r].slot = face[r].slot
    BY <2>1 DEF FaceType
  <2> QED BY <1>2, <1>3, <2>2 DEF Rows
<1>5. Known' = Known \cup {p}
  BY <1>2 DEF Known
<1>6. ASSUME NEW x \in Known'
      PROVE  /\ person'[x] \in PersonType
             /\ \/ person'[x].cover = r
                \/ /\ x \in Known /\ person'[x].cover \in {"none", person[x].cover}
                   /\ person'[x].name = person[x].name
             /\ x # p /\ (moves => x # before) => x \in Known /\ person'[x] = person[x]
  <2>1. CASE x = p /\ p \in Known
    <3>1. PICK c \in {r, person[p].cover} : person'[p] = [person[p] EXCEPT !.cover = c]
      BY <1>2, <2>1
    <3>2. person[p] \in PersonType
      BY <1>3, <2>1
    <3> QED BY <1>3, <2>1, <3>1, <3>2 DEF PersonType
  <2>2. CASE x = p /\ p \notin Known
    <3>1. person'[p] = [name |-> n, proto |-> {}, cover |-> r]
      BY <1>2, <2>2
    <3>2. [name |-> n, proto |-> {}, cover |-> r] \in PersonType
      BY <1>3 DEF PersonType
    <3> QED BY <2>2, <3>1, <3>2
  <2>3. CASE x # p /\ x = before /\ moves /\ person[x].cover = r
    <3>1. person'[x] = [person[x] EXCEPT !.cover = "none"] /\ person[x] \in PersonType /\ x \in Known
      BY <1>2, <1>3, <1>5, <2>3
    <3> QED BY <2>3, <3>1 DEF PersonType
  <2>4. CASE x # p /\ ~(x = before /\ moves /\ person[x].cover = r)
    <3>1. person'[x] = person[x] /\ x \in Known
      BY <1>2, <1>5, <2>4
    <3> QED BY <1>3, <3>1
  <2> QED BY <2>1, <2>2, <2>3, <2>4
<1>7. \A x \in Known' : x # p /\ (moves => x # before) => Evidence(x)' = Evidence(x)
  <2>1. ASSUME NEW x \in Known', x # p, moves => x # before PROVE Evidence(x)' = Evidence(x)
    <3>1. x # before
      BY <1>5, <1>6, <2>1, PeopleAssumption DEF PeopleInv, PeopleTyped, PeopleAssumption
    <3> QED BY <1>1, <1>4, <2>1, <3>1 DEF Evidence, Of
  <2> QED BY <2>1
<1> HIDE DEF gains
<1>8. /\ Learned' /\ unlearned' \subseteq Known' /\ faceBudget' \in 0..PeopleIncidents
      /\ TabsTyped' /\ UNCHANGED <<detect, cluster, claimed>>
  <2>1. CASE moves
    <3>1. before \in Persons /\ before # p
      BY <1>3, <2>1
    <3>2. PICK people \in Seq(Persons) : people = <<p, before>>
      BY <3>1, <<p, before>> \in Seq(Persons)
    <3>3. Len(people) = 2 /\ people[1] = p /\ people[2] = before /\ Range(people) = {p, before}
      BY <3>2 DEF Range
    <3>4. Judged(t, people, {})
      BY <1>2, <2>1, <3>2
    <3>5. \A x \in Known' \ (Range(people) \cup {}) :
              /\ x \in Known /\ person'[x].name = person[x].name /\ person'[x].proto = person[x].proto
              /\ Evidence(x)' = Evidence(x)
      BY <1>6, <1>7, <3>3
    <3>6. Len(people) \in 1..2 /\ (Len(people) = 2 => people[1] # people[2]) /\ people[1] \in Known'
      BY <1>5, <3>1, <3>3
    <3> QED BY <3>4, <3>5, <3>6, JudgedLearns
  <2>2. CASE ~moves
    <3>1. Judged(t, <<p>>, {}) /\ p \in Known'
      BY <1>2, <1>5, <2>2
    <3> QED BY <1>6, <1>7, <2>2, <3>1, OneJudged
  <2> QED BY <2>1, <2>2
<1>9. PeopleTyped'
  <2>1. person' \in [Known' -> PersonType] /\ Known' \subseteq Persons
    <3>1. person' = [x \in Known' |-> person'[x]]
      BY <1>2, <1>5
    <3> QED BY <1>3, <1>5, <1>6, <3>1
  <2>2. \A s \in Rows : {face'[s].who, face'[s].slot} \subseteq Known' \cup {"none"}
    BY <1>4, <1>5 DEF PeopleInv, PeopleTyped
  <2> QED BY <1>4, <1>8, <2>1, <2>2 DEF PeopleInv, PeopleTyped
<1>10. CoversStay'
  <2>1. \A d : Inserted(d)' <=> Inserted(d)
    BY <1>8 DEF Inserted
  <2>2. \A s \in Rows' : Inserted(s)'
    BY <1>4, <2>1 DEF PeopleInv, CoversStay
  <2>3. ASSUME NEW x \in Known' PROVE CoverStays(x)'
    <3>1. CASE person'[x].cover = r
      BY <1>4, <2>2, <3>1 DEF CoverStays
    <3>2. CASE person'[x].cover = "none"
      <4>1. "none" \notin Rows'
        BY <1>3, <1>4, PeopleAssumption DEF PeopleAssumption
      <4> QED BY <3>2, <4>1 DEF CoverStays
    <3>3. CASE person'[x].cover # r /\ x \in Known /\ person'[x].cover = person[x].cover
               /\ person'[x].name = person[x].name
      <4>1. CoverStays(x) /\ (Named(x)' <=> Named(x))
        BY <3>3 DEF PeopleInv, CoversStay, Named
      <4> QED BY <1>4, <1>8, <2>1, <3>3, <4>1 DEF CoverStays
    <3> QED BY <1>6, <3>1, <3>2, <3>3
  <2> QED BY <2>2, <2>3 DEF CoversStay
<1> QED BY <1>8, <1>9, <1>10 DEF PeopleInv

(* Who a request is about first is one of those it is about.                *)
LEMMA FirstAsked ==
    ASSUME PeopleInv, NEW t \in Tabs, desk[t].pc # "idle"
    PROVE  desk[t].about[1] \in Range(desk[t].about)
<1>1. desk[t].about \in Seq(Persons) /\ Len(desk[t].about) \in 1..2
  BY DEF PeopleInv, PeopleTyped, TabsTyped, TabType
<1>2. 1 \in DOMAIN desk[t].about
  BY <1>1
<1> QED BY <1>2 DEF Range

(* What is learned stays so while no request moves: of those who stay, the  *)
(* evidence is as before or goes unlearned; who is new has no name.         *)
LEMMA LearnedRests ==
    ASSUME PeopleInv,
           \A t \in Tabs : (Judging(t)' <=> Judging(t)) /\ (Judging(t) => desk'[t] = desk[t]),
           unlearned \cap Known' \subseteq unlearned',
           \A p \in (Known' \cap Known) \ unlearned' :
              /\ person'[p].name = person[p].name /\ person'[p].proto = person[p].proto
              /\ Evidence(p)' = Evidence(p),
           \A p \in Known' \ Known : ~Named(p)' /\ \A t \in Tabs : p \notin Range(desk[t].about),
           \/ Known \subseteq Known'
           \/ \A t \in Tabs : Range(desk[t].about) \cap Known' \subseteq unlearned'
    PROVE  Learned'
<1>1. ASSUME NEW p \in Known' \ unlearned', Named(p)' PROVE ToLearn(p)' \/ person'[p].proto = Evidence(p)'
  <2>1. p \in Known /\ p \notin unlearned /\ Named(p)
    BY <1>1 DEF Named
  <2>2. ToLearn(p) \/ person[p].proto = Evidence(p)
    BY <2>1 DEF PeopleInv, Learned
  <2>3. ToLearn(p) => ToLearn(p)'
    BY DEF ToLearn, Judging
  <2> QED BY <1>1, <2>1, <2>2, <2>3
<1>2. ASSUME NEW t \in Tabs, desk[t].pc = "write", NEW p \in Known' \ unlearned', p = desk[t].about[1]
      PROVE  desk[t].rows = Evidence(p)'
  <2>1. p \in Range(desk[t].about)
    BY <1>2, FirstAsked
  <2>2. p \in Known /\ p \notin unlearned /\ Evidence(p)' = Evidence(p)
    BY <1>2, <2>1
  <2>3. desk[t].rows = Evidence(p)
    BY <1>2, <2>2 DEF PeopleInv, Learned
  <2> QED BY <2>2, <2>3
<1>3. ASSUME NEW t \in Tabs, Judging(t), desk[t].about[1] \notin Known'
      PROVE  Range(desk[t].about) \cap Known' \subseteq unlearned'
  <2>1. CASE Known \subseteq Known'
    <3>1. Range(desk[t].about) \cap Known \subseteq unlearned
      BY <1>3, <2>1 DEF PeopleInv, Learned
    <3> QED BY <2>1, <3>1
  <2>2. CASE \A u \in Tabs : Range(desk[u].about) \cap Known' \subseteq unlearned'
    BY <2>2
  <2> QED BY <2>1, <2>2
<1>4. ASSUME NEW t \in Tabs, desk'[t].pc = "write", desk'[t].about[1] \in Known' \ unlearned'
      PROVE  desk'[t].rows = Evidence(desk[t].about[1])'
  <2>1. desk'[t] = desk[t]
    BY <1>4 DEF Judging
  <2>2. PICK p \in Known' \ unlearned' : p = desk'[t].about[1]
    BY <1>4
  <2>3. desk[t].rows = Evidence(p)'
    BY <1>2, <1>4, <2>1, <2>2
  <2> QED BY <2>1, <2>2, <2>3
<1>5. ASSUME NEW t \in Tabs, Judging(t)', desk'[t].about[1] \notin Known'
      PROVE  Range(desk'[t].about) \cap Known' \subseteq unlearned'
  BY <1>3, <1>5
<1> QED BY <1>1, <1>4, <1>5 DEF Learned

LEMMA LearnedStays ==
    ASSUME PeopleInv, UNCHANGED desk, unlearned \cap Known' \subseteq unlearned',
           \A p \in (Known' \cap Known) \ unlearned' :
              /\ person'[p].name = person[p].name /\ person'[p].proto = person[p].proto
              /\ Evidence(p)' = Evidence(p),
           \A p \in Known' \ Known : ~Named(p)' /\ \A t \in Tabs : p \notin Range(desk[t].about),
           \/ Known \subseteq Known'
           \/ \A t \in Tabs : Range(desk[t].about) \cap Known' \subseteq unlearned'
    PROVE  Learned'
<1>1. \A t \in Tabs : (Judging(t)' <=> Judging(t)) /\ (Judging(t) => desk'[t] = desk[t])
  BY DEF Judging
<1> QED BY <1>1, LearnedRests

(* forget_person.                                                           *)
LEMMA ForgetKeeps ==
    ASSUME PeopleInv, NEW p \in Known, Forget(p) PROVE PeopleInv'
<1>1. face \in [Rows -> FaceType] /\ person \in [Known -> PersonType] /\ Known \subseteq Persons /\ p # "none"
  BY PeopleAssumption DEF PeopleInv, PeopleTyped, PeopleAssumption
<1>2. /\ face' = [r \in {s \in Rows : face[s].who # p} |-> [face[r] EXCEPT !.slot = IF @ = p THEN "none" ELSE @]]
      /\ person' = [x \in Known \ {p} |-> person[x]]
      /\ UNCHANGED <<desk, detect, cluster, memo, claimed>> /\ PeopleSpend
  BY DEF Forget
<1>3. unlearned' = (unlearned \cup UNION {Range(desk[t].about) : t \in Tabs}) \cap Known'
  BY DEF Forget, Known
<1>4. Known' = Known \ {p} /\ \A x \in Known' : person'[x] = person[x]
  BY <1>2 DEF Known
<1>5. /\ Rows' = {s \in Rows : face[s].who # p} /\ face' \in [Rows' -> FaceType]
      /\ \A r \in Rows' : /\ face'[r].who = face[r].who /\ face'[r].source = face[r].source
                          /\ face'[r].slot \in {"none", face[r].slot} \ {p}
  <2>1. Rows' = {s \in Rows : face[s].who # p}
    BY <1>2 DEF Rows
  <2>2. ASSUME NEW r \in Rows'
        PROVE  /\ face'[r] \in FaceType /\ face'[r].who = face[r].who /\ face'[r].source = face[r].source
               /\ face'[r].slot \in {"none", face[r].slot} \ {p}
    <3>1. PICK slot \in {"none", face[r].slot} \ {p} : face'[r] = [face[r] EXCEPT !.slot = slot]
      <4>1. CASE face[r].slot = p
        BY <1>1, <1>2, <2>1, <4>1
      <4>2. CASE face[r].slot # p
        BY <1>2, <2>1, <4>2
      <4> QED BY <4>1, <4>2
    <3>2. face[r] \in FaceType
      BY <1>1, <2>1
    <3> QED BY <3>1, <3>2 DEF FaceType
  <2> QED BY <1>2, <2>1, <2>2
<1>6. faceBudget' \in 0..PeopleIncidents
  BY <1>2, PeopleSpends DEF PeopleInv, PeopleTyped
<1>7. PeopleTyped'
  <2>1. \A r \in Rows' : {face'[r].who, face'[r].slot} \subseteq Known' \cup {"none"}
    BY <1>4, <1>5 DEF PeopleInv, PeopleTyped
  <2>2. person' \in [Known' -> PersonType]
    BY <1>1, <1>2, <1>4
  <2> QED BY <1>2, <1>3, <1>4, <1>5, <1>6, <2>1, <2>2 DEF PeopleInv, PeopleTyped, TabsTyped
<1>8. \A x \in Known' : Evidence(x)' = Evidence(x)
  BY <1>4, <1>5 DEF Evidence, Of
<1>9. Learned'
  <2>1. \A t \in Tabs : Range(desk[t].about) \cap Known' \subseteq unlearned'
    BY <1>3
  <2>2. unlearned \cap Known' \subseteq unlearned'
    BY <1>3
  <2> QED BY <1>2, <1>4, <1>8, <2>1, <2>2, LearnedStays
<1>10. CoversStay'
  <2>1. \A x \in Known' : Named(x)' <=> Named(x)
    BY <1>4 DEF Named
  <2> QED BY <1>2, <1>4, <1>5, <2>1, CoversKept DEF Inserted
<1> QED BY <1>7, <1>9, <1>10 DEF PeopleInv

(* A detection's first look, its insert and its match.                      *)
LEMMA LookKeeps ==
    ASSUME PeopleInv, NEW d \in Detections, Look(d) PROVE PeopleInv'
<1>1. UNCHANGED <<face, person, desk, cluster, memo, unlearned, claimed, faceBudget>> /\ detect[d].pc = "new"
  BY DEF Look
<1>2. /\ DOMAIN detect' = Detections /\ \A o \in Detections \ {d} : detect'[o] = detect[o]
      /\ detect'[d].pc \in {"over", "seen"}
  <2>1. PICK pc \in {"over", "seen"} : detect' = [detect EXCEPT ![d] = [FreshDetection EXCEPT !.pc = pc]]
    BY DEF Look
  <2>2. [FreshDetection EXCEPT !.pc = pc].pc = pc
    BY DEF FreshDetection
  <2> QED BY <2>1, <2>2 DEF PeopleInv, PeopleTyped
<1>3. Rows' = Rows /\ Known' = Known /\ (\A p : Named(p)' <=> Named(p)) /\ (\A p : Evidence(p)' = Evidence(p))
  BY <1>1 DEF Rows, Known, Named, Evidence, Of
<1>4. PeopleTyped'
  BY <1>1, <1>2, <1>3 DEF PeopleInv, PeopleTyped, TabsTyped
<1>5. \A o \in Detections : Inserted(o) => Inserted(o)'
  BY <1>1, <1>2 DEF Inserted
<1>6. CoversStay'
  BY <1>1, <1>3, <1>5, CoversKept
<1>7. Learned'
  BY <1>1, <1>3, LearnedStays
<1> QED BY <1>4, <1>6, <1>7 DEF PeopleInv

LEMMA InsertKeeps ==
    ASSUME PeopleInv, NEW d \in Detections, InsertFace(d) PROVE PeopleInv'
<1>1. /\ detect[d].pc = "seen" /\ face' = [r \in Rows \cup {d} |-> IF r = d THEN NewFace ELSE face[r]]
      /\ UNCHANGED <<person, desk, cluster, memo, unlearned, claimed, faceBudget>>
  BY DEF InsertFace
<1>2. /\ DOMAIN detect' = Detections /\ \A o \in Detections \ {d} : detect'[o] = detect[o]
      /\ detect'[d].pc = "matching"
  BY DEF InsertFace, PeopleInv, PeopleTyped
<1>3. d \notin Rows /\ ~Inserted(d) /\ \A p \in Known : person[p].cover # d
  <2>1. ~Inserted(d)
    BY <1>1 DEF Inserted
  <2>2. d # "none"
    BY PeopleAssumption DEF PeopleAssumption
  <2> QED BY <2>1, <2>2 DEF PeopleInv, CoversStay, CoverStays
<1>4. Rows' = Rows \cup {d} /\ face'[d] = NewFace /\ \A r \in Rows : face'[r] = face[r]
  BY <1>1, <1>3 DEF Rows
<1>5. NewFace \in FaceType /\ NewFace.who = "none" /\ NewFace.slot = "none"
  BY DEF NewFace, FaceType
<1>6. face' \in [Rows' -> FaceType]
  BY <1>1, <1>4, <1>5 DEF PeopleInv, PeopleTyped
<1>7. Known' = Known /\ (\A p : Named(p)' <=> Named(p)) /\ \A p \in Known : Evidence(p)' = Evidence(p)
  <2>1. "none" \notin Known
    BY PeopleAssumption DEF PeopleInv, PeopleTyped, PeopleAssumption
  <2> QED BY <1>1, <1>4, <1>5, <2>1 DEF Known, Named, Evidence, Of
<1>8. PeopleTyped'
  <2>1. \A r \in Rows' : {face'[r].who, face'[r].slot} \subseteq Known' \cup {"none"}
    BY <1>4, <1>5, <1>7 DEF PeopleInv, PeopleTyped
  <2> QED BY <1>1, <1>2, <1>4, <1>6, <1>7, <2>1 DEF PeopleInv, PeopleTyped, TabsTyped
<1>9. CoversStay'
  <2>1. \A o \in Detections : Inserted(o) => Inserted(o)'
    BY <1>2 DEF Inserted
  <2>2. Inserted(d)'
    BY <1>2 DEF Inserted
  <2>3. \A r \in Rows' : Inserted(r)'
    BY <1>4, <2>1, <2>2 DEF PeopleInv, CoversStay, Inserted
  <2>4. ASSUME NEW p \in Known PROVE CoverStays(p)'
    <3>1. CoverStays(p) /\ person[p].cover # d
      BY <1>3 DEF PeopleInv, CoversStay
    <3>2. PICK c : c = person[p].cover
      OBVIOUS
    <3>3. c # "none" => Inserted(c)'
      BY <2>1, <3>1, <3>2 DEF CoverStays, Inserted
    <3>4. person'[p].cover = c /\ claimed' = claimed
      BY <1>1, <3>2
    <3>5. c \in Rows' /\ c \notin claimed /\ face'[c].source = "detected" => face'[c].who = p /\ ~Named(p)'
      BY <1>4, <1>7, <3>1, <3>2 DEF CoverStays
    <3> QED BY <3>3, <3>4, <3>5 DEF CoverStays
  <2> QED BY <1>7, <2>3, <2>4 DEF CoversStay
<1>10. Learned'
  BY <1>1, <1>7, LearnedStays
<1> QED BY <1>8, <1>9, <1>10 DEF PeopleInv

LEMMA MatchKeeps ==
    ASSUME PeopleInv, NEW d \in Detections, Match(d) PROVE PeopleInv'
<1>1. UNCHANGED <<person, desk, cluster, memo, faceBudget>>
  BY DEF Match
<1>2. /\ DOMAIN detect' = Detections /\ \A o \in Detections \ {d} : detect'[o] = detect[o]
      /\ detect'[d].pc = "over"
  BY DEF Match, FreshDetection, PeopleInv, PeopleTyped
<1>3. Known' = Known /\ (\A p : Named(p)' <=> Named(p)) /\ face \in [Rows -> FaceType] /\ "none" \notin Known
  BY <1>1, PeopleAssumption DEF Known, Named, PeopleInv, PeopleTyped, PeopleAssumption
<1>4. \A o \in Detections : Inserted(o) => Inserted(o)'
  BY <1>2 DEF Inserted
<1>5. CASE UNCHANGED <<face, unlearned, claimed>>
  <2>1. Rows' = Rows /\ \A p : Evidence(p)' = Evidence(p)
    BY <1>5 DEF Rows, Evidence, Of
  <2>2. PeopleTyped'
    BY <1>1, <1>2, <1>3, <1>5, <2>1 DEF PeopleInv, PeopleTyped, TabsTyped
  <2>3. CoversStay'
    BY <1>1, <1>3, <1>4, <1>5, <2>1, CoversKept
  <2>4. Learned'
    BY <1>1, <1>3, <1>5, <2>1, LearnedStays
  <2> QED BY <2>2, <2>3, <2>4 DEF PeopleInv
<1>6. CASE \E p \in Known :
              /\ d \in Rows
              /\ face' = [r \in Rows |-> IF r \in {d} THEN [face[r] EXCEPT !.who = p] ELSE face[r]]
              /\ claimed' = IF face[d].who = "none" THEN claimed ELSE claimed \cup {d}
              /\ unlearned' = unlearned \cup IF face[d].source # "detected"
                                             THEN {p, face[d].who} \ {"none"} ELSE {}
  <2>1. PICK p \in Known :
              /\ d \in Rows
              /\ face' = [r \in Rows |-> IF r \in {d} THEN [face[r] EXCEPT !.who = p] ELSE face[r]]
              /\ claimed' = IF face[d].who = "none" THEN claimed ELSE claimed \cup {d}
              /\ unlearned' = unlearned \cup IF face[d].source # "detected"
                                             THEN {p, face[d].who} \ {"none"} ELSE {}
    BY <1>6
  <2>2. p \in Persons /\ face[d] \in FaceType /\ Rows' = Rows
    BY <1>3, <2>1 DEF PeopleInv, PeopleTyped, Rows
  <2>3. /\ face'[d] \in FaceType /\ face'[d].who = p /\ face'[d].slot = face[d].slot
        /\ face'[d].source = face[d].source
    <3>1. face'[d] = [face[d] EXCEPT !.who = p]
      BY <2>1
    <3> QED BY <2>2, <3>1 DEF FaceType
  <2>4. \A r \in Rows : r # d => face'[r] = face[r]
    BY <2>1
  <2>5. face' \in [Rows -> FaceType]
    BY <1>3, <2>1, <2>3, <2>4
  <2>6. unlearned \subseteq unlearned' /\ unlearned' \subseteq Known /\ claimed \subseteq claimed'
    BY <2>1 DEF PeopleInv, PeopleTyped
  <2>7. PeopleTyped'
    <3>1. \A r \in Rows' : {face'[r].who, face'[r].slot} \subseteq Known' \cup {"none"}
      BY <1>3, <2>2, <2>3, <2>4 DEF PeopleInv, PeopleTyped
    <3> QED BY <1>1, <1>2, <1>3, <2>2, <2>5, <2>6, <3>1 DEF PeopleInv, PeopleTyped, TabsTyped
  <2>8. ASSUME NEW x \in Known \ unlearned' PROVE Evidence(x)' = Evidence(x)
    <3>1. CASE face[d].source = "detected"
      BY <2>2, <2>3, <2>4, <3>1 DEF Evidence, Of
    <3>2. CASE face[d].source # "detected"
      <4>1. x # p /\ x # face[d].who
        BY <1>3, <2>1, <2>8, <3>2
      <4> QED BY <2>2, <2>3, <2>4, <4>1 DEF Evidence, Of
    <3> QED BY <3>1, <3>2
  <2>9. ASSUME NEW x \in Known', NEW c \in Rows', c = person[x].cover, c \notin claimed', face'[c].source = "detected"
        PROVE  /\ face[c].source = "detected"
               /\ face[c].who = x /\ ~Named(x) => face'[c].who = x /\ ~Named(x)'
    <3>1. CASE c = d
      <4>1. face[d].who = "none"
        BY <2>1, <2>9, <3>1
      <4> QED BY <1>3, <2>3, <2>9, <3>1, <4>1
    <3>2. CASE c # d
      BY <1>3, <2>2, <2>4, <2>9, <3>2
    <3> QED BY <3>1, <3>2
  <2>10. CoversStay'
    BY <1>1, <1>3, <1>4, <2>2, <2>6, <2>9, CoversKept
  <2>11. Learned'
    BY <1>1, <1>3, <2>6, <2>8, LearnedStays
  <2> QED BY <2>7, <2>10, <2>11 DEF PeopleInv
<1>7. \/ UNCHANGED <<face, unlearned, claimed>>
      \/ \E p \in Known :
              /\ d \in Rows
              /\ face' = [r \in Rows |-> IF r \in {d} THEN [face[r] EXCEPT !.who = p] ELSE face[r]]
              /\ claimed' = IF face[d].who = "none" THEN claimed ELSE claimed \cup {d}
              /\ unlearned' = unlearned \cup IF face[d].source # "detected"
                                             THEN {p, face[d].who} \ {"none"} ELSE {}
  BY DEF Match, Shift
<1> QED BY <1>5, <1>6, <1>7

(* extract_frames: rows go, and nobody's cover moves.                       *)
LEMMA ReplaceKeeps ==
    ASSUME PeopleInv, NEW d \in Detections, ReplaceFrames(Shows[d]) PROVE PeopleInv'
<1> DEFINE lost == {r \in Rows : Shows[r] = Shows[d]}
<1>1. /\ UNCHANGED <<person, desk, cluster, memo, claimed>> /\ PeopleSpend
      /\ face' = [r \in Rows \ lost |-> face[r]]
      /\ unlearned' = unlearned \cup ({face[r].who : r \in lost} \ {"none"})
      /\ detect' = [o \in Detections |-> IF Shows[o] = Shows[d] /\ detect[o].pc \notin {"new", "over"}
                                         THEN [FreshDetection EXCEPT !.pc = "over"] ELSE detect[o]]
  BY DEF ReplaceFrames
<1>2. lost \subseteq Rows
  OBVIOUS
<1> HIDE DEF lost
<1>3. /\ DOMAIN detect' = Detections
      /\ \A o \in Detections : detect'[o] = detect[o] \/ detect'[o].pc = "over"
  BY <1>1 DEF FreshDetection
<1>4. Known' = Known /\ (\A p : Named(p)' <=> Named(p)) /\ face \in [Rows -> FaceType]
  BY <1>1 DEF Known, Named, PeopleInv, PeopleTyped
<1>5. /\ Rows' = Rows \ lost /\ face' \in [Rows' -> FaceType]
      /\ \A r \in Rows' : face'[r] = face[r]
  <2>1. Rows' = Rows \ lost
    BY <1>1 DEF Rows
  <2> QED BY <1>1, <1>4, <2>1
<1>6. unlearned \subseteq unlearned' /\ unlearned' \subseteq Known
  <2>1. \A r \in lost : face[r].who \in Known \cup {"none"}
    BY <1>2 DEF PeopleInv, PeopleTyped
  <2> QED BY <1>1, <2>1 DEF PeopleInv, PeopleTyped
<1>7. faceBudget' \in 0..PeopleIncidents
  BY <1>1, PeopleSpends DEF PeopleInv, PeopleTyped
<1>8. PeopleTyped'
  <2>1. \A r \in Rows' : {face'[r].who, face'[r].slot} \subseteq Known' \cup {"none"}
    BY <1>4, <1>5 DEF PeopleInv, PeopleTyped
  <2>2. \A o \in Detections : detect'[o].pc \in {"new", "seen", "matching", "over"}
    BY <1>3 DEF PeopleInv, PeopleTyped
  <2> QED BY <1>1, <1>3, <1>4, <1>5, <1>6, <1>7, <2>1, <2>2 DEF PeopleInv, PeopleTyped, TabsTyped
<1>9. CoversStay'
  <2>1. \A o \in Detections : Inserted(o) => Inserted(o)'
    BY <1>3 DEF Inserted
  <2> QED BY <1>1, <1>4, <1>5, <2>1, CoversKept
<1>10. Learned'
  <2>1. ASSUME NEW x \in Known \ unlearned' PROVE Evidence(x)' = Evidence(x)
    <3>1. x # "none" /\ \A r \in lost : face[r].who # x
      BY <1>1, <2>1, PeopleAssumption DEF PeopleInv, PeopleTyped, PeopleAssumption
    <3> QED BY <1>2, <1>5, <3>1 DEF Evidence, Of
  <2> QED BY <1>1, <1>4, <1>6, <2>1, LearnedStays
<1> QED BY <1>8, <1>9, <1>10 DEF PeopleInv

(* The scanner's tick and restart, and the clustering's read.               *)
LEMMA ScannerKeeps ==
    ASSUME PeopleInv, Tick \/ ScannerRestarts \/ ReadLoose PROVE PeopleInv'
<1>1. UNCHANGED <<face, person, desk, detect, unlearned, claimed>> /\ (PeopleSpend \/ UNCHANGED faceBudget)
  BY DEF Tick, ScannerRestarts, ReadLoose
<1>2. cluster'.pc \in {"none", "queued", "read"}
  <2>1. NoCluster.pc = "none" /\ [NoCluster EXCEPT !.pc = "queued"].pc = "queued" /\ [pc |-> "read", rows |-> Loose].pc = "read"
    BY DEF NoCluster
  <2> QED BY <2>1 DEF PeopleInv, PeopleTyped, Tick, ScannerRestarts, ReadLoose
<1>3. faceBudget' \in 0..PeopleIncidents
  BY <1>1, PeopleSpends DEF PeopleInv, PeopleTyped
<1>4. Rows' = Rows /\ Known' = Known /\ (\A p : Named(p)' <=> Named(p)) /\ (\A p : Evidence(p)' = Evidence(p))
  BY <1>1 DEF Rows, Known, Named, Evidence, Of
<1>5. PeopleTyped'
  BY <1>1, <1>2, <1>3, <1>4 DEF PeopleInv, PeopleTyped, TabsTyped
<1>6. CoversStay'
  BY <1>1, <1>4, CoversKept DEF Inserted
<1>7. Learned'
  BY <1>1, <1>4, LearnedStays
<1> QED BY <1>5, <1>6, <1>7 DEF PeopleInv

(* The clustering's write: every row of a group gets the group's person,    *)
(* who is new and has no name; the others keep theirs.                      *)
LEMMA GroupsGive ==
    ASSUME PeopleInv, NEW gs \in Groupings(cluster.rows), NEW id \in Ids(gs), cluster.rows \subseteq Rows,
           face' = [r \in Rows |->
               [face[r] EXCEPT !.who = IF \E g \in gs : r \in g THEN id[CHOOSE g \in gs : r \in g] ELSE @]],
           person' = [p \in Known \cup Range(id) |->
               IF p \in Known THEN person[p]
               ELSE LET g == CHOOSE h \in gs : id[h] = p
                    IN  [name |-> "", proto |-> g, cover |-> CHOOSE r \in g : TRUE]]
    PROVE  /\ Rows' = Rows /\ face' \in [Rows -> FaceType]
           /\ Known' = Known \cup Range(id) /\ Range(id) \subseteq Unused /\ person' \in [Known' -> PersonType]
           /\ \A r \in Rows : face'[r].source = face[r].source /\ face'[r].slot = face[r].slot
           /\ \A r \in Rows \ UNION gs : face'[r].who = face[r].who
           /\ \A g \in gs : \A r \in g : r \in Rows /\ face'[r].who \in Range(id)
           /\ \A p \in Known : person'[p] = person[p]
           /\ \A p \in Range(id) : /\ person'[p].name = "" /\ person'[p].cover \in Rows
                                   /\ face'[person'[p].cover].who = p
<1>1. face \in [Rows -> FaceType] /\ person \in [Known -> PersonType] /\ Rows \subseteq Detections
  BY DEF PeopleInv, PeopleTyped
<1>2. /\ \A g \in gs : g \subseteq Rows /\ \E r \in g : TRUE
      /\ \A g, h \in gs : g = h \/ g \cap h = {}
  BY DEF Groupings
<1>3. id \in [gs -> Unused]
  BY DEF Ids
<1>4. Range(id) \subseteq Unused /\ \A p \in Range(id) : \E g \in gs : id[g] = p
  BY <1>3 DEF Range
<1>5. \A g \in gs : id[g] \in Range(id)
  BY <1>3 DEF Range
<1>6. Unused \subseteq Persons \ Known
  BY DEF Unused
<1>7. ASSUME NEW g \in gs, NEW r \in g PROVE (CHOOSE h \in gs : r \in h) = g
  BY <1>2, <1>7
<1>8. Rows' = Rows /\ Known' = Known \cup Range(id)
  BY DEF Rows, Known
<1>9. ASSUME NEW r \in Rows
      PROVE  /\ face'[r] \in FaceType
             /\ face'[r].source = face[r].source /\ face'[r].slot = face[r].slot
             /\ r \notin UNION gs => face'[r].who = face[r].who
             /\ \A g \in gs : r \in g => face'[r].who = id[g]
  <2>1. face[r] \in FaceType
    BY <1>1
  <2>2. CASE \E g \in gs : r \in g
    <3>1. PICK g \in gs : r \in g
      BY <2>2
    <3>2. face'[r] = [face[r] EXCEPT !.who = id[g]]
      BY <1>7, <3>1
    <3>3. id[g] \in Persons
      BY <1>3, <1>6
    <3>4. PICK p \in Persons : p = id[g]
      BY <3>3
    <3>5. face'[r] = [face[r] EXCEPT !.who = p]
      BY <3>2, <3>4
    <3>6. face'[r] \in FaceType /\ face'[r].source = face[r].source /\ face'[r].slot = face[r].slot /\ face'[r].who = p
      BY <2>1, <3>5 DEF FaceType
    <3>7. \A h \in gs : r \in h => h = g
      BY <1>2, <3>1
    <3> QED BY <3>1, <3>4, <3>6, <3>7
  <2>3. CASE ~\E g \in gs : r \in g
    <3>1. face'[r] = [face[r] EXCEPT !.who = face[r].who]
      BY <2>3
    <3> QED BY <2>1, <2>3, <3>1 DEF FaceType
  <2> QED BY <2>2, <2>3
<1>10. face' \in [Rows -> FaceType]
  BY <1>9
<1>11. ASSUME NEW p \in Range(id)
       PROVE  /\ person'[p] \in PersonType /\ person'[p].name = "" /\ person'[p].cover \in Rows
              /\ face'[person'[p].cover].who = p
  <2>1. PICK g \in gs : g = CHOOSE h \in gs : id[h] = p
    BY <1>4
  <2>2. id[g] = p
    BY <1>4, <2>1
  <2>3. PICK c \in g : c = CHOOSE r \in g : TRUE
    BY <1>2
  <2>4. p \notin Known
    BY <1>4, <1>6
  <2>5. person'[p] = [name |-> "", proto |-> g, cover |-> c]
    BY <2>1, <2>3, <2>4
  <2>6. g \in SUBSET Detections /\ c \in Rows /\ c \in Detections
    BY <1>1, <1>2
  <2>7. face'[c].who = p
    <3>1. \A h \in gs : c \in h => face'[c].who = id[h]
      BY <1>9, <2>6
    <3>2. g \in gs /\ c \in g
      BY <2>3
    <3> QED BY <2>2, <3>1, <3>2
  <2>8. PICK made \in PersonType : made = [name |-> "", proto |-> g, cover |-> c]
    BY <2>6 DEF PersonType
  <2>9. made.name = "" /\ made.cover = c /\ person'[p] = made
    BY <2>5, <2>8
  <2> QED BY <2>6, <2>7, <2>8, <2>9
<1>12. \A p \in Known : person'[p] = person[p]
  OBVIOUS
<1>13. person' \in [Known' -> PersonType]
  BY <1>1, <1>8, <1>11, <1>12
<1>14. ASSUME NEW g \in gs, NEW r \in g PROVE r \in Rows /\ face'[r].who \in Range(id)
  <2>1. r \in Rows
    BY <1>2
  <2>2. face'[r].who = id[g]
    BY <1>9, <2>1
  <2> QED BY <1>5, <2>1, <2>2
<1> QED BY <1>4, <1>8, <1>9, <1>10, <1>11, <1>12, <1>13, <1>14

LEMMA WriteGroupsKeeps ==
    ASSUME PeopleInv, WriteGroups PROVE PeopleInv'
<1>1. UNCHANGED <<desk, detect, memo, faceBudget>>
  BY DEF WriteGroups
<1>2. cluster'.pc \in {"none", "queued", "read"}
  <2>1. cluster' \in {NoCluster, [NoCluster EXCEPT !.pc = "queued"]}
    BY DEF WriteGroups
  <2>2. NoCluster.pc = "none" /\ [NoCluster EXCEPT !.pc = "queued"].pc = "queued"
    BY DEF NoCluster
  <2> QED BY <2>1, <2>2
<1>3. \A o \in Detections : Inserted(o)' <=> Inserted(o)
  BY <1>1 DEF Inserted
<1>4. CASE ~(cluster.rows \subseteq Rows)
  <2>1. UNCHANGED <<face, person, unlearned, claimed>>
    BY <1>4 DEF WriteGroups
  <2>2. Rows' = Rows /\ Known' = Known /\ (\A p : Named(p)' <=> Named(p)) /\ (\A p : Evidence(p)' = Evidence(p))
    BY <2>1 DEF Rows, Known, Named, Evidence, Of
  <2>3. PeopleTyped'
    BY <1>1, <1>2, <2>1, <2>2 DEF PeopleInv, PeopleTyped, TabsTyped
  <2>4. CoversStay'
    BY <1>3, <2>1, <2>2, CoversKept
  <2>5. Learned'
    BY <1>1, <2>1, <2>2, LearnedStays
  <2> QED BY <2>3, <2>4, <2>5 DEF PeopleInv
<1>5. CASE cluster.rows \subseteq Rows
  <2>0. PICK gs \in Groupings(cluster.rows) :
        /\ Ids(gs) # {}
        /\ LET id == CHOOSE f \in Ids(gs) : TRUE
           IN  /\ face' = [r \in Rows |->
                     [face[r] EXCEPT !.who = IF \E g \in gs : r \in g THEN id[CHOOSE g \in gs : r \in g] ELSE @]]
               /\ person' = [p \in Known \cup Range(id) |->
                     IF p \in Known THEN person[p]
                     ELSE LET g == CHOOSE h \in gs : id[h] = p
                          IN  [name |-> "", proto |-> g, cover |-> CHOOSE r \in g : TRUE]]
        /\ claimed' = claimed \cup {r \in UNION gs : face[r].who # "none"}
        /\ unlearned' = unlearned \cup ({face[r].who : r \in UNION gs} \ {"none"})
    BY <1>5 DEF WriteGroups
  <2>1. PICK id \in Ids(gs) :
          /\ face' = [r \in Rows |->
               [face[r] EXCEPT !.who = IF \E g \in gs : r \in g THEN id[CHOOSE g \in gs : r \in g] ELSE @]]
          /\ person' = [p \in Known \cup Range(id) |->
               IF p \in Known THEN person[p]
               ELSE LET g == CHOOSE h \in gs : id[h] = p
                    IN  [name |-> "", proto |-> g, cover |-> CHOOSE r \in g : TRUE]]
          /\ claimed' = claimed \cup {r \in UNION gs : face[r].who # "none"}
          /\ unlearned' = unlearned \cup ({face[r].who : r \in UNION gs} \ {"none"})
    <3>1. (CHOOSE f \in Ids(gs) : TRUE) \in Ids(gs)
      BY <2>0
    <3> QED BY <2>0, <3>1
  <2>2. /\ Rows' = Rows /\ face' \in [Rows -> FaceType]
        /\ Known' = Known \cup Range(id) /\ Range(id) \subseteq Unused /\ person' \in [Known' -> PersonType]
        /\ \A r \in Rows : face'[r].source = face[r].source /\ face'[r].slot = face[r].slot
        /\ \A r \in Rows \ UNION gs : face'[r].who = face[r].who
        /\ \A g \in gs : \A r \in g : r \in Rows /\ face'[r].who \in Range(id)
        /\ \A p \in Known : person'[p] = person[p]
        /\ \A p \in Range(id) : /\ person'[p].name = "" /\ person'[p].cover \in Rows
                                /\ face'[person'[p].cover].who = p
    BY <1>5, <2>1, GroupsGive
  <2>3. /\ Range(id) \subseteq Persons \ Known /\ Known \subseteq Known' /\ "none" \notin Known
        /\ \A p \in Range(id) : \A t \in Tabs : p \notin Range(desk[t].about)
    BY <2>2, PeopleAssumption DEF Unused, PeopleInv, PeopleTyped, PeopleAssumption
  <2>4. (\A p \in Known : Named(p)' <=> Named(p)) /\ (\A p \in Range(id) : ~Named(p)')
    BY <2>2, <2>3 DEF Named
  <2>5. UNION gs \subseteq Rows
    BY <2>2
  <2>6. unlearned \subseteq unlearned' /\ unlearned' \subseteq Known
    <3>1. \A r \in Rows : face[r].who \in Known \cup {"none"}
      BY DEF PeopleInv, PeopleTyped
    <3> QED BY <2>1, <2>5, <3>1 DEF PeopleInv, PeopleTyped
  <2>7. PeopleTyped'
    <3>1. ASSUME NEW r \in Rows' PROVE {face'[r].who, face'[r].slot} \subseteq Known' \cup {"none"}
      <4>1. r \in Rows /\ face[r].who \in Known \cup {"none"} /\ face[r].slot \in Known \cup {"none"}
        BY <2>2 DEF PeopleInv, PeopleTyped
      <4>2. face'[r].who = face[r].who \/ face'[r].who \in Range(id)
        <5>1. CASE r \in UNION gs
          BY <2>2, <5>1
        <5>2. CASE r \notin UNION gs
          BY <2>2, <4>1, <5>2
        <5> QED BY <5>1, <5>2
      <4>3. face'[r].slot = face[r].slot /\ Known' = Known \cup Range(id)
        BY <2>2, <4>1
      <4> QED BY <4>1, <4>2, <4>3
    <3> QED BY <1>1, <1>2, <2>2, <2>3, <2>6, <3>1 DEF PeopleInv, PeopleTyped, TabsTyped
  <2>8. ASSUME NEW x \in Known \ unlearned' PROVE Evidence(x)' = Evidence(x)
    <3>1. \A r \in UNION gs : face[r].who # x
      BY <2>1, <2>3, <2>8
    <3>2. \A r \in UNION gs : face'[r].who # x
      BY <2>2, <2>3, <2>8
    <3> QED BY <2>2, <2>5, <3>1, <3>2 DEF Evidence, Of
  <2>9. ASSUME NEW x \in Known PROVE CoverStays(x)'
    <3>1. CoverStays(x) /\ person'[x] = person[x]
      BY <2>2 DEF PeopleInv, CoversStay
    <3>2. PICK c : c = person[x].cover
      OBVIOUS
    <3>3. c # "none" => Inserted(c)'
      BY <1>3, <3>1, <3>2 DEF CoverStays, Inserted
    <3>4. ASSUME c \in Rows', c \notin claimed', face'[c].source = "detected" PROVE face'[c].who = x /\ ~Named(x)'
      <4>1. c \in Rows /\ c \notin claimed /\ face[c].source = "detected"
        BY <2>1, <2>2, <3>4
      <4>2. face[c].who = x /\ ~Named(x)
        BY <3>1, <3>2, <4>1 DEF CoverStays
      <4>3. c \notin UNION gs
        BY <2>1, <2>3, <3>4, <4>2
      <4> QED BY <2>2, <2>4, <4>1, <4>2, <4>3
    <3> QED BY <3>1, <3>2, <3>3, <3>4 DEF CoverStays
  <2>10. ASSUME NEW x \in Range(id) PROVE CoverStays(x)'
    <3>1. PICK c \in Rows : c = person'[x].cover
      BY <2>2
    <3>2. Inserted(c)' /\ face'[c].who = x
      BY <1>3, <2>2, <3>1 DEF PeopleInv, CoversStay, Inserted
    <3> QED BY <2>4, <3>1, <3>2 DEF CoverStays
  <2>11. CoversStay'
    <3>1. \A r \in Rows' : Inserted(r)'
      BY <1>3, <2>2 DEF PeopleInv, CoversStay, Inserted
    <3> QED BY <2>2, <2>9, <2>10, <3>1 DEF CoversStay
  <2>12. Learned'
    <3>1. \A p \in (Known' \cap Known) \ unlearned' :
             /\ person'[p].name = person[p].name /\ person'[p].proto = person[p].proto
             /\ Evidence(p)' = Evidence(p)
      BY <2>2, <2>8
    <3>2. \A p \in Known' \ Known : ~Named(p)' /\ \A t \in Tabs : p \notin Range(desk[t].about)
      BY <2>2, <2>3, <2>4
    <3> QED BY <1>1, <2>3, <2>6, <3>1, <3>2, LearnedStays
  <2> QED BY <2>7, <2>11, <2>12 DEF PeopleInv
<1> QED BY <1>4, <1>5

(* discover_more, its search and its write.                                 *)
LEMMA OffersKeep ==
    ASSUME PeopleInv, NEW t \in Tabs, NEW p \in Known, NEW rows \in SUBSET Rows, Discover(t, p, rows)
    PROVE  PeopleInv'
<1>1. /\ desk[t].pc = "idle" /\ PeopleSpend
      /\ desk' = [desk EXCEPT ![t] = [pc |-> "offer", about |-> <<p>>, rows |-> rows]]
      /\ UNCHANGED <<face, person, detect, cluster, memo, unlearned, claimed>>
  BY DEF Discover
<1>2. Rows' = Rows /\ Known' = Known /\ (\A x : Named(x)' <=> Named(x)) /\ (\A x : Evidence(x)' = Evidence(x))
  BY <1>1 DEF Rows, Known, Named, Evidence, Of
<1>3. PICK request \in TabType : /\ request = [pc |-> "offer", about |-> <<p>>, rows |-> rows]
                               /\ request.pc = "offer" /\ Len(request.about) = 1
  <2>1. p \in Persons /\ rows \subseteq Detections
    BY DEF PeopleInv, PeopleTyped
  <2>2. <<p>> \in Seq(Persons) /\ Len(<<p>>) = 1
    BY <2>1
  <2>3. PICK about \in Seq(Persons) : about = <<p>> /\ Len(about) = 1
    BY <2>2
  <2>4. [pc |-> "offer", about |-> about, rows |-> rows] \in TabType
    BY <2>1 DEF TabType
  <2> QED BY <2>3, <2>4
<1>4. desk' = [desk EXCEPT ![t] = request] /\ desk \in [Tabs -> TabType]
  BY <1>1, <1>3 DEF PeopleInv, PeopleTyped, TabsTyped
<1>5. TabsTyped'
  <2>1. desk' \in [Tabs -> TabType] /\ desk'[t] = request /\ \A u \in Tabs \ {t} : desk'[u] = desk[u]
    BY <1>4
  <2> QED BY <1>3, <2>1 DEF PeopleInv, PeopleTyped, TabsTyped
<1>6. \A u \in Tabs : (Judging(u)' <=> Judging(u)) /\ (Judging(u) => desk'[u] = desk[u])
  BY <1>1, <1>3, <1>4 DEF Judging
<1>7. faceBudget' \in 0..PeopleIncidents
  BY <1>1, PeopleSpends DEF PeopleInv, PeopleTyped
<1>8. PeopleTyped'
  BY <1>1, <1>2, <1>5, <1>7 DEF PeopleInv, PeopleTyped
<1>9. CoversStay'
  BY <1>1, <1>2, CoversKept DEF Inserted
<1>10. Learned'
  BY <1>1, <1>2, <1>6, LearnedRests
<1> QED BY <1>8, <1>9, <1>10 DEF PeopleInv

(* A tab goes back to idle, or to what is of its type.                      *)
LEMMA TabMoves ==
    ASSUME PeopleInv, NEW t \in Tabs, NEW request \in TabType, desk' = [desk EXCEPT ![t] = request],
           \/ request = IdleTab
           \/ /\ request.pc # "idle" /\ Len(request.about) \in 1..2
              /\ Len(request.about) = 2 => request.about[1] # request.about[2]
    PROVE  TabsTyped' /\ desk'[t] = request /\ \A u \in Tabs \ {t} : desk'[u] = desk[u]
<1>1. desk \in [Tabs -> TabType]
  BY DEF PeopleInv, PeopleTyped, TabsTyped
<1>2. desk' \in [Tabs -> TabType] /\ desk'[t] = request /\ \A u \in Tabs \ {t} : desk'[u] = desk[u]
  BY <1>1
<1>3. IdleTab.pc = "idle" /\ Len(IdleTab.about) = 0
  BY DEF IdleTab
<1> QED BY <1>2, <1>3 DEF PeopleInv, PeopleTyped, TabsTyped

LEMMA IdleTyped == IdleTab \in TabType
<1>1. << >> \in Seq(Persons)
  OBVIOUS
<1> QED BY <1>1 DEF IdleTab, TabType

LEMMA WriteOffersKeeps ==
    ASSUME PeopleInv, NEW t \in Tabs, WriteOffers(t) PROVE PeopleInv'
<1>1. /\ desk[t].pc = "offer" /\ desk' = [desk EXCEPT ![t] = IdleTab]
      /\ UNCHANGED <<person, detect, cluster, memo, unlearned, faceBudget, claimed>>
  BY DEF WriteOffers
<1>2. Known' = Known /\ (\A x : Named(x)' <=> Named(x)) /\ face \in [Rows -> FaceType]
  BY <1>1 DEF Known, Named, PeopleInv, PeopleTyped
<1>3. /\ Rows' = Rows /\ face' \in [Rows -> FaceType]
      /\ \A r \in Rows : /\ face'[r].who = face[r].who /\ face'[r].source = face[r].source
                         /\ face'[r].slot \in Known \cup {"none"}
  <2>1. CASE UNCHANGED face
    BY <1>2, <2>1 DEF Rows, PeopleInv, PeopleTyped
  <2>2. CASE /\ Range(desk[t].about) \subseteq Known
             /\ face' = [r \in Rows |-> IF r \in desk[t].rows
                                        THEN [face[r] EXCEPT !.slot = desk[t].about[1], !.state = "pending"]
                                        ELSE face[r]]
    <3>1. PICK p \in Known : p = desk[t].about[1]
      BY <1>1, <2>2, FirstAsked
    <3>2. face' = [r \in Rows |-> IF r \in desk[t].rows
                                  THEN [face[r] EXCEPT !.slot = p, !.state = "pending"] ELSE face[r]]
      BY <2>2, <3>1
    <3>3. p \in Persons
      BY DEF PeopleInv, PeopleTyped
    <3>4. ASSUME NEW r \in Rows
          PROVE  /\ face'[r] \in FaceType /\ face'[r].who = face[r].who /\ face'[r].source = face[r].source
                 /\ face'[r].slot \in Known \cup {"none"}
      <4>1. /\ face'[r] = [face[r] EXCEPT !.slot = p, !.state = "pending"] \/ face'[r] = face[r]
            /\ face[r] \in FaceType /\ face[r].slot \in Known \cup {"none"}
        BY <1>2, <3>2 DEF PeopleInv, PeopleTyped
      <4> QED BY <3>3, <4>1 DEF FaceType
    <3> QED BY <3>2, <3>4 DEF Rows
  <2> QED BY <2>1, <2>2 DEF WriteOffers, Shift
<1>4. TabsTyped' /\ desk'[t] = IdleTab /\ \A u \in Tabs \ {t} : desk'[u] = desk[u]
  BY <1>1, IdleTyped, TabMoves
<1>5. \A u \in Tabs : (Judging(u)' <=> Judging(u)) /\ (Judging(u) => desk'[u] = desk[u])
  BY <1>1, <1>4 DEF Judging, IdleTab
<1>6. \A x : Evidence(x)' = Evidence(x)
  BY <1>3 DEF Evidence, Of
<1>7. PeopleTyped'
  BY <1>1, <1>2, <1>3, <1>4 DEF PeopleInv, PeopleTyped
<1>8. CoversStay'
  BY <1>1, <1>2, <1>3, CoversKept DEF Inserted
<1>9. Learned'
  BY <1>1, <1>2, <1>5, <1>6, LearnedRests
<1> QED BY <1>7, <1>8, <1>9 DEF PeopleInv

(* _relearn reads.                                                          *)
LEMMA RelearnKeeps ==
    ASSUME PeopleInv, NEW t \in Tabs, Relearn(t) PROVE PeopleInv'
<1>1. /\ desk[t].pc = "learn"
      /\ desk' = [desk EXCEPT ![t].pc = "write", ![t].rows = Of(desk[t].about[1], {"confirmed"})]
      /\ UNCHANGED <<face, person, detect, cluster, memo, unlearned, faceBudget, claimed>>
  BY DEF Relearn
<1>2. Rows' = Rows /\ Known' = Known /\ (\A x : Named(x)' <=> Named(x)) /\ (\A x : Evidence(x)' = Evidence(x))
  BY <1>1 DEF Rows, Known, Named, Evidence, Of
<1>3. PICK p : p = desk[t].about[1]
  OBVIOUS
<1>4. desk[t] \in TabType /\ desk \in [Tabs -> TabType] /\ Evidence(p) \subseteq Detections
  BY DEF PeopleInv, PeopleTyped, TabsTyped, Evidence, Of
<1>5. PICK rows \in SUBSET Detections : rows = Evidence(p)
  BY <1>4
<1>6. desk' = [desk EXCEPT ![t].pc = "write", ![t].rows = rows]
  BY <1>1, <1>3, <1>5 DEF Evidence
<1>7. PICK request : request = [desk[t] EXCEPT !.pc = "write", !.rows = rows]
  OBVIOUS
<1>8. request \in TabType /\ request.pc = "write" /\ request.about = desk[t].about /\ request.rows = rows
  BY <1>4, <1>7 DEF TabType
<1>9. desk' = [desk EXCEPT ![t] = request]
  BY <1>4, <1>6, <1>7
<1>10. /\ Len(request.about) \in 1..2
       /\ Len(request.about) = 2 => request.about[1] # request.about[2]
  BY <1>1, <1>8 DEF PeopleInv, PeopleTyped, TabsTyped
<1>11. TabsTyped' /\ desk'[t] = request /\ \A u \in Tabs \ {t} : desk'[u] = desk[u]
  BY <1>8, <1>9, <1>10, TabMoves
<1>12. PeopleTyped'
  BY <1>1, <1>2, <1>11 DEF PeopleInv, PeopleTyped
<1>13. CoversStay'
  BY <1>1, <1>2, CoversKept DEF Inserted
<1>14. \A u \in Tabs : (Judging(u)' <=> Judging(u)) /\ desk'[u].about = desk[u].about
  BY <1>1, <1>8, <1>11 DEF Judging
<1>15. Learned'
  <2>1. ASSUME NEW x \in Known \ unlearned, Named(x) PROVE ToLearn(x)' \/ person[x].proto = Evidence(x)
    BY <1>14, <2>1 DEF PeopleInv, Learned, ToLearn
  <2>2. ASSUME NEW u \in Tabs, desk'[u].pc = "write", NEW x \in Known \ unlearned, x = desk'[u].about[1]
        PROVE  desk'[u].rows = Evidence(x)
    <3>1. CASE u = t
      BY <1>3, <1>5, <1>8, <1>11, <2>2, <3>1
    <3>2. CASE u # t
      BY <1>11, <2>2, <3>2 DEF PeopleInv, Learned
    <3> QED BY <3>1, <3>2
  <2>3. ASSUME NEW u \in Tabs, desk'[u].pc = "write", desk'[u].about[1] \in Known \ unlearned
        PROVE  desk'[u].rows = Evidence(desk[u].about[1])'
    <3>1. PICK x \in Known \ unlearned : x = desk'[u].about[1]
      BY <2>3
    <3>2. desk'[u].rows = Evidence(x)'
      BY <1>2, <2>2, <2>3, <3>1
    <3> QED BY <3>1, <3>2
  <2>4. ASSUME NEW u \in Tabs, Judging(u)', desk'[u].about[1] \notin Known
        PROVE  Range(desk'[u].about) \cap Known \subseteq unlearned
    BY <1>14, <2>4 DEF PeopleInv, Learned
  <2> QED BY <1>1, <1>2, <2>1, <2>3, <2>4 DEF Learned
<1> QED BY <1>12, <1>13, <1>15 DEF PeopleInv

(* The process dies between the judgement and the relearn.                  *)
LEMMA RequestDiesKeeps ==
    ASSUME PeopleInv, NEW t \in Tabs, RequestDies(t) PROVE PeopleInv'
<1>1. /\ PeopleSpend /\ desk' = [desk EXCEPT ![t] = IdleTab]
      /\ unlearned' = unlearned \cup (Range(desk[t].about) \cap Known)
      /\ UNCHANGED <<face, person, detect, cluster, memo, claimed>>
  BY DEF RequestDies
<1>2. Rows' = Rows /\ Known' = Known /\ (\A x : Named(x)' <=> Named(x)) /\ (\A x : Evidence(x)' = Evidence(x))
  BY <1>1 DEF Rows, Known, Named, Evidence, Of
<1>3. TabsTyped' /\ desk'[t] = IdleTab /\ \A u \in Tabs \ {t} : desk'[u] = desk[u]
  BY <1>1, IdleTyped, TabMoves
<1>4. faceBudget' \in 0..PeopleIncidents
  BY <1>1, PeopleSpends DEF PeopleInv, PeopleTyped
<1>5. PeopleTyped'
  BY <1>1, <1>2, <1>3, <1>4 DEF PeopleInv, PeopleTyped
<1>6. CoversStay'
  BY <1>1, <1>2, CoversKept DEF Inserted
<1>7. IdleTab.pc = "idle"
  BY DEF IdleTab
<1>8. Learned'
  <2>1. ASSUME NEW x \in Known \ unlearned', Named(x) PROVE ToLearn(x)' \/ person[x].proto = Evidence(x)
    <3>1. x \notin Range(desk[t].about) /\ x \notin unlearned
      BY <1>1, <2>1
    <3>2. ToLearn(x) => ToLearn(x)'
      BY <1>3, <3>1 DEF ToLearn, Judging
    <3> QED BY <2>1, <3>1, <3>2 DEF PeopleInv, Learned
  <2>2. ASSUME NEW u \in Tabs, desk'[u].pc = "write", desk'[u].about[1] \in Known \ unlearned'
        PROVE  desk'[u].rows = Evidence(desk[u].about[1])'
    <3>1. u # t /\ desk'[u] = desk[u]
      BY <1>3, <1>7, <2>2
    <3>2. PICK x \in Known \ unlearned : x = desk'[u].about[1]
      BY <1>1, <2>2
    <3>3. desk[u].rows = Evidence(x)
      BY <2>2, <3>1, <3>2 DEF PeopleInv, Learned
    <3>4. desk'[u].rows = Evidence(x)'
      BY <1>2, <3>1, <3>3
    <3> QED BY <3>2, <3>4
  <2>3. ASSUME NEW u \in Tabs, Judging(u)', desk'[u].about[1] \notin Known
        PROVE  Range(desk'[u].about) \cap Known \subseteq unlearned'
    <3>1. desk'[u] = desk[u] /\ Judging(u)
      BY <1>3, <1>7, <2>3 DEF Judging
    <3> QED BY <1>1, <2>3, <3>1 DEF PeopleInv, Learned
  <2> QED BY <1>1, <1>2, <2>1, <2>2, <2>3 DEF Learned
<1> QED BY <1>5, <1>6, <1>8 DEF PeopleInv

(* _relearn writes, and goes on to the next person it was request about.      *)
LEMMA WriteLearnedKeeps ==
    ASSUME PeopleInv, NEW t \in Tabs, WriteLearned(t) PROVE PeopleInv'
<1>1. PICK p \in Persons, rows \in SUBSET Detections, about \in Seq(Persons) :
         /\ p = desk[t].about[1] /\ rows = desk[t].rows /\ about = desk[t].about
         /\ Len(about) \in 1..2 /\ (Len(about) = 2 => about[1] # about[2])
  <2>1. desk[t].pc = "write" /\ desk[t] \in TabType
    BY DEF WriteLearned, PeopleInv, PeopleTyped, TabsTyped
  <2>2. desk[t].about \in Seq(Persons) /\ desk[t].rows \in SUBSET Detections
    BY <2>1 DEF TabType
  <2>3. Len(desk[t].about) \in 1..2 /\ (Len(desk[t].about) = 2 => desk[t].about[1] # desk[t].about[2])
    BY <2>1 DEF PeopleInv, PeopleTyped, TabsTyped
  <2>4. desk[t].about[1] \in Persons
    BY <2>2, <2>3
  <2> QED BY <2>2, <2>3, <2>4
<1>2. /\ desk[t].pc = "write"
      /\ person' = [x \in Known |-> IF x = p THEN [person[x] EXCEPT !.proto = rows] ELSE person[x]]
      /\ unlearned' = IF p \in unlearned /\ Others(t) = {} /\ rows = Of(p, {"confirmed"})
                      THEN unlearned \ {p} ELSE unlearned
      /\ UNCHANGED <<face, detect, cluster, memo, faceBudget, claimed>>
  BY <1>1 DEF WriteLearned
<1>3. \/ desk' = [desk EXCEPT ![t] = IdleTab] /\ ~(p \in Known /\ Len(about) = 2 /\ about[2] \in Known)
      \/ /\ desk' = [desk EXCEPT ![t] = [pc |-> "learn", about |-> <<about[2]>>, rows |-> {}]]
         /\ p \in Known /\ Len(about) = 2 /\ about[2] \in Known
  <2>1. <<about[2]>> # << >>
    OBVIOUS
  <2> QED BY <1>1, <2>1 DEF WriteLearned
<1>4. /\ Rows' = Rows /\ Known' = Known /\ (\A x : Evidence(x)' = Evidence(x))
      /\ person \in [Known -> PersonType]
  BY <1>2 DEF Rows, Known, Evidence, Of, PeopleInv, PeopleTyped
<1>5. /\ person' \in [Known -> PersonType]
      /\ \A x \in Known : /\ person'[x].name = person[x].name /\ person'[x].cover = person[x].cover
                          /\ person'[x].proto = IF x = p THEN rows ELSE person[x].proto
  <2>1. ASSUME NEW x \in Known
        PROVE  /\ person'[x] \in PersonType
               /\ person'[x].name = person[x].name /\ person'[x].cover = person[x].cover
               /\ person'[x].proto = IF x = p THEN rows ELSE person[x].proto
    <3>1. person[x] \in PersonType /\ person'[x] = IF x = p THEN [person[x] EXCEPT !.proto = rows] ELSE person[x]
      BY <1>2, <1>4
    <3> QED BY <3>1 DEF PersonType
  <2> QED BY <1>2, <2>1
<1>6. \A x : Named(x)' <=> Named(x)
  BY <1>4, <1>5 DEF Named
<1>7. PICK request \in TabType :
         /\ desk' = [desk EXCEPT ![t] = request]
         /\ \/ request = IdleTab /\ ~(p \in Known /\ Len(about) = 2 /\ about[2] \in Known)
            \/ /\ request.pc = "learn" /\ Len(request.about) = 1 /\ request.about[1] = about[2]
               /\ p \in Known /\ Len(about) = 2 /\ about[2] \in Known
  <2>1. CASE desk' = [desk EXCEPT ![t] = IdleTab] /\ ~(p \in Known /\ Len(about) = 2 /\ about[2] \in Known)
    BY <2>1, IdleTyped
  <2>2. CASE /\ desk' = [desk EXCEPT ![t] = [pc |-> "learn", about |-> <<about[2]>>, rows |-> {}]]
             /\ p \in Known /\ Len(about) = 2 /\ about[2] \in Known
    <3>1. PICK next \in Persons : next = about[2]
      <4>1. Known \subseteq Persons /\ about[2] \in Known
        BY <2>2 DEF PeopleInv, PeopleTyped
      <4> QED BY <4>1
    <3>2. PICK rest \in Seq(Persons) : rest = <<next>> /\ Len(rest) = 1 /\ rest[1] = next
      <4>1. <<next>> \in Seq(Persons) /\ Len(<<next>>) = 1 /\ <<next>>[1] = next
        OBVIOUS
      <4> QED BY <4>1
    <3>3. [pc |-> "learn", about |-> rest, rows |-> {}] \in TabType
      BY DEF TabType
    <3> QED BY <2>2, <3>1, <3>2, <3>3
  <2> QED BY <1>3, <2>1, <2>2
<1>8. TabsTyped' /\ desk'[t] = request /\ \A u \in Tabs \ {t} : desk'[u] = desk[u]
  <2>1. \/ request = IdleTab
        \/ /\ request.pc # "idle" /\ Len(request.about) \in 1..2
           /\ Len(request.about) = 2 => request.about[1] # request.about[2]
    BY <1>7
  <2>2. desk' = [desk EXCEPT ![t] = request]
    BY <1>7
  <2> QED BY <2>1, <2>2, TabMoves
<1>9. unlearned' \subseteq unlearned
  BY <1>2
<1>10. PeopleTyped'
  BY <1>2, <1>4, <1>5, <1>8, <1>9 DEF PeopleInv, PeopleTyped
<1>11. CoversStay'
  BY <1>2, <1>4, <1>5, <1>6, CoversKept DEF Inserted
<1>12. IdleTab.pc = "idle"
  BY DEF IdleTab
<1>13. p \in Known \ unlearned => rows = Evidence(p)
  BY <1>1, <1>2 DEF PeopleInv, Learned
<1>14. ASSUME p \in unlearned, p \notin unlearned'
       PROVE  rows = Evidence(p) /\ \A u \in Tabs \ {t} : ~Judging(u)
  BY <1>2, <1>14 DEF Evidence, Others, Judging
<1>15. Range(about) = {about[i] : i \in 1..Len(about)} /\ Range(desk[t].about) = Range(about)
  BY <1>1 DEF Range
<1>16. ASSUME NEW x \in Known \ unlearned', Named(x) PROVE ToLearn(x)' \/ person'[x].proto = Evidence(x)
  <2>1. CASE x = p
    BY <1>5, <1>13, <1>14, <1>16, <2>1
  <2>2. CASE x # p
    <3>1. x \notin unlearned /\ person'[x].proto = person[x].proto
      BY <1>2, <1>5, <1>16, <2>2
    <3>2. CASE ToLearn(x)
      <4>1. PICK u \in Tabs : Judging(u) /\ x \in Range(desk[u].about)
        BY <3>2 DEF ToLearn
      <4>2. CASE u # t
        BY <1>8, <4>1, <4>2 DEF ToLearn, Judging
      <4>3. CASE u = t
        <5>1. Len(about) = 2 /\ about[2] = x
          BY <1>1, <1>15, <2>2, <4>1, <4>3
        <5>2. p \in Known
          <6>1. SUFFICES ASSUME p \notin Known PROVE FALSE
            OBVIOUS
          <6>2. Range(desk[t].about) \cap Known \subseteq unlearned
            BY <1>1, <4>1, <4>3, <6>1 DEF PeopleInv, Learned
          <6> QED BY <1>16, <3>1, <4>1, <4>3, <6>2
        <5>3. request.pc = "learn" /\ Len(request.about) = 1 /\ request.about[1] = x
          BY <1>7, <1>16, <5>1, <5>2
        <5>4. request.about \in Seq(Persons)
          BY DEF TabType
        <5>5. 1 \in DOMAIN request.about
          BY <5>3, <5>4
        <5>6. x \in Range(request.about)
          BY <5>3, <5>5 DEF Range
        <5> QED BY <1>8, <5>3, <5>6 DEF ToLearn, Judging
      <4> QED BY <4>2, <4>3
    <3>3. CASE ~ToLearn(x)
      BY <1>16, <3>1, <3>3 DEF PeopleInv, Learned
    <3> QED BY <3>2, <3>3
  <2> QED BY <2>1, <2>2
<1>17. ASSUME NEW u \in Tabs, desk'[u].pc = "write", NEW x \in Known \ unlearned', x = desk'[u].about[1]
       PROVE  desk'[u].rows = Evidence(x)
  <2>1. u # t /\ desk'[u] = desk[u] /\ Judging(u)
    BY <1>7, <1>8, <1>12, <1>17 DEF Judging
  <2>2. x \notin unlearned
    BY <1>2, <1>14, <1>17, <2>1
  <2> QED BY <1>17, <2>1, <2>2 DEF PeopleInv, Learned
<1>18. ASSUME NEW u \in Tabs, Judging(u)', desk'[u].about[1] \notin Known
       PROVE  Range(desk'[u].about) \cap Known \subseteq unlearned'
  <2>1. u # t
    BY <1>7, <1>8, <1>12, <1>18 DEF Judging
  <2>2. desk'[u] = desk[u] /\ Judging(u)
    BY <1>8, <1>18, <2>1 DEF Judging
  <2>3. unlearned' = unlearned
    BY <1>2, <1>14, <2>1, <2>2
  <2> QED BY <1>18, <2>2, <2>3 DEF PeopleInv, Learned
<1>19. Learned'
  <2>1. ASSUME NEW u \in Tabs, desk'[u].pc = "write", desk'[u].about[1] \in Known' \ unlearned'
        PROVE  desk'[u].rows = Evidence(desk[u].about[1])'
    <3>1. PICK x \in Known \ unlearned' : x = desk'[u].about[1]
      BY <1>4, <2>1
    <3>2. desk'[u].rows = Evidence(x)'
      BY <1>4, <1>17, <2>1, <3>1
    <3> QED BY <3>1, <3>2
  <2> QED BY <1>4, <1>6, <1>16, <1>18, <2>1 DEF Learned
<1> QED BY <1>10, <1>11, <1>19 DEF PeopleInv

(* Only a merge removes a person and leaves a request to learn of one other, *)
(* and it moves what was refused along with the faces.                       *)
RefusalStep ==
    \A t \in Tabs, p, q \in Known :
       desk[t].pc = "idle" /\ q \notin DOMAIN person' /\ p \in DOMAIN person'
       /\ desk'[t].pc = "learn" /\ desk'[t].about = <<p>> =>
          \A r \in Refused(p) \cup Refused(q) :
             \/ r \in Refused(p)'
             \/ face'[r].who = p /\ face[r].source # "rejected"

LEMMA MergeRefuses ==
    ASSUME PeopleInv, NEW t \in Tabs, NEW p \in Known, NEW q \in Known, Merge(t, p, q)
    PROVE  RefusalStep
<1>1. /\ Rows' = Rows /\ face' \in [Rows -> FaceType] /\ p # q /\ p \in Persons
      /\ Known' = Known \ {q} /\ person' = [x \in Known \ {q} |-> person[x]]
      /\ \A r \in Rows : /\ face'[r].source = face[r].source
                         /\ face'[r].who = IF face[r].who = q THEN p ELSE face[r].who
      /\ \A r \in Rows : \/ face'[r].who = p /\ face'[r].slot = "none"
                         \/ /\ face'[r].slot = IF face[r].slot = q THEN p ELSE face[r].slot
                            /\ face'[r].state = face[r].state
  BY MergeGives
<1>2. desk \in [Tabs -> TabType] /\ desk' = [desk EXCEPT ![t] = [pc |-> "learn", about |-> <<p>>, rows |-> {}]]
  BY DEF Merge, Judged, PeopleInv, PeopleTyped, TabsTyped
<1>3. ASSUME NEW u \in Tabs, NEW x \in Known, NEW gone \in Known, desk[u].pc = "idle",
             gone \notin DOMAIN person', desk'[u].pc = "learn", desk'[u].about = <<x>>
      PROVE  x = p /\ gone = q
  <2>1. u = t
    BY <1>2, <1>3
  <2>2. desk'[t].about = <<p>>
    BY <1>2
  <2>3. <<x>>[1] = <<p>>[1]
    BY <1>3, <2>1, <2>2
  <2> QED BY <1>1, <1>3, <2>3 DEF Known
<1>4. ASSUME NEW r \in Refused(p) \cup Refused(q)
      PROVE  r \in Refused(p)' \/ (face'[r].who = p /\ face[r].source # "rejected")
  <2>1. r \in Rows
    BY DEF Refused
  <2>2. CASE face[r].who \in {p, q} /\ face[r].source = "rejected"
    BY <1>1, <2>1, <2>2 DEF Refused
  <2>3. CASE face[r].slot \in {p, q} /\ face[r].state = "rejected"
    <3>1. CASE face'[r].who = p /\ face'[r].slot = "none"
      BY <1>1, <2>1, <3>1 DEF Refused
    <3>2. CASE /\ face'[r].slot = IF face[r].slot = q THEN p ELSE face[r].slot
               /\ face'[r].state = face[r].state
      BY <1>1, <2>1, <2>3, <3>2 DEF Refused
    <3> QED BY <1>1, <2>1, <3>1, <3>2
  <2> QED BY <2>2, <2>3 DEF Refused
<1> QED BY <1>3, <1>4 DEF RefusalStep

LEMMA PeopleStep ==
    ASSUME PeopleInv, PeopleNext PROVE PeopleInv' /\ RefusalStep
<1>1. ASSUME Known \subseteq Known' PROVE RefusalStep
  BY <1>1 DEF RefusalStep, Known
<1>2. ASSUME UNCHANGED desk PROVE RefusalStep
  BY <1>2 DEF RefusalStep
<1>3. ASSUME NEW t \in Tabs, UNCHANGED person \/ desk'[t].pc # "learn",
             \A u \in Tabs \ {t} : desk'[u] = desk[u]
      PROVE  RefusalStep
  <2>1. CASE UNCHANGED person
    BY <1>1, <2>1 DEF Known
  <2>2. CASE desk'[t].pc # "learn"
    BY <1>3, <2>2 DEF RefusalStep
  <2> QED BY <1>3, <2>1, <2>2
<1>4. ASSUME NEW t \in Tabs, NEW p \in Persons, NEW n \in Names, Name(t, p, n)
      PROVE  PeopleInv' /\ RefusalStep
  <2>1. Known \subseteq Known'
    BY <1>4 DEF Name, Known, PeopleInv, PeopleTyped
  <2> QED BY <1>1, <1>4, <2>1, NameKeeps
<1>5. ASSUME NEW t \in Tabs, NEW p \in Known, NEW rows \in SUBSET Rows,
             Confirm(t, p, rows) \/ Reject(t, p, rows) \/ Discover(t, p, rows)
             \/ Accept(t, p, rows) \/ RejectSuggestion(t, p, rows)
      PROVE  PeopleInv' /\ RefusalStep
  <2>1. Known \subseteq Known'
    BY <1>5 DEF Confirm, Reject, Discover, Accept, RejectSuggestion, Known
  <2>2. PeopleInv'
    BY <1>5, ReviewKeeps, OffersKeep, SuggestedKeeps
  <2> QED BY <1>1, <2>1, <2>2
<1>6. ASSUME NEW t \in Tabs, NEW p \in Known, NEW q \in Known, Merge(t, p, q)
      PROVE  PeopleInv' /\ RefusalStep
  BY <1>6, MergeKeeps, MergeRefuses
<1>7. ASSUME NEW t \in Tabs, NEW r \in Rows, NEW p \in Persons, NEW n \in Names, Assign(t, r, p, n)
      PROVE  PeopleInv' /\ RefusalStep
  <2>1. Known \subseteq Known'
    BY <1>7 DEF Assign, Known
  <2> QED BY <1>1, <1>7, <2>1, AssignKeeps
<1>8. ASSUME NEW t \in Tabs, Finishing(t) \/ RequestDies(t) PROVE PeopleInv' /\ RefusalStep
  <2>1. PeopleInv'
    BY <1>8, RelearnKeeps, WriteLearnedKeeps, WriteOffersKeeps, RequestDiesKeeps DEF Finishing
  <2>2. Known \subseteq Known'
    BY <1>8 DEF Finishing, Relearn, WriteLearned, WriteOffers, RequestDies, Known
  <2> QED BY <1>1, <2>1, <2>2
<1>9. ASSUME NEW p \in Known, Forget(p) PROVE PeopleInv' /\ RefusalStep
  <2>1. UNCHANGED desk
    BY <1>9 DEF Forget
  <2> QED BY <1>2, <1>9, <2>1, ForgetKeeps
<1>10. ASSUME NEW d \in Detections, Detecting(d) \/ ReplaceFrames(Shows[d]) PROVE PeopleInv' /\ RefusalStep
  <2>1. UNCHANGED desk
    BY <1>10 DEF Detecting, Look, InsertFace, Match, ReplaceFrames
  <2> QED BY <1>2, <1>10, <2>1, LookKeeps, InsertKeeps, MatchKeeps, ReplaceKeeps DEF Detecting
<1>11. ASSUME Clustering \/ ScannerRestarts PROVE PeopleInv' /\ RefusalStep
  <2>1. UNCHANGED desk
    BY <1>11 DEF Clustering, Tick, ReadLoose, WriteGroups, ScannerRestarts
  <2> QED BY <1>2, <1>11, <2>1, ScannerKeeps, WriteGroupsKeeps DEF Clustering
<1> QED BY <1>4, <1>5, <1>6, <1>7, <1>8, <1>9, <1>10, <1>11 DEF PeopleNext, Says

(* A card shows its person's own face, and a confirmed one where there is   *)
(* one; with no request under way a prototype is the mean of the confirmed  *)
(* faces; and a merge carries every refusal along (api/v1/people.py,        *)
(* detect_faces and cluster_faces in processing/tasks.py).                  *)
THEOREM PeopleHolds == HouseSpec => PeopleCorrect
<1>1. HouseInit => PeopleInv
  BY PeopleInvStarts DEF HouseInit
<1>2. [HouseNext]_houseVars => [PeopleNext]_peopleVars
  BY DEF HouseNext, PeopleMove, DevelopMoves, WatcherMoves, RemoteMoves, houseVars
<1>3. PeopleInv /\ UNCHANGED peopleVars => PeopleInv'
  <2> SUFFICES ASSUME PeopleInv, UNCHANGED peopleVars PROVE PeopleInv'
    OBVIOUS
  <2>1. UNCHANGED <<face, person, desk, detect, cluster, memo, unlearned, claimed, faceBudget>>
    BY DEF peopleVars
  <2>2. Rows' = Rows /\ Known' = Known /\ (\A p : Named(p)' <=> Named(p)) /\ (\A p : Evidence(p)' = Evidence(p))
    BY <2>1 DEF Rows, Known, Named, Evidence, Of
  <2>3. PeopleTyped'
    BY <2>1, <2>2 DEF PeopleInv, PeopleTyped, TabsTyped
  <2>4. CoversStay'
    BY <2>1, <2>2, CoversKept DEF Inserted
  <2>5. Learned'
    BY <2>1, <2>2, LearnedStays
  <2> QED BY <2>3, <2>4, <2>5 DEF PeopleInv
<1>4. PeopleInv /\ [HouseNext]_houseVars => PeopleInv' /\ [RefusalStep]_peopleVars
  BY <1>2, <1>3, PeopleStep
<1>5. PeopleInv => PeopleTypeOK /\ CoverAgreed /\ LearnedAtRest
  <2> SUFFICES ASSUME PeopleInv PROVE PeopleTypeOK /\ CoverAgreed /\ LearnedAtRest
    OBVIOUS
  <2>1. PeopleTypeOK
    <3>1. \A r \in Rows : face[r] \in FaceType /\ {face[r].who, face[r].slot} \subseteq Known \cup {"none"}
      BY DEF PeopleInv, PeopleTyped
    <3>2. \A p \in Known : person[p] \in PersonType
      BY DEF PeopleInv, PeopleTyped
    <3>3. \A t \in Tabs : desk[t] \in TabType
      BY DEF PeopleInv, PeopleTyped, TabsTyped
    <3>4. \A r \in Rows : /\ face[r].who \in Known \cup {"none"} /\ face[r].slot \in Known \cup {"none"}
                          /\ face[r].source \in {"detected", "confirmed", "rejected"}
                          /\ face[r].state \in {"none", "pending", "rejected"}
      BY <3>1 DEF FaceType
    <3>5. \A p \in Known : /\ person[p].name \in Names \cup {""} /\ person[p].proto \subseteq Detections
                           /\ person[p].cover \in Detections \cup {"none"}
      BY <3>2 DEF PersonType
    <3>6. \A t \in Tabs : desk[t].pc \in {"idle", "learn", "write", "offer"}
      BY <3>3 DEF TabType
    <3> QED BY <3>4, <3>5, <3>6 DEF PeopleTypeOK, PeopleInv, PeopleTyped
  <2>2. ASSUME NEW p \in Known
        PROVE  /\ ShownCover(p) \subseteq Of(p, {"detected", "confirmed"})
               /\ Named(p) /\ Of(p, {"confirmed"}) # {} =>
                     ShownCover(p) \subseteq Of(p, {"confirmed"}) \cup claimed
    <3>1. Of(p, {"confirmed"}) \subseteq Of(p, {"detected", "confirmed"})
          /\ Of(p, {"detected"}) \subseteq Of(p, {"detected", "confirmed"})
      BY DEF Of
    <3>2. CASE person[p].cover \in Of(p, {"detected", "confirmed"})
      <4>1. PICK c : c = person[p].cover
        OBVIOUS
      <4>2. c \in Rows /\ face[c].who = p /\ face[c].source \in {"detected", "confirmed"}
        BY <3>2, <4>1 DEF Of
      <4>3. Named(p) => c \in claimed \/ face[c].source = "confirmed"
        BY <4>1, <4>2 DEF PeopleInv, CoversStay, CoverStays
      <4>4. ShownCover(p) = {c}
        BY <3>2, <4>1 DEF ShownCover
      <4> QED BY <3>2, <4>1, <4>2, <4>3, <4>4 DEF Of
    <3>3. CASE person[p].cover \notin Of(p, {"detected", "confirmed"})
      BY <3>1, <3>3 DEF ShownCover
    <3> QED BY <3>2, <3>3
  <2>3. LearnedAtRest
    BY DEF LearnedAtRest, PeopleInv, Learned, ToLearn, Judging, Evidence
  <2> QED BY <2>1, <2>2, <2>3 DEF CoverAgreed
<1> QED BY <1>1, <1>4, <1>5, PTL DEF HouseSpec, PeopleCorrect, MergeKeepsRefusals, RefusalStep

=============================================================================
