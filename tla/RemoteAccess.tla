---------------------------- MODULE RemoteAccess ----------------------------
(***************************************************************************)
(* Being reached from outside: the settings row that every request loads    *)
(* whole and saves whole (api/v1/remote_access.py, ddns/settings_store.py), *)
(* the sidecar that keeps a DNS record on this network's address            *)
(* (ddns/__main__.py), and the gate in front of every request, which        *)
(* remembers for a few seconds what it read (api/public_gate.py).           *)
(***************************************************************************)
EXTENDS Integers, FiniteSets

CONSTANTS
    Records,            \* names the record can be given
    Addresses,          \* public addresses of this network
    Hosts,              \* tailnet names someone arrives under
    Callers,            \* settings requests under way at a time
    RemoteIncidents     \* bound: requests, new addresses and errors

ASSUME RemoteAssumption == Records # {} /\ Addresses # {} /\ RemoteIncidents \in Nat

VARIABLES
    config,         \* RemoteAccessConfig: [public, record, host]
    address,        \* this network's address
    dns,            \* the provider: record -> address
    published,      \* DdnsState.last_ipv4
    sidecar,        \* run_once: the record and the last address it loaded, or has just sent
    caller,         \* request -> what it loaded and asks for
    gate,           \* the gate: what it remembers, and a read under way
    renamed,        \* history: the record was renamed during or after a publication
    forgotten,      \* history: the last address the provider took was never saved as published
    remoteBudget

remoteVars ==
    <<config, address, dns, published, sidecar, caller, gate, renamed, forgotten, remoteBudget>>
recordHistory == <<renamed, forgotten>>

Nothing == "none"
Away == [pc |-> "idle", op |-> Nothing, loaded |-> [public |-> FALSE, record |-> Nothing, host |-> Nothing],
         asks |-> Nothing]
Asleep == [pc |-> "idle", record |-> Nothing, last |-> Nothing]

(* A server as it is installed, or one whose record was published. *)
RemoteInit ==
    /\ address = (CHOOSE a \in Addresses : TRUE) /\ published \in {Nothing, address}
    /\ config = [public |-> published # Nothing, record |-> CHOOSE r \in Records : TRUE, host |-> Nothing]
    /\ dns = [r \in Records |-> IF r = config.record THEN published ELSE Nothing]
    /\ sidecar = Asleep /\ caller = [c \in Callers |-> Away]
    /\ gate = [allow |-> TRUE, fresh |-> FALSE, reading |-> Nothing]
    /\ renamed = FALSE /\ forgotten = FALSE /\ remoteBudget = RemoteIncidents

RemoteTypeOK ==
    /\ config \in [public : BOOLEAN, record : Records, host : Hosts \cup {Nothing}]
    /\ published \in Addresses \cup {Nothing}
    /\ \A r \in Records : dns[r] \in Addresses \cup {Nothing}
    /\ gate.allow \in BOOLEAN /\ remoteBudget \in 0..RemoteIncidents

Misfortune == remoteBudget > 0 /\ remoteBudget' = remoteBudget - 1

-----------------------------------------------------------------------------
(* load_config: a request reads the whole row. *)
LoadConfig(c) ==
    /\ caller[c].pc = "idle" /\ Misfortune
    /\ \E ask \in {<<"kill", Nothing>>, <<"open", Nothing>>} \cup ({"rename"} \X Records)
                    \cup ({"visit"} \X Hosts) :
          caller' = [caller EXCEPT ![c] = [pc |-> "loaded", op |-> ask[1], asks |-> ask[2],
                                           loaded |-> config]]
    /\ UNCHANGED <<config, address, dns, published, sidecar, gate, recordHistory>>

Wanted(c) ==
    LET l == caller[c].loaded
    IN  CASE caller[c].op \in {"kill", "open"} -> [l EXCEPT !.public = (caller[c].op = "open")]
          [] caller[c].op = "rename" -> [l EXCEPT !.record = caller[c].asks]
          [] caller[c].op = "visit" -> [l EXCEPT !.host = caller[c].asks]

Saves(c, row) ==
    /\ caller[c].pc = "loaded" /\ caller' = [caller EXCEPT ![c] = Away]
    /\ config' = row
    /\ renamed' = (renamed \/ (row.record # config.record
                                 /\ (published # Nothing \/ sidecar.pc # "idle")))
    /\ UNCHANGED <<address, dns, published, sidecar, gate, forgotten, remoteBudget>>

(* Defect: the fields the form left out are written too, as it shows them.  *)
SaveWholeForm(c) == Saves(c, IF caller[c].op = "rename" THEN [Wanted(c) EXCEPT !.public = TRUE]
                             ELSE Wanted(c))

(* save_config, of an update, of the kill switch, or of a visit over the    *)
(* tailnet: the row that was loaded with the change; nothing when it is the *)
(* row that was loaded.                                                     *)
SaveConfig(c) == Saves(c, IF Wanted(c) = caller[c].loaded THEN config ELSE Wanted(c))

-----------------------------------------------------------------------------
(* run_once: nothing to do while public access is off. *)
Wake ==
    /\ sidecar.pc = "idle" /\ config.public
    /\ sidecar' = [pc |-> "loaded", record |-> config.record, last |-> published]
    /\ UNCHANGED <<config, address, dns, published, caller, gate, recordHistory, remoteBudget>>

(* Defect: the address counts as published before the provider answers. *)
PublishUnconfirmed ==
    /\ sidecar.pc = "loaded" /\ sidecar' = Asleep /\ published' = address
    /\ \/ dns' = IF address = sidecar.last THEN dns ELSE [dns EXCEPT ![sidecar.record] = address]
       \/ remoteBudget > 0 /\ UNCHANGED dns
    /\ UNCHANGED <<config, address, caller, gate, recordHistory, remoteBudget>>

(* The provider is called when the address is not the last one published.   *)
Publish ==
    /\ sidecar.pc = "loaded"
    /\ IF address = sidecar.last THEN sidecar' = Asleep /\ UNCHANGED dns
       ELSE /\ dns' = [dns EXCEPT ![sidecar.record] = address]
            /\ sidecar' = [sidecar EXCEPT !.pc = "sent", !.last = address]
    /\ UNCHANGED <<config, address, published, caller, gate, recordHistory, remoteBudget>>

(* save_state, once the provider has answered. *)
SaveState ==
    /\ sidecar.pc = "sent" /\ sidecar' = Asleep
    /\ published' = sidecar.last /\ forgotten' = FALSE
    /\ UNCHANGED <<config, address, dns, caller, gate, renamed, remoteBudget>>

(* The record is written and nobody here knows: the answer is lost on its   *)
(* way, the state cannot be saved, or the sidecar stops before it is.       *)
AnswerLost ==
    /\ sidecar.pc = "sent" /\ Misfortune /\ sidecar' = Asleep
    /\ forgotten' = TRUE
    /\ UNCHANGED <<config, address, dns, published, caller, gate, renamed>>

(* A DnsError: the state keeps the error and the address before. *)
PublishFails ==
    /\ sidecar.pc = "loaded" /\ address # sidecar.last /\ Misfortune /\ sidecar' = Asleep
    /\ UNCHANGED <<config, address, dns, published, caller, gate, recordHistory>>

NewAddress ==
    /\ Misfortune /\ address' \in Addresses \ {address}
    /\ UNCHANGED <<config, dns, published, sidecar, caller, gate, recordHistory>>

-----------------------------------------------------------------------------
(* _public_allowed: a request reads the row again once what the gate holds  *)
(* is CACHE_SECONDS old; others may do so before it has the answer.         *)
Expire ==
    /\ gate.fresh /\ gate' = [gate EXCEPT !.fresh = FALSE]
    /\ UNCHANGED <<config, address, dns, published, sidecar, caller, recordHistory, remoteBudget>>

GateReads ==
    /\ ~gate.fresh /\ gate.reading = Nothing
    /\ gate' = [gate EXCEPT !.reading = IF config.public THEN "on" ELSE "off"]
    /\ UNCHANGED <<config, address, dns, published, sidecar, caller, recordHistory, remoteBudget>>

(* Defect: what was let through stays let through. *)
GateKeepsOpen ==
    /\ gate.reading # Nothing
    /\ gate' = [allow |-> gate.allow \/ gate.reading = "on", fresh |-> TRUE, reading |-> Nothing]
    /\ UNCHANGED <<config, address, dns, published, sidecar, caller, recordHistory, remoteBudget>>

GateStores ==
    /\ gate.reading # Nothing
    /\ gate' = [allow |-> gate.reading = "on", fresh |-> TRUE, reading |-> Nothing]
    /\ UNCHANGED <<config, address, dns, published, sidecar, caller, recordHistory, remoteBudget>>

(* The row cannot be read: nobody is locked out. *)
GateFails ==
    /\ gate.reading # Nothing /\ Misfortune
    /\ gate' = [allow |-> TRUE, fresh |-> TRUE, reading |-> Nothing]
    /\ UNCHANGED <<config, address, dns, published, sidecar, caller, recordHistory>>

GateActs == Expire \/ GateReads \/ GateStores
SidecarActs == Wake \/ Publish \/ SaveState

RemoteNext ==
    \/ \E c \in Callers : LoadConfig(c) \/ SaveConfig(c)
    \/ SidecarActs \/ AnswerLost \/ PublishFails \/ NewAddress
    \/ GateActs \/ GateFails

RemoteFairness ==
    /\ \A c \in Callers : WF_remoteVars(SaveConfig(c))
    /\ WF_remoteVars(SidecarActs) /\ WF_remoteVars(GateActs)

RemoteSpec == RemoteInit /\ [][RemoteNext]_remoteVars /\ RemoteFairness

-----------------------------------------------------------------------------
(* Once requests and addresses are quiet, the configured record of a server *)
(* with public access on points at this network's address, whatever failed  *)
(* before.  Left out are a record renamed during or after a publication,    *)
(* and one the provider changed without the state knowing: an address that  *)
(* then goes back to the one last saved is taken for published.             *)
RecordFollows ==
    <>[](config.public => dns[config.record] = address \/ renamed \/ forgotten)

(* Public access comes back on only because an update asked for it, or with *)
(* a row that was loaded while it was on.                                   *)
OpenedOnPurpose ==
    [][~config.public /\ config'.public =>
         \E c \in Callers : /\ caller[c].pc = "loaded" /\ caller'[c].pc = "idle"
                            /\ (caller[c].op = "open" \/ caller[c].loaded.public)]_remoteVars

(* ddns/__main__.py: "keep the configured record pointed at this network".  *)
ConfiguredRecordFollows ==
    <>[](config.public => dns[config.record] = address)

(* "Kill switch: immediately stop serving requests from the open internet": *)
(* only an update turns it on again.                                        *)
KillSwitchHolds ==
    [][~config.public /\ config'.public =>
         \E c \in Callers : caller[c].pc = "loaded" /\ caller[c].op = "open"]_remoteVars

=============================================================================
