------------------------------- MODULE House --------------------------------
(***************************************************************************)
(* The parts that keep a house's library true to what its people do, side   *)
(* by side: the faces of the family, the removals and previews of a         *)
(* photograph, the watcher of the shares, and the way in from outside.      *)
(* They share no state; in a behaviour one part is busy and the others are  *)
(* at rest, in the state they start in.                                     *)
(***************************************************************************)
EXTENDS People, Develop, Watcher, RemoteAccess

VARIABLE busyPart       \* the part that is busy in this behaviour

houseVars == <<busyPart, peopleVars, developVars, watchVars, remoteVars>>

PeopleMove == busyPart = "people" /\ UNCHANGED <<busyPart, developVars, watchVars, remoteVars>>
DevelopMoves == busyPart = "develop" /\ UNCHANGED <<busyPart, peopleVars, watchVars, remoteVars>>
WatcherMoves == busyPart = "watcher" /\ UNCHANGED <<busyPart, peopleVars, developVars, remoteVars>>
RemoteMoves == busyPart = "remote" /\ UNCHANGED <<busyPart, peopleVars, developVars, watchVars>>

HouseInit ==
    /\ busyPart \in {"people", "develop", "watcher", "remote"}
    /\ PeopleInit /\ DevelopInit /\ WatcherInit /\ RemoteInit
    /\ busyPart # "remote" => published = Nothing

HouseNext ==
    \/ PeopleMove /\ PeopleNext
    \/ DevelopMoves /\ DevelopNext
    \/ WatcherMoves /\ WatcherNext
    \/ RemoteMoves /\ RemoteNext

(* Each part's own fairness, while it is the one that is busy. *)
HouseFairness ==
    /\ \A t \in Tabs : WF_houseVars(PeopleMove /\ Finishing(t))
    /\ WF_houseVars(PeopleMove /\ \E d \in Detections : Detecting(d))
    /\ WF_houseVars(PeopleMove /\ Clustering)
    /\ WF_houseVars(DevelopMoves /\ \E e \in Editors : Asking(e))
    /\ \A r \in Rounds : WF_houseVars(DevelopMoves /\ Removing(r))
    /\ WF_houseVars(DevelopMoves /\ \E w \in Viewers : Viewing(w))
    /\ WF_houseVars(WatcherMoves /\ ObserverActs) /\ WF_houseVars(WatcherMoves /\ WalkActs)
    /\ WF_houseVars(WatcherMoves /\ LoopActs)
    /\ WF_houseVars(WatcherMoves /\ TakeDepartures) /\ WF_houseVars(WatcherMoves /\ TakeDue)
    /\ \A c \in Callers : WF_houseVars(RemoteMoves /\ SaveConfig(c))
    /\ WF_houseVars(RemoteMoves /\ SidecarActs) /\ WF_houseVars(RemoteMoves /\ GateActs)

HouseSpec == HouseInit /\ [][HouseNext]_houseVars /\ HouseFairness

(* Once public access is off for good, the gate, if it is at work, stops    *)
(* letting it through.                                                      *)
GateFollows == <>[](busyPart = "remote" /\ ~config.public => ~gate.allow)

(* The people and their faces (api/v1/people.py, the face tasks): a cover   *)
(* is a face of its person, what is learned at rest is what the faces say,  *)
(* and a merge loses no refusal.                                            *)
PeopleCorrect ==
    /\ [](PeopleTypeOK /\ CoverAgreed /\ LearnedAtRest)
    /\ MergeKeepsRefusals

(* The removals of a photograph (api/v1/develop.py, the inpaint task): each *)
(* ready result carries its own removal and those below it, a preview and   *)
(* its mask show one and the same pixels.                                   *)
DevelopCorrect ==
    /\ [](DevelopTypeOK /\ ChainHolds)
    /\ PreviewsAgree

(* Remote access (api/v1/remote_access.py): public access comes back on     *)
(* only on purpose.                                                         *)
RemoteCorrect ==
    /\ []RemoteTypeOK
    /\ OpenedOnPurpose

(* What comes right in the end: faces that look alike come to be grouped,   *)
(* every removal ends; once a share is quiet, what is gone is flagged and   *)
(* what is there is indexed as it is, whatever order the events and the     *)
(* looks at the files came in (scanner/watcher.py); the DNS record comes to *)
(* follow the network's address (ddns), and the gate closes after public    *)
(* access (api/public_gate.py).                                             *)
HouseSettles ==
    /\ []WatcherTypeOK
    /\ GroupsForm /\ RoundsEnd
    /\ GoneIsFlagged /\ PresentIsIndexed
    /\ RecordFollows /\ GateFollows

=============================================================================
