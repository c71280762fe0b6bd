------------------------------ MODULE Develop -------------------------------
(***************************************************************************)
(* Object removal on one photograph (api/v1/develop.py, inpaint_asset):     *)
(* rounds that each start from the result before, the undo of the newest,   *)
(* the files they leave, and the decoded bases and masks the editor's       *)
(* previews keep.  Pixels are the set of rounds painted into them.          *)
(***************************************************************************)
EXTENDS Integers, FiniteSets, FiniteSetsExt, Functions

CONSTANTS
    Rounds,             \* ids of the rounds asked for
    Editors,            \* requests to remove something, under way at a time
    Viewers,            \* previews under way at a time
    DevelopIncidents    \* bound: requests, undos, evictions, errors, deaths

ASSUME DevelopAssumption ==
    /\ IsFiniteSet(Rounds) /\ {"idle", "checked", "none"} \cap Rounds = {}
    /\ IsFiniteSet(Editors) /\ DevelopIncidents \in Nat

VARIABLES
    inpaint,    \* the rows: version -> its round, status, and whether it has a path
    disk,       \* version -> the pixels of its file
    asked,      \* editor -> its request
    undoing,    \* the round whose undo is between its file and its row
    work,       \* round -> its execution
    bases,      \* _base_cache: version -> pixels
    masks,      \* _mask_cache: version -> the pixels the mask was made of
    view,       \* viewer -> its preview
    orphans,    \* history: rounds whose message was never sent, or a commit of which failed
    uses,       \* history: how often each version number was given to a round, up to 2
    cut,        \* history: rounds whose file an undo has removed
    raced,      \* history: a round was undone before its work was over, was painted
                \* under a newer one, or was queued while another was open
    devBudget   \* incidents left

kept == <<bases, masks, view>>
developVars ==
    <<inpaint, disk, asked, undoing, work, kept, orphans, uses, cut, raced, devBudget>>

Original == {}
IdleView == [pc |-> "idle", base |-> 0, shown |-> Original]

DevelopInit ==
    /\ inpaint = << >> /\ disk = << >>
    /\ asked = [e \in Editors |-> "idle"] /\ undoing = "none"
    /\ work = [r \in Rounds |-> [pc |-> "free", base |-> Original]]
    /\ bases = << >> /\ masks = << >>
    /\ view = [w \in Viewers |-> IdleView]
    /\ orphans = {} /\ uses = [v \in 1..Cardinality(Rounds) |-> 0]
    /\ cut = {} /\ raced = FALSE /\ devBudget = DevelopIncidents

DevelopTypeOK ==
    /\ DOMAIN inpaint \subseteq 1..Cardinality(Rounds)
    /\ \A v \in DOMAIN inpaint : /\ inpaint[v].round \in Rounds
                                 /\ inpaint[v].status \in {"queued", "running", "ready", "failed"}
                                 /\ inpaint[v].status = "ready" => inpaint[v].path
    /\ \A v \in DOMAIN disk : disk[v] \subseteq Rounds
    /\ \A e \in Editors : asked[e] \in {"idle", "checked"} \cup Rounds
    /\ undoing \in {"none"} \cup Rounds /\ cut \subseteq Rounds
    /\ \A r \in Rounds :
          work[r].pc \in {"free", "message", "running", "painting", "end", "done", "over"}
    /\ devBudget \in 0..DevelopIncidents

DevelopSpend == devBudget > 0 /\ devBudget' = devBudget - 1
Versions == DOMAIN inpaint
Newest == Max({0} \cup Versions)
Open == {v \in Versions : inpaint[v].status \in {"queued", "running"}}
Ready == {v \in Versions : inpaint[v].status = "ready"}
Once == {v \in DOMAIN uses : uses[v] < 2}
RowOf(r) == {v \in Versions : inpaint[v].round = r}
Put(f, v, x) == [u \in DOMAIN f \cup {v} |-> IF u = v THEN x ELSE f[u]]

-----------------------------------------------------------------------------
(* request_inpaint: none pending at the check; the mask is decoded off the  *)
(* loop; then the next version, whose constraint refuses a twin.            *)
CheckPending(e) ==
    /\ asked[e] = "idle" /\ Open = {} /\ DevelopSpend
    /\ asked' = [asked EXCEPT ![e] = "checked"]
    /\ UNCHANGED <<inpaint, disk, undoing, work, kept, orphans, uses, cut, raced>>

(* A row gets a fresh id, whichever; no more versions than Rounds.          *)
Fresh(r) == work[r].pc = "free" /\ RowOf(r) = {} /\ \A e \in Editors : asked[e] # r

QueueAt(e, v) ==
    /\ asked[e] = "checked" /\ v \in DOMAIN uses
    /\ \E r \in Rounds :
          /\ Fresh(r) /\ r = CHOOSE q \in Rounds : Fresh(q)
          /\ inpaint' = Put(inpaint, v, [round |-> r, status |-> "queued", path |-> FALSE])
          /\ asked' = [asked EXCEPT ![e] = r]
    /\ uses' = [uses EXCEPT ![v] = IF @ = 0 THEN 1 ELSE 2]
    /\ raced' = (raced \/ Open # {})
    /\ UNCHANGED <<disk, undoing, work, kept, orphans, cut, devBudget>>

QueueRound(e) == QueueAt(e, Newest + 1)

SendRound(e) ==
    /\ asked[e] \in Rounds
    /\ work' = [work EXCEPT ![asked[e]].pc = "message"]
    /\ asked' = [asked EXCEPT ![e] = "idle"]
    /\ UNCHANGED <<inpaint, disk, undoing, kept, orphans, uses, cut, raced, devBudget>>

WithStatus(r, st) ==
    [v \in Versions |-> IF v \in RowOf(r) THEN [inpaint[v] EXCEPT !.status = st] ELSE inpaint[v]]

(* The broker refuses: the row says failed. *)
SendRefused(e) ==
    /\ asked[e] \in Rounds /\ DevelopSpend
    /\ inpaint' = WithStatus(asked[e], "failed")
    /\ work' = [work EXCEPT ![asked[e]].pc = "over"]
    /\ asked' = [asked EXCEPT ![e] = "idle"]
    /\ UNCHANGED <<disk, undoing, kept, orphans, uses, cut, raced>>

(* The API goes down between the commit and the message. *)
SendLost(e) ==
    /\ asked[e] \in Rounds /\ DevelopSpend
    /\ orphans' = orphans \cup {asked[e]}
    /\ work' = [work EXCEPT ![asked[e]].pc = "over"]
    /\ asked' = [asked EXCEPT ![e] = "idle"]
    /\ UNCHANGED <<inpaint, disk, undoing, kept, uses, cut, raced>>

-----------------------------------------------------------------------------
(* undo_inpaint, one request at a time: the newest only, in whatever state. *)
(* Its file goes first.                                                     *)
UndoFileOf(v) ==
    /\ undoing = "none" /\ DevelopSpend
    /\ undoing' = inpaint[v].round
    /\ IF inpaint[v].path
       THEN disk' = Restrict(disk, DOMAIN disk \ {v}) /\ cut' = cut \cup {inpaint[v].round}
       ELSE UNCHANGED <<disk, cut>>
    /\ raced' = (raced \/ work[inpaint[v].round].pc # "over")
    /\ UNCHANGED <<inpaint, asked, work, kept, orphans, uses>>

(* Defect: any removal can be undone. *)
UndoAny == \E v \in Versions : UndoFileOf(v)

UndoFile == Versions # {} /\ UndoFileOf(Newest)

(* Then the row, and with it every cached mask. *)
UndoRow ==
    /\ undoing \in Rounds /\ undoing' = "none"
    /\ inpaint' = Restrict(inpaint, Versions \ RowOf(undoing))
    /\ masks' = << >>
    /\ UNCHANGED <<disk, asked, work, bases, view, orphans, uses, cut, raced, devBudget>>

(* The commit fails or the API goes down: the row stays, without its file.  *)
UndoCut ==
    /\ undoing \in Rounds /\ DevelopSpend /\ undoing' = "none"
    /\ UNCHANGED <<inpaint, disk, asked, work, kept, orphans, uses, cut, raced>>

-----------------------------------------------------------------------------
(* inpaint_asset.  A message that came back runs its round again, whatever  *)
(* the row says by then.                                                    *)
Run(r) ==
    /\ work[r].pc = "message"
    /\ work' = [work EXCEPT ![r].pc = IF RowOf(r) = {} THEN "over" ELSE "running"]
    /\ inpaint' = WithStatus(r, "running")
    /\ raced' = (raced \/ \E v \in RowOf(r) : v < Newest)
    /\ UNCHANGED <<disk, asked, undoing, kept, orphans, uses, cut, devBudget>>

(* The newest ready result below its own version, or the original.  The     *)
(* row's version was loaded with the row.                                   *)
OpenBase(r) ==
    /\ work[r].pc = "running"
    /\ \E v \in RowOf(r) :
          LET below == Max({0} \cup {u \in Ready : u < v})
          IN  IF below = 0 THEN work' = [work EXCEPT ![r] = [pc |-> "painting", base |-> Original]]
              ELSE IF below \in DOMAIN disk
              THEN work' = [work EXCEPT ![r] = [pc |-> "painting", base |-> disk[below]]]
              ELSE work' = [work EXCEPT ![r].pc = "end"]
    /\ UNCHANGED <<inpaint, disk, asked, undoing, kept, orphans, uses, cut, raced, devBudget>>

(* The result's file, named after the version ...                           *)
WritesResult(r, v) ==
    /\ work[r].pc = "painting" /\ v \in RowOf(r)
    /\ disk' = Put(disk, v, work[r].base \cup {r})

SaveResult(r) ==
    /\ \E v \in Versions : WritesResult(r, v) /\ disk' # disk
    /\ UNCHANGED <<inpaint, asked, undoing, work, kept, orphans, uses, cut, raced, devBudget>>

(* ... and the row, whose commit is the end of the work.                    *)
Paint(r) ==
    /\ \E v \in Versions :
          WritesResult(r, v) /\ inpaint' = [inpaint EXCEPT ![v].status = "ready", ![v].path = TRUE]
    /\ work' = [work EXCEPT ![r].pc = "done"]
    /\ UNCHANGED <<asked, undoing, kept, orphans, uses, cut, raced, devBudget>>

(* The row was undone under the execution: it may still write its file,     *)
(* under the version number, before its commit finds no row.                *)
PaintGone(r) ==
    /\ work[r].pc \in {"running", "painting", "end"} /\ RowOf(r) = {}
    /\ \/ UNCHANGED disk
       \/ /\ work[r].pc = "painting"
          /\ disk' = Put(disk, Newest + 1, work[r].base \cup {r})
       \/ /\ work[r].pc = "painting" /\ Versions # {}
          /\ disk' = Put(disk, Newest, work[r].base \cup {r})
    /\ work' = [work EXCEPT ![r].pc = "over"]
    /\ UNCHANGED <<inpaint, asked, undoing, kept, orphans, uses, cut, raced, devBudget>>

(* An exception: the row says failed. *)
FailRound(r) ==
    /\ work[r].pc \in {"running", "painting"} /\ DevelopSpend
    /\ work' = [work EXCEPT ![r].pc = "end"]
    /\ UNCHANGED <<inpaint, disk, asked, undoing, kept, orphans, uses, cut, raced>>

(* Defect: the exception ends the task and the row is left as it is. *)
NotMarked(r) ==
    /\ work[r].pc = "end"
    /\ work' = [work EXCEPT ![r].pc = "over"]
    /\ UNCHANGED <<inpaint, disk, asked, undoing, kept, orphans, uses, cut, raced, devBudget>>

MarkFailed(r) ==
    /\ work[r].pc = "end" /\ RowOf(r) # {}
    /\ inpaint' = WithStatus(r, "failed")
    /\ work' = [work EXCEPT ![r].pc = "done"]
    /\ UNCHANGED <<disk, asked, undoing, kept, orphans, uses, cut, raced, devBudget>>

Acknowledge(r) ==
    /\ work[r].pc = "done"
    /\ work' = [work EXCEPT ![r].pc = "over"]
    /\ UNCHANGED <<inpaint, disk, asked, undoing, kept, orphans, uses, cut, raced, devBudget>>

(* The commit of a status fails: the task ends and its message with it.     *)
CommitFails(r) ==
    /\ work[r].pc \in {"message", "painting", "end"} /\ DevelopSpend
    /\ work' = [work EXCEPT ![r].pc = "over"]
    /\ orphans' = orphans \cup {r}
    /\ UNCHANGED <<inpaint, disk, asked, undoing, kept, uses, cut, raced>>

(* A killed worker, before the message is acknowledged: it comes back. *)
RoundDies(r) ==
    /\ work[r].pc \in {"running", "painting", "end", "done"} /\ DevelopSpend
    /\ work' = [work EXCEPT ![r].pc = "message"]
    /\ UNCHANGED <<inpaint, disk, asked, undoing, kept, orphans, uses, cut, raced>>

-----------------------------------------------------------------------------
(* _base_image_path: the newest ready result, or the original when its file *)
(* is missing.                                                              *)
Resolve(w) ==
    /\ view[w].pc = "idle" /\ DevelopSpend
    /\ LET v == Max({0} \cup Ready)
       IN  view' = [view EXCEPT ![w] = [pc |-> "resolved", base |-> IF v \in DOMAIN disk THEN v ELSE 0,
                                        shown |-> IF v \in DOMAIN disk THEN disk[v] ELSE Original]]
    /\ UNCHANGED <<inpaint, disk, asked, undoing, work, bases, masks, orphans, uses, cut, raced>>

Pixels(v) == IF v = 0 THEN Original ELSE disk[v]

(* Defect: a base once decoded serves every version. *)
DecodeAnyVersion(w) ==
    /\ view[w].pc = "resolved"
    /\ LET v == view[w].base
           pixels == IF bases # << >> THEN bases[CHOOSE u \in DOMAIN bases : TRUE] ELSE Pixels(v)
       IN  /\ v \in DOMAIN bases \/ v = 0 \/ v \in DOMAIN disk
           /\ bases' = Put(bases, v, pixels)
           /\ masks' = Put(masks, v, pixels)
           /\ view' = [view EXCEPT ![w].pc = "drawn", ![w].shown = pixels]
    /\ UNCHANGED <<inpaint, disk, asked, undoing, work, orphans, uses, cut, raced, devBudget>>

(* _cached_base and _cached_mask, keyed by the version that was resolved. *)
Decode(w) ==
    /\ view[w].pc = "resolved"
    /\ LET v == view[w].base
       IN  IF v \in DOMAIN bases \/ v = 0 \/ v \in DOMAIN disk
           THEN LET pixels == IF v \in DOMAIN bases THEN bases[v] ELSE Pixels(v)
                IN  /\ bases' = Put(bases, v, pixels)
                    /\ masks' = IF v \in DOMAIN masks THEN masks ELSE Put(masks, v, pixels)
                    /\ view' = [view EXCEPT ![w].pc = "drawn", ![w].shown = pixels]
           ELSE view' = [view EXCEPT ![w] = IdleView] /\ UNCHANGED <<bases, masks>>
    /\ UNCHANGED <<inpaint, disk, asked, undoing, work, orphans, uses, cut, raced, devBudget>>

Answer(w) ==
    /\ view[w].pc = "drawn"
    /\ view' = [view EXCEPT ![w] = IdleView]
    /\ UNCHANGED <<inpaint, disk, asked, undoing, work, bases, masks, orphans, uses, cut, raced, devBudget>>

(* Eight other photographs push this one's entries out; the API restarts. *)
Evict ==
    /\ bases # << >> \/ masks # << >>
    /\ DevelopSpend
    /\ bases' \in {<< >>, bases} /\ masks' = << >>
    /\ UNCHANGED <<inpaint, disk, asked, undoing, work, view, orphans, uses, cut, raced>>

-----------------------------------------------------------------------------
Asking(e) == QueueRound(e) \/ SendRound(e)
Removing(r) == Run(r) \/ OpenBase(r) \/ Paint(r) \/ MarkFailed(r) \/ PaintGone(r) \/ Acknowledge(r)
Viewing(w) == Decode(w) \/ Answer(w)

DevelopNext ==
    \/ \E e \in Editors : CheckPending(e) \/ Asking(e) \/ SendRefused(e) \/ SendLost(e)
    \/ \E r \in Rounds : Removing(r) \/ SaveResult(r) \/ FailRound(r) \/ CommitFails(r) \/ RoundDies(r)
    \/ \E w \in Viewers : Resolve(w) \/ Viewing(w)
    \/ UndoFile \/ UndoRow \/ UndoCut \/ Evict

DevelopFairness ==
    /\ \A e \in Editors : WF_developVars(Asking(e))
    /\ \A r \in Rounds : WF_developVars(Removing(r))
    /\ \A w \in Viewers : WF_developVars(Viewing(w))

DevelopSpec == DevelopInit /\ [][DevelopNext]_developVars /\ DevelopFairness

-----------------------------------------------------------------------------
(* A ready result carries its own removal and those of every ready result   *)
(* below it, nothing else: undo, failures and deaths leave the chain what   *)
(* its rows say.  A ready row without its file is one whose undo removed it *)
(* and did not get to the row, and nothing newer is ready.  Left out is a   *)
(* photograph one of whose rounds was undone before its work was over, ran  *)
(* again under a newer one, or was queued while another was open.           *)
ChainHolds ==
    ~raced => \A v \in Ready :
        IF v \in DOMAIN disk THEN disk[v] = {inpaint[u].round : u \in {x \in Ready : x <= v}}
        ELSE inpaint[v].round \in cut /\ \A u \in Ready : u <= v

(* A preview shows the pixels of the base it resolved, and its sky mask is  *)
(* theirs, as long as no version number came back (the cache is keyed by    *)
(* it) and the chain holds.                                                 *)
PreviewsAgree ==
    [][\A w \in Viewers : view[w].pc = "resolved" /\ view'[w].pc = "drawn"
                          /\ view[w].base \in {0} \cup Once /\ ~raced =>
          /\ view'[w].shown = view[w].shown
          /\ masks'[view[w].base] = view'[w].shown]_developVars

(* A round that is queued or running ends, unless its message was never     *)
(* sent or the commit of its status failed; the photograph is not refused   *)
(* further removals for ever.                                               *)
RoundsEnd ==
    []<>(\A v \in Open : inpaint[v].round \in orphans)

(* request_inpaint: "one at a time per photograph ... parallel rounds would *)
(* race for the same base".                                                 *)
OneRoundAtATime == Cardinality(Open) <= 1

(* _base_image_path: "the base's pixels are a function of (asset, version)".*)
BaseIsCurrent ==
    [][\A w \in Viewers : view[w].pc = "resolved" /\ view'[w].pc = "drawn" /\ ~raced =>
          view'[w].shown = view[w].shown]_developVars

=============================================================================
