---------------------------- MODULE TrainingPairs ----------------------------
(***************************************************************************)
(* The nightly collection of before/after pairs (training/pairs.py,         *)
(* media/compare.py, GdriveClient.download): group the catalogue by shoot,  *)
(* download the finals of the Drive shoots that match one, pair what is     *)
(* not in the manifest yet, append.  A pass may be killed at any point, and *)
(* a restart of the scanner starts another beside one that is under way.    *)
(***************************************************************************)
EXTENDS Integers, Sequences, FiniteSets, SequencesExt, FiniteSetsExt, TLC

CONSTANTS
    Pictures,           \* picture -> [shoot, role, name]: role is "original" or "final"
    OnDrive,            \* the finals that are on Drive; the other pictures are catalogued in time
    ShootNames,         \* shoot, catalogued or on Drive -> [date, words]; date 0 is none
    Numbers,            \* the words that are house numbers
    Alike,              \* <<original, final>> that match by content, best score first
    Passes,             \* executions of the task under way at a time
    PairIncidents       \* bound: kills, refusals of Drive and passes beside another

ASSUME PairsAssumption ==
    /\ \A f \in OnDrive : f \in DOMAIN Pictures /\ Pictures[f].role = "final"
    /\ {"free", "fetch", "pair"} \cap OnDrive = {}
    /\ Alike \in Seq((DOMAIN Pictures) \X (DOMAIN Pictures))
    /\ \A x \in DOMAIN Pictures : Pictures[x].shoot \in DOMAIN ShootNames
    /\ PairIncidents \in Nat

VARIABLES
    catalogued,         \* the pictures with a thumbnail
    download,           \* final on Drive -> "none", "whole", or "holed": full length, bytes missing
    openers,            \* final on Drive -> the passes writing its .part, in order of opening
    lines,              \* <<original, final>> -> lines of the manifest that say so and can be read
    torn,               \* the manifest ends without a newline
    unended,            \* the pair whose line is whole but for that newline, if one is
    passOf,             \* pass -> where it is
    beside,             \* history: two passes were under way at a time
    pairBudget

manifest == <<lines, torn, unended>>
pairsVars == <<catalogued, download, openers, manifest, passOf, beside, pairBudget>>

Originals == {x \in DOMAIN Pictures : Pictures[x].role = "original"}
FinalShots == {x \in DOMAIN Pictures : Pictures[x].role = "final"}
NoPass == [at |-> "free", rows |-> {}, toFetch |-> {}, fetched |-> {}, known |-> {}, shoots |-> {}]

PairsInit ==
    /\ catalogued = {} /\ download = [f \in OnDrive |-> "none"]
    /\ openers = [f \in OnDrive |-> << >>]
    /\ lines = [op \in Originals \X FinalShots |-> 0] /\ torn = FALSE /\ unended = {}
    /\ passOf = [p \in Passes |-> NoPass] /\ beside = FALSE /\ pairBudget = PairIncidents

PairIncident == pairBudget > 0 /\ pairBudget' = pairBudget - 1
UnderWay(p) == passOf[p].at # "free"

-----------------------------------------------------------------------------
(* Which shoot, which original *)

(* Defect: the house number counts as any word. *)
NumbersIgnored(a, b) == a.date # 0 /\ b.date # 0 /\ a.date # b.date

(* shoot_similarity is 0: two dates or two house numbers that disagree. *)
Different(a, b) ==
    \/ a.date # 0 /\ b.date # 0 /\ a.date # b.date
    \/ /\ a.words \cap Numbers # {} /\ b.words \cap Numbers # {}
       /\ a.words \cap b.words \cap Numbers = {}

Common(a, b) == Cardinality(a.words \cap b.words)
Union(a, b) == Cardinality(a.words \cup b.words)
Similar(a, b) == a.words # {} /\ b.words # {} /\ ~Different(a, b) /\ 2 * Common(a, b) >= Union(a, b)

(* best_shoot, among the shoots of the catalogue; none for a shoot not there. *)
BestShoots(name, shoots) ==
    {s \in shoots : /\ Similar(name, ShootNames[s])
                    /\ \A t \in shoots : Similar(name, ShootNames[t]) =>
                          Common(name, ShootNames[s]) * Union(name, ShootNames[t]) >=
                          Common(name, ShootNames[t]) * Union(name, ShootNames[s])}

ShootsIn(rows) == {Pictures[x].shoot : x \in rows}
BestOf == [of \in OnDrive \X SUBSET (DOMAIN ShootNames) |->
            BestShoots(ShootNames[Pictures[of[1]].shoot], of[2])]
ShootFor(f, rows) == IF f \in OnDrive THEN BestOf[<<f, ShootsIn(rows)>>] ELSE {Pictures[f].shoot}

(* match: by name first, one original and one final of a name, ... *)
Named(originals, finals) ==
    LET of(group, name) == {x \in group : Pictures[x].name = name}
        shared == {Pictures[o].name : o \in originals} \cap {Pictures[f].name : f \in finals}
    IN  {<<CHOOSE o \in of(originals, n) : TRUE, CHOOSE f \in of(finals, n) : TRUE>> : n \in shared}

(* ... and what is left by content, the best score first, each used once. *)
Pick(pairs, originals, finals, op) ==
    IF /\ op[1] \in originals /\ op[2] \in finals
       /\ \A taken \in pairs : taken[1] # op[1] /\ taken[2] # op[2]
    THEN pairs \cup {op} ELSE pairs
Match(originals, finals) ==
    LET upto[i \in 0..Len(Alike)] ==
            IF i = 0 THEN Named(originals, finals) ELSE Pick(upto[i - 1], originals, finals, Alike[i])
    IN  upto[Len(Alike)]
Matching == [of \in (SUBSET Originals) \X (SUBSET FinalShots) |-> Match(of[1], of[2])]

-----------------------------------------------------------------------------
(* A thumbnail is made of one more picture. *)
Catalogue(x) ==
    /\ x \notin catalogued \cup OnDrive /\ catalogued' = catalogued \cup {x}
    /\ UNCHANGED <<download, openers, manifest, passOf, beside, pairBudget>>

(* collect_training_pairs: the rows as they are now; once a night, or at    *)
(* once when the scanner restarts.                                          *)
BeginPass(p) ==
    /\ ~UnderWay(p)
    /\ IF \E q \in Passes : UnderWay(q) THEN PairIncident /\ beside' = TRUE
       ELSE UNCHANGED <<pairBudget, beside>>
    /\ passOf' = [passOf EXCEPT ![p] =
            [NoPass EXCEPT !.at = "fetch", !.rows = catalogued, !.shoots = ShootsIn(catalogued),
                           !.toFetch = {f \in OnDrive : ShootFor(f, catalogued) # {}}]]
    /\ UNCHANGED <<catalogued, download, openers, manifest>>

(* fetch_drive_finals: a file of the right size is not fetched again. *)
HaveIt(p, f) ==
    /\ passOf[p].at = "fetch" /\ f \in passOf[p].toFetch /\ download[f] # "none"
    /\ passOf' = [passOf EXCEPT ![p].toFetch = @ \ {f}, ![p].fetched = @ \cup {f}]
    /\ UNCHANGED <<catalogued, download, openers, manifest, beside, pairBudget>>

(* Defect: the bytes go straight to the file itself. *)
OpenInPlace(p, f) ==
    /\ passOf[p].at = "fetch" /\ f \in passOf[p].toFetch /\ download[f] = "none"
    /\ passOf' = [passOf EXCEPT ![p].at = f]
    /\ openers' = [openers EXCEPT ![f] = Append(@, p)] /\ download' = [download EXCEPT ![f] = "holed"]
    /\ UNCHANGED <<catalogued, manifest, beside, pairBudget>>

(* GdriveClient.download opens the .part beside it, cutting what is there. *)
OpenPart(p, f) ==
    /\ passOf[p].at = "fetch" /\ f \in passOf[p].toFetch /\ download[f] = "none"
    /\ passOf' = [passOf EXCEPT ![p].at = f]
    /\ openers' = [openers EXCEPT ![f] = Append(@, p)]
    /\ UNCHANGED <<catalogued, download, manifest, beside, pairBudget>>

(* All bytes are written and the .part is moved in.  What a later opener cut *)
(* off is missing until that one has written it; its own move then finds    *)
(* nothing to move, and ends its pass.                                      *)
MoveIn(p, f) ==
    /\ passOf[p].at = f
    /\ IF p \in ToSet(openers[f])
       THEN /\ download' = [download EXCEPT ![f] = IF Last(openers[f]) = p THEN "whole" ELSE "holed"]
            /\ openers' = [openers EXCEPT ![f] = << >>]
            /\ passOf' = [passOf EXCEPT ![p].at = "fetch", ![p].toFetch = @ \ {f},
                                        ![p].fetched = @ \cup {f}]
       ELSE /\ download' = [download EXCEPT ![f] = "whole"]
            /\ passOf' = [passOf EXCEPT ![p] = NoPass] /\ UNCHANGED openers
    /\ UNCHANGED <<catalogued, manifest, beside, pairBudget>>

(* Defect: what is in the manifest is not looked at. *)
LoadNothing(p) ==
    /\ passOf[p].at = "fetch" /\ passOf[p].toFetch = {}
    /\ passOf' = [passOf EXCEPT ![p].at = "pair"]
    /\ UNCHANGED <<catalogued, download, openers, manifest, beside, pairBudget>>

(* Defect: a line that cannot be read ends the pass. *)
LoadStrictly(p) ==
    /\ passOf[p].at = "fetch" /\ passOf[p].toFetch = {}
    /\ passOf' = IF torn THEN [passOf EXCEPT ![p] = NoPass]
                 ELSE [passOf EXCEPT ![p].at = "pair", ![p].known = {op \in DOMAIN lines : lines[op] > 0}]
    /\ UNCHANGED <<catalogued, download, openers, manifest, beside, pairBudget>>

(* load_known: a line that cannot be read is passed over. *)
LoadKnown(p) ==
    /\ passOf[p].at = "fetch" /\ passOf[p].toFetch = {}
    /\ passOf' = [passOf EXCEPT ![p].at = "pair", ![p].known = {op \in DOMAIN lines : lines[op] > 0}]
    /\ UNCHANGED <<catalogued, download, openers, manifest, beside, pairBudget>>

(* pair_shoot: the pairs of a shoot that are not known. *)
NewPairs(p, s) ==
    LET at == passOf[p]
    IN  Matching[<<{o \in Originals \cap at.rows : Pictures[o].shoot = s},
                   {f \in (FinalShots \cap at.rows) \cup at.fetched : s \in ShootFor(f, at.rows)}>>]
        \ at.known

(* Shoot by shoot, in the order of the catalogue. *)
NextShoot(p, s) ==
    passOf[p].at = "pair" /\ passOf[p].shoots # {} /\ s = CHOOSE t \in passOf[p].shoots : TRUE

(* One more readable line for each.  What follows a line without a newline  *)
(* is joined to it, and neither can be read.                                *)
Written(pairs, joined) ==
    [op \in DOMAIN lines |-> lines[op] + (IF op \in pairs \ joined THEN 1 ELSE 0)
                                       - (IF joined # {} /\ op \in unended THEN 1 ELSE 0)]
Joins(pairs) == {joined \in SUBSET pairs : Cardinality(joined) = IF torn /\ pairs # {} THEN 1 ELSE 0}

(* Defect: the manifest is written anew. *)
RewriteNew(p, s) ==
    /\ NextShoot(p, s)
    /\ lines' = [op \in DOMAIN lines |-> IF op \in NewPairs(p, s) THEN 1 ELSE 0]
    /\ torn' = FALSE /\ unended' = {}
    /\ passOf' = [passOf EXCEPT ![p].shoots = @ \ {s}, ![p].known = @ \cup NewPairs(p, s)]
    /\ UNCHANGED <<catalogued, download, openers, beside, pairBudget>>

AppendNew(p, s) ==
    /\ NextShoot(p, s)
    /\ \E new \in {NewPairs(p, s)} :
           /\ IF new = {} THEN UNCHANGED manifest
              ELSE /\ \E joined \in Joins(new) : lines' = Written(new, joined)
                   /\ torn' = FALSE /\ unended' = {}
           /\ passOf' = [passOf EXCEPT ![p].shoots = @ \ {s}, ![p].known = @ \cup new]
    /\ UNCHANGED <<catalogued, download, openers, beside, pairBudget>>

EndPass(p) ==
    /\ passOf[p].at = "pair" /\ passOf[p].shoots = {} /\ passOf' = [passOf EXCEPT ![p] = NoPass]
    /\ UNCHANGED <<catalogued, download, openers, manifest, beside, pairBudget>>

-----------------------------------------------------------------------------
(* Drive refuses, or the worker is killed: the pass is over; its .part      *)
(* stays, and what that cut off another's is missing all the same.          *)
KillPass(p) ==
    /\ UnderWay(p) /\ PairIncident /\ passOf' = [passOf EXCEPT ![p] = NoPass]
    /\ UNCHANGED <<catalogued, download, openers, manifest, beside>>

(* The worker is killed while it appends: some lines are there, and of the  *)
(* next one nothing, a part, or all but its newline.                        *)
TearManifest(p, s) ==
    /\ NextShoot(p, s) /\ PairIncident /\ passOf' = [passOf EXCEPT ![p] = NoPass]
    /\ \E new \in {NewPairs(p, s)} : \E done \in SUBSET new :
          \/ /\ done # {} /\ \E joined \in Joins(done) : lines' = Written(done, joined)
             /\ torn' = FALSE /\ unended' = {}
          \/ /\ \E last \in new \ done : \E joined \in Joins(IF done = {} THEN {last} ELSE done) :
                    \/ lines' = Written(done, joined) /\ unended' = {}
                    \/ lines' = Written(done \cup {last}, joined) /\ unended' = {last} \ joined
             /\ torn' = TRUE
    /\ UNCHANGED <<catalogued, download, openers, beside>>

PassWorks(p) ==
    \/ \E f \in OnDrive : HaveIt(p, f) \/ OpenPart(p, f) \/ MoveIn(p, f)
    \/ LoadKnown(p) \/ \E s \in DOMAIN ShootNames : AppendNew(p, s)
    \/ EndPass(p)

PairsNext ==
    \/ \E x \in DOMAIN Pictures : Catalogue(x)
    \/ \E p \in Passes : BeginPass(p) \/ PassWorks(p) \/ KillPass(p) \/ \E s \in DOMAIN ShootNames : TearManifest(p, s)

Cataloguing == \E x \in DOMAIN Pictures : Catalogue(x)
NightComes == (\A q \in Passes : ~UnderWay(q)) /\ \E p \in Passes : BeginPass(p)

(* The catalogue is completed, the nights come, and a worker goes on with a *)
(* pass until it ends or is ended.                                          *)
PairsFairness ==
    /\ WF_pairsVars(Cataloguing) /\ WF_pairsVars(NightComes)
    /\ WF_pairsVars(\E p \in Passes : PassWorks(p))

PairsSpec == PairsInit /\ [][PairsNext]_pairsVars /\ PairsFairness

-----------------------------------------------------------------------------
PairsTypeOK ==
    /\ catalogued \subseteq DOMAIN Pictures /\ torn \in BOOLEAN /\ beside \in BOOLEAN
    /\ unended \subseteq DOMAIN lines /\ \A op \in DOMAIN lines : lines[op] >= 0
    /\ \A f \in OnDrive : download[f] \in {"none", "whole", "holed"} /\ ToSet(openers[f]) \subseteq Passes
    /\ pairBudget \in 0..PairIncidents

(* What is in the manifest stays in it, readable, whatever a later pass     *)
(* does or leaves half done.  The one line that may be lost is the one a    *)
(* kill left without its newline, to the next that is appended.             *)
ReadableStays ==
    [][\A op \in DOMAIN lines : \/ lines'[op] >= lines[op]
                                \/ /\ op \in unended /\ op \notin unended'
                                   /\ lines'[op] = lines[op] - 1]_pairsVars

(* A pair is recorded once, over nights, kills and torn lines, as long as   *)
(* no two passes were under way at a time.                                  *)
RecordedOnce == ~beside => \A op \in DOMAIN lines : lines[op] <= 1

(* A download that looks done is whole, as long as no two passes were under *)
(* way at a time.                                                           *)
DoneIsWhole == ~beside => \A f \in OnDrive : download[f] # "holed"

(* Two houses of one street are not mixed: where both names have a number,  *)
(* the pair has it in common.                                               *)
SameHouse ==
    \A op \in DOMAIN lines : lines[op] > 0 =>
        LET a == ShootNames[Pictures[op[1]].shoot].words \cap Numbers
            b == ShootNames[Pictures[op[2]].shoot].words \cap Numbers
        IN  a # {} /\ b # {} => a \cap b # {}

(* Every final that has its original by name in its shoot is paired with it *)
(* in the end and stays so, through lines torn and joined, refusals and     *)
(* passes that overlap.                                                     *)
CollectedAtLast ==
    <>[](\A s \in DOMAIN ShootNames : \A op \in
          Match({o \in Originals : Pictures[o].shoot = s},
                {f \in FinalShots : s \in ShootFor(f, DOMAIN Pictures \ OnDrive)}) : lines[op] > 0)

=============================================================================
