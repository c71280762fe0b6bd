---------------------------- MODULE StudioProofs -----------------------------
(***************************************************************************)
(* The edits and reviews of Studio, overlapping in any way, keep to the     *)
(* budget's specification, for every number of deliveries, photographs and  *)
(* pictures, every cap and every cost.  What the proof needs of them is     *)
(* little: their records are of their type, and a call is made straight     *)
(* from its check.  Then the edits alone: what a run says it edited is      *)
(* saved, and a confirmed name is never written over.  Then the tags: what  *)
(* is paid for once, how long the queue of suggestions grows, and who may   *)
(* change what the operator settled.                                        *)
(***************************************************************************)
EXTENDS Studio, FiniteSetTheorems, TLAPS

Asking == {"ask", "record"}
EditAsks == {r \in EditRuns : run[r].pc \in Asking}
Posting == {"ask", "write"}
ReviewAsks == {v \in Reviews : review[v].pc \in Posting}

(* The invariant. A recipe's newest version, which a run adds one to, is a  *)
(* number because every photograph that has versions has a newest.          *)
CallsOK == month \in Nat /\ cap \in {0, Budget}
RunsOK == run \in [EditRuns -> RunRecords]
HasNewest(p) ==
    recipes[p] # << >> =>
        \E v \in DOMAIN recipes[p] : \A w \in DOMAIN recipes[p] : w \in Nat /\ w <= v
RecipesOK ==
    /\ recipes = [p \in Photos |-> recipes[p]]
    /\ \A p \in Photos : HasNewest(p)
    /\ DOMAIN saving \subseteq Photos /\ \A p \in DOMAIN saving : saving[p] \in Nat
PressesOK == press \in [Pressers -> Modes \cup {"none"}]
ReviewsOK == review \in [Reviews -> ReviewRecords]

CapInv == CallsOK /\ RunsOK /\ RecipesOK /\ PressesOK /\ ReviewsOK

(* What a step may do to a set of callers with a call outstanding. *)
Passes(asks, c) == month + Estimate <= Budget /\ c \notin asks /\ asks' = asks \cup {c}
Leaves(asks, c) == c \in asks /\ asks' = asks \ {c}

-----------------------------------------------------------------------------
(* Edits.  Giving one run another record.                                   *)
LEMMA RunStep ==
    ASSUME RunsOK, NEW r \in EditRuns, NEW f \in RunRecords, run' = [run EXCEPT ![r] = f]
    PROVE  /\ RunsOK'
           /\ f.pc \in Asking /\ run[r].pc \in Asking => EditAsks' = EditAsks
           /\ f.pc \notin Asking /\ run[r].pc \notin Asking => EditAsks' = EditAsks
           /\ f.pc \in Asking /\ run[r].pc \notin Asking
                => EditAsks' = EditAsks \cup {r} /\ r \notin EditAsks
           /\ f.pc \notin Asking /\ run[r].pc \in Asking => Leaves(EditAsks, r)
<1>1. /\ run' \in [EditRuns -> RunRecords] /\ run'[r] = f
      /\ \A q \in EditRuns \ {r} : run'[q] = run[q]
  BY DEF RunsOK
<1>2. CASE f.pc \in Asking /\ run[r].pc \in Asking
  BY <1>1, <1>2 DEF RunsOK, EditAsks
<1>3. CASE f.pc \notin Asking /\ run[r].pc \notin Asking
  BY <1>1, <1>3 DEF RunsOK, EditAsks
<1>4. CASE f.pc \in Asking /\ run[r].pc \notin Asking
  BY <1>1, <1>4 DEF RunsOK, EditAsks
<1>5. CASE f.pc \notin Asking /\ run[r].pc \in Asking
  BY <1>1, <1>5 DEF RunsOK, EditAsks, Leaves
<1> QED BY <1>2, <1>3, <1>4, <1>5

LEMMA HighestIsNumber ==
    ASSUME NEW p \in Photos, HasNewest(p)
    PROVE  Highest(p) \in Nat
<1>1. CASE recipes[p] = << >>
  BY <1>1 DEF Highest
<1>2. CASE recipes[p] # << >>
  <2>1. PICK v \in DOMAIN recipes[p] : \A w \in DOMAIN recipes[p] : w \in Nat /\ w <= v
    BY <1>2 DEF HasNewest
  <2>2. \E x \in DOMAIN recipes[p] : \A w \in DOMAIN recipes[p] : w <= x
    BY <2>1
  <2>3. Highest(p) \in DOMAIN recipes[p]
    BY <1>2, <2>2 DEF Highest
  <2> QED BY <2>1, <2>3
<1> QED BY <1>1, <1>2

(* A version more leaves the photograph with a newest. *)
LEMMA VersionMore ==
    ASSUME RecipesOK, NEW p \in Photos, NEW v \in Nat, NEW who,
           recipes'[p] = WithVersion(recipes[p], v, who)
    PROVE  HasNewest(p)'
<1>1. DOMAIN recipes'[p] = DOMAIN recipes[p] \cup {v}
  BY DEF WithVersion
<1>2. CASE recipes[p] = << >>
  <2>1. DOMAIN recipes'[p] = {v}
    BY <1>1, <1>2
  <2> QED BY <2>1 DEF HasNewest
<1>3. CASE recipes[p] # << >>
  <2>1. PICK m \in DOMAIN recipes[p] : \A w \in DOMAIN recipes[p] : w \in Nat /\ w <= m
    BY <1>3 DEF RecipesOK, HasNewest
  <2>2. CASE m <= v
    <3>1. v \in DOMAIN recipes'[p] /\ \A w \in DOMAIN recipes'[p] : w \in Nat /\ w <= v
      BY <1>1, <2>1, <2>2
    <3> QED BY <3>1 DEF HasNewest
  <2>3. CASE v < m
    <3>1. m \in DOMAIN recipes'[p] /\ \A w \in DOMAIN recipes'[p] : w \in Nat /\ w <= m
      BY <1>1, <2>1, <2>3, SMTT(30)
    <3> QED BY <3>1 DEF HasNewest
  <2> QED BY <2>1, <2>2, <2>3
<1> QED BY <1>2, <1>3

LEMMA LoadKeeps ==
    ASSUME CallsOK, RunsOK, NEW r \in EditRuns, Load(r)
    PROVE  RunsOK' /\ EditAsks' = EditAsks
<1> DEFINE keyless == run[r].mode = "describe" /\ ~key
           photos == {p \in Photos : run[r].mode = "describe" => named[p] # "confirmed"}
           pc == IF keyless THEN "end" ELSE "check"
           verdict == IF keyless THEN "stopped" ELSE IF photos = {} THEN "nothing" ELSE "whole"
           writer == IF key /\ run[r].mode # "preset" THEN "claude" ELSE "preset"
           f == [run[r] EXCEPT !.pc = pc, !.verdict = verdict, !.budget = cap,
                               !.writer = writer, !.todo = photos]
<1>1. run[r].pc = "config" /\ run' = [run EXCEPT ![r] = f]
  BY DEF Load
<1>2. /\ pc \in {"end", "check"} /\ photos \in SUBSET Photos
      /\ verdict \in {"whole", "nothing", "stopped"} /\ writer \in {"claude", "preset"}
  OBVIOUS
<1>3. f \in RunRecords /\ f.pc = pc
  <2> HIDE DEF keyless, photos, pc, verdict, writer
  <2>1. run[r] \in RunRecords /\ cap \in {0, Budget}
    BY DEF CallsOK, RunsOK
  <2> QED BY <1>2, <2>1 DEF RunRecords, RunPcs
<1> QED BY <1>1, <1>2, <1>3, RunStep DEF Asking

LEMMA CheckKeeps ==
    ASSUME CallAssumption, CallsOK, RunsOK, NEW r \in EditRuns, Check(r)
    PROVE  RunsOK' /\ (EditAsks' = EditAsks \/ Passes(EditAsks, r))
<1>1. CASE run[r].writer = "claude" /\ ~WithinBudget(run[r].budget)
  <2> DEFINE f == [run[r] EXCEPT !.pc = "end", !.verdict = "stopped"]
  <2>1. run[r].pc = "check" /\ run' = [run EXCEPT ![r] = f]
    BY <1>1 DEF Check
  <2>2. f \in RunRecords /\ f.pc = "end"
    BY ZenonT(60) DEF RunsOK, RunRecords, RunPcs
  <2> QED BY <2>1, <2>2, RunStep DEF Asking
<1>2. CASE ~(run[r].writer = "claude" /\ ~WithinBudget(run[r].budget))
  <2> DEFINE pc == IF run[r].writer = "claude" THEN "ask" ELSE "version"
  <2>0. PICK p \in run[r].todo :
            run' = [run EXCEPT ![r].pc = IF run[r].writer = "claude" THEN "ask" ELSE "version",
                               ![r].tries = 0,
                               ![r].now = {p},
                               ![r].todo = run[r].todo \ {p}]
    BY <1>2, Zenon DEF Check
  <2>1. /\ run[r].pc = "check"
        /\ run' = [run EXCEPT ![r] = [run[r] EXCEPT !.pc = pc, !.tries = 0, !.now = {p},
                                                    !.todo = run[r].todo \ {p}]]
    BY <2>0 DEF Check
  <2>2. pc \in {"ask", "version"} /\ (pc = "ask" => month + Estimate <= Budget)
    BY <1>2 DEF RunsOK, RunRecords, CallsOK, WithinBudget, CallAssumption
  <2> DEFINE now == {p}
             rest == run[r].todo \ {p}
             f == [run[r] EXCEPT !.pc = pc, !.tries = 0, !.now = now, !.todo = rest]
  <2>3. f \in RunRecords /\ f.pc = pc
    <3>1. now \in SUBSET Photos /\ rest \in SUBSET Photos
      BY DEF RunsOK, RunRecords
    <3> HIDE DEF pc, now, rest
    <3>2. run[r] \in RunRecords /\ pc \in RunPcs
      BY <2>2 DEF RunsOK, RunPcs
    <3> QED BY <3>1, <3>2 DEF RunRecords
  <2> QED BY <2>1, <2>2, <2>3, RunStep DEF Asking, Passes
<1> QED BY <1>1, <1>2

(* An execution at work asks straight after its check, and not otherwise. *)
LEMMA WorkingKeeps ==
    ASSUME CallAssumption, CallsOK, RunsOK, RecipesOK, NEW r \in EditRuns, Working(r)
    PROVE  RunsOK' /\ (EditAsks' = EditAsks \/ Passes(EditAsks, r))
<1>0. run[r] \in RunRecords
  BY DEF RunsOK
<1>1. CASE Start(r)
  <2> DEFINE f == [run[r] EXCEPT !.pc = "config"]
  <2>1. run[r].pc = "message" /\ run' = [run EXCEPT ![r] = f]
    BY <1>1 DEF Start
  <2>2. f \in RunRecords /\ f.pc = "config"
    BY <1>0 DEF RunRecords, RunPcs
  <2> QED BY <2>1, <2>2, RunStep DEF Asking
<1>2. CASE Load(r)
  BY <1>2, LoadKeeps
<1>3. CASE Check(r)
  BY <1>3, CheckKeeps
<1>4. CASE Answered(r)
  <2>1. PICK c \in Costs : /\ run[r].pc = "ask"
                           /\ run' = [run EXCEPT ![r] = [run[r] EXCEPT !.pc = "record", !.cost = c]]
    BY <1>4 DEF Answered
  <2> DEFINE f == [run[r] EXCEPT !.pc = "record", !.cost = c]
  <2>2. c \in 0..MaxCost
    BY CallAssumption DEF CallAssumption
  <2>3. f \in RunRecords /\ f.pc = "record"
    BY <1>0, <2>2 DEF RunRecords, RunPcs
  <2> QED BY <2>1, <2>3, RunStep DEF Asking
<1>5. CASE ReadVersion(r)
  <2>1. CASE run[r].tries = Attempts
    <3> DEFINE f == [run[r] EXCEPT !.pc = "check", !.now = {}]
    <3>1. run[r].pc = "version" /\ run' = [run EXCEPT ![r] = f]
      BY <1>5, <2>1 DEF ReadVersion
    <3>2. f \in RunRecords /\ f.pc = "check"
      BY <1>0 DEF RunRecords, RunPcs
    <3> QED BY <3>1, <3>2, RunStep DEF Asking
  <2>2. CASE run[r].tries # Attempts
    <3>1. PICK p \in run[r].now :
              /\ run[r].pc = "version"
              /\ run' = [run EXCEPT ![r] = [run[r] EXCEPT !.pc = "insert", !.version = Highest(p) + 1]]
      BY <1>5, <2>2 DEF ReadVersion
    <3> DEFINE n == Highest(p) + 1
               f == [run[r] EXCEPT !.pc = "insert", !.version = n]
    <3>2. p \in Photos
      BY <1>0 DEF RunRecords
    <3>3. n \in Nat
      BY <3>2, HighestIsNumber DEF RecipesOK
    <3>4. f \in RunRecords /\ f.pc = "insert"
      <4> HIDE DEF n
      <4> QED BY <1>0, <3>3 DEF RunRecords, RunPcs
    <3> QED BY <3>1, <3>4, RunStep DEF Asking
  <2> QED BY <2>1, <2>2
<1>6. CASE Insert(r)
  <2>1. run[r].pc = "insert" /\ run[r].tries \in Nat
    BY <1>0, <1>6 DEF Insert, RunRecords
  <2>2. CASE run' = [run EXCEPT ![r].pc = "version", ![r].tries = run[r].tries + 1,
                                ![r].version = 0]
    <3> DEFINE n == run[r].tries + 1
               f == [run[r] EXCEPT !.pc = "version", !.tries = n, !.version = 0]
    <3>1. n \in Nat
      BY <2>1
    <3>2. f \in RunRecords /\ f.pc = "version"
      <4> HIDE DEF n
      <4> QED BY <1>0, <3>1 DEF RunRecords, RunPcs
    <3>3. run' = [run EXCEPT ![r] = f]
      BY <2>2
    <3> QED BY <2>1, <3>2, <3>3, RunStep DEF Asking
  <2>3. CASE run' = [run EXCEPT ![r].pc = "name", ![r].version = 0]
    <3> DEFINE f == [run[r] EXCEPT !.pc = "name", !.version = 0]
    <3>1. f \in RunRecords /\ f.pc = "name"
      BY <1>0 DEF RunRecords, RunPcs
    <3>2. run' = [run EXCEPT ![r] = f]
      BY <2>3
    <3> QED BY <2>1, <3>1, <3>2, RunStep DEF Asking
  <2> QED BY <1>6, <2>2, <2>3 DEF Insert
<1>7. CASE Name(r)
  <2> DEFINE all == run[r].done \cup run[r].now
             f == [run[r] EXCEPT !.pc = "check", !.now = {}, !.done = all]
  <2>1. run[r].pc = "name" /\ run' = [run EXCEPT ![r] = f]
    BY <1>7 DEF Name
  <2>2. all \in SUBSET Photos
    BY <1>0 DEF RunRecords
  <2>3. f \in RunRecords /\ f.pc = "check"
    <3> HIDE DEF all
    <3> QED BY <1>0, <2>2 DEF RunRecords, RunPcs
  <2> QED BY <2>1, <2>3, RunStep DEF Asking
<1>8. CASE Finished(r)
  <2> DEFINE f == [run[r] EXCEPT !.pc = "end"]
  <2>1. run[r].pc = "check" /\ run' = [run EXCEPT ![r] = f]
    BY <1>8 DEF Finished
  <2>2. f \in RunRecords /\ f.pc = "end"
    BY <1>0 DEF RunRecords, RunPcs
  <2> QED BY <2>1, <2>2, RunStep DEF Asking
<1>9. CASE End(r)
  <2> DEFINE f == [run[r] EXCEPT !.pc = "over"]
  <2>1. run[r].pc = "end" /\ run' = [run EXCEPT ![r] = f]
    BY <1>9 DEF End
  <2>2. f \in RunRecords /\ f.pc = "over"
    BY <1>0 DEF RunRecords, RunPcs
  <2> QED BY <2>1, <2>2, RunStep DEF Asking
<1> QED BY <1>1, <1>2, <1>3, <1>4, <1>5, <1>6, <1>7, <1>8, <1>9 DEF Working

(* The other steps of an execution: the answer is recorded, or the call is  *)
(* given up; what no call was made for does not matter.                     *)
LEMMA RecordKeeps ==
    ASSUME RunsOK, NEW r \in EditRuns, RecordEdit(r)
    PROVE  RunsOK' /\ Leaves(EditAsks, r) /\ run[r].cost \in 0..MaxCost
<1> DEFINE pc == IF run[r].mode = "describe" THEN "name" ELSE "version"
           f == [run[r] EXCEPT !.pc = pc, !.cost = 0, !.tries = 0]
<1>1. run[r].pc = "record" /\ run' = [run EXCEPT ![r] = f]
  BY DEF RecordEdit
<1>2. pc \in {"name", "version"} /\ run[r] \in RunRecords
  BY DEF RunsOK
<1>3. 0 \in 0..MaxCost /\ run[r].cost \in 0..MaxCost
  BY <1>2, CallAssumption DEF CallAssumption, RunRecords
<1>4. f \in RunRecords /\ f.pc = pc
  <2> HIDE DEF pc
  <2> QED BY <1>2, <1>3 DEF RunRecords, RunPcs
<1> QED BY <1>1, <1>2, <1>3, <1>4, RunStep DEF Asking

LEMMA GiveUpKeeps ==
    ASSUME RunsOK, NEW r \in EditRuns,
           \/ \E kind \in Failures : NotAnswered(r, kind)
           \/ Skip(r)
           \/ EditDies(r)
    PROVE  RunsOK' /\ (EditAsks' = EditAsks \/ Leaves(EditAsks, r))
<1>0. run[r] \in RunRecords
  BY DEF RunsOK
<1>1. ASSUME NEW kind \in Failures, NotAnswered(r, kind) PROVE RunsOK' /\ Leaves(EditAsks, r)
  <2> DEFINE pc == IF kind = "fatal" THEN "end" ELSE "check"
             verdict == IF kind = "fatal" THEN "stopped" ELSE "whole"
             f == [run[r] EXCEPT !.pc = pc, !.verdict = verdict, !.now = {}]
  <2>1. run[r].pc = "ask" /\ run' = [run EXCEPT ![r] = f]
    BY <1>1 DEF NotAnswered
  <2>2. pc \in {"end", "check"} /\ verdict \in {"stopped", "whole"}
    OBVIOUS
  <2>3. f \in RunRecords /\ f.pc = pc
    <3> HIDE DEF pc, verdict
    <3> QED BY <1>0, <2>2 DEF RunRecords, RunPcs
  <2> QED BY <2>1, <2>2, <2>3, RunStep DEF Asking
<1>2. CASE Skip(r)
  <2> DEFINE f == [run[r] EXCEPT !.pc = "check", !.now = {}]
  <2>1. run[r].pc = "version" /\ run' = [run EXCEPT ![r] = f]
    BY <1>2 DEF Skip
  <2>2. f \in RunRecords /\ f.pc = "check"
    BY <1>0 DEF RunRecords, RunPcs
  <2> QED BY <2>1, <2>2, RunStep DEF Asking
<1>3. CASE EditDies(r)
  <2> DEFINE f == [IdleRun EXCEPT !.pc = "message", !.mode = run[r].mode]
  <2>1. run' = [run EXCEPT ![r] = f]
    BY <1>3 DEF EditDies
  <2>2. 0 \in 0..MaxCost
    BY CallAssumption DEF CallAssumption
  <2>3. f \in RunRecords /\ f.pc = "message"
    BY <1>0, <2>2 DEF RunRecords, RunPcs, IdleRun
  <2> QED BY <2>1, <2>3, RunStep DEF Asking
<1> QED BY <1>1, <1>2, <1>3

(* A press hands over a message; everything else leaves the runs alone. *)
LEMMA PressKeeps ==
    ASSUME RunsOK, PressesOK, NEW t \in Pressers, PressQueue(t)
    PROVE  RunsOK' /\ EditAsks' = EditAsks
<1>1. PICK r \in EditRuns : /\ run[r] = IdleRun
                            /\ run' = [run EXCEPT ![r] = [run[r] EXCEPT !.pc = "message", !.mode = press[t]]]
  BY ZenonT(60) DEF PressQueue
<1> DEFINE f == [run[r] EXCEPT !.pc = "message", !.mode = press[t]]
<1>2. run[r] \in RunRecords /\ press[t] \in Modes /\ run[r].pc = "free"
  BY <1>1 DEF RunsOK, PressesOK, PressQueue, IdleRun
<1>3. f \in RunRecords /\ f.pc = "message"
  BY <1>2 DEF RunRecords, RunPcs
<1> QED BY <1>1, <1>2, <1>3, RunStep DEF Asking

LEMMA PressesKeep ==
    ASSUME PressesOK, EditNext
    PROVE  PressesOK'
<1>1. ASSUME NEW t \in Pressers, PressCheck(t) PROVE PressesOK'
  BY <1>1 DEF PressCheck, PressesOK
<1>2. ASSUME NEW t \in Pressers, PressQueue(t) \/ PressRefused(t) PROVE PressesOK'
  BY <1>2 DEF PressQueue, PressRefused, PressesOK
<1>3. UNCHANGED press => PressesOK'
  BY DEF PressesOK
<1>4. ASSUME NEW r \in EditRuns, Working(r) \/ RecordEdit(r) \/ Skip(r) \/ EditDies(r)
      PROVE  UNCHANGED press
  BY <1>4 DEF Working, Start, Load, Check, Answered, ReadVersion, Insert, Name, Finished, End,
              RecordEdit, Skip, EditDies
<1>5. ASSUME NEW r \in EditRuns, NEW kind \in Failures, NotAnswered(r, kind)
      PROVE  UNCHANGED press
  BY <1>5 DEF NotAnswered
<1>6. Desk => UNCHANGED press
  BY DEF Desk, TimePasses, ReadToSave, CommitSave, ConfirmName, ClearRecipes
<1> QED BY <1>1, <1>2, <1>3, <1>4, <1>5, <1>6 DEF EditNext, EditProgress

(* Every photograph that has versions has a newest, after every step. *)
LEMMA RecipesKeep ==
    ASSUME RunsOK, RecipesOK, EditNext
    PROVE  RecipesOK'
<1>1. UNCHANGED <<recipes, saving>> => RecipesOK'
  BY DEF RecipesOK, HasNewest
<1>2. ASSUME NEW r \in EditRuns, Insert(r) PROVE RecipesOK'
  <2>1. PICK p \in run[r].now : \/ UNCHANGED recipes
                                \/ recipes' = [recipes EXCEPT ![p] = WithVersion(recipes[p], run[r].version, r)]
    BY <1>2 DEF Insert
  <2>2. UNCHANGED saving
    BY <1>2 DEF Insert
  <2>3. CASE UNCHANGED recipes
    BY <1>1, <2>2, <2>3
  <2>4. CASE recipes' = [recipes EXCEPT ![p] = WithVersion(recipes[p], run[r].version, r)]
    <3>1. p \in Photos /\ run[r].version \in Nat
      BY DEF RunsOK, RunRecords
    <3>2. /\ recipes' = [q \in Photos |-> recipes'[q]]
          /\ recipes'[p] = WithVersion(recipes[p], run[r].version, r)
          /\ \A q \in Photos \ {p} : recipes'[q] = recipes[q]
      BY <2>4, <3>1 DEF RecipesOK
    <3>3. HasNewest(p)'
      BY <3>1, <3>2, VersionMore
    <3>4. \A q \in Photos \ {p} : HasNewest(q)'
      BY <3>2 DEF RecipesOK, HasNewest
    <3> QED BY <2>2, <3>2, <3>3, <3>4 DEF RecipesOK
  <2> QED BY <2>1, <2>3, <2>4
<1>3. CASE ReadToSave
  <2>1. PICK ps \in SUBSET Photos : saving' = [p \in ps |-> Highest(p)]
    BY <1>3 DEF ReadToSave
  <2>2. UNCHANGED recipes
    BY <1>3 DEF ReadToSave
  <2>3. \A p \in Photos : Highest(p) \in Nat
    BY HighestIsNumber DEF RecipesOK
  <2> QED BY <2>1, <2>2, <2>3 DEF RecipesOK, HasNewest
<1>4. CASE CommitSave
  <2>1. saving' = << >> /\ DOMAIN saving' = {}
    BY <1>4 DEF CommitSave
  <2>2. CASE UNCHANGED recipes
    BY <2>1, <2>2 DEF RecipesOK, HasNewest
  <2>3. CASE recipes' = [p \in Photos |-> IF p \in DOMAIN saving
                                          THEN WithVersion(recipes[p], saving[p] + 1, Operator)
                                          ELSE recipes[p]]
    <3>1. ASSUME NEW p \in Photos PROVE HasNewest(p)'
      <4>1. CASE p \in DOMAIN saving
        <5>1. saving[p] + 1 \in Nat
          BY <4>1 DEF RecipesOK
        <5> QED BY <2>3, <4>1, <5>1, VersionMore
      <4>2. CASE p \notin DOMAIN saving
        BY <2>3, <4>2 DEF RecipesOK, HasNewest
      <4> QED BY <4>1, <4>2
    <3> QED BY <2>1, <2>3, <3>1 DEF RecipesOK
  <2> QED BY <1>4, <2>2, <2>3 DEF CommitSave
<1>5. ASSUME NEW p \in Photos, ClearRecipes(p) PROVE RecipesOK'
  BY <1>5 DEF ClearRecipes, RecipesOK, HasNewest
<1>6. ASSUME NEW r \in EditRuns, Working(r), ~Insert(r) PROVE UNCHANGED <<recipes, saving>>
  BY <1>6 DEF Working, Start, Load, Check, Answered, ReadVersion, Name, Finished, End, deskVars
<1>7. ASSUME NEW r \in EditRuns, RecordEdit(r) \/ Skip(r) \/ EditDies(r)
      PROVE  UNCHANGED <<recipes, saving>>
  BY <1>7 DEF RecordEdit, Skip, EditDies, deskVars
<1>8. ASSUME NEW r \in EditRuns, NEW kind \in Failures, NotAnswered(r, kind)
      PROVE  UNCHANGED <<recipes, saving>>
  BY <1>8 DEF NotAnswered, deskVars
<1>9. ASSUME NEW t \in Pressers, PressCheck(t) \/ PressQueue(t) \/ PressRefused(t)
      PROVE  UNCHANGED <<recipes, saving>>
  BY <1>9 DEF PressCheck, PressQueue, PressRefused, deskVars
<1>10. TimePasses \/ (\E p \in Photos : ConfirmName(p)) => UNCHANGED <<recipes, saving>>
  BY DEF TimePasses, ConfirmName, deskVars
<1>11. UNCHANGED deskVars => UNCHANGED <<recipes, saving>>
  BY DEF deskVars
<1> QED BY <1>1, <1>2, <1>3, <1>4, <1>5, <1>6, <1>7, <1>8, <1>9, <1>10, <1>11
        DEF EditNext, EditProgress, Desk

-----------------------------------------------------------------------------
(* Reviews, in the same way.                                                *)
LEMMA ReviewStep ==
    ASSUME ReviewsOK, NEW v \in Reviews, NEW f \in ReviewRecords,
           review' = [review EXCEPT ![v] = f]
    PROVE  /\ ReviewsOK'
           /\ f.pc \in Posting /\ review[v].pc \in Posting => ReviewAsks' = ReviewAsks
           /\ f.pc \notin Posting /\ review[v].pc \notin Posting => ReviewAsks' = ReviewAsks
           /\ f.pc \in Posting /\ review[v].pc \notin Posting
                => ReviewAsks' = ReviewAsks \cup {v} /\ v \notin ReviewAsks
           /\ f.pc \notin Posting /\ review[v].pc \in Posting => Leaves(ReviewAsks, v)
<1>1. /\ review' \in [Reviews -> ReviewRecords] /\ review'[v] = f
      /\ \A w \in Reviews \ {v} : review'[w] = review[w]
  BY DEF ReviewsOK
<1>2. CASE f.pc \in Posting /\ review[v].pc \in Posting
  BY <1>1, <1>2 DEF ReviewsOK, ReviewAsks
<1>3. CASE f.pc \notin Posting /\ review[v].pc \notin Posting
  BY <1>1, <1>3 DEF ReviewsOK, ReviewAsks
<1>4. CASE f.pc \in Posting /\ review[v].pc \notin Posting
  BY <1>1, <1>4 DEF ReviewsOK, ReviewAsks
<1>5. CASE f.pc \notin Posting /\ review[v].pc \in Posting
  BY <1>1, <1>5 DEF ReviewsOK, ReviewAsks, Leaves
<1> QED BY <1>2, <1>3, <1>4, <1>5

LEMMA PickKeeps ==
    ASSUME CallsOK, ReviewsOK, NEW v \in Reviews, Pick(v)
    PROVE  ReviewsOK' /\ (ReviewAsks' = ReviewAsks \/ Passes(ReviewAsks, v))
<1>0. review[v] \in ReviewRecords
  BY DEF ReviewsOK
<1>1. CASE ~WithinBudget(review[v].budget)
  <2> DEFINE f == [review[v] EXCEPT !.pc = "end", !.verdict = "budget"]
  <2>1. review[v].pc = "next" /\ review' = [review EXCEPT ![v] = f]
    BY <1>1 DEF Pick
  <2>2. f \in ReviewRecords /\ f.pc = "end"
    BY <1>0 DEF ReviewRecords, ReviewPcs
  <2> QED BY <2>1, <2>2, ReviewStep DEF Posting
<1>2. CASE WithinBudget(review[v].budget)
  <2>1. PICK p \in review[v].todo :
            /\ review[v].pc = "next"
            /\ review' = [review EXCEPT ![v] = [review[v] EXCEPT !.pc = "ask", !.now = {p},
                                                              !.todo = review[v].todo \ {p}]]
    BY <1>2 DEF Pick
  <2>2. month + Estimate <= Budget
    BY <1>0, <1>2, CallAssumption DEF CallAssumption, ReviewRecords, CallsOK, WithinBudget
  <2> DEFINE now == {p}
             rest == review[v].todo \ {p}
             f == [review[v] EXCEPT !.pc = "ask", !.now = now, !.todo = rest]
  <2>3. f \in ReviewRecords /\ f.pc = "ask"
    <3>1. now \in SUBSET Pictures /\ rest \in SUBSET Pictures
      BY <1>0 DEF ReviewRecords
    <3> HIDE DEF now, rest
    <3> QED BY <1>0, <3>1 DEF ReviewRecords, ReviewPcs
  <2> QED BY <2>1, <2>2, <2>3, ReviewStep DEF Posting, Passes
<1> QED BY <1>1, <1>2

LEMMA QuietKeeps ==
    ASSUME CallsOK, ReviewsOK, NEW v \in Reviews, Quiet(v) \/ SkipPicture(v)
    PROVE  ReviewsOK' /\ (ReviewAsks' = ReviewAsks \/ Passes(ReviewAsks, v))
<1>0. review[v] \in ReviewRecords
  BY DEF ReviewsOK
<1>1. CASE Open(v)
  <2> DEFINE verdict == IF key THEN "running" ELSE "failed"
             f == [review[v] EXCEPT !.pc = "config", !.budget = cap, !.todo = review[v].given,
                                    !.verdict = verdict]
  <2>1. review[v].pc = "message" /\ review' = [review EXCEPT ![v] = f]
    BY <1>1 DEF Open
  <2>2. verdict \in {"running", "failed"}
    OBVIOUS
  <2>3. f \in ReviewRecords /\ f.pc = "config"
    <3> HIDE DEF verdict
    <3> QED BY <1>0, <2>2 DEF ReviewRecords, ReviewPcs, CallsOK
  <2> QED BY <2>1, <2>3, ReviewStep DEF Posting
<1>2. CASE SayRunning(v)
  <2> DEFINE pc == IF review[v].verdict = "failed" THEN "end" ELSE "next"
             f == [review[v] EXCEPT !.pc = pc]
  <2>1. review[v].pc = "config" /\ review' = [review EXCEPT ![v] = f]
    BY <1>2 DEF SayRunning
  <2>2. pc \in {"end", "next"}
    OBVIOUS
  <2>3. f \in ReviewRecords /\ f.pc = pc
    <3> HIDE DEF pc
    <3> QED BY <1>0, <2>2 DEF ReviewRecords, ReviewPcs
  <2> QED BY <2>1, <2>2, <2>3, ReviewStep DEF Posting
<1>3. CASE Pick(v)
  BY <1>3, PickKeeps
<1>4. CASE Reply(v)
  <2>1. PICK c \in Costs : /\ review[v].pc = "ask"
                           /\ review' = [review EXCEPT ![v] = [review[v] EXCEPT !.pc = "write", !.cost = c]]
    BY <1>4 DEF Reply
  <2> DEFINE f == [review[v] EXCEPT !.pc = "write", !.cost = c]
  <2>2. c \in 0..MaxCost
    BY CallAssumption DEF CallAssumption
  <2>3. f \in ReviewRecords /\ f.pc = "write"
    BY <1>0, <2>2 DEF ReviewRecords, ReviewPcs
  <2> QED BY <2>1, <2>3, ReviewStep DEF Posting
<1>5. CASE LastPicture(v)
  <2> DEFINE f == [review[v] EXCEPT !.pc = "end"]
  <2>1. review[v].pc = "next" /\ review' = [review EXCEPT ![v] = f]
    BY <1>5 DEF LastPicture
  <2>2. f \in ReviewRecords /\ f.pc = "end"
    BY <1>0 DEF ReviewRecords, ReviewPcs
  <2> QED BY <2>1, <2>2, ReviewStep DEF Posting
<1>6. CASE Close(v)
  <2> DEFINE f == [review[v] EXCEPT !.pc = "over"]
  <2>1. review[v].pc = "end" /\ review' = [review EXCEPT ![v] = f]
    BY <1>6 DEF Close
  <2>2. f \in ReviewRecords /\ f.pc = "over"
    BY <1>0 DEF ReviewRecords, ReviewPcs
  <2> QED BY <2>1, <2>2, ReviewStep DEF Posting
<1>7. CASE SkipPicture(v)
  <2>1. PICK p \in review[v].todo :
            /\ review[v].pc = "next"
            /\ review' = [review EXCEPT ![v] = [review[v] EXCEPT !.todo = review[v].todo \ {p}]]
    BY <1>7 DEF SkipPicture
  <2> DEFINE rest == review[v].todo \ {p}
             f == [review[v] EXCEPT !.todo = rest]
  <2>2. rest \in SUBSET Pictures
    BY <1>0 DEF ReviewRecords
  <2>3. f \in ReviewRecords /\ f.pc = review[v].pc
    <3> HIDE DEF rest
    <3> QED BY <1>0, <2>2 DEF ReviewRecords
  <2> QED BY <2>1, <2>3, ReviewStep DEF Posting
<1> QED BY <1>1, <1>2, <1>3, <1>4, <1>5, <1>6, <1>7 DEF Quiet

LEMMA WriteKeeps ==
    ASSUME ReviewsOK, NEW v \in Reviews, WriteReview(v)
    PROVE  ReviewsOK' /\ Leaves(ReviewAsks, v) /\ review[v].cost \in 0..MaxCost
<1> DEFINE f == [review[v] EXCEPT !.pc = "next", !.now = {}, !.cost = 0]
<1>1. review[v].pc = "write" /\ review' = [review EXCEPT ![v] = f]
  BY DEF WriteReview
<1>2. review[v] \in ReviewRecords
  BY DEF ReviewsOK
<1>3. 0 \in 0..MaxCost /\ review[v].cost \in 0..MaxCost
  BY <1>2, CallAssumption DEF CallAssumption, ReviewRecords
<1>4. f \in ReviewRecords /\ f.pc = "next"
  BY <1>2, <1>3 DEF ReviewRecords, ReviewPcs
<1> QED BY <1>1, <1>3, <1>4, ReviewStep DEF Posting

LEMMA NoAnswerKeeps ==
    ASSUME ReviewsOK, NEW v \in Reviews,
           \/ \E kind \in Failures : NoReply(v, kind)
           \/ Clash(v)
           \/ ReviewDies(v)
    PROVE  ReviewsOK' /\ (ReviewAsks' = ReviewAsks \/ Leaves(ReviewAsks, v))
<1>0. review[v] \in ReviewRecords /\ 0 \in 0..MaxCost
  BY CallAssumption DEF CallAssumption, ReviewsOK
<1>1. ASSUME NEW kind \in Failures, NoReply(v, kind)
      PROVE  ReviewsOK' /\ Leaves(ReviewAsks, v)
  <2> DEFINE pc == IF kind = "fatal" THEN "end" ELSE "next"
             verdict == IF kind = "fatal" THEN "failed" ELSE "running"
             f == [review[v] EXCEPT !.pc = pc, !.now = {}, !.verdict = verdict]
  <2>1. review[v].pc = "ask" /\ review' = [review EXCEPT ![v] = f]
    BY <1>1 DEF NoReply
  <2>2. pc \in {"end", "next"} /\ verdict \in {"failed", "running"}
    OBVIOUS
  <2>3. f \in ReviewRecords /\ f.pc = pc
    <3> HIDE DEF pc, verdict
    <3> QED BY <1>0, <2>2 DEF ReviewRecords, ReviewPcs
  <2> QED BY <2>1, <2>2, <2>3, ReviewStep DEF Posting
<1>2. CASE Clash(v)
  <2> DEFINE f == [review[v] EXCEPT !.pc = "raised", !.now = {}, !.cost = 0]
  <2>1. review[v].pc = "write" /\ review' = [review EXCEPT ![v] = f]
    BY <1>2 DEF Clash
  <2>2. f \in ReviewRecords /\ f.pc = "raised"
    BY <1>0 DEF ReviewRecords, ReviewPcs
  <2> QED BY <2>1, <2>2, ReviewStep DEF Posting
<1>3. CASE ReviewDies(v)
  <2> DEFINE f == [IdleReview EXCEPT !.pc = "message", !.given = review[v].given]
  <2>1. review' = [review EXCEPT ![v] = f]
    BY <1>3 DEF ReviewDies
  <2>2. f \in ReviewRecords /\ f.pc = "message"
    BY <1>0 DEF ReviewRecords, ReviewPcs, IdleReview
  <2> QED BY <2>1, <2>2, ReviewStep DEF Posting
<1> QED BY <1>1, <1>2, <1>3

LEMMA HandKeeps ==
    ASSUME ReviewsOK, Request \/ Sweep
    PROVE  ReviewsOK' /\ ReviewAsks' = ReviewAsks
<1>1. ASSUME NEW given \in SUBSET Pictures, NEW byPick, Hand(given, byPick)
      PROVE  ReviewsOK' /\ ReviewAsks' = ReviewAsks
  <2>1. PICK v \in Reviews :
            /\ review[v] = IdleReview
            /\ review' = [review EXCEPT ![v] = [IdleReview EXCEPT !.pc = "message", !.given = given]]
    BY <1>1 DEF Hand
  <2> DEFINE f == [IdleReview EXCEPT !.pc = "message", !.given = given]
  <2>2. 0 \in 0..MaxCost /\ review[v].pc = "free"
    BY <2>1, CallAssumption DEF CallAssumption, IdleReview
  <2>3. f \in ReviewRecords /\ f.pc = "message"
    BY <2>2 DEF ReviewRecords, ReviewPcs, IdleReview
  <2> QED BY <2>1, <2>2, <2>3, ReviewStep DEF Posting
<1>2. Untagged \in SUBSET Pictures /\ \A p \in Pictures : {p} \in SUBSET Pictures
  BY DEF Untagged
<1> QED BY <1>1, <1>2 DEF Request, Sweep

(* A step of the reviews keeps their records and the ledger well formed; to *)
(* the budget it is nothing, a new month, a caller past its check, a caller *)
(* gone, or a caller gone whose cost the ledger now holds.                  *)
LEMMA ReviewsKeep ==
    ASSUME CallsOK, ReviewsOK, ReviewNext
    PROVE  /\ ReviewsOK' /\ CallsOK'
           /\ \/ ReviewAsks' = ReviewAsks /\ month' \in {month, 0}
              \/ \E v \in Reviews : /\ Passes(ReviewAsks, v) \/ Leaves(ReviewAsks, v)
                                    /\ month' = month
              \/ \E v \in Reviews, cost \in 0..MaxCost :
                    Leaves(ReviewAsks, v) /\ month' = month + cost
<1> USE DEF callVars
<1>1. ASSUME UNCHANGED callVars PROVE CallsOK' /\ month' = month
  BY <1>1 DEF CallsOK
<1>2. CASE (Request \/ Sweep \/ \E p \in Pictures : Judge(p)) /\ UNCHANGED callVars
  <2>1. (\E p \in Pictures : Judge(p)) => ReviewsOK' /\ ReviewAsks' = ReviewAsks
    BY DEF Judge, ReviewsOK, ReviewAsks
  <2> QED BY <1>1, <1>2, <2>1, HandKeeps
<1>3. ASSUME NEW v \in Reviews, Quiet(v) \/ SkipPicture(v), UNCHANGED callVars
      PROVE  /\ ReviewsOK' /\ CallsOK'
             /\ ReviewAsks' = ReviewAsks \/ Passes(ReviewAsks, v)
             /\ month' = month
  BY <1>1, <1>3, QuietKeeps
<1>4. ASSUME NEW v \in Reviews, WriteReview(v), RecordCall(review[v].cost)
      PROVE  /\ ReviewsOK' /\ CallsOK' /\ Leaves(ReviewAsks, v)
             /\ \E cost \in 0..MaxCost : month' = month + cost
  BY <1>4, WriteKeeps, CallAssumption DEF RecordCall, CallsOK, CallAssumption
<1>5. ASSUME NEW v \in Reviews, NEW kind \in Failures, NoReply(v, kind), FailCall(kind)
      PROVE  /\ ReviewsOK' /\ CallsOK' /\ month' = month
             /\ ReviewAsks' = ReviewAsks \/ Leaves(ReviewAsks, v)
  BY <1>5, NoAnswerKeeps DEF FailCall, CallsOK
<1>6. ASSUME NEW v \in Reviews, NEW made, Clash(v) \/ ReviewDies(v), LoseCall(made)
      PROVE  /\ ReviewsOK' /\ CallsOK' /\ month' = month
             /\ ReviewAsks' = ReviewAsks \/ Leaves(ReviewAsks, v)
  BY <1>6, NoAnswerKeeps DEF LoseCall, CallsOK
<1>7. CASE (SetCap \/ SetKey \/ TurnMonth) /\ UNCHANGED review
  <2>1. ReviewsOK' /\ ReviewAsks' = ReviewAsks
    BY <1>7 DEF ReviewsOK, ReviewAsks
  <2>2. CallsOK' /\ month' \in {month, 0}
    BY <1>7, CallAssumption DEF SetCap, SetKey, TurnMonth, CallsOK, CallAssumption
  <2> QED BY <2>1, <2>2
<1>8. CASE \E v \in Reviews : ReviewProgress(v)
  BY <1>3, <1>4, <1>8 DEF ReviewProgress
<1>9. CASE \E v \in Reviews : SkipPicture(v) /\ UNCHANGED callVars
  BY <1>3, <1>9
<1>10. CASE \E v \in Reviews : \E kind \in Failures : NoReply(v, kind) /\ FailCall(kind)
  BY <1>5, <1>10
<1>11. CASE \E v \in Reviews : \/ Clash(v) /\ LoseCall(TRUE)
                               \/ ReviewDies(v) /\ LoseCall(review[v].pc = "write")
  BY <1>6, <1>11
<1> QED BY <1>2, <1>7, <1>8, <1>9, <1>10, <1>11 DEF ReviewNext

(* The same of the edits.                                                   *)
LEMMA EditsKeep ==
    ASSUME CallsOK, RunsOK, RecipesOK, PressesOK, EditNext
    PROVE  /\ RunsOK' /\ CallsOK'
           /\ \/ EditAsks' = EditAsks /\ month' \in {month, 0}
              \/ \E r \in EditRuns : /\ Passes(EditAsks, r) \/ Leaves(EditAsks, r)
                                     /\ month' = month
              \/ \E r \in EditRuns, cost \in 0..MaxCost :
                    Leaves(EditAsks, r) /\ month' = month + cost
<1> USE DEF callVars
<1>1. ASSUME UNCHANGED callVars PROVE CallsOK' /\ month' = month
  BY <1>1 DEF CallsOK
<1>2. ASSUME UNCHANGED run PROVE RunsOK' /\ EditAsks' = EditAsks
  BY <1>2 DEF RunsOK, EditAsks
<1>3. CASE /\ \E t \in Pressers : PressCheck(t) \/ PressQueue(t) \/ PressRefused(t)
           /\ UNCHANGED callVars
  <2>1. (\E t \in Pressers : PressCheck(t) \/ PressRefused(t)) => UNCHANGED run
    BY DEF PressCheck, PressRefused
  <2> QED BY <1>1, <1>2, <1>3, <2>1, PressKeeps
<1>4. CASE Desk /\ UNCHANGED callVars
  <2>1. UNCHANGED run
    BY <1>4 DEF Desk, TimePasses, ReadToSave, CommitSave, ConfirmName, ClearRecipes
  <2> QED BY <1>1, <1>2, <1>4, <2>1
<1>5. ASSUME NEW r \in EditRuns, Working(r), UNCHANGED callVars
      PROVE  /\ RunsOK' /\ CallsOK' /\ month' = month
             /\ EditAsks' = EditAsks \/ Passes(EditAsks, r)
  BY <1>1, <1>5, WorkingKeeps, CallAssumption
<1>6. ASSUME NEW r \in EditRuns, RecordEdit(r), RecordCall(run[r].cost)
      PROVE  /\ RunsOK' /\ CallsOK' /\ Leaves(EditAsks, r)
             /\ \E cost \in 0..MaxCost : month' = month + cost
  BY <1>6, RecordKeeps, CallAssumption DEF RecordCall, CallsOK, CallAssumption
<1>7. ASSUME NEW r \in EditRuns, NEW kind \in Failures, NotAnswered(r, kind), FailCall(kind)
      PROVE  /\ RunsOK' /\ CallsOK' /\ month' = month
             /\ EditAsks' = EditAsks \/ Leaves(EditAsks, r)
  BY <1>7, GiveUpKeeps DEF FailCall, CallsOK
<1>8. ASSUME NEW r \in EditRuns, Skip(r), UNCHANGED callVars
      PROVE  /\ RunsOK' /\ CallsOK' /\ month' = month
             /\ EditAsks' = EditAsks \/ Leaves(EditAsks, r)
  BY <1>1, <1>8, GiveUpKeeps
<1>9. ASSUME NEW r \in EditRuns, NEW made, EditDies(r), LoseCall(made)
      PROVE  /\ RunsOK' /\ CallsOK' /\ month' = month
             /\ EditAsks' = EditAsks \/ Leaves(EditAsks, r)
  BY <1>9, GiveUpKeeps DEF LoseCall, CallsOK
<1>10. CASE (SetCap \/ SetKey \/ TurnMonth) /\ UNCHANGED run
  <2>1. CallsOK' /\ month' \in {month, 0}
    BY <1>10, CallAssumption DEF SetCap, SetKey, TurnMonth, CallsOK, CallAssumption
  <2> QED BY <1>2, <1>10, <2>1
<1>11. CASE \E r \in EditRuns : EditProgress(r)
  BY <1>5, <1>6, <1>11 DEF EditProgress
<1>12. CASE \E r \in EditRuns : \E kind \in Failures : NotAnswered(r, kind) /\ FailCall(kind)
  BY <1>7, <1>12
<1>13. CASE \E r \in EditRuns : Skip(r) /\ UNCHANGED callVars
  BY <1>8, <1>13
<1>14. CASE \E r \in EditRuns : EditDies(r) /\ LoseCall(run[r].pc = "record")
  BY <1>9, <1>14
<1> QED BY <1>3, <1>4, <1>10, <1>11, <1>12, <1>13, <1>14 DEF EditNext

-----------------------------------------------------------------------------
(* The budget's specification sees the outstanding calls of both parts; a   *)
(* step of one part leaves the other's as they are.                         *)
Outstanding == EditAsks \cup ReviewAsks
CapStep == Cap!Next \/ UNCHANGED Cap!spendVars

LEMMA OneMoves ==
    ASSUME NEW c \in EditRuns \cup Reviews,
           \/ Passes(Outstanding, c) /\ month' = month
           \/ Leaves(Outstanding, c) /\ (month' = month \/ \E cost \in 0..MaxCost : month' = month + cost)
    PROVE  CapStep
<1> USE DEF Outstanding, EditAsks, ReviewAsks, Asking, Posting
<1>1. CASE Passes(Outstanding, c) /\ month' = month
  BY <1>1 DEF Passes, CapStep, Cap!Next, Cap!Pass
<1>2. CASE Leaves(Outstanding, c) /\ month' = month
  BY <1>2 DEF Leaves, CapStep, Cap!Next, Cap!Drop
<1>3. CASE Leaves(Outstanding, c) /\ \E cost \in 0..MaxCost : month' = month + cost
  BY <1>3 DEF Leaves, CapStep, Cap!Next, Cap!Record
<1> QED BY <1>1, <1>2, <1>3

LEMMA NoneMoves ==
    ASSUME Outstanding' = Outstanding, month' = month \/ month' = 0
    PROVE  CapStep
  BY DEF Outstanding, EditAsks, ReviewAsks, Asking, Posting, CapStep, Cap!Next, Cap!NewMonth,
         Cap!spendVars

(* Every step of the studio keeps the invariant and is a step of the        *)
(* budget's specification, or none.                                         *)
LEMMA CapInvKept ==
    ASSUME CapInv, [StudioNext]_studioVars
    PROVE  CapInv' /\ CapStep
<1> USE DEF CapInv
<1>0. EditAsks \subseteq EditRuns /\ ReviewAsks \subseteq Reviews /\ EditRuns \cap Reviews = {}
  BY StudioAssumption DEF EditAsks, ReviewAsks, StudioAssumption
<1>1. CASE EditsMove /\ EditNext
  <2>1. ReviewsOK' /\ ReviewAsks' = ReviewAsks
    BY <1>1 DEF EditsMove, reviewVars, ReviewsOK, ReviewAsks
  <2>2. CapInv'
    BY <1>1, <2>1, EditsKeep, RecipesKeep, PressesKeep
  <2>3. CASE EditAsks' = EditAsks /\ month' \in {month, 0}
    <3>1. Outstanding' = Outstanding
      BY <2>1, <2>3 DEF Outstanding
    <3> QED BY <2>2, <2>3, <3>1, NoneMoves
  <2>4. ASSUME NEW r \in EditRuns, Passes(EditAsks, r), month' = month PROVE CapStep
    <3>1. Passes(Outstanding, r)
      BY <1>0, <2>1, <2>4 DEF Outstanding, Passes
    <3> QED BY <2>4, <3>1, OneMoves
  <2>5. ASSUME NEW r \in EditRuns, Leaves(EditAsks, r) PROVE Leaves(Outstanding, r)
    BY <1>0, <2>1, <2>5 DEF Outstanding, Leaves
  <2> QED BY <1>1, <2>2, <2>3, <2>4, <2>5, EditsKeep, OneMoves
<1>2. CASE ReviewsMove /\ ReviewNext
  <2>1. RunsOK' /\ RecipesOK' /\ PressesOK' /\ EditAsks' = EditAsks
    BY <1>2 DEF ReviewsMove, editVars, deskVars, RunsOK, RecipesOK, HasNewest, PressesOK, EditAsks
  <2>2. CapInv'
    BY <1>2, <2>1, ReviewsKeep
  <2>3. CASE ReviewAsks' = ReviewAsks /\ month' \in {month, 0}
    <3>1. Outstanding' = Outstanding
      BY <2>1, <2>3 DEF Outstanding
    <3> QED BY <2>2, <2>3, <3>1, NoneMoves
  <2>4. ASSUME NEW v \in Reviews, Passes(ReviewAsks, v), month' = month PROVE CapStep
    <3>1. Passes(Outstanding, v)
      BY <1>0, <2>1, <2>4 DEF Outstanding, Passes
    <3> QED BY <2>4, <3>1, OneMoves
  <2>5. ASSUME NEW v \in Reviews, Leaves(ReviewAsks, v) PROVE Leaves(Outstanding, v)
    BY <1>0, <2>1, <2>5 DEF Outstanding, Leaves
  <2> QED BY <1>2, <2>2, <2>3, <2>4, <2>5, ReviewsKeep, OneMoves
<1>3. CASE (TagsMove /\ TagNext) \/ UNCHANGED studioVars
  <2>1. UNCHANGED <<callVars, editVars, reviewVars>>
    BY <1>3 DEF TagsMove, studioVars
  <2>2. UNCHANGED <<month, cap, run, recipes, saving, press, review>>
    BY <2>1 DEF callVars, editVars, deskVars, reviewVars
  <2>3. CapInv'
    BY <2>2 DEF CallsOK, RunsOK, RecipesOK, HasNewest, PressesOK, ReviewsOK
  <2>4. Outstanding' = Outstanding /\ month' = month
    BY <2>2 DEF Outstanding, EditAsks, ReviewAsks
  <2> QED BY <2>3, <2>4, NoneMoves
<1> QED BY <1>1, <1>2, <1>3 DEF StudioNext

(* The studio starts where the budget's specification starts.               *)
LEMMA CapStarts == StudioInit => CapInv /\ Cap!Init
<1> SUFFICES ASSUME StudioInit PROVE CapInv /\ Cap!Init
  OBVIOUS
<1> USE DEF StudioInit
<1>1. 0 \in 0..MaxCost
  BY CallAssumption DEF CallAssumption
<1>2. CallsOK
  BY DEF CallInit, CallsOK
<1>3. RunsOK /\ EditAsks = {}
  <2>1. IdleRun \in RunRecords /\ IdleRun.pc = "free"
    BY <1>1 DEF IdleRun, RunRecords, RunPcs, Modes
  <2> HIDE DEF IdleRun
  <2> QED BY <2>1 DEF EditInit, RunsOK, EditAsks, Asking
<1>4. RecipesOK /\ PressesOK
  <2>1. /\ recipes = [p \in Photos |-> << >>] /\ saving = << >>
        /\ press = [t \in Pressers |-> "none"]
    BY DEF EditInit
  <2>2. RecipesOK
    <3>1. DOMAIN saving = {}
      BY <2>1
    <3> QED BY <2>1, <3>1 DEF RecipesOK, HasNewest
  <2>3. PressesOK
    BY <2>1 DEF PressesOK
  <2> QED BY <2>2, <2>3
<1>5. ReviewsOK /\ ReviewAsks = {}
  <2>1. IdleReview \in ReviewRecords /\ IdleReview.pc = "free"
    BY <1>1 DEF IdleReview, ReviewRecords, ReviewPcs
  <2> HIDE DEF IdleReview
  <2> QED BY <2>1 DEF ReviewInit, ReviewsOK, ReviewAsks, Posting
<1>6. Cap!Init
  BY <1>3, <1>5 DEF CallInit, EditAsks, ReviewAsks, Asking, Posting, Cap!Init
<1> QED BY <1>2, <1>3, <1>4, <1>5, <1>6 DEF CapInv

(* Every edit and review, overlapping, refused, killed or redelivered, is a *)
(* caller the budget's specification allows (check_budget before each       *)
(* post_messages, record after it).                                         *)
THEOREM CallersFollowCap == StudioSpec => Cap!Spec
<1>1. StudioInit => CapInv /\ Cap!Init
  BY CapStarts
<1>2. CapInv /\ [StudioNext]_studioVars => CapInv' /\ [Cap!Next]_(Cap!spendVars)
  BY CapInvKept DEF CapStep
<1> QED BY <1>1, <1>2, PTL DEF StudioSpec, Cap!Spec

-----------------------------------------------------------------------------
(* What the budget's specification promises of these callers.  Inductive:   *)
(* every caller past its check passed it when the ledger held the estimate, *)
(* and the callers that have not recorded have their cost to come; the      *)
(* bound itself says nothing of what is outstanding, and is not.            *)
CallersOf == EditRuns \cup Reviews
CapFits ==
    /\ month \in Nat
    /\ Outstanding \subseteq CallersOf
    /\ Outstanding # {} => Estimate <= Budget
    /\ month = 0 \/ month + Estimate + Cardinality(Outstanding) * MaxCost
                      <= Budget + Cardinality(CallersOf) * MaxCost

(* The sizes of the callers with one more and with one less.                *)
LEMMA Sizes ==
    ASSUME NEW S \in SUBSET CallersOf
    PROVE  /\ IsFiniteSet(S) /\ Cardinality(S) \in Nat /\ Cardinality(CallersOf) \in Nat
           /\ Cardinality(S) <= Cardinality(CallersOf)
           /\ \A c \in CallersOf : c \in S => Cardinality(S \ {c}) = Cardinality(S) - 1
           /\ \A c \in CallersOf : c \notin S => Cardinality(S \cup {c}) = Cardinality(S) + 1
<1>1. IsFiniteSet(CallersOf)
  BY EditAssumption, ReviewAssumption, FS_Union DEF EditAssumption, ReviewAssumption, CallersOf
<1> QED BY <1>1, FS_Subset, FS_CardinalityType, FS_RemoveElement, FS_AddElement

(* The products the bound is made of.                                       *)
LEMMA Times ==
    ASSUME NEW n \in Nat, NEW k \in Nat, NEW m \in Nat, n <= k
    PROVE  /\ n * m \in Nat /\ k * m \in Nat
           /\ n * m <= k * m
           /\ (n + 1) * m = n * m + m
           /\ (n - 1) * m = n * m - m
  OBVIOUS

(* What a step of the budget's specification does to the callers.           *)
LEMMA CapMoves ==
    ASSUME CapStep
    PROVE  \/ \E c \in CallersOf : Passes(Outstanding, c) /\ month' = month
           \/ \E c \in CallersOf, cost \in 0..MaxCost : Leaves(Outstanding, c) /\ month' = month + cost
           \/ \E c \in CallersOf : Leaves(Outstanding, c) /\ month' = month
           \/ Outstanding' = Outstanding /\ month' \in {month, 0}
<1> USE DEF Outstanding, EditAsks, ReviewAsks, Asking, Posting, CallersOf, Passes, Leaves
<1>1. ASSUME NEW c \in CallersOf, Cap!Pass(c) PROVE Passes(Outstanding, c) /\ month' = month
  BY <1>1 DEF Cap!Pass
<1>2. ASSUME NEW c \in CallersOf, Cap!Record(c)
      PROVE  \E cost \in 0..MaxCost : Leaves(Outstanding, c) /\ month' = month + cost
  BY <1>2 DEF Cap!Record
<1>3. ASSUME NEW c \in CallersOf, Cap!Drop(c) PROVE Leaves(Outstanding, c) /\ month' = month
  BY <1>3 DEF Cap!Drop
<1>4. ASSUME Cap!NewMonth \/ UNCHANGED Cap!spendVars
      PROVE  Outstanding' = Outstanding /\ month' \in {month, 0}
  BY <1>4 DEF Cap!NewMonth, Cap!spendVars
<1> HIDE DEF Outstanding, Passes, Leaves
<1> QED BY <1>1, <1>2, <1>3, <1>4 DEF CapStep, Cap!Next

LEMMA CapFitsKept == CapFits /\ CapStep => CapFits'
<1> SUFFICES ASSUME CapFits, CapStep PROVE CapFits'
  OBVIOUS
<1> USE DEF CapFits
<1>0. Budget \in Nat /\ Estimate \in Nat /\ MaxCost \in Nat
  BY CallAssumption DEF CallAssumption
<1>1. ASSUME NEW c \in CallersOf, Passes(Outstanding, c), month' = month PROVE CapFits'
  <2>1. Cardinality(Outstanding') <= Cardinality(CallersOf) /\ Cardinality(Outstanding') \in Nat
        /\ Cardinality(CallersOf) \in Nat
    BY <1>1, Sizes DEF Passes
  <2>2. Cardinality(Outstanding') * MaxCost <= Cardinality(CallersOf) * MaxCost
        /\ Cardinality(Outstanding') * MaxCost \in Nat /\ Cardinality(CallersOf) * MaxCost \in Nat
    BY <2>1, <1>0, Times
  <2> QED BY <1>0, <1>1, <2>2 DEF Passes
<1>2. ASSUME NEW c \in CallersOf, Leaves(Outstanding, c), NEW cost \in 0..MaxCost, month' = month + cost
      PROVE  CapFits'
  <2> DEFINE n == Cardinality(Outstanding) * MaxCost
             k == Cardinality(CallersOf) * MaxCost
  <2>1. Cardinality(Outstanding') = Cardinality(Outstanding) - 1 /\ Cardinality(Outstanding) \in Nat
        /\ Cardinality(CallersOf) \in Nat /\ Cardinality(Outstanding) <= Cardinality(CallersOf)
    BY <1>2, Sizes DEF Leaves
  <2>2. /\ n \in Nat /\ k \in Nat /\ n <= k
        /\ Cardinality(Outstanding') * MaxCost = n - MaxCost
    BY <2>1, <1>0, Times
  <2> HIDE DEF n, k
  <2>3. Estimate <= Budget /\ month \in Nat /\ cost \in Nat /\ cost <= MaxCost
    BY <1>0, <1>2 DEF Leaves
  <2>4. month = 0 \/ month + Estimate + n <= Budget + k
    BY DEF n, k
  <2>5. month + cost + Estimate + (n - MaxCost) <= Budget + k
    BY <1>0, <2>2, <2>3, <2>4
  <2>6. month' + Estimate + Cardinality(Outstanding') * MaxCost <= Budget + Cardinality(CallersOf) * MaxCost
    BY <1>2, <2>2, <2>5 DEF k
  <2> QED BY <1>2, <2>3, <2>6 DEF Leaves
<1>3. ASSUME NEW c \in CallersOf, Leaves(Outstanding, c), month' = month PROVE CapFits'
  <2>1. month + 0 = month /\ 0 \in 0..MaxCost
    BY <1>0
  <2> QED BY <2>1, <1>2, <1>3
<1>4. CASE Outstanding' = Outstanding /\ month' \in {month, 0}
  BY <1>4
<1> QED BY <1>1, <1>2, <1>3, <1>4, CapMoves

(* However many callers pass the check together, what they record leaves    *)
(* the ledger within one call each of the cap (ai/spend.py).                *)
THEOREM CapKept == Cap!Spec => []Cap!OvershootBounded
<1>1. Cap!Init => CapFits
  BY DEF Cap!Init, CapFits, Outstanding, EditAsks, ReviewAsks, Asking, Posting
<1>2. CapFits /\ [Cap!Next]_(Cap!spendVars) => CapFits'
  BY CapFitsKept DEF CapStep
<1>3. CapFits => Cap!OvershootBounded
  <2> SUFFICES ASSUME CapFits, month # 0
               PROVE  month + Estimate <= Budget + Cardinality(CallersOf) * MaxCost
    BY DEF Cap!OvershootBounded, CallersOf, Cap!Cardinality, Cardinality
  <2>1. MaxCost \in Nat /\ Budget \in Nat /\ Estimate \in Nat
    BY CallAssumption DEF CallAssumption
  <2>2. Cardinality(Outstanding) \in Nat
    BY Sizes DEF CapFits
  <2>3. Cardinality(Outstanding) * MaxCost \in Nat /\ Cardinality(CallersOf) * MaxCost \in Nat
    BY <2>1, <2>2, Sizes, Times DEF CapFits
  <2> QED BY <2>1, <2>3 DEF CapFits
<1> QED BY <1>1, <1>2, <1>3, PTL DEF Cap!Spec

(* So whatever edits and reviews overlap, no call is made whose estimate    *)
(* the cap does not hold, and the month's ledger passes the cap by less     *)
(* than one call for each of them.                                          *)
THEOREM CallersKept == StudioSpec => CallersKeepCap
  BY CallersFollowCap, CapKept, PTL DEF CallersKeepCap

-----------------------------------------------------------------------------
(* The edits' own promises.  A run holds one photograph at a time and tries *)
(* a version below the last attempt.                                        *)
Fits(d) ==
    /\ d.now = {} \/ \E p \in Photos : d.now = {p}
    /\ d.tries <= Attempts
    /\ d.pc = "insert" => d.version # 0 /\ d.tries < Attempts

(* What a run owes a recipe: what it counts as edited, and the photograph   *)
(* it has just saved.                                                       *)
Owes(d) == IF d.mode = "describe" THEN {}
           ELSE d.done \cup (IF d.pc = "name" THEN d.now ELSE {})
SavedFor(r, p) == p \in wiped \/ r \in Range(recipes[p])

RunsFit == \A r \in EditRuns : Fits(run[r])
OwedIsSaved == \A r \in EditRuns : \A p \in Owes(run[r]) : SavedFor(r, p)

Versions(saved) == DOMAIN saved \subseteq Nat \ {0} /\ Range(saved) \subseteq EditRuns \cup {Operator}
EditRest ==
    /\ edState \in {"idle", "queued", "running", "done", "failed"} /\ edOverdue \in BOOLEAN
    /\ named \in [Photos -> {"", "suggested", "confirmed"}]
    /\ wiped \subseteq Photos /\ edBudget \in 0..EditIncidents
EditsHeld == EditRest /\ RunsFit /\ OwedIsSaved /\ \A p \in Photos : Versions(recipes[p])

(* A version more keeps the ones there.                                     *)
LEMMA MoreVersions ==
    ASSUME NEW saved, NEW v, NEW who
    PROVE  /\ Range(saved) \subseteq Range(WithVersion(saved, v, who))
           /\ Range(WithVersion(saved, v, who)) \subseteq Range(saved) \cup {who}
           /\ DOMAIN WithVersion(saved, v, who) = DOMAIN saved \cup {v}
           /\ v \notin DOMAIN saved => who \in Range(WithVersion(saved, v, who))
  BY DEF WithVersion, Range

(* One run moves; nobody else's photographs are lost.                       *)
LEMMA RunMoves ==
    ASSUME RunsOK, RunsFit, OwedIsSaved, NEW r \in EditRuns, NEW f, Fits(f),
           run' = [run EXCEPT ![r] = f],
           \A q \in EditRuns, p \in Photos : SavedFor(q, p) => SavedFor(q, p)',
           Owes(f) \subseteq Photos,
           \A p \in Owes(f) : p \in Owes(run[r]) \/ SavedFor(r, p)'
    PROVE  RunsFit' /\ OwedIsSaved'
<1>1. run'[r] = f /\ \A q \in EditRuns \ {r} : run'[q] = run[q]
  BY DEF RunsOK
<1>2. \A q \in EditRuns : Owes(run[q]) \subseteq Photos
  BY DEF RunsOK, RunRecords, Owes
<1>3. RunsFit'
  BY <1>1 DEF RunsFit
<1>4. ASSUME NEW q \in EditRuns, NEW p \in Owes(run'[q]) PROVE SavedFor(q, p)'
  <2>1. CASE q = r
    <3>1. p \in Owes(f) /\ p \in Photos
      BY <1>1, <1>4, <2>1
    <3> QED BY <3>1, <2>1 DEF OwedIsSaved
  <2>2. CASE q # r
    BY <1>1, <1>2, <1>4, <2>2 DEF OwedIsSaved
  <2> QED BY <2>1, <2>2
<1> QED BY <1>3, <1>4 DEF OwedIsSaved

LEMMA LoadFits ==
    ASSUME RunsOK, RunsFit, NEW r \in EditRuns, Load(r)
    PROVE  /\ run' = [run EXCEPT ![r] = run'[r]] /\ Fits(run'[r])
           /\ Owes(run'[r]) \subseteq Owes(run[r])
<1> DEFINE keyless == run[r].mode = "describe" /\ ~key
           photos == {p \in Photos : run[r].mode = "describe" => named[p] # "confirmed"}
           pc == IF keyless THEN "end" ELSE "check"
           verdict == IF keyless THEN "stopped" ELSE IF photos = {} THEN "nothing" ELSE "whole"
           writer == IF key /\ run[r].mode # "preset" THEN "claude" ELSE "preset"
           f == [run[r] EXCEPT !.pc = pc, !.verdict = verdict, !.budget = cap,
                               !.writer = writer, !.todo = photos]
<1>1. run[r].pc = "config" /\ run' = [run EXCEPT ![r] = f]
  BY DEF Load
<1>2. pc \in {"end", "check"}
  OBVIOUS
<1>3. run[r] \in RunRecords /\ Fits(run[r])
  BY DEF RunsOK, RunsFit
<1> HIDE DEF keyless, photos, pc, verdict, writer
<1> QED BY <1>1, <1>2, <1>3 DEF RunsOK, RunRecords, Fits, Owes

(* An execution at work keeps its photographs, and counts one only when it  *)
(* has been saved.                                                          *)
LEMMA StepFits ==
    ASSUME RunsOK, RunsFit, RecipesOK, NEW r \in EditRuns,
           \/ Working(r) /\ ~Insert(r)
           \/ RecordEdit(r) \/ Skip(r) \/ EditDies(r) \/ \E kind \in Failures : NotAnswered(r, kind)
           \/ \E t \in Pressers : /\ run[r] = IdleRun
                                  /\ run' = [run EXCEPT ![r].pc = "message", ![r].mode = press[t]]
    PROVE  /\ run' = [run EXCEPT ![r] = run'[r]] /\ Fits(run'[r])
           /\ Owes(run'[r]) \subseteq Owes(run[r])
<1>0. run[r] \in RunRecords /\ Fits(run[r])
  BY DEF RunsOK, RunsFit
<1>1. CASE Start(r) \/ Finished(r) \/ End(r)
  BY <1>0, <1>1 DEF Start, Finished, End, RunsOK, RunRecords, Fits, Owes
<1>2. CASE Load(r)
  BY <1>2, LoadFits
<1>3. CASE Check(r)
  <2>1. CASE run' = [run EXCEPT ![r].pc = "end", ![r].verdict = "stopped"]
    BY <1>0, <2>1 DEF RunsOK, RunRecords, Fits, Owes
  <2>2. ASSUME NEW p \in run[r].todo, NEW pc \in {"ask", "version"},
               run' = [run EXCEPT ![r].pc = pc, ![r].tries = 0, ![r].now = {p},
                                  ![r].todo = run[r].todo \ {p}]
        PROVE  /\ run' = [run EXCEPT ![r] = run'[r]] /\ Fits(run'[r])
               /\ Owes(run'[r]) \subseteq Owes(run[r])
    <3>1. p \in Photos
      BY <1>0 DEF RunRecords
    <3>2. /\ run'[r].pc = pc /\ run'[r].tries = 0 /\ run'[r].now = {p} /\ run'[r].mode = run[r].mode
          /\ run'[r].done = run[r].done /\ run' = [run EXCEPT ![r] = run'[r]]
      BY <1>0, <2>2 DEF RunsOK, RunRecords
    <3> QED BY <3>1, <3>2 DEF Fits, Owes, Attempts
  <2> QED BY <1>3, <2>1, <2>2 DEF Check
<1>4. CASE Answered(r)
  <2>1. PICK c \in Costs : run' = [run EXCEPT ![r].pc = "record", ![r].cost = c]
    BY <1>4 DEF Answered
  <2> QED BY <1>0, <2>1 DEF RunsOK, RunRecords, Fits, Owes
<1>5. CASE ReadVersion(r)
  <2>1. CASE run[r].tries = Attempts
    BY <1>0, <1>5, <2>1 DEF ReadVersion, RunsOK, RunRecords, Fits, Owes
  <2>2. CASE run[r].tries # Attempts
    <3>1. PICK p \in run[r].now :
             run' = [run EXCEPT ![r].pc = "insert", ![r].version = Highest(p) + 1]
      BY <1>5, <2>2 DEF ReadVersion
    <3>2. p \in Photos
      BY <1>0 DEF RunRecords
    <3>3. PICK n \in Nat : n = Highest(p)
      BY <3>2, HighestIsNumber DEF RecipesOK
    <3>4. n + 1 # 0
      BY <3>3
    <3>5. run[r].tries < Attempts
      BY <1>0, <2>2 DEF Fits, RunRecords, Attempts
    <3>6. /\ run'[r].pc = "insert" /\ run'[r].version = n + 1 /\ run'[r].tries = run[r].tries
          /\ run'[r].now = run[r].now /\ run'[r].mode = run[r].mode /\ run'[r].done = run[r].done
          /\ run' = [run EXCEPT ![r] = run'[r]]
      BY <1>0, <3>1, <3>3 DEF RunsOK, RunRecords
    <3> QED BY <1>0, <3>4, <3>5, <3>6 DEF Fits, Owes
  <2> QED BY <2>1, <2>2
<1>6. CASE Name(r)
  BY <1>0, <1>6 DEF Name, RunsOK, RunRecords, Fits, Owes
<1>7. CASE RecordEdit(r)
  <2>1. PICK pc : /\ pc = IF run[r].mode = "describe" THEN "name" ELSE "version"
                  /\ run' = [run EXCEPT ![r].pc = pc, ![r].cost = 0, ![r].tries = 0]
    BY <1>7 DEF RecordEdit
  <2>2. /\ run'[r].pc = pc /\ run'[r].tries = 0 /\ run'[r].now = run[r].now
        /\ run'[r].mode = run[r].mode /\ run'[r].done = run[r].done
        /\ run' = [run EXCEPT ![r] = run'[r]]
    BY <1>0, <2>1 DEF RunsOK, RunRecords
  <2>3. run'[r].mode # "describe" => run'[r].pc # "name"
    BY <2>1, <2>2
  <2>4. run'[r].pc # "insert"
    BY <2>1, <2>2
  <2> QED BY <1>0, <2>2, <2>3, <2>4 DEF Fits, Owes, Attempts
<1>8. CASE Skip(r)
  BY <1>0, <1>8 DEF Skip, RunsOK, RunRecords, Fits, Owes
<1>9. CASE EditDies(r)
  <2>1. run' = [run EXCEPT ![r] = [IdleRun EXCEPT !.pc = "message", !.mode = run[r].mode]]
    BY <1>9 DEF EditDies
  <2>2. /\ run'[r].pc = "message" /\ run'[r].now = {} /\ run'[r].tries = 0 /\ run'[r].done = {}
        /\ run' = [run EXCEPT ![r] = run'[r]]
    BY <2>1 DEF RunsOK, IdleRun
  <2> QED BY <2>2 DEF Fits, Owes, Attempts
<1>10. ASSUME NEW kind \in Failures, NotAnswered(r, kind)
       PROVE  /\ run' = [run EXCEPT ![r] = run'[r]] /\ Fits(run'[r])
              /\ Owes(run'[r]) \subseteq Owes(run[r])
  <2>1. PICK pc \in {"end", "check"}, verdict \in {"stopped", "whole"} :
           run' = [run EXCEPT ![r].pc = pc, ![r].verdict = verdict, ![r].now = {}]
    BY <1>10 DEF NotAnswered
  <2> QED BY <1>0, <2>1 DEF RunsOK, RunRecords, Fits, Owes
<1>11. ASSUME NEW t \in Pressers, run[r] = IdleRun,
              run' = [run EXCEPT ![r].pc = "message", ![r].mode = press[t]]
       PROVE  /\ run' = [run EXCEPT ![r] = run'[r]] /\ Fits(run'[r])
              /\ Owes(run'[r]) \subseteq Owes(run[r])
  <2>1. run[r].now = {} /\ run[r].tries = 0 /\ run[r].done = {}
    BY <1>11 DEF IdleRun
  <2>2. /\ run'[r].pc = "message" /\ run'[r].now = {} /\ run'[r].tries = 0 /\ run'[r].done = {}
        /\ run' = [run EXCEPT ![r] = run'[r]]
    BY <1>0, <1>11, <2>1 DEF RunsOK, RunRecords
  <2> QED BY <2>2 DEF Fits, Owes, Attempts
<1> QED BY <1>1, <1>2, <1>3, <1>4, <1>5, <1>6, <1>7, <1>8, <1>9, <1>10, <1>11 DEF Working

(* The insert the unique constraint lets through saves the photograph, the  *)
(* other one leaves an attempt fewer.                                       *)
LEMMA InsertSaves ==
    ASSUME RunsOK, RunsFit, OwedIsSaved, RecipesOK, NEW r \in EditRuns, Insert(r),
           \A p \in Photos : Versions(recipes[p])
    PROVE  RunsFit' /\ OwedIsSaved' /\ \A p \in Photos : Versions(recipes'[p])
<1>0. run[r] \in RunRecords /\ Fits(run[r]) /\ run[r].pc = "insert" /\ wiped' = wiped
  BY DEF RunsOK, RunsFit, Insert
<1>1. PICK p \in run[r].now :
          IF run[r].version \in DOMAIN recipes[p]
          THEN /\ run' = [run EXCEPT ![r].pc = "version", ![r].tries = run[r].tries + 1, ![r].version = 0]
               /\ UNCHANGED recipes
          ELSE /\ run' = [run EXCEPT ![r].pc = "name", ![r].version = 0]
               /\ recipes' = [recipes EXCEPT ![p] = WithVersion(recipes[p], run[r].version, r)]
  BY DEF Insert
<1>2. p \in Photos /\ run[r].now = {p} /\ run[r].version \in Nat \ {0} /\ run[r].tries < Attempts
  BY <1>0 DEF RunRecords, Fits
<1>3. CASE run[r].version \in DOMAIN recipes[p]
  <2>1. /\ run'[r].pc = "version" /\ run'[r].tries = run[r].tries + 1 /\ run'[r].now = run[r].now
        /\ run'[r].mode = run[r].mode /\ run'[r].done = run[r].done
        /\ run' = [run EXCEPT ![r] = run'[r]]
    BY <1>0, <1>1, <1>3 DEF RunsOK, RunRecords
  <2>2. run[r].tries \in Nat => run[r].tries + 1 <= Attempts
    BY <1>2 DEF Attempts
  <2>3. Fits(run'[r]) /\ Owes(run'[r]) \subseteq Owes(run[r]) /\ Owes(run'[r]) \subseteq Photos
    BY <1>0, <2>1, <2>2 DEF Fits, Owes, RunRecords
  <2>4. \A q \in EditRuns, x \in Photos : SavedFor(q, x) => SavedFor(q, x)'
    BY <1>0, <1>1, <1>3 DEF SavedFor
  <2>5. RunsFit' /\ OwedIsSaved'
    <3>1. PICK f : f = run'[r]
      OBVIOUS
    <3> QED BY <2>1, <2>3, <2>4, <3>1, RunMoves
  <2> QED BY <1>1, <1>3, <2>5
<1>4. CASE run[r].version \notin DOMAIN recipes[p]
  <2>1. /\ run'[r].pc = "name" /\ run'[r].tries = run[r].tries /\ run'[r].now = run[r].now
        /\ run'[r].mode = run[r].mode /\ run'[r].done = run[r].done
        /\ run' = [run EXCEPT ![r] = run'[r]]
    BY <1>0, <1>1, <1>4 DEF RunsOK, RunRecords
  <2>2. Fits(run'[r]) /\ Owes(run'[r]) \subseteq Owes(run[r]) \cup {p} /\ Owes(run'[r]) \subseteq Photos
    BY <1>0, <1>2, <2>1 DEF Fits, Owes, RunRecords
  <2>3. /\ recipes'[p] = WithVersion(recipes[p], run[r].version, r)
        /\ \A x \in Photos \ {p} : recipes'[x] = recipes[x]
    BY <1>1, <1>2, <1>4 DEF RecipesOK
  <2>4. \A x \in Photos : Range(recipes[x]) \subseteq Range(recipes'[x]) /\ Versions(recipes'[x])
    <3> TAKE x \in Photos
    <3>1. CASE x = p
      <4>1. /\ DOMAIN recipes'[p] = DOMAIN recipes[p] \cup {run[r].version}
            /\ Range(recipes[p]) \subseteq Range(recipes'[p])
            /\ Range(recipes'[p]) \subseteq Range(recipes[p]) \cup {r}
        BY <2>3 DEF WithVersion, Range
      <4> QED BY <1>2, <3>1, <4>1 DEF Versions
    <3> QED BY <2>3, <3>1
  <2>5. r \in Range(recipes'[p])
    BY <1>4, <2>3, MoreVersions, ZenonT(60)
  <2>6. \A q \in EditRuns, x \in Photos : SavedFor(q, x) => SavedFor(q, x)'
    BY <1>0, <2>4 DEF SavedFor
  <2>7. RunsFit' /\ OwedIsSaved'
    <3>1. PICK f : f = run'[r]
      OBVIOUS
    <3>2. SavedFor(r, p)'
      BY <2>5 DEF SavedFor
    <3> QED BY <2>1, <2>2, <2>6, <3>1, <3>2, RunMoves
  <2> QED BY <2>4, <2>7
<1> QED BY <1>3, <1>4

(* What the operator saves comes on top; what the operator clears is wiped. *)
LEMMA DeskSaves ==
    ASSUME RecipesOK, CommitSave \/ \E p \in Photos : ClearRecipes(p),
           \A p \in Photos : Versions(recipes[p])
    PROVE  /\ \A p \in Photos : Versions(recipes'[p])
           /\ \A r \in EditRuns, p \in Photos : SavedFor(r, p) => SavedFor(r, p)'
<1>1. CASE CommitSave
  <2>1. wiped' = wiped
    BY <1>1 DEF CommitSave
  <2>2. CASE UNCHANGED recipes
    BY <2>1, <2>2 DEF SavedFor
  <2>3. CASE recipes' = [p \in Photos |-> IF p \in DOMAIN saving
                                          THEN WithVersion(recipes[p], saving[p] + 1, Operator)
                                          ELSE recipes[p]]
    <3>1. ASSUME NEW p \in Photos
          PROVE  Versions(recipes'[p]) /\ Range(recipes[p]) \subseteq Range(recipes'[p])
      <4>1. CASE p \in DOMAIN saving
        <5>1. PICK v : v = saving[p] + 1
          OBVIOUS
        <5>2. recipes'[p] = WithVersion(recipes[p], v, Operator)
          BY <2>3, <4>1, <5>1
        <5>3. v \in Nat \ {0}
          BY <4>1, <5>1 DEF RecipesOK
        <5>4. /\ DOMAIN recipes'[p] = DOMAIN recipes[p] \cup {v}
              /\ Range(recipes[p]) \subseteq Range(recipes'[p])
              /\ Range(recipes'[p]) \subseteq Range(recipes[p]) \cup {Operator}
          BY <5>2 DEF WithVersion, Range
        <5> QED BY <5>3, <5>4 DEF Versions
      <4>2. CASE p \notin DOMAIN saving
        BY <2>3, <4>2
      <4> QED BY <4>1, <4>2
    <3> QED BY <2>1, <3>1 DEF SavedFor
  <2> QED BY <1>1, <2>2, <2>3 DEF CommitSave
<1>2. ASSUME NEW p \in Photos, ClearRecipes(p)
      PROVE  /\ \A x \in Photos : Versions(recipes'[x])
             /\ \A r \in EditRuns, x \in Photos : SavedFor(r, x) => SavedFor(r, x)'
  <2>1. /\ recipes'[p] = << >> /\ wiped' = wiped \cup {p}
        /\ \A x \in Photos \ {p} : recipes'[x] = recipes[x]
    BY <1>2 DEF ClearRecipes, RecipesOK
  <2>2. Versions(<< >>)
    BY DEF Versions, Range
  <2> QED BY <2>1, <2>2 DEF SavedFor
<1> QED BY <1>1, <1>2

LEMMA EditRestKept ==
    ASSUME EditRest, RunsOK, EditNext
    PROVE  EditRest'
<1>0. ASSUME EditSpend PROVE edBudget' \in 0..EditIncidents
  <2>1. \A n, most \in Nat : n \in 0..most /\ n > 0 => n - 1 \in 0..most
    OBVIOUS
  <2>2. edBudget \in 0..EditIncidents /\ EditIncidents \in Nat
    BY EditAssumption DEF EditRest, EditAssumption
  <2>3. edBudget > 0
    BY <1>0 DEF EditSpend
  <2>4. edBudget - 1 \in 0..EditIncidents
    BY <2>1, <2>2, <2>3
  <2> QED BY <1>0, <2>4 DEF EditSpend
<1>1. ASSUME NEW t \in Pressers, PressCheck(t) \/ PressQueue(t) \/ PressRefused(t) PROVE EditRest'
  BY <1>0, <1>1 DEF PressCheck, PressQueue, PressRefused, deskVars, EditRest
<1>2. ASSUME TimePasses \/ ReadToSave \/ CommitSave PROVE EditRest'
  BY <1>0, <1>2 DEF TimePasses, ReadToSave, CommitSave, deskVars, EditRest
<1>3. ASSUME NEW p \in Photos, ConfirmName(p) \/ ClearRecipes(p) PROVE EditRest'
  BY <1>0, <1>3 DEF ConfirmName, ClearRecipes, EditRest
<1>4. ASSUME NEW r \in EditRuns, Name(r) PROVE EditRest'
  <2>1. named' \in [Photos -> {"", "suggested", "confirmed"}]
    BY <1>4, ZenonT(60) DEF Name, EditRest
  <2> QED BY <1>4, <2>1 DEF Name, EditRest
<1>5. ASSUME NEW r \in EditRuns, Working(r), ~ Name(r) PROVE EditRest'
  BY <1>5 DEF Working, Start, Load, Check, Answered, ReadVersion, Insert, Finished, End, deskVars, EditRest
<1>6. ASSUME NEW r \in EditRuns, RecordEdit(r) \/ Skip(r) \/ EditDies(r) PROVE EditRest'
  BY <1>0, <1>6 DEF RecordEdit, Skip, EditDies, deskVars, EditRest
<1>7. ASSUME NEW r \in EditRuns, NEW kind \in Failures, NotAnswered(r, kind) PROVE EditRest'
  BY <1>0, <1>7 DEF NotAnswered, deskVars, EditRest
<1>8. ASSUME EditSpend, UNCHANGED <<edState, edOverdue, press, deskVars, run>> PROVE EditRest'
  BY <1>0, <1>8 DEF deskVars, EditRest
<1> QED BY <1>1, <1>2, <1>3, <1>4, <1>5, <1>6, <1>7, <1>8 DEF EditNext, EditProgress, Desk

LEMMA EditsHeldKept ==
    ASSUME EditsHeld, RunsOK, RecipesOK, EditNext
    PROVE  EditsHeld'
<1> USE DEF EditsHeld
<1>0. EditRest'
  BY EditRestKept
<1>1. ASSUME UNCHANGED <<run, recipes, wiped>> PROVE EditsHeld'
  BY <1>0, <1>1 DEF RunsFit, OwedIsSaved, SavedFor
<1>2. ASSUME NEW r \in EditRuns, UNCHANGED <<recipes, wiped>>,
             run' = [run EXCEPT ![r] = run'[r]], Fits(run'[r]), Owes(run'[r]) \subseteq Owes(run[r])
      PROVE  EditsHeld'
  <2>1. PICK f : f = run'[r]
    OBVIOUS
  <2>2. \A q \in EditRuns, p \in Photos : SavedFor(q, p) => SavedFor(q, p)'
    BY <1>2 DEF SavedFor
  <2>3. Owes(run[r]) \subseteq Photos
    BY DEF RunsOK, RunRecords, Owes
  <2>4. RunsFit' /\ OwedIsSaved'
    BY <1>2, <2>1, <2>2, <2>3, RunMoves
  <2> QED BY <1>0, <1>2, <2>4
<1>3. ASSUME NEW t \in Pressers, PressCheck(t) \/ PressRefused(t) PROVE EditsHeld'
  BY <1>1, <1>3 DEF PressCheck, PressRefused, deskVars
<1>4. ASSUME NEW t \in Pressers, PressQueue(t) PROVE EditsHeld'
  <2>1. UNCHANGED <<recipes, wiped>>
    BY <1>4 DEF PressQueue, deskVars
  <2>2. PICK r \in EditRuns : /\ run[r] = IdleRun
                              /\ run' = [run EXCEPT ![r].pc = "message", ![r].mode = press[t]]
    BY <1>4 DEF PressQueue
  <2> QED BY <1>2, <2>1, <2>2, StepFits
<1>5. CASE CommitSave \/ \E p \in Photos : ClearRecipes(p)
  <2>1. UNCHANGED run
    BY <1>5 DEF CommitSave, ClearRecipes
  <2>2. \A r \in EditRuns : Owes(run[r]) \subseteq Photos
    BY DEF RunsOK, RunRecords, Owes
  <2>3. RunsFit' /\ OwedIsSaved'
    BY <1>5, <2>1, <2>2, DeskSaves DEF RunsFit, OwedIsSaved
  <2> QED BY <1>0, <1>5, <2>3, DeskSaves
<1>6. CASE TimePasses \/ ReadToSave \/ \E p \in Photos : ConfirmName(p)
  BY <1>1, <1>6 DEF TimePasses, ReadToSave, ConfirmName, deskVars
<1>7. ASSUME NEW r \in EditRuns, Insert(r) PROVE EditsHeld'
  BY <1>0, <1>7, InsertSaves
<1>8. ASSUME NEW r \in EditRuns,
             \/ Working(r) /\ ~Insert(r)
             \/ RecordEdit(r) \/ Skip(r) \/ EditDies(r) \/ \E kind \in Failures : NotAnswered(r, kind)
      PROVE  EditsHeld'
  <2>1. UNCHANGED <<recipes, wiped>>
    BY <1>8 DEF Working, Start, Load, Check, Answered, ReadVersion, Name, Finished, End,
                RecordEdit, Skip, EditDies, NotAnswered, deskVars
  <2> QED BY <1>2, <1>8, <2>1, StepFits
<1>9. CASE UNCHANGED <<edState, edOverdue, press, deskVars, run>>
  BY <1>1, <1>9 DEF deskVars
<1> QED BY <1>3, <1>4, <1>5, <1>6, <1>7, <1>8, <1>9 DEF EditNext, EditProgress, Desk

(* A name that is confirmed is not written by a run: the update asks the    *)
(* row as it is.                                                            *)
LEMMA NamesStand ==
    ASSUME EditRest, EditNext, NEW p \in Photos, named[p] = "confirmed"
    PROVE  named'[p] = "confirmed"
<1>1. ASSUME UNCHANGED named PROVE named'[p] = "confirmed"
  BY <1>1
<1>2. ASSUME NEW t \in Pressers, PressCheck(t) \/ PressQueue(t) \/ PressRefused(t) PROVE UNCHANGED named
  BY <1>2 DEF PressCheck, PressQueue, PressRefused, deskVars
<1>3. ASSUME TimePasses \/ ReadToSave \/ CommitSave PROVE UNCHANGED named
  BY <1>3 DEF TimePasses, ReadToSave, CommitSave, deskVars
<1>4. ASSUME NEW q \in Photos, ConfirmName(q) PROVE named'[p] = "confirmed"
  BY <1>4 DEF ConfirmName, EditRest
<1>5. ASSUME NEW q \in Photos, ClearRecipes(q) PROVE UNCHANGED named
  BY <1>5 DEF ClearRecipes
<1>6. ASSUME NEW r \in EditRuns, Name(r) PROVE named'[p] = "confirmed"
  BY <1>6, SMTT(40) DEF Name
<1>7. ASSUME NEW r \in EditRuns, Working(r), ~ Name(r) PROVE UNCHANGED named
  BY <1>7 DEF Working, Start, Load, Check, Answered, ReadVersion, Insert, Finished, End, deskVars
<1>8. ASSUME NEW r \in EditRuns, RecordEdit(r) \/ Skip(r) \/ EditDies(r) PROVE UNCHANGED named
  BY <1>8 DEF RecordEdit, Skip, EditDies, deskVars
<1>9. ASSUME NEW r \in EditRuns, NEW kind \in Failures, NotAnswered(r, kind) PROVE UNCHANGED named
  BY <1>9 DEF NotAnswered, deskVars
<1>10. ASSUME UNCHANGED <<edState, edOverdue, press, deskVars, run>> PROVE UNCHANGED named
  BY <1>10 DEF deskVars
<1> QED
  BY <1>1, <1>2, <1>3, <1>4, <1>5, <1>6, <1>7, <1>8, <1>9, <1>10 DEF EditNext, EditProgress, Desk

(* What the callers share keeps its types.                                  *)
Flags == key \in BOOLEAN /\ unrecorded \in BOOLEAN
LEMMA FlagsKept ==
    ASSUME Flags, EditNext \/ ReviewNext
    PROVE  Flags'
<1>1. ASSUME UNCHANGED callVars PROVE Flags'
  BY <1>1 DEF callVars, Flags
<1>2. ASSUME NEW cost, RecordCall(cost) PROVE Flags'
  BY <1>2 DEF RecordCall, Flags
<1>3. ASSUME NEW kind, FailCall(kind) PROVE Flags'
  BY <1>3 DEF FailCall, Flags
<1>4. ASSUME NEW made \in BOOLEAN, LoseCall(made) PROVE Flags'
  BY <1>4 DEF LoseCall, Flags
<1>5. ASSUME SetCap \/ SetKey \/ TurnMonth PROVE Flags'
  BY <1>5 DEF SetCap, SetKey, TurnMonth, Flags
<1> QED BY <1>1, <1>2, <1>3, <1>4, <1>5 DEF EditNext, EditProgress, ReviewNext, ReviewProgress

EditInv == CapInv /\ Flags /\ EditsHeld

LEMMA EditInvStarts == StudioInit => EditInv
<1> SUFFICES ASSUME StudioInit PROVE EditInv
  OBVIOUS
<1>1. CapInv /\ CallInit /\ EditInit
  BY CapStarts DEF StudioInit
<1>2. Flags
  BY <1>1 DEF CallInit, Flags
<1>3. EditRest
  BY <1>1 DEF EditInit, EditRest
<1>4. ASSUME NEW r \in EditRuns PROVE Fits(run[r]) /\ Owes(run[r]) = {}
  <2>1. /\ run[r].now = {} /\ run[r].todo = {} /\ run[r].done = {} /\ run[r].pc = "free"
        /\ run[r].tries = 0
    BY <1>1 DEF EditInit, IdleRun
  <2> QED BY <2>1 DEF Fits, Owes, Attempts
<1>5. \A p \in Photos : recipes[p] = << >>
  BY <1>1 DEF EditInit
<1>6. Versions(<< >>)
  BY DEF Versions, Range
<1> QED BY <1>1, <1>2, <1>3, <1>4, <1>5, <1>6 DEF EditInv, EditsHeld, RunsFit, OwedIsSaved

LEMMA EditInvKept == EditInv /\ [StudioNext]_studioVars => EditInv'
<1> SUFFICES ASSUME EditInv, [StudioNext]_studioVars PROVE EditInv'
  OBVIOUS
<1>1. CapInv'
  BY CapInvKept DEF EditInv
<1>2. CASE EditsMove /\ EditNext
  BY <1>1, <1>2, EditsHeldKept, FlagsKept DEF EditInv, CapInv
<1>3. ASSUME UNCHANGED editVars PROVE EditsHeld'
  BY <1>3 DEF EditInv, editVars, deskVars, EditsHeld, EditRest, RunsFit, OwedIsSaved, SavedFor
<1>4. CASE ReviewsMove /\ ReviewNext
  BY <1>1, <1>3, <1>4, FlagsKept DEF EditInv, ReviewsMove
<1>5. CASE (TagsMove /\ TagNext) \/ UNCHANGED studioVars
  BY <1>1, <1>3, <1>5 DEF EditInv, TagsMove, studioVars, callVars, Flags
<1> QED BY <1>2, <1>4, <1>5 DEF StudioNext

(* For every number of photographs, deliveries, tabs and incidents: what a  *)
(* run counts as edited has a version of that run beside whatever else was  *)
(* saved, unless the operator cleared it, and a confirmed name stands.      *)
THEOREM EditsHold == StudioSpec => EditKept
<1>1. EditInv => CallTypeOK
  BY DEF EditInv, CapInv, CallsOK, Flags, CallTypeOK
<1>2. EditInv => EditTypeOK
  <2> SUFFICES ASSUME EditInv PROVE EditTypeOK
    OBVIOUS
  <2>1. RunsOK /\ RecipesOK /\ PressesOK /\ EditRest /\ RunsFit /\ \A p \in Photos : Versions(recipes[p])
    BY DEF EditInv, CapInv, EditsHeld
  <2>2. ASSUME NEW r \in EditRuns PROVE Cardinality(run[r].now) <= 1 /\ run[r].tries <= Attempts
    <3>1. Fits(run[r])
      BY <2>1 DEF RunsFit
    <3>2. Cardinality({}) = 0 /\ \A p \in Photos : Cardinality({p}) = 1
      BY FS_EmptySet, FS_Singleton
    <3> QED BY <3>1, <3>2 DEF Fits
  <2>3. Range(saving) \subseteq Nat
    BY <2>1 DEF RecipesOK, Range
  <2> QED BY <2>1, <2>2, <2>3 DEF EditTypeOK, EditRest, RunsOK, RecipesOK, PressesOK, Versions
<1>3. EditInv => EditedIsSaved
  BY DEF EditInv, CapInv, EditsHeld, OwedIsSaved, Owes, SavedFor, EditedIsSaved
<1>4. EditInv /\ [StudioNext]_studioVars =>
        [\A p \in Photos : named[p] = "confirmed" => named'[p] = "confirmed"]_named
  <2> SUFFICES ASSUME EditInv, [StudioNext]_studioVars, ~ UNCHANGED named
               PROVE  \A p \in Photos : named[p] = "confirmed" => named'[p] = "confirmed"
    OBVIOUS
  <2>1. EditNext
    BY DEF StudioNext, ReviewsMove, TagsMove, studioVars, editVars, deskVars, EditsMove
  <2> QED BY <2>1, NamesStand DEF EditInv, EditsHeld
<1> QED
  BY <1>1, <1>2, <1>3, <1>4, EditInvStarts, EditInvKept, PTL
  DEF StudioSpec, EditKept, ConfirmedNamesStay

-----------------------------------------------------------------------------
(* The reviews' own promises.  A run holds at most one picture, taken from  *)
(* those it was given and off those it still has to do.                     *)
Resting == {"free", "over", "raised"}
Holds(d) ==
    /\ d.todo \subseteq d.given /\ d.now \subseteq d.given
    /\ d.now = {} \/ \E p \in Pictures : d.now = {p}
    /\ d.todo \cap d.now = {}
    /\ d.pc = "message" => d.now = {}

(* A run whose pictures were picked, with nothing beside it, has none that  *)
(* is paid for: whoever pays while it runs is the run itself, and only for  *)
(* the picture it lets go.                                                  *)
Unpaid(d, paid) ==
    IF d.pc = "message" THEN d.given \cap paid = {} ELSE (d.todo \cup d.now) \cap paid = {}
Lonely(v) == \A w \in Reviews \ {v} : review[w].pc \in Resting

ReviewRest ==
    /\ rvState \in {"idle", "running", "done", "budget", "failed"}
    /\ rvPaid \subseteq Pictures /\ rvOpinion \subseteq Pictures
    /\ rvAlone \subseteq Reviews
    /\ rvBudget \in 0..ReviewIncidents
RunsHold == \A v \in Reviews : Holds(review[v])
AloneUnpaid == \A v \in rvAlone : Lonely(v) /\ Unpaid(review[v], rvPaid)
ReviewsHeld == ReviewRest /\ RunsHold /\ AloneUnpaid

(* A step of one run that is at work disturbs nothing but that run.         *)
LEMMA OneReviews ==
    ASSUME ReviewsHeld, NEW v \in Reviews, review[v].pc \notin Resting,
           \A w \in Reviews \ {v} : review'[w] = review[w],
           Holds(review'[v]), rvAlone' \subseteq rvAlone,
           v \in rvAlone' => Unpaid(review'[v], rvPaid')
    PROVE  RunsHold' /\ AloneUnpaid'
<1>1. RunsHold'
  BY DEF ReviewsHeld, RunsHold
<1>2. ASSUME NEW w \in rvAlone' PROVE w = v /\ (Lonely(w) /\ Unpaid(review[w], rvPaid))'
  <2>1. w \in Reviews /\ Lonely(w)
    BY <1>2 DEF ReviewsHeld, ReviewRest, AloneUnpaid
  <2>2. w = v
    BY <2>1 DEF Lonely
  <2>3. Lonely(v)'
    BY <2>1, <2>2 DEF Lonely
  <2>4. Unpaid(review'[v], rvPaid')
    BY <1>2, <2>2
  <2> QED BY <2>2, <2>3, <2>4
<1>3. AloneUnpaid'
  BY <1>2 DEF AloneUnpaid
<1> QED BY <1>1, <1>3

(* What each step of a run makes of its record.                             *)
LEMMA QuietReviews ==
    ASSUME ReviewsOK, ReviewsHeld, NEW v \in Reviews, Quiet(v) \/ SkipPicture(v)
    PROVE  RunsHold' /\ AloneUnpaid'
<1> DEFINE d == review[v]
           e == review'[v]
<1>0. d \in ReviewRecords /\ Holds(d) /\ (v \in rvAlone => Unpaid(d, rvPaid))
  BY DEF ReviewsOK, ReviewsHeld, RunsHold, AloneUnpaid
<1>a. UNCHANGED <<rvPaid, rvAlone>>
  BY DEF Quiet, Open, SayRunning, Pick, Reply, LastPicture, Close, SkipPicture
<1>b. SUFFICES /\ d.pc \notin Resting /\ Holds(e) /\ (v \in rvAlone => Unpaid(e, rvPaid))
               /\ \A w \in Reviews \ {v} : review'[w] = review[w]
  BY <1>a, OneReviews
<1>1. CASE Open(v)
  <2>1. /\ d.pc = "message" /\ e.pc = "config" /\ e.todo = d.given /\ e.given = d.given
        /\ e.now = d.now
        /\ \A w \in Reviews \ {v} : review'[w] = review[w]
    BY <1>1 DEF Open, ReviewsOK, ReviewRecords
  <2> QED BY <1>0, <2>1 DEF Holds, Unpaid, Resting
<1>2. CASE SayRunning(v) \/ LastPicture(v) \/ Close(v) \/ Reply(v)
  <2>1. /\ d.pc \in {"config", "next", "end", "ask"} /\ e.pc # "message"
        /\ e.todo = d.todo /\ e.given = d.given /\ e.now = d.now
        /\ \A w \in Reviews \ {v} : review'[w] = review[w]
    BY <1>2 DEF SayRunning, LastPicture, Close, Reply, ReviewsOK, ReviewRecords
  <2> QED BY <1>0, <2>1 DEF Holds, Unpaid, Resting
<1>3. CASE Pick(v)
  <2>1. CASE ~ WithinBudget(d.budget)
    <3>1. /\ d.pc = "next" /\ e.pc = "end"
          /\ e.todo = d.todo /\ e.given = d.given /\ e.now = d.now
          /\ \A w \in Reviews \ {v} : review'[w] = review[w]
      BY <1>3, <2>1 DEF Pick, ReviewsOK, ReviewRecords
    <3> QED BY <1>0, <3>1 DEF Holds, Unpaid, Resting
  <2>2. CASE WithinBudget(d.budget)
    <3>1. PICK p \in d.todo :
              review' = [review EXCEPT ![v].pc = "ask", ![v].now = {p},
                                       ![v].todo = review[v].todo \ {p}]
      BY <1>3, <2>2, Zenon DEF Pick
    <3>2. /\ e.pc = "ask" /\ e.now = {p} /\ e.todo = d.todo \ {p} /\ e.given = d.given
          /\ \A w \in Reviews \ {v} : review'[w] = review[w]
      BY <3>1 DEF ReviewsOK, ReviewRecords
    <3>3. d.pc = "next" /\ p \in Pictures
      BY <1>0, <1>3 DEF Pick, ReviewRecords
    <3> QED BY <1>0, <3>2, <3>3 DEF Holds, Unpaid, Resting
  <2> QED BY <2>1, <2>2
<1>4. CASE SkipPicture(v)
  <2>1. PICK p \in d.todo : review' = [review EXCEPT ![v].todo = review[v].todo \ {p}]
    BY <1>4 DEF SkipPicture
  <2>2. /\ e.pc = d.pc /\ e.now = d.now /\ e.todo = d.todo \ {p} /\ e.given = d.given
        /\ \A w \in Reviews \ {v} : review'[w] = review[w]
    BY <2>1 DEF ReviewsOK, ReviewRecords
  <2>3. d.pc = "next"
    BY <1>4 DEF SkipPicture
  <2> QED BY <1>0, <2>2, <2>3 DEF Holds, Unpaid, Resting
<1> QED BY <1>1, <1>2, <1>3, <1>4 DEF Quiet

(* The answer is written, refused, lost to a clash, or dies with its run.   *)
LEMMA AnsweredReviews ==
    ASSUME ReviewsOK, ReviewsHeld, NEW v \in Reviews,
           \/ WriteReview(v) \/ Clash(v) \/ ReviewDies(v)
           \/ \E kind \in Failures : NoReply(v, kind)
    PROVE  RunsHold' /\ AloneUnpaid'
<1> DEFINE d == review[v]
           e == review'[v]
<1>0. d \in ReviewRecords /\ Holds(d) /\ (v \in rvAlone => Unpaid(d, rvPaid))
  BY DEF ReviewsOK, ReviewsHeld, RunsHold, AloneUnpaid
<1>1. CASE WriteReview(v)
  <2>1. /\ d.pc = "write" /\ e.pc = "next" /\ e.todo = d.todo /\ e.given = d.given /\ e.now = {}
        /\ \A w \in Reviews \ {v} : review'[w] = review[w]
    BY <1>1 DEF WriteReview, ReviewsOK, ReviewRecords
  <2>2. rvPaid' = rvPaid \cup d.now /\ rvAlone' = rvAlone
    BY <1>1 DEF WriteReview
  <2>3. Holds(e) /\ (v \in rvAlone => Unpaid(e, rvPaid'))
    BY <1>0, <2>1, <2>2 DEF Holds, Unpaid
  <2> QED BY <2>1, <2>2, <2>3, OneReviews DEF Resting
<1>2. CASE Clash(v) \/ \E kind \in Failures : NoReply(v, kind)
  <2>1. /\ d.pc \in {"ask", "write"} /\ e.pc # "message"
        /\ e.todo = d.todo /\ e.given = d.given /\ e.now = {}
        /\ \A w \in Reviews \ {v} : review'[w] = review[w]
    <3>1. CASE Clash(v)
      BY <3>1 DEF Clash, ReviewsOK, ReviewRecords
    <3>2. ASSUME NEW kind \in Failures, NoReply(v, kind)
          PROVE  /\ d.pc = "ask" /\ e.pc # "message"
                 /\ e.todo = d.todo /\ e.given = d.given /\ e.now = {}
                 /\ \A w \in Reviews \ {v} : review'[w] = review[w]
      <4> DEFINE pc == IF kind = "fatal" THEN "end" ELSE "next"
                 verdict == IF kind = "fatal" THEN "failed" ELSE "running"
      <4>1. d.pc = "ask" /\ pc # "message"
        BY <3>2 DEF NoReply
      <4>2. review' = [review EXCEPT ![v].pc = pc, ![v].now = {}, ![v].verdict = verdict]
        BY <3>2 DEF NoReply
      <4> HIDE DEF pc, verdict
      <4>3. /\ e.pc = pc /\ e.todo = d.todo /\ e.given = d.given /\ e.now = {}
            /\ \A w \in Reviews \ {v} : review'[w] = review[w]
        BY <4>2, SMTT(30) DEF ReviewsOK, ReviewRecords
      <4> QED BY <4>1, <4>3
    <3> QED BY <1>2, <3>1, <3>2
  <2>2. rvPaid' = rvPaid /\ rvAlone' = rvAlone
    BY <1>2 DEF Clash, NoReply
  <2>3. Holds(e) /\ (v \in rvAlone => Unpaid(e, rvPaid'))
    BY <1>0, <2>1, <2>2 DEF Holds, Unpaid
  <2> QED BY <2>1, <2>2, <2>3, OneReviews DEF Resting
<1>3. CASE ReviewDies(v)
  <2>1. /\ e.todo = {} /\ e.given = d.given /\ e.now = {}
        /\ \A w \in Reviews \ {v} : review'[w] = review[w]
    BY <1>3 DEF ReviewDies, IdleReview, ReviewsOK
  <2>2. d.pc \notin Resting /\ rvAlone' = rvAlone \ {v}
    BY <1>3 DEF ReviewDies, Busy, Resting
  <2>3. Holds(e)
    BY <2>1 DEF Holds
  <2> QED BY <2>1, <2>2, <2>3, OneReviews
<1> QED BY <1>1, <1>2, <1>3

(* Pictures are handed over: nothing at work, and none of them paid for,    *)
(* when the delivery is to be one that was picked and overlaps nothing.     *)
LEMMA HandHolds ==
    ASSUME ReviewsOK, ReviewsHeld, NEW pictures \in SUBSET Pictures, NEW byPick \in BOOLEAN,
           Hand(pictures, byPick), UNCHANGED rvPaid,
           byPick => pictures \cap rvPaid = {}
    PROVE  RunsHold' /\ AloneUnpaid' /\ rvAlone' \subseteq Reviews
<1>1. PICK v \in Reviews :
          /\ review[v] = IdleReview
          /\ review' = [review EXCEPT ![v] = [IdleReview EXCEPT !.pc = "message", !.given = pictures]]
          /\ rvAlone' = IF byPick /\ \A w \in Reviews : review[w].pc \in {"free", "over", "raised"}
                        THEN {v} ELSE {}
  BY DEF Hand
<1>2. /\ review'[v].pc = "message" /\ review'[v].given = pictures
      /\ review'[v].todo = {} /\ review'[v].now = {}
      /\ \A w \in Reviews \ {v} : review'[w] = review[w]
  BY <1>1 DEF IdleReview, ReviewsOK
<1>3. Holds(review'[v])
  BY <1>2 DEF Holds
<1>4. RunsHold'
  BY <1>2, <1>3 DEF ReviewsHeld, RunsHold
<1>5. CASE byPick /\ \A w \in Reviews : review[w].pc \in {"free", "over", "raised"}
  <2>1. Lonely(v)'
    BY <1>2, <1>5 DEF Lonely, Resting
  <2>2. Unpaid(review'[v], rvPaid')
    BY <1>2, <1>5 DEF Unpaid
  <2>3. rvAlone' = {v}
    BY <1>1, <1>5
  <2> QED BY <1>4, <2>1, <2>2, <2>3 DEF AloneUnpaid
<1>6. CASE ~ (byPick /\ \A w \in Reviews : review[w].pc \in {"free", "over", "raised"})
  <2>1. rvAlone' = {}
    BY <1>1, <1>6
  <2> QED BY <1>4, <2>1 DEF AloneUnpaid
<1> QED BY <1>5, <1>6

LEMMA ReviewRestKept ==
    ASSUME ReviewsOK, ReviewRest, ReviewNext
    PROVE  (rvState \in {"idle", "running", "done", "budget", "failed"}
            /\ rvPaid \subseteq Pictures /\ rvOpinion \subseteq Pictures
            /\ rvBudget \in 0..ReviewIncidents)'
<1> DEFINE rest == /\ rvState \in {"idle", "running", "done", "budget", "failed"}
                   /\ rvPaid \subseteq Pictures /\ rvOpinion \subseteq Pictures
                   /\ rvBudget \in 0..ReviewIncidents
<1>0. \A b \in 0..ReviewIncidents : b > 0 => b - 1 \in 0..ReviewIncidents
  BY ReviewAssumption DEF ReviewAssumption
<1>1. ReviewSpend => rvBudget' \in 0..ReviewIncidents
  BY <1>0 DEF ReviewSpend, ReviewRest
<1>2. ASSUME Request \/ Sweep \/ \E p \in Pictures : Judge(p) PROVE rest'
  BY <1>1, <1>2 DEF Request, Sweep, Judge, ReviewRest
<1>3. ASSUME NEW v \in Reviews, WriteReview(v) PROVE rest'
  <2>1. review[v].now \subseteq Pictures
    BY DEF ReviewsOK, ReviewRecords
  <2> QED BY <1>3, <2>1 DEF WriteReview, ReviewRest
<1>4. ASSUME NEW v \in Reviews, Close(v) PROVE rest'
  <2>1. review[v].verdict \in {"running", "budget", "failed"}
    BY DEF ReviewsOK, ReviewRecords
  <2> QED BY <1>4, <2>1 DEF Close, ReviewRest
<1>5. ASSUME NEW v \in Reviews, Quiet(v) PROVE rest'
  BY <1>4, <1>5 DEF Quiet, Open, SayRunning, Pick, Reply, LastPicture, ReviewRest
<1>6. ASSUME NEW v \in Reviews, SkipPicture(v) \/ Clash(v) \/ ReviewDies(v) PROVE rest'
  BY <1>1, <1>6 DEF SkipPicture, Clash, ReviewDies, ReviewRest
<1>7. ASSUME NEW v \in Reviews, NEW kind \in Failures, NoReply(v, kind) PROVE rest'
  BY <1>1, <1>7 DEF NoReply, ReviewRest
<1>8. ASSUME ReviewSpend, UNCHANGED <<rvState, rvPaid, rvOpinion>> PROVE rest'
  BY <1>1, <1>8 DEF ReviewRest
<1> QED BY <1>2, <1>3, <1>5, <1>6, <1>7, <1>8 DEF ReviewNext, ReviewProgress

LEMMA ReviewsHeldKept ==
    ASSUME ReviewsOK, ReviewsHeld, ReviewNext
    PROVE  ReviewsHeld'
<1> DEFINE goal == RunsHold' /\ AloneUnpaid' /\ rvAlone' \subseteq Reviews
<1>0. rvAlone \subseteq Reviews
  BY DEF ReviewsHeld, ReviewRest
<1>1. ASSUME Request PROVE goal
  <2>1. Hand(Untagged, TRUE) \/ \E p \in Pictures : Hand({p}, FALSE)
    BY <1>1 DEF Request
  <2>2. UNCHANGED rvPaid /\ Untagged \in SUBSET Pictures /\ Untagged \cap rvPaid = {}
    BY <1>1 DEF Request, Untagged
  <2>3. \A p \in Pictures : {p} \in SUBSET Pictures
    OBVIOUS
  <2> QED BY <2>1, <2>2, <2>3, HandHolds
<1>2. ASSUME Sweep PROVE goal
  <2>1. Hand(Untagged, TRUE) /\ UNCHANGED rvPaid /\ Untagged \in SUBSET Pictures
        /\ Untagged \cap rvPaid = {}
    BY <1>2 DEF Sweep, Untagged
  <2> QED BY <2>1, HandHolds
<1>3. ASSUME UNCHANGED <<review, rvPaid, rvAlone>> PROVE goal
  BY <1>0, <1>3 DEF ReviewsHeld, RunsHold, AloneUnpaid, Lonely
<1>4. ASSUME NEW p \in Pictures, Judge(p) PROVE goal
  BY <1>3, <1>4 DEF Judge
<1>5. ASSUME NEW v \in Reviews, Quiet(v) \/ SkipPicture(v) PROVE goal
  <2>1. UNCHANGED rvAlone
    BY <1>5 DEF Quiet, Open, SayRunning, Pick, Reply, LastPicture, Close, SkipPicture
  <2> QED BY <1>0, <1>5, <2>1, QuietReviews
<1>6. ASSUME NEW v \in Reviews, WriteReview(v) \/ Clash(v) \/ ReviewDies(v) PROVE goal
  <2>1. rvAlone' \subseteq rvAlone
    BY <1>6 DEF WriteReview, Clash, ReviewDies
  <2> QED BY <1>0, <1>6, <2>1, AnsweredReviews
<1>7. ASSUME NEW v \in Reviews, NEW kind \in Failures, NoReply(v, kind) PROVE goal
  <2>1. UNCHANGED rvAlone
    BY <1>7 DEF NoReply
  <2> QED BY <1>0, <1>7, <2>1, AnsweredReviews
<1>8. goal
  BY <1>1, <1>2, <1>3, <1>4, <1>5, <1>6, <1>7 DEF ReviewNext, ReviewProgress
<1> QED BY <1>8, ReviewRestKept DEF ReviewsHeld, ReviewRest

-----------------------------------------------------------------------------
(* Tags.  What works on the tag, and what the queue of suggestions holds    *)
(* and has been promised: the arrivals counted and not yet inserted, and    *)
(* the share of the learner that holds the tag's row.                       *)
AtLearning == {l \in Learners : learner[l].pc \notin {"free", "message"}}
AtScoring == {a \in TagAssets : arrival[a] \in {"scored", "counted"}}
Counted == {a \in TagAssets : arrival[a] = "counted"}
Guessed == Evidence({"clip"})
Queue == Cardinality(Guessed) + Cardinality(Counted)
QueueCap == ArrivalPending + MaxPending

TagTyped ==
    /\ link \in [TagAssets -> Settled \cup Pending \cup {"none"}]
    /\ tag \in [proto : SUBSET (TagAssets \cup {"none"}), bar : Bars]
    /\ learner \in [Learners -> LearnerRecords]
    /\ arrival \in [TagAssets -> {"new", "scored", "counted", "over"}]
    /\ tagBudget \in 0..TagIncidents

(* The tag's row is the learner's that ranks or has ranked, two tasks are   *)
(* at work at most, and the queue has room for whatever was promised.  A    *)
(* pass that found it empty beside an arrival that was the last to fit is   *)
(* why the bound adds both shares.                                          *)
RowHeld ==
    /\ tagLock = {} \/ \E l \in Learners : tagLock = {l}
    /\ \A l \in Learners : learner[l].pc \in {"ranking", "ranked"} => tagLock = {l}
WorkFits == Cardinality(AtLearning) + Cardinality(AtScoring) <= VisionSlots
ShareFits(d) ==
    /\ d.pc = "ranking" => Queue + d.room <= QueueCap
    /\ d.pc = "ranked" => Cardinality(d.offers) <= MaxPending
                          /\ Queue + Cardinality(d.offers) <= QueueCap
QueueFits == Queue <= QueueCap /\ \A l \in Learners : ShareFits(learner[l])

TagInv == TagTyped /\ RowHeld /\ WorkFits /\ QueueFits

(* Sizes of finite sets, as the queue needs them.                           *)
LEMMA SizeWithin ==
    ASSUME NEW T, IsFiniteSet(T), NEW S \in SUBSET T
    PROVE  /\ IsFiniteSet(S) /\ Cardinality(S) \in Nat /\ Cardinality(T) \in Nat
           /\ Cardinality(S) <= Cardinality(T)
<1>1. IsFiniteSet(S) /\ Cardinality(S) <= Cardinality(T)
  BY FS_Subset
<1>2. Cardinality(S) \in Nat /\ Cardinality(T) \in Nat
  BY <1>1, FS_CardinalityType
<1> QED BY <1>1, <1>2

LEMMA SizeOneMore ==
    ASSUME NEW T, IsFiniteSet(T), NEW x, NEW S \in SUBSET (T \cup {x})
    PROVE  Cardinality(S) <= Cardinality(T) + 1
<1>1. IsFiniteSet(T \cup {x}) /\ Cardinality(T) \in Nat
      /\ (Cardinality(T \cup {x}) = Cardinality(T) \/ Cardinality(T \cup {x}) = Cardinality(T) + 1)
  BY FS_AddElement, FS_CardinalityType
<1>2. Cardinality(S) \in Nat /\ Cardinality(T \cup {x}) \in Nat
      /\ Cardinality(S) <= Cardinality(T \cup {x})
  BY <1>1, SizeWithin
<1> QED BY <1>1, <1>2

LEMMA SizeOneLess ==
    ASSUME NEW T, IsFiniteSet(T), NEW x \in T, NEW S \in SUBSET (T \ {x})
    PROVE  Cardinality(S) + 1 <= Cardinality(T)
<1>1. IsFiniteSet(T \ {x}) /\ Cardinality(T) \in Nat
      /\ Cardinality(T \ {x}) = Cardinality(T) - 1
  BY FS_RemoveElement, FS_CardinalityType
<1>2. Cardinality(S) \in Nat /\ Cardinality(S) <= Cardinality(T \ {x})
  BY <1>1, SizeWithin
<1> QED BY <1>1, <1>2

LEMMA SizeTogether ==
    ASSUME NEW T, IsFiniteSet(T), NEW U, IsFiniteSet(U), NEW S \in SUBSET (T \cup U)
    PROVE  Cardinality(S) <= Cardinality(T) + Cardinality(U)
<1>1. IsFiniteSet(T \cup U) /\ IsFiniteSet(T \cap U)
      /\ Cardinality(T \cup U) = Cardinality(T) + Cardinality(U) - Cardinality(T \cap U)
  BY FS_Union, FS_Subset
<1>2. Cardinality(T) \in Nat /\ Cardinality(U) \in Nat /\ Cardinality(T \cap U) \in Nat
  BY <1>1, FS_CardinalityType
<1>3. Cardinality(S) \in Nat /\ Cardinality(S) <= Cardinality(T \cup U)
  BY <1>1, SizeWithin
<1> QED BY <1>1, <1>2, <1>3

LEMMA TagSizes ==
    /\ \A S \in SUBSET TagAssets : IsFiniteSet(S) /\ Cardinality(S) \in Nat
    /\ \A S \in SUBSET Learners : IsFiniteSet(S) /\ Cardinality(S) \in Nat
    /\ Guessed \subseteq TagAssets /\ Counted \subseteq AtScoring /\ AtScoring \subseteq TagAssets
    /\ AtLearning \subseteq Learners
    /\ MaxPending \in Nat \ {0}
<1>1. IsFiniteSet(TagAssets) /\ IsFiniteSet(Learners) /\ MaxPending \in Nat \ {0}
  BY TagAssumption DEF TagAssumption
<1> QED BY <1>1, SizeWithin DEF Guessed, Counted, AtScoring, AtLearning, Evidence

LEMMA StillFits ==
    ASSUME NEW before \in Nat, NEW after \in Nat, NEW most \in Nat, after <= before
    PROVE  \A n \in Nat : before + n <= most => after + n <= most
OBVIOUS

(* A step that adds nothing to the queue and promises no more.              *)
LEMMA NothingAdded ==
    ASSUME TagTyped, QueueFits, Guessed' \subseteq Guessed, Counted' \subseteq Counted,
           \A l \in Learners : \/ learner'[l].pc \notin {"ranking", "ranked"}
                               \/ UNCHANGED learner[l]
    PROVE  QueueFits'
<1>1. /\ Cardinality(Guessed') <= Cardinality(Guessed)
      /\ Cardinality(Counted') <= Cardinality(Counted)
      /\ Cardinality(Guessed') \in Nat /\ Cardinality(Guessed) \in Nat
      /\ Cardinality(Counted') \in Nat /\ Cardinality(Counted) \in Nat
  <2>1. Guessed \in SUBSET TagAssets /\ Counted \in SUBSET TagAssets
    BY TagSizes
  <2>2. IsFiniteSet(Guessed) /\ IsFiniteSet(Counted)
    BY <2>1, TagSizes
  <2> QED BY <2>2, SizeWithin
<1>2. Queue' \in Nat /\ Queue \in Nat /\ Queue' <= Queue /\ QueueCap \in Nat
  BY <1>1, TagSizes DEF Queue, QueueCap, ArrivalPending
<1>3. \A n \in Nat : Queue + n <= QueueCap => Queue' + n <= QueueCap
  BY <1>2, StillFits
<1>5. ASSUME NEW l \in Learners PROVE ShareFits(learner[l])'
  <2>1. CASE learner'[l].pc \notin {"ranking", "ranked"}
    BY <2>1 DEF ShareFits
  <2>2. CASE UNCHANGED learner[l]
    <3>1. learner[l].room \in Nat /\ learner[l].offers \in SUBSET TagAssets
      BY TagSizes DEF TagTyped, LearnerRecords
    <3>2. Cardinality(learner[l].offers) \in Nat
      BY <3>1, TagSizes
    <3>3. ShareFits(learner[l])
      BY DEF QueueFits
    <3> QED BY <1>3, <2>2, <3>1, <3>2, <3>3 DEF ShareFits, QueueCap, ArrivalPending
  <2> QED BY <2>1, <2>2
<1>4. Queue' <= QueueCap
  BY <1>2 DEF QueueFits
<1> QED BY <1>4, <1>5 DEF QueueFits, QueueCap, ArrivalPending

(* The learner is queued, or nothing is.                                    *)
LEMMA RelearnKeeps ==
    ASSUME TagTyped,
           \/ UNCHANGED learner
           \/ \E l \in Learners : /\ learner[l].pc = "free"
                                  /\ learner' = [learner EXCEPT ![l].pc = "message"]
    PROVE  /\ learner' \in [Learners -> LearnerRecords] /\ AtLearning' = AtLearning
           /\ \A l \in Learners : \/ learner'[l].pc \notin {"ranking", "ranked"}
                                  \/ UNCHANGED learner[l]
<1>1. CASE UNCHANGED learner
  BY <1>1 DEF TagTyped, AtLearning
<1>2. ASSUME NEW l \in Learners, learner[l].pc = "free",
             learner' = [learner EXCEPT ![l].pc = "message"]
      PROVE  /\ learner' \in [Learners -> LearnerRecords] /\ AtLearning' = AtLearning
             /\ \A m \in Learners : \/ learner'[m].pc \notin {"ranking", "ranked"}
                                    \/ UNCHANGED learner[m]
  <2> DEFINE g == [learner[l] EXCEPT !.pc = "message"]
  <2>0. learner[l] \in LearnerRecords /\ learner' = [learner EXCEPT ![l] = g]
    BY <1>2 DEF TagTyped
  <2>2. g \in LearnerRecords /\ g.pc = "message"
    BY <2>0 DEF LearnerRecords
  <2>1. /\ learner' \in [Learners -> LearnerRecords]
        /\ learner'[l].pc = "message" /\ \A m \in Learners \ {l} : learner'[m] = learner[m]
    BY <2>0, <2>2 DEF TagTyped
  <2>3. AtLearning' = AtLearning
    BY <1>2, <2>1 DEF AtLearning
  <2> QED BY <2>1, <2>3
<1> QED BY <1>1, <1>2

(* Neither the row's holder nor the work changes: what is left is the link. *)
LEMMA LinkChanged ==
    ASSUME TagInv, UNCHANGED <<tag, tagLock, arrival>>,
           \/ UNCHANGED learner
           \/ \E l \in Learners : /\ learner[l].pc = "free"
                                  /\ learner' = [learner EXCEPT ![l].pc = "message"],
           link' \in [TagAssets -> Settled \cup Pending \cup {"none"}],
           \A a \in TagAssets : link'[a] = "clip" => link[a] = "clip",
           tagBudget' \in 0..TagIncidents
    PROVE  TagInv'
<1>1. /\ learner' \in [Learners -> LearnerRecords] /\ AtLearning' = AtLearning
      /\ \A l \in Learners : \/ learner'[l].pc \notin {"ranking", "ranked"}
                             \/ UNCHANGED learner[l]
  BY RelearnKeeps DEF TagInv
<1>2. Guessed' \subseteq Guessed
  BY DEF Guessed, Evidence
<1>3. Counted' = Counted /\ AtScoring' = AtScoring
  BY DEF Counted, AtScoring
<1>4. QueueFits'
  BY <1>1, <1>2, <1>3, NothingAdded DEF TagInv
<1>5. TagTyped'
  BY <1>1 DEF TagInv, TagTyped
<1>6. RowHeld'
  BY <1>1 DEF TagInv, RowHeld
<1>7. WorkFits'
  BY <1>1, <1>3 DEF TagInv, WorkFits
<1> QED BY <1>4, <1>5, <1>6, <1>7 DEF TagInv

LEMMA TagSpent == TagTyped /\ TagSpend => tagBudget' \in 0..TagIncidents
<1>1. \A b \in 0..TagIncidents : b > 0 => b - 1 \in 0..TagIncidents
  BY TagAssumption DEF TagAssumption
<1> QED BY <1>1 DEF TagTyped, TagSpend

LEMMA AnsweredTag ==
    ASSUME TagInv, NEW a \in TagAssets, OneByOne(a) \/ WriteProposals(a)
    PROVE  TagInv'
<1>0. TagTyped /\ tagBudget' \in 0..TagIncidents
  BY TagSpent DEF TagInv, OneByOne, AddTag, RemoveTag, Decide, Answer, WriteProposals
<1>1. UNCHANGED <<tag, tagLock, arrival>>
  BY DEF OneByOne, AddTag, RemoveTag, Decide, Answer, WriteProposals
<1>2. \/ UNCHANGED learner
      \/ \E l \in Learners : /\ learner[l].pc = "free"
                             /\ learner' = [learner EXCEPT ![l].pc = "message"]
  BY DEF OneByOne, AddTag, RemoveTag, Decide, Answer, WriteProposals, Relearn
<1>3. PICK source \in Settled \cup {"claude"} : link' = [link EXCEPT ![a] = source]
  BY DEF OneByOne, AddTag, RemoveTag, Decide, Answer, WriteProposals, Settled, Positive
<1>4. /\ link' \in [TagAssets -> Settled \cup Pending \cup {"none"}]
      /\ \A b \in TagAssets : link'[b] = "clip" => link[b] = "clip"
  BY <1>0, <1>3 DEF TagTyped, Settled, Positive, Pending
<1> QED BY <1>0, <1>1, <1>2, <1>4, LinkChanged

LEMMA DecidedTag ==
    ASSUME TagInv, NEW accept \in SUBSET TagAssets, NEW reject \in SUBSET TagAssets,
           DecideMany(accept, reject)
    PROVE  TagInv'
<1>0. TagTyped /\ tagBudget' \in 0..TagIncidents
  BY TagSpent DEF TagInv, DecideMany
<1>1. UNCHANGED <<tag, tagLock, arrival>>
  BY DEF DecideMany
<1>2. \/ UNCHANGED learner
      \/ \E l \in Learners : /\ learner[l].pc = "free"
                             /\ learner' = [learner EXCEPT ![l].pc = "message"]
  BY DEF DecideMany, Relearn
<1>3. link' = [a \in TagAssets |->
                  CASE a \in accept /\ link[a] \in Pending -> "confirmed"
                    [] a \in reject /\ link[a] \in Pending -> "rejected"
                    [] OTHER -> link[a]]
  BY DEF DecideMany
<1>4. ASSUME NEW a \in TagAssets
      PROVE  link'[a] \in {"confirmed", "rejected", link[a]}
  BY <1>3
<1>5. /\ link' \in [TagAssets -> Settled \cup Pending \cup {"none"}]
      /\ \A b \in TagAssets : link'[b] = "clip" => link[b] = "clip"
  <2>1. link' = [a \in TagAssets |-> link'[a]]
    BY <1>3
  <2>2. \A a \in TagAssets : link'[a] \in Settled \cup Pending \cup {"none"}
    BY <1>0, <1>4 DEF TagTyped, Settled, Positive
  <2> QED BY <1>4, <2>1, <2>2
<1> QED BY <1>0, <1>1, <1>2, <1>5, LinkChanged

LEMMA SuggestedTag == TagInv /\ QueueLearner => TagInv'
<1> SUFFICES ASSUME TagInv, QueueLearner PROVE TagInv'
  OBVIOUS
<1>1. /\ UNCHANGED <<tag, tagLock, arrival, link, tagBudget>>
      /\ \E l \in Learners : /\ learner[l].pc = "free"
                             /\ learner' = [learner EXCEPT ![l].pc = "message"]
  BY DEF QueueLearner
<1>2. /\ link' \in [TagAssets -> Settled \cup Pending \cup {"none"}]
      /\ \A a \in TagAssets : link'[a] = "clip" => link[a] = "clip"
      /\ tagBudget' \in 0..TagIncidents
  BY <1>1 DEF TagInv, TagTyped
<1> QED BY <1>1, <1>2, LinkChanged

(* One delivery of the learner moves on; what it promises is its own.       *)
LEMMA OneLearns ==
    ASSUME TagTyped, NEW l \in Learners, NEW f \in LearnerRecords,
           learner' = [learner EXCEPT ![l] = f]
    PROVE  /\ learner' \in [Learners -> LearnerRecords] /\ learner'[l] = f
           /\ \A m \in Learners \ {l} : learner'[m] = learner[m]
           /\ AtLearning' \subseteq AtLearning \cup {l}
           /\ f.pc \in {"free", "message"} \/ learner[l].pc \notin {"free", "message"}
                => AtLearning' \subseteq AtLearning
BY DEF TagTyped, AtLearning

LEMMA FewerAtWork ==
    ASSUME WorkFits, AtLearning' \subseteq AtLearning, AtScoring' \subseteq AtScoring
    PROVE  WorkFits'
<1>1. IsFiniteSet(AtLearning) /\ IsFiniteSet(AtScoring)
  BY TagSizes
<1>2. /\ Cardinality(AtLearning') <= Cardinality(AtLearning)
      /\ Cardinality(AtScoring') <= Cardinality(AtScoring)
      /\ Cardinality(AtLearning') \in Nat /\ Cardinality(AtLearning) \in Nat
      /\ Cardinality(AtScoring') \in Nat /\ Cardinality(AtScoring) \in Nat
  BY <1>1, SizeWithin
<1> QED BY <1>2 DEF WorkFits, VisionSlots

(* One delivery moves to a place where it holds no row.                     *)
LEMMA NothingPromised ==
    ASSUME TagInv, NEW l \in Learners,
           learner' \in [Learners -> LearnerRecords],
           learner'[l].pc \notin {"ranking", "ranked"},
           \A m \in Learners \ {l} : learner'[m] = learner[m],
           UNCHANGED <<link, tag, arrival>>, tagBudget' \in 0..TagIncidents,
           tagLock' = tagLock \/ tagLock' = tagLock \ {l},
           WorkFits'
    PROVE  TagInv'
<1>1. Guessed' = Guessed /\ Counted' = Counted
  BY DEF Guessed, Evidence, Counted
<1>2. QueueFits'
  BY <1>1, NothingAdded DEF TagInv
<1>3. TagTyped'
  BY DEF TagInv, TagTyped
<1>4. RowHeld'
  BY DEF TagInv, RowHeld
<1> QED BY <1>2, <1>3, <1>4 DEF TagInv

(* The tag's row is loaded and the examples are read: no promise yet.       *)
LEMMA LoadedTag ==
    ASSUME TagInv, NEW l \in Learners, LoadTag(l) \/ Teach(l)
    PROVE  TagInv'
<1> DEFINE f == learner'[l]
<1>0. /\ TagTyped /\ RowHeld /\ learner[l] \in LearnerRecords
      /\ UNCHANGED <<link, tag, tagLock, arrival>> /\ tagBudget' \in 0..TagIncidents
  BY DEF TagInv, TagTyped, LoadTag, Teach
<1>1. CASE LoadTag(l)
  <2> DEFINE g == [learner[l] EXCEPT !.pc = "loaded", !.bar = tag.bar]
  <2>1. /\ learner[l].pc = "message" /\ ActiveWork < VisionSlots
        /\ learner' = [learner EXCEPT ![l] = g]
    BY <1>1 DEF LoadTag
  <2>2. g \in LearnerRecords /\ g.pc = "loaded"
    BY <1>0 DEF TagTyped, LearnerRecords
  <2>3. /\ learner' \in [Learners -> LearnerRecords] /\ learner'[l] = g
        /\ \A m \in Learners \ {l} : learner'[m] = learner[m]
        /\ AtLearning' \subseteq AtLearning \cup {l}
    BY <1>0, <2>1, <2>2, OneLearns
  <2>4. Cardinality(AtLearning) + Cardinality(AtScoring) < VisionSlots
    BY <2>1 DEF ActiveWork, AtLearning, AtScoring
  <2>5. AtScoring' = AtScoring
    BY <1>0 DEF AtScoring
  <2>6. Cardinality(AtLearning') <= Cardinality(AtLearning) + 1
    BY <2>3, TagSizes, SizeOneMore
  <2>7. WorkFits'
    <3>1. Cardinality(AtLearning) \in Nat /\ Cardinality(AtScoring) \in Nat
          /\ Cardinality(AtLearning') \in Nat
      BY <2>3, TagSizes
    <3> QED BY <2>4, <2>5, <2>6, <3>1 DEF WorkFits, VisionSlots
  <2> QED BY <1>0, <2>2, <2>3, <2>7, NothingPromised
<1>2. CASE Teach(l)
  <2> DEFINE g == [learner[l] EXCEPT !.pc = "taught", !.proto = Evidence(Positive) \cap Embedded]
  <2>1. learner[l].pc = "loaded" /\ learner' = [learner EXCEPT ![l] = g]
    BY <1>2 DEF Teach
  <2>2. g \in LearnerRecords /\ g.pc = "taught"
    <3>1. Evidence(Positive) \cap Embedded \in SUBSET TagAssets
      BY DEF Evidence
    <3> QED BY <1>0, <3>1 DEF LearnerRecords
  <2>3. /\ learner' \in [Learners -> LearnerRecords] /\ learner'[l] = g
        /\ \A m \in Learners \ {l} : learner'[m] = learner[m]
        /\ AtLearning' \subseteq AtLearning
    BY <1>0, <2>1, <2>2, OneLearns
  <2>4. AtScoring' = AtScoring
    BY <1>0 DEF AtScoring
  <2>5. WorkFits'
    BY <2>3, <2>4, FewerAtWork DEF TagInv
  <2> QED BY <1>0, <2>2, <2>3, <2>5, NothingPromised
<1> QED BY <1>1, <1>2

(* A worker at learning leaves one place for an arrival, and one at scoring *)
(* leaves one for a learner.                                                *)
LEMMA OneBeside ==
    ASSUME WorkFits
    PROVE  /\ \A l \in AtLearning : Cardinality(Counted) <= 1
           /\ \A l \in AtLearning, a \in AtScoring \ Counted : Counted = {}
           /\ \A a \in AtScoring \ Counted : Cardinality(Counted) <= 1
<1>1. /\ IsFiniteSet(AtLearning) /\ IsFiniteSet(AtScoring) /\ IsFiniteSet(Counted)
      /\ Cardinality(AtLearning) \in Nat /\ Cardinality(AtScoring) \in Nat
      /\ Cardinality(Counted) \in Nat /\ Counted \in SUBSET AtScoring
  BY TagSizes
<1>2. Cardinality(AtLearning) + Cardinality(AtScoring) <= 2
  BY DEF WorkFits, VisionSlots
<1>3. ASSUME NEW l \in AtLearning PROVE Cardinality(AtLearning) >= 1
  <2>1. Cardinality({}) = 0 /\ {} \in SUBSET (AtLearning \ {l})
    BY FS_EmptySet
  <2> QED BY <1>1, <2>1, SizeOneLess
<1>4. Cardinality(Counted) <= Cardinality(AtScoring)
  BY <1>1, SizeWithin
<1>5. ASSUME NEW a \in AtScoring \ Counted PROVE Cardinality(Counted) + 1 <= Cardinality(AtScoring)
  <2>1. Counted \in SUBSET (AtScoring \ {a})
    BY <1>1
  <2> QED BY <1>1, <2>1, SizeOneLess
<1>6. Cardinality(Counted) = 0 => Counted = {}
  BY <1>1, FS_EmptySet
<1>7. \A a \in AtScoring \ Counted : Cardinality(Counted) <= 1
  BY <1>1, <1>2, <1>5
<1>8. \A l \in AtLearning : Cardinality(Counted) <= 1
  BY <1>1, <1>2, <1>3, <1>4
<1>9. \A l \in AtLearning, a \in AtScoring \ Counted : Cardinality(Counted) = 0
  BY <1>1, <1>2, <1>3, <1>5
<1> QED BY <1>6, <1>7, <1>8, <1>9

(* The room a pass leaves itself: none, or what the queue lacks.            *)
LEMMA RoomLeft ==
    ASSUME NEW n \in Int
    PROVE  LET room == Max({0, n})
           IN  room \in Nat /\ (n <= 0 => room = 0) /\ (n > 0 => room = n)
<1> DEFINE room == Max({0, n})
<1>1. \E x \in {0, n} : \A y \in {0, n} : x >= y
  OBVIOUS
<1>2. room \in {0, n} /\ \A y \in {0, n} : room >= y
  BY <1>1 DEF Max
<1> QED BY <1>2

LEMMA SmallerOf ==
    ASSUME NEW m \in Int, NEW n \in Int
    PROVE  Min({m, n}) <= m
<1>1. \E x \in {m, n} : \A y \in {m, n} : x <= y
  OBVIOUS
<1>2. \A y \in {m, n} : Min({m, n}) <= y
  BY <1>1 DEF Min
<1> QED BY <1>2

LEMMA RoomFits ==
    ASSUME NEW g \in Nat, NEW c \in Nat, c <= 1, NEW m \in Nat \ {0}, NEW w \in Nat, g <= w,
           g + c <= 3 * m, NEW room \in Nat,
           m - w <= 0 => room = 0, m - w > 0 => room = m - w
    PROVE  room <= m /\ g + c + room <= 3 * m
OBVIOUS

(* A pass locks the tag's row and counts what waits.                        *)
LEMMA LinksRead ==
    ASSUME TagInv, NEW l \in Learners, ReadLinks(l)
    PROVE  TagInv'
<1> DEFINE room == Max({0, MaxPending - Waiting})
           decided == {a \in TagAssets : link[a] # "none"}
           g == [learner[l] EXCEPT !.pc = "ranking", !.decided = decided, !.room = room]
<1>0. TagTyped /\ RowHeld /\ WorkFits /\ QueueFits /\ learner[l] \in LearnerRecords
  BY DEF TagInv, TagTyped
<1>1. /\ learner[l].pc = "taught" /\ tagLock = {} /\ tagLock' = {l}
      /\ learner' = [learner EXCEPT ![l] = g]
      /\ UNCHANGED <<link, tag, arrival, tagBudget>>
  BY DEF ReadLinks
<1>2. /\ Waiting \in Nat /\ MaxPending \in Nat \ {0}
      /\ Cardinality(Guessed) <= Waiting /\ Cardinality(Guessed) \in Nat
      /\ Cardinality(Counted) \in Nat
  <2>1. Evidence(Pending) \in SUBSET TagAssets /\ Guessed \in SUBSET Evidence(Pending)
    BY DEF Evidence, Guessed, Pending
  <2>2. Counted \in SUBSET TagAssets
    BY TagSizes
  <2> QED BY <2>1, <2>2, TagSizes, SizeWithin DEF Waiting
<1>3. room \in Nat /\ (MaxPending - Waiting <= 0 => room = 0)
      /\ (MaxPending - Waiting > 0 => room = MaxPending - Waiting)
  <2>1. MaxPending - Waiting \in Int
    BY <1>2
  <2> QED BY <2>1, RoomLeft
<1>4. Cardinality(Counted) <= 1
  <2>1. l \in AtLearning
    BY <1>1 DEF AtLearning
  <2> QED BY <1>0, <2>1, OneBeside
<1>5. room <= MaxPending /\ Queue + room <= QueueCap
  <2>1. Cardinality(Guessed) + Cardinality(Counted) <= 3 * MaxPending
    BY <1>0, <1>2 DEF QueueFits, Queue, QueueCap, ArrivalPending
  <2>2. room <= MaxPending /\ Cardinality(Guessed) + Cardinality(Counted) + room <= 3 * MaxPending
    <3> HIDE DEF room
    <3> QED BY <1>2, <1>3, <1>4, <2>1, RoomFits
  <2> HIDE DEF room
  <2> QED BY <1>2, <1>3, <2>2 DEF Queue, QueueCap, ArrivalPending
<1>6. g \in LearnerRecords /\ g.pc = "ranking" /\ g.room = room
  <2>1. room \in 0..MaxPending /\ decided \in SUBSET TagAssets
    BY <1>2, <1>3, <1>5
  <2> HIDE DEF room, decided
  <2> QED BY <1>0, <2>1 DEF LearnerRecords
<1>7. /\ learner' \in [Learners -> LearnerRecords] /\ learner'[l] = g
      /\ \A m \in Learners \ {l} : learner'[m] = learner[m]
      /\ AtLearning' \subseteq AtLearning
  <2> HIDE DEF g
  <2> QED BY <1>0, <1>1, <1>6, OneLearns
<1>8. Guessed' = Guessed /\ Counted' = Counted /\ AtScoring' = AtScoring
  BY <1>1 DEF Guessed, Evidence, Counted, AtScoring
<1>9. TagTyped'
  BY <1>0, <1>1, <1>7 DEF TagTyped
<1>10. RowHeld'
  BY <1>0, <1>1, <1>7 DEF RowHeld
<1>11. WorkFits'
  BY <1>0, <1>7, <1>8, FewerAtWork
<1>12. QueueFits'
  <2>1. Queue' = Queue
    BY <1>8 DEF Queue
  <2>2. ASSUME NEW m \in Learners \ {l} PROVE ShareFits(learner[m])'
    <3>1. learner'[m].pc \notin {"ranking", "ranked"}
      BY <1>0, <1>1, <1>7 DEF RowHeld
    <3> QED BY <3>1 DEF ShareFits
  <2>3. ShareFits(learner[l])'
    <3> HIDE DEF g, room
    <3> QED BY <1>5, <1>6, <1>7, <2>1 DEF ShareFits, QueueCap, ArrivalPending
  <2> QED BY <1>0, <2>1, <2>2, <2>3 DEF QueueFits, QueueCap, ArrivalPending
<1> QED BY <1>9, <1>10, <1>11, <1>12 DEF TagInv

(* It ranks what fits the room.                                             *)
LEMMA RankedTag ==
    ASSUME TagInv, NEW l \in Learners, Rank(l)
    PROVE  TagInv'
<1>0. TagTyped /\ RowHeld /\ WorkFits /\ QueueFits /\ learner[l] \in LearnerRecords
  BY DEF TagInv, TagTyped
<1> DEFINE bar == BarOf(Evidence(Positive) \cap Embedded)
           mine == [proto |-> learner[l].proto, bar |-> bar]
           above == {a \in Embedded \ learner[l].decided : Clears(a, mine) /\ ~Vetoed(a)}
<1>1. PICK offers \in SUBSET above :
          /\ Cardinality(offers) = Min({learner[l].room, Cardinality(above)})
          /\ learner' = [learner EXCEPT ![l].pc = "ranked", ![l].offers = offers,
                                        ![l].fresh = bar, ![l].decided = {}, ![l].room = 0]
  BY DEF Rank
<1> DEFINE g == [learner[l] EXCEPT !.pc = "ranked", !.offers = offers, !.fresh = bar,
                                   !.decided = {}, !.room = 0]
<1>2. learner[l].pc = "ranking" /\ UNCHANGED <<link, tag, tagLock, arrival, tagBudget>>
  BY DEF Rank
<1>3. offers \in SUBSET TagAssets /\ above \in SUBSET TagAssets /\ bar \in Bars
  BY DEF Embedded, BarOf, Bars
<1>4. learner[l].room \in 0..MaxPending /\ MaxPending \in Nat
  BY <1>0, TagSizes DEF LearnerRecords
<1>5. Cardinality(offers) \in Nat /\ Cardinality(offers) <= learner[l].room
  <2>1. Cardinality(offers) \in Nat /\ Cardinality(above) \in Nat
    BY <1>3, TagSizes
  <2> HIDE DEF above
  <2>2. Min({learner[l].room, Cardinality(above)}) <= learner[l].room
    BY <1>4, <2>1, SmallerOf
  <2> QED BY <1>1, <2>1, <2>2
<1>6. g \in LearnerRecords /\ g.pc = "ranked" /\ g.offers = offers
  <2> HIDE DEF bar
  <2>1. 0 \in 0..MaxPending /\ {} \in SUBSET TagAssets
    BY <1>4
  <2> QED BY <1>0, <1>3, <2>1 DEF LearnerRecords
<1>7. /\ learner' \in [Learners -> LearnerRecords] /\ learner'[l] = g
      /\ \A m \in Learners \ {l} : learner'[m] = learner[m]
      /\ AtLearning' \subseteq AtLearning
  <2>1. learner' = [learner EXCEPT ![l] = g]
    <3> HIDE DEF bar, above
    <3> QED BY <1>1
  <2> HIDE DEF g
  <2> QED BY <1>0, <1>2, <1>6, <2>1, OneLearns
<1> HIDE DEF g, bar, above
<1>8. Guessed' = Guessed /\ Counted' = Counted /\ AtScoring' = AtScoring
  BY <1>2 DEF Guessed, Evidence, Counted, AtScoring
<1>9. TagTyped'
  BY <1>0, <1>2, <1>7 DEF TagTyped
<1>10. RowHeld'
  BY <1>0, <1>2, <1>7 DEF RowHeld
<1>11. WorkFits'
  BY <1>0, <1>7, <1>8, FewerAtWork
<1>12. QueueFits'
  <2>1. Queue' = Queue /\ Queue \in Nat /\ QueueCap \in Nat
    <3>1. Guessed \in SUBSET TagAssets /\ Counted \in SUBSET TagAssets
      BY TagSizes
    <3> QED BY <1>4, <1>8, <3>1, TagSizes DEF Queue, QueueCap, ArrivalPending
  <2>2. ASSUME NEW m \in Learners \ {l} PROVE ShareFits(learner[m])'
    <3>1. learner'[m].pc \notin {"ranking", "ranked"}
      BY <1>0, <1>2, <1>7 DEF RowHeld
    <3> QED BY <3>1 DEF ShareFits
  <2>3. Queue + learner[l].room <= QueueCap
    BY <1>0, <1>2 DEF QueueFits, ShareFits
  <2>4. Queue + Cardinality(offers) <= QueueCap /\ Cardinality(offers) <= MaxPending
    BY <1>4, <1>5, <2>1, <2>3
  <2>5. ShareFits(learner[l])'
    BY <1>6, <1>7, <2>1, <2>4 DEF ShareFits, QueueCap, ArrivalPending
  <2> QED BY <1>0, <2>1, <2>2, <2>5 DEF QueueFits, QueueCap, ArrivalPending
<1> QED BY <1>9, <1>10, <1>11, <1>12 DEF TagInv

LEMMA StillBelow ==
    ASSUME NEW before \in Nat, NEW after \in Nat, NEW n \in Nat, NEW c \in Nat, NEW most \in Nat,
           after <= before + n, before + c + n <= most
    PROVE  after + c <= most
OBVIOUS

(* It commits what it ranked, or fails on a row that came before it.        *)
LEMMA CommittedTag ==
    ASSUME TagInv, NEW l \in Learners, CommitLearned(l)
    PROVE  TagInv'
<1>0. TagTyped /\ RowHeld /\ WorkFits /\ QueueFits /\ learner[l] \in LearnerRecords
  BY DEF TagInv, TagTyped
<1>1. learner[l].pc = "ranked" /\ tagLock' = {} /\ UNCHANGED <<arrival, tagBudget>>
  BY DEF CommitLearned
<1>2. tagLock = {l} /\ \A m \in Learners \ {l} : learner[m].pc \notin {"ranking", "ranked"}
  BY <1>0, <1>1 DEF RowHeld
<1>3. Counted' = Counted /\ AtScoring' = AtScoring
  BY <1>1 DEF Counted, AtScoring
<1>4. \A f \in LearnerRecords :
        learner' = [learner EXCEPT ![l] = f] /\ f.pc \in {"free", "message"}
          => /\ learner' \in [Learners -> LearnerRecords] /\ AtLearning' \subseteq AtLearning
             /\ \A m \in Learners : learner'[m].pc \notin {"ranking", "ranked"}
  BY <1>0, <1>2, OneLearns
<1>5. IdleLearner \in LearnerRecords /\ IdleLearner.pc = "free"
      /\ \A pc \in {"free", "message"} :
           [IdleLearner EXCEPT !.pc = pc] \in LearnerRecords /\ [IdleLearner EXCEPT !.pc = pc].pc = pc
  BY TagSizes DEF IdleLearner, LearnerRecords, Bars
<1>6. CASE \A a \in learner[l].offers : link[a] = "none"
  <2> DEFINE bar == IF learner[l].fresh = learner[l].bar THEN tag.bar ELSE learner[l].fresh
  <2>1. /\ link' = [a \in TagAssets |-> IF a \in learner[l].offers THEN "clip" ELSE link[a]]
        /\ tag' = [proto |-> learner[l].proto, bar |-> bar]
        /\ learner' = [learner EXCEPT ![l] = IdleLearner]
    BY <1>6 DEF CommitLearned
  <2>2. /\ learner' \in [Learners -> LearnerRecords] /\ AtLearning' \subseteq AtLearning
        /\ \A m \in Learners : learner'[m].pc \notin {"ranking", "ranked"}
    BY <1>4, <1>5, <2>1
  <2>3. tag' \in [proto : SUBSET (TagAssets \cup {"none"}), bar : Bars]
    <3>1. bar \in Bars /\ learner[l].proto \in SUBSET (TagAssets \cup {"none"})
      BY <1>0 DEF TagTyped, LearnerRecords
    <3> HIDE DEF bar
    <3> QED BY <2>1, <3>1
  <2>4. link' \in [TagAssets -> Settled \cup Pending \cup {"none"}]
    BY <1>0, <2>1 DEF TagTyped, Pending
  <2>5. TagTyped'
    BY <1>0, <1>1, <2>2, <2>3, <2>4 DEF TagTyped
  <2>6. RowHeld'
    BY <1>1, <2>2 DEF RowHeld
  <2>7. WorkFits'
    BY <1>0, <1>3, <2>2, FewerAtWork
  <2>8. QueueFits'
    <3> DEFINE n == Cardinality(learner[l].offers)
    <3>1. Guessed' \in SUBSET (Guessed \cup learner[l].offers)
      BY <2>1 DEF Guessed, Evidence
    <3>2. learner[l].offers \in SUBSET TagAssets /\ Guessed \in SUBSET TagAssets
          /\ Guessed' \in SUBSET TagAssets /\ Counted \in SUBSET TagAssets
      <4>1. learner[l].offers \in SUBSET TagAssets
        BY <1>0 DEF LearnerRecords
      <4>2. Guessed' \in SUBSET TagAssets
        BY DEF Guessed, Evidence
      <4> QED BY <4>1, <4>2, TagSizes
    <3>3. /\ IsFiniteSet(Guessed) /\ IsFiniteSet(learner[l].offers)
          /\ Cardinality(Guessed) \in Nat /\ Cardinality(Guessed') \in Nat
          /\ n \in Nat /\ Cardinality(Counted) \in Nat
      BY <3>2, TagSizes
    <3>4. Cardinality(Guessed') <= Cardinality(Guessed) + n
      BY <3>1, <3>3, SizeTogether
    <3>5. Cardinality(Guessed) + Cardinality(Counted) + n <= QueueCap
      BY <1>0, <1>1 DEF QueueFits, ShareFits, Queue
    <3>6. QueueCap \in Nat
      BY TagSizes DEF QueueCap, ArrivalPending
    <3>7. Cardinality(Guessed') + Cardinality(Counted) <= QueueCap
      <4> HIDE DEF n
      <4> QED BY <3>3, <3>4, <3>5, <3>6, StillBelow
    <3>8. Queue' <= QueueCap
      BY <1>3, <3>7 DEF Queue
    <3> QED BY <2>2, <3>8 DEF QueueFits, ShareFits, QueueCap, ArrivalPending
  <2> QED BY <2>5, <2>6, <2>7, <2>8 DEF TagInv
<1>7. CASE ~ \A a \in learner[l].offers : link[a] = "none"
  <2>1. PICK after \in {"message", "free"} : learner' = [learner EXCEPT ![l] = [IdleLearner EXCEPT !.pc = after]]
    BY <1>7 DEF CommitLearned
  <2>2. UNCHANGED <<link, tag>>
    BY <1>7 DEF CommitLearned
  <2>3. /\ learner' \in [Learners -> LearnerRecords] /\ AtLearning' \subseteq AtLearning
        /\ \A m \in Learners : learner'[m].pc \notin {"ranking", "ranked"}
    BY <1>4, <1>5, <2>1
  <2>4. TagTyped'
    BY <1>0, <1>1, <2>2, <2>3 DEF TagTyped
  <2>5. RowHeld'
    BY <1>1, <2>3 DEF RowHeld
  <2>6. WorkFits'
    BY <1>0, <1>3, <2>3, FewerAtWork
  <2>7. Guessed' = Guessed
    BY <2>2 DEF Guessed, Evidence
  <2>8. QueueFits'
    BY <1>0, <1>3, <2>3, <2>7, NothingAdded
  <2> QED BY <2>4, <2>5, <2>6, <2>8 DEF TagInv
<1> QED BY <1>6, <1>7

LEMMA KilledLearner ==
    ASSUME TagInv, NEW l \in Learners, LearnerDies(l)
    PROVE  TagInv'
<1> DEFINE g == [IdleLearner EXCEPT !.pc = "message"]
<1>1. /\ learner' = [learner EXCEPT ![l] = g] /\ tagLock' = tagLock \ {l}
      /\ UNCHANGED <<link, tag, arrival>> /\ TagSpend /\ TagTyped /\ WorkFits
  BY DEF LearnerDies, TagInv
<1>2. g \in LearnerRecords /\ g.pc = "message"
  BY TagSizes DEF IdleLearner, LearnerRecords, Bars
<1>3. /\ learner' \in [Learners -> LearnerRecords] /\ learner'[l] = g
      /\ \A m \in Learners \ {l} : learner'[m] = learner[m]
      /\ AtLearning' \subseteq AtLearning
  BY <1>1, <1>2, OneLearns
<1>4. AtScoring' = AtScoring /\ tagBudget' \in 0..TagIncidents
  BY <1>1, TagSpent DEF AtScoring
<1>5. WorkFits'
  BY <1>1, <1>3, <1>4, FewerAtWork
<1> QED BY <1>1, <1>2, <1>3, <1>4, <1>5, NothingPromised

-----------------------------------------------------------------------------
(* Arrivals.  One that begins takes one of the places at work.              *)
LEMMA ArrivedTag ==
    ASSUME TagInv, NEW a \in TagAssets, Arrive(a)
    PROVE  TagInv'
<1>0. TagTyped /\ RowHeld /\ WorkFits /\ QueueFits
  BY DEF TagInv
<1>1. /\ arrival[a] = "new" /\ ActiveWork < VisionSlots
      /\ UNCHANGED <<link, tag, tagLock, learner, tagBudget>>
  BY DEF Arrive
<1>2. PICK s \in {"scored", "over"} : arrival' = [arrival EXCEPT ![a] = s]
  BY DEF Arrive
<1>3. /\ arrival' \in [TagAssets -> {"new", "scored", "counted", "over"}]
      /\ arrival'[a] = s /\ \A b \in TagAssets \ {a} : arrival'[b] = arrival[b]
  BY <1>0, <1>2 DEF TagTyped
<1>4. Counted' = Counted /\ Guessed' = Guessed /\ AtLearning' = AtLearning
  BY <1>1, <1>3 DEF Counted, Guessed, Evidence, AtLearning
<1>5. AtScoring' \in SUBSET (AtScoring \cup {a})
  BY <1>3 DEF AtScoring
<1>6. WorkFits'
  <2>1. Cardinality(AtLearning) + Cardinality(AtScoring) < VisionSlots
    BY <1>1 DEF ActiveWork, AtLearning, AtScoring
  <2>2. Cardinality(AtScoring') <= Cardinality(AtScoring) + 1
    BY <1>5, TagSizes, SizeOneMore
  <2>3. Cardinality(AtLearning) \in Nat /\ Cardinality(AtScoring) \in Nat
        /\ Cardinality(AtScoring') \in Nat
    BY <1>5, TagSizes
  <2> QED BY <1>4, <2>1, <2>2, <2>3 DEF WorkFits, VisionSlots
<1>7. TagTyped'
  BY <1>0, <1>1, <1>3 DEF TagTyped
<1>8. RowHeld'
  BY <1>0, <1>1 DEF RowHeld
<1>9. QueueFits'
  BY <1>0, <1>1, <1>4, NothingAdded
<1> QED BY <1>6, <1>7, <1>8, <1>9 DEF TagInv

(* One that was counted below its own cap fits beside a learner's share, or *)
(* beside another that was counted.                                         *)
LEMMA ShareBeside ==
    ASSUME NEW g \in Nat, NEW c \in Nat, NEW m \in Nat \ {0}, NEW n \in Nat,
           g < 2 * m, n <= m, c <= 2, n = 0 \/ c <= 1
    PROVE  g + c + n <= 3 * m
OBVIOUS

LEMMA CountedTag ==
    ASSUME TagInv, NEW a \in TagAssets, CountPending(a)
    PROVE  TagInv'
<1>0. TagTyped /\ RowHeld /\ WorkFits /\ QueueFits
  BY DEF TagInv
<1>1. /\ arrival[a] = "scored"
      /\ UNCHANGED <<link, tag, tagLock, learner, tagBudget>>
  BY DEF CountPending
<1>2. PICK s \in {"counted", "over"} :
          arrival' = [arrival EXCEPT ![a] = s] /\ (s = "counted" => Waiting < ArrivalPending)
  BY DEF CountPending
<1>3. /\ arrival' \in [TagAssets -> {"new", "scored", "counted", "over"}]
      /\ arrival'[a] = s /\ \A b \in TagAssets \ {a} : arrival'[b] = arrival[b]
  BY <1>0, <1>2 DEF TagTyped
<1>4. Guessed' = Guessed /\ AtLearning' = AtLearning
  BY <1>1 DEF Guessed, Evidence, AtLearning
<1>5. AtScoring' \subseteq AtScoring
  BY <1>1, <1>3 DEF AtScoring
<1>6. WorkFits'
  BY <1>0, <1>4, <1>5, FewerAtWork
<1>7. TagTyped'
  BY <1>0, <1>1, <1>3 DEF TagTyped
<1>8. RowHeld'
  BY <1>0, <1>1 DEF RowHeld
<1>9. QueueFits'
  <2>1. CASE s = "over"
    <3>1. Counted' \subseteq Counted
      BY <1>1, <1>3, <2>1 DEF Counted
    <3> QED BY <1>0, <1>1, <1>4, <3>1, NothingAdded
  <2>2. CASE s = "counted"
    <3>1. Counted' = Counted \cup {a} /\ a \in AtScoring \ Counted
      BY <1>1, <1>3, <2>2 DEF Counted, AtScoring
    <3>2. /\ Guessed \in SUBSET TagAssets /\ Counted \in SUBSET TagAssets
          /\ Counted' \in SUBSET (Counted \cup {a}) /\ Counted' \in SUBSET TagAssets
      BY <3>1, TagSizes
    <3>3. /\ Cardinality(Guessed) \in Nat /\ Cardinality(Counted) \in Nat
          /\ Cardinality(Counted') \in Nat /\ MaxPending \in Nat \ {0}
          /\ Cardinality(Counted') <= Cardinality(Counted) + 1
      BY <3>2, TagSizes, SizeOneMore
    <3>4. Cardinality(Counted') <= 2
      <4>1. Cardinality(Counted) <= 1
        BY <1>0, <3>1, OneBeside
      <4> QED BY <3>3, <4>1
    <3>5. \A l \in AtLearning : Cardinality(Counted') <= 1
      <4>1. \A l \in AtLearning : Counted = {}
        BY <1>0, <3>1, OneBeside
      <4>2. Cardinality({}) = 0
        BY FS_EmptySet
      <4> QED BY <3>3, <4>1, <4>2
    <3>6. Cardinality(Guessed) < 2 * MaxPending
      <4>1. Guessed \in SUBSET Evidence(Pending) /\ Evidence(Pending) \in SUBSET TagAssets
        BY DEF Guessed, Evidence, Pending
      <4>2. Cardinality(Guessed) <= Waiting /\ Waiting \in Nat
        BY <4>1, TagSizes, SizeWithin DEF Waiting
      <4> QED BY <1>2, <2>2, <3>3, <4>2 DEF ArrivalPending
    <3>7. QueueCap = 3 * MaxPending
      BY <3>3 DEF QueueCap, ArrivalPending
    <3>8. Queue' = Cardinality(Guessed) + Cardinality(Counted')
      BY <1>4 DEF Queue
    <3>9. Queue' <= QueueCap
      <4>1. Cardinality(Guessed) + Cardinality(Counted') + 0 <= 3 * MaxPending
        BY <3>3, <3>4, <3>6, ShareBeside
      <4> QED BY <3>3, <3>7, <3>8, <4>1
    <3>10. ASSUME NEW l \in AtLearning, NEW n \in Nat, n <= MaxPending
           PROVE  Queue' + n <= QueueCap
      <4>1. Cardinality(Guessed) + Cardinality(Counted') + n <= 3 * MaxPending
        BY <3>3, <3>4, <3>5, <3>6, <3>10, ShareBeside
      <4> QED BY <3>7, <3>8, <4>1
    <3>11. ASSUME NEW l \in Learners PROVE ShareFits(learner[l])'
      <4>1. learner[l].pc \in {"ranking", "ranked"} => l \in AtLearning
        BY DEF AtLearning
      <4>2. learner[l].room \in 0..MaxPending /\ learner[l].offers \in SUBSET TagAssets
        BY <1>0 DEF TagTyped, LearnerRecords
      <4>3. learner[l].room \in Nat /\ learner[l].room <= MaxPending
            /\ Cardinality(learner[l].offers) \in Nat
        BY <3>3, <4>2, TagSizes
      <4>4. learner[l].pc = "ranked" => Cardinality(learner[l].offers) <= MaxPending
        BY <1>0 DEF QueueFits, ShareFits
      <4> QED BY <1>1, <3>10, <4>1, <4>3, <4>4 DEF ShareFits, QueueCap, ArrivalPending
    <3> QED BY <3>9, <3>11 DEF QueueFits, QueueCap, ArrivalPending
  <2> QED BY <2>1, <2>2
<1> QED BY <1>6, <1>7, <1>8, <1>9 DEF TagInv

(* What was counted is inserted, or a row has come before it.               *)
LEMMA OfferedTag ==
    ASSUME TagInv, NEW a \in TagAssets, Offer(a)
    PROVE  TagInv'
<1>0. TagTyped /\ RowHeld /\ WorkFits /\ QueueFits
  BY DEF TagInv
<1>1. /\ arrival[a] = "counted" /\ arrival' = [arrival EXCEPT ![a] = "over"]
      /\ link' = [link EXCEPT ![a] = IF link[a] = "none" THEN "clip" ELSE link[a]]
      /\ UNCHANGED <<tag, tagLock, learner, tagBudget>>
  BY DEF Offer
<1>2. /\ arrival' \in [TagAssets -> {"new", "scored", "counted", "over"}]
      /\ arrival'[a] = "over" /\ \A b \in TagAssets \ {a} : arrival'[b] = arrival[b]
  BY <1>0, <1>1 DEF TagTyped
<1>3. /\ link' \in [TagAssets -> Settled \cup Pending \cup {"none"}]
      /\ \A b \in TagAssets \ {a} : link'[b] = link[b]
  BY <1>0, <1>1 DEF TagTyped, Pending
<1>4. AtScoring' \subseteq AtScoring /\ AtLearning' = AtLearning
  BY <1>1, <1>2 DEF AtScoring, AtLearning
<1>5. WorkFits'
  BY <1>0, <1>4, FewerAtWork
<1>6. TagTyped'
  BY <1>0, <1>1, <1>2, <1>3 DEF TagTyped
<1>7. RowHeld'
  BY <1>0, <1>1 DEF RowHeld
<1>8. QueueFits'
  <2>1. /\ Guessed' \in SUBSET (Guessed \cup {a}) /\ Counted' \in SUBSET (Counted \ {a})
        /\ a \in Counted
    BY <1>1, <1>2, <1>3 DEF Guessed, Evidence, Counted
  <2>2. /\ Guessed \in SUBSET TagAssets /\ Counted \in SUBSET TagAssets
        /\ Guessed' \in SUBSET TagAssets /\ Counted' \in SUBSET TagAssets
    BY <2>1, TagSizes
  <2>3. /\ Cardinality(Guessed) \in Nat /\ Cardinality(Counted) \in Nat
        /\ Cardinality(Guessed') \in Nat /\ Cardinality(Counted') \in Nat
        /\ IsFiniteSet(Guessed) /\ IsFiniteSet(Counted)
    BY <2>2, TagSizes
  <2>4. Cardinality(Guessed') <= Cardinality(Guessed) + 1
    BY <2>1, <2>3, SizeOneMore
  <2>5. Cardinality(Counted') + 1 <= Cardinality(Counted)
    BY <2>1, <2>3, SizeOneLess
  <2>6. Queue' \in Nat /\ Queue \in Nat /\ Queue' <= Queue /\ QueueCap \in Nat
    BY <2>3, <2>4, <2>5, TagSizes DEF Queue, QueueCap, ArrivalPending
  <2>7. \A n \in Nat : Queue + n <= QueueCap => Queue' + n <= QueueCap
    BY <2>6, StillFits
  <2>8. ASSUME NEW l \in Learners PROVE ShareFits(learner[l])'
    <3>0. learner[l] \in LearnerRecords
      BY <1>0 DEF TagTyped
    <3>1. learner[l].room \in Nat /\ learner[l].offers \in SUBSET TagAssets
      BY <3>0, TagSizes DEF LearnerRecords
    <3>2. Cardinality(learner[l].offers) \in Nat /\ ShareFits(learner[l])
      BY <1>0, <3>1, TagSizes DEF QueueFits
    <3> QED BY <1>1, <2>7, <3>1, <3>2 DEF ShareFits, QueueCap, ArrivalPending
  <2>9. Queue' <= QueueCap
    BY <1>0, <2>6 DEF QueueFits
  <2> QED BY <2>8, <2>9 DEF QueueFits, QueueCap, ArrivalPending
<1> QED BY <1>5, <1>6, <1>7, <1>8 DEF TagInv

LEMMA TagInvStarts == TagInit => TagInv
<1> SUFFICES ASSUME TagInit PROVE TagInv
  OBVIOUS
<1>1. /\ AtLearning = {} /\ AtScoring = {} /\ Counted = {} /\ Guessed = {}
      /\ \A l \in Learners : learner[l].pc = "free"
  BY DEF TagInit, IdleLearner, AtLearning, AtScoring, Counted, Guessed, Evidence
<1>2. Cardinality({}) = 0 /\ MaxPending \in Nat /\ TagIncidents \in Nat
  BY FS_EmptySet, TagSizes, TagAssumption DEF TagAssumption
<1>3. TagTyped
  <2>1. IdleLearner \in LearnerRecords
    BY <1>2 DEF IdleLearner, LearnerRecords, Bars
  <2>2. NoProto \in [proto : SUBSET (TagAssets \cup {"none"}), bar : Bars]
    BY DEF NoProto, Bars
  <2>3. link \in [TagAssets -> Settled \cup Pending \cup {"none"}]
    BY DEF TagInit, Settled, Positive
  <2> QED BY <1>2, <2>1, <2>2, <2>3 DEF TagInit, TagTyped
<1>4. RowHeld
  BY <1>1 DEF TagInit, RowHeld
<1>5. WorkFits
  BY <1>1, <1>2 DEF WorkFits, VisionSlots
<1>6. QueueFits
  BY <1>1, <1>2 DEF QueueFits, ShareFits, Queue, QueueCap, ArrivalPending
<1> QED BY <1>3, <1>4, <1>5, <1>6 DEF TagInv

LEMMA TagInvKept == TagInv /\ (TagNext \/ UNCHANGED tagVars) => TagInv'
<1>1. TagInv /\ UNCHANGED tagVars => TagInv'
  BY DEF tagVars, TagInv, TagTyped, RowHeld, WorkFits, QueueFits, ShareFits, Queue, QueueCap,
         ArrivalPending, Guessed, Evidence, Counted, AtLearning, AtScoring
<1>2. TagInv /\ TagNext => TagInv'
  BY AnsweredTag, DecidedTag, SuggestedTag, LoadedTag, LinksRead, RankedTag, CommittedTag,
     KilledLearner, ArrivedTag, CountedTag, OfferedTag
     DEF TagNext, Learning, Scoring, SuggestAll, RelearnByHand
<1> QED BY <1>1, <1>2

(* Who writes a link writes where there is none, or what still waits.       *)
LEMMA SettledAlone ==
    ASSUME TagInv, TagNext, NEW a \in TagAssets, link[a] \in Settled, link'[a] # link[a]
    PROVE  OneByOne(a)
<1>0. link \in [TagAssets -> Settled \cup Pending \cup {"none"}] /\ link[a] # "none"
      /\ link[a] \notin Pending
  BY DEF TagInv, TagTyped, Settled, Positive, Pending
<1>1. ASSUME NEW b \in TagAssets, OneByOne(b) PROVE OneByOne(a)
  <2>1. PICK source : link' = [link EXCEPT ![b] = source]
    BY <1>1 DEF OneByOne, AddTag, RemoveTag, Decide, Answer
  <2>2. a = b
    BY <1>0, <2>1
  <2> QED BY <1>1, <2>2
<1>2. ASSUME NEW b \in TagAssets, WriteProposals(b) PROVE FALSE
  BY <1>0, <1>2 DEF WriteProposals
<1>3. ASSUME NEW b \in TagAssets, Arrive(b) \/ CountPending(b) PROVE FALSE
  BY <1>3 DEF Arrive, CountPending
<1>4. ASSUME NEW b \in TagAssets, Offer(b) PROVE FALSE
  BY <1>0, <1>4 DEF Offer
<1>5. ASSUME NEW accept, NEW reject, DecideMany(accept, reject) PROVE FALSE
  BY <1>0, <1>5, SMTT(30) DEF DecideMany
<1>6. ASSUME NEW l \in Learners, LoadTag(l) \/ Teach(l) \/ ReadLinks(l) \/ Rank(l) \/ LearnerDies(l)
      PROVE  FALSE
  BY <1>6 DEF LoadTag, Teach, ReadLinks, Rank, LearnerDies
<1>7. ASSUME NEW l \in Learners, CommitLearned(l) PROVE FALSE
  <2>1. CASE \A b \in learner[l].offers : link[b] = "none"
    BY <1>0, <1>7, <2>1 DEF CommitLearned
  <2>2. CASE ~ \A b \in learner[l].offers : link[b] = "none"
    BY <1>7, <2>2 DEF CommitLearned
  <2> QED BY <2>1, <2>2
<1>8. QueueLearner => FALSE
  BY DEF QueueLearner
<1> QED BY <1>1, <1>2, <1>3, <1>4, <1>5, <1>6, <1>7, <1>8
        DEF TagNext, Scoring, Learning, SuggestAll, RelearnByHand

TagsInv == EditInv /\ ReviewsHeld /\ TagInv

LEMMA TagsInvStarts == StudioInit => TagsInv
<1> SUFFICES ASSUME StudioInit PROVE TagsInv
  OBVIOUS
<1>1. EditInv /\ TagInv /\ ReviewInit
  BY EditInvStarts, TagInvStarts DEF StudioInit
<1>2. ReviewRest
  BY <1>1 DEF ReviewInit, ReviewRest
<1>3. ASSUME NEW v \in Reviews PROVE Holds(review[v])
  <2>1. review[v].todo = {} /\ review[v].given = {} /\ review[v].now = {}
    BY <1>1 DEF ReviewInit, IdleReview
  <2> QED BY <2>1 DEF Holds
<1>4. RunsHold /\ AloneUnpaid
  BY <1>1, <1>3 DEF RunsHold, AloneUnpaid, ReviewInit
<1> QED BY <1>1, <1>2, <1>4 DEF TagsInv, ReviewsHeld

LEMMA TagsInvKept == TagsInv /\ [StudioNext]_studioVars => TagsInv'
<1> SUFFICES ASSUME TagsInv, [StudioNext]_studioVars PROVE TagsInv'
  OBVIOUS
<1>1. EditInv'
  BY EditInvKept DEF TagsInv
<1>2. UNCHANGED tagVars => TagInv'
  BY TagInvKept DEF TagsInv
<1>3. UNCHANGED reviewVars => ReviewsHeld'
  BY DEF reviewVars, TagsInv, ReviewsHeld, ReviewRest, RunsHold, AloneUnpaid, Lonely
<1>4. CASE EditsMove /\ EditNext
  BY <1>1, <1>2, <1>3, <1>4 DEF EditsMove, TagsInv
<1>5. CASE ReviewsMove /\ ReviewNext
  <2>1. ReviewsHeld'
    BY <1>5, ReviewsHeldKept DEF TagsInv, EditInv, CapInv
  <2> QED BY <1>1, <1>2, <1>5, <2>1 DEF ReviewsMove, TagsInv
<1>6. CASE TagsMove /\ TagNext
  BY <1>1, <1>3, <1>6, TagInvKept DEF TagsMove, TagsInv
<1>7. CASE UNCHANGED studioVars
  BY <1>1, <1>2, <1>3, <1>7 DEF studioVars, TagsInv
<1> QED BY <1>4, <1>5, <1>6, <1>7 DEF StudioNext

(* Whatever overlaps, dies or comes from a stale page: the pictures a       *)
(* sweep or a request picked are paid for once (pick_untagged), the queue   *)
(* of guesses keeps within both shares (_score_library and                  *)
(* suggest_tags_for_asset), and what the operator settled stays until the   *)
(* operator says otherwise of that asset (decide_many).                     *)
THEOREM TagsHold == StudioSpec => TagsKept
<1>1. TagsInv => ReviewTypeOK
  <2> SUFFICES ASSUME TagsInv PROVE ReviewTypeOK
    OBVIOUS
  <2>1. ReviewsOK /\ ReviewRest /\ RunsHold
    BY DEF TagsInv, EditInv, CapInv, ReviewsHeld
  <2>2. ASSUME NEW v \in Reviews
        PROVE  /\ review[v].todo \cup review[v].now \subseteq review[v].given
               /\ Cardinality(review[v].now) <= 1
    <3>1. Holds(review[v])
      BY <2>1 DEF RunsHold
    <3>2. Cardinality({}) = 0 /\ \A p \in Pictures : Cardinality({p}) = 1
      BY FS_EmptySet, FS_Singleton
    <3> QED BY <3>1, <3>2 DEF Holds
  <2> QED BY <2>1, <2>2 DEF ReviewTypeOK, ReviewsOK, ReviewRest
<1>2. TagsInv => PicksPayOnce
  BY DEF TagsInv, ReviewsHeld, AloneUnpaid, Unpaid, PicksPayOnce
<1>3. TagsInv => TagTypeOK
  <2> SUFFICES ASSUME TagsInv PROVE TagTypeOK
    OBVIOUS
  <2>1. TagTyped /\ RowHeld
    BY DEF TagsInv, TagInv
  <2>2. tagLock \subseteq Learners /\ Cardinality(tagLock) <= 1
    <3>1. Cardinality({}) = 0 /\ \A l \in Learners : Cardinality({l}) = 1
      BY FS_EmptySet, FS_Singleton
    <3> QED BY <2>1, <3>1 DEF RowHeld
  <2> QED BY <2>1, <2>2 DEF TagTyped, TagTypeOK
<1>4. TagsInv => PendingBounded
  <2> SUFFICES ASSUME TagsInv PROVE PendingBounded
    OBVIOUS
  <2>1. Cardinality(Guessed) \in Nat /\ Cardinality(Counted) \in Nat /\ QueueCap \in Nat
    <3>1. Guessed \in SUBSET TagAssets /\ Counted \in SUBSET TagAssets
      BY TagSizes
    <3> QED BY <3>1, TagSizes DEF QueueCap, ArrivalPending
  <2>2. Cardinality(Guessed) + Cardinality(Counted) <= QueueCap
    BY DEF TagsInv, TagInv, QueueFits, Queue
  <2>3. Cardinality(Guessed) <= QueueCap
    BY <2>1, <2>2
  <2> QED BY <2>3 DEF PendingBounded, Guessed, QueueCap
<1>5. TagsInv /\ [StudioNext]_studioVars =>
        [\A a \in TagAssets : link[a] \in Settled /\ link'[a] # link[a] => OneByOne(a)]_tagVars
  <2> SUFFICES ASSUME TagsInv, [StudioNext]_studioVars, ~ UNCHANGED tagVars
               PROVE  \A a \in TagAssets : link[a] \in Settled /\ link'[a] # link[a] => OneByOne(a)
    OBVIOUS
  <2>1. TagNext
    BY DEF StudioNext, EditsMove, ReviewsMove, TagsMove, studioVars
  <2> QED BY <2>1, SettledAlone DEF TagsInv
<1> QED
  BY <1>1, <1>2, <1>3, <1>4, <1>5, TagsInvStarts, TagsInvKept, PTL
  DEF StudioSpec, TagsKept, SettledStays
=============================================================================
