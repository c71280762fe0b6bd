----------------------------- MODULE Slideshow -----------------------------
(***************************************************************************)
(* A slideshow from proposal to film (api/v1/slideshows.py, media/          *)
(* slideshow.py, media/render.py, media/pipeline.py and the worker task     *)
(* render_slideshow).  Photographs are chosen, the approved ones stored,    *)
(* and each render cuts them into pieces in a working directory, joins the  *)
(* pieces and moves the film into place.  A second press queues a second    *)
(* render of the same row in the same directory.                            *)
(***************************************************************************)
EXTENDS Integers, Sequences, FiniteSets, SequencesExt, Sublists

CONSTANTS
    Photos, Persons,
    Taken,          \* photograph -> its place in capture order (undated ones last)
    Shows,          \* photograph -> the people in it
    Merits,         \* how well a photograph may fit, more is better
    SlideCounts,        \* how many slides may be asked for
    Paces,          \* settings: [hold, transition] in milliseconds
    Fps,
    Renderers,      \* worker processes of the media queue
    Presses, Deaths \* bounds: renders asked for, worker deaths

ASSUME SlideshowAssumption ==
    /\ IsFiniteSet(Photos) /\ IsFiniteSet(Persons)
    /\ Taken \in [Photos -> Nat] /\ Shows \in [Photos -> SUBSET Persons]
    /\ Merits \subseteq Nat /\ SlideCounts \subseteq Nat
    /\ \A p \in Paces : p.hold \in Nat /\ p.transition \in Nat
    /\ Fps \in Nat \ {0} /\ Presses \in Nat /\ Deaths \in Nat

VARIABLES
    proposal,       \* what propose answered: [chosen, kept, required, covered, missing]
    show,           \* the row: [status, slides, pace, path]
    press,          \* the request that queues: "none", "checked", "committed"
    queued,         \* render messages waiting
    job,            \* worker -> [pc, at]: the step it is at, the piece it renders
    dir,            \* the working directory: [there, whole, open, staged]
    film,           \* the file served: [state, cut]
    tidy,           \* history: no worker died, and no delete raced a render
    doubled,        \* history: two renders were under way at once
    pressesLeft, deathsLeft

slideVars == <<proposal, show, press, queued, job, dir, film, tidy, doubled,
               pressesLeft, deathsLeft>>
jobVars == <<proposal, press, pressesLeft>>

NoProposal == [chosen |-> << >>, kept |-> {}, required |-> {}, covered |-> {}, missing |-> {}]
NoShow == [status |-> "absent", slides |-> << >>, pace |-> CHOOSE p \in Paces : TRUE, path |-> FALSE]
NoDir == [there |-> FALSE, whole |-> {}, open |-> {}, staged |-> "none"]
NoFilm == [state |-> "none", cut |-> << >>]
Rest == [pc |-> "idle", at |-> 0]

SlidesInit ==
    /\ proposal = NoProposal /\ show = NoShow /\ press = "none" /\ queued = 0
    /\ job = [w \in Renderers |-> Rest] /\ dir = NoDir /\ film = NoFilm
    /\ tidy = TRUE /\ doubled = FALSE /\ pressesLeft = Presses /\ deathsLeft = Deaths

-----------------------------------------------------------------------------
(* A stable sort: each behind those it does not come before.                *)
Insert(sorted, f, rank) ==
    Kept(sorted, {g \in Photos : rank[g] <= rank[f]}) \o <<f>>
    \o Kept(sorted, {g \in Photos : ~(rank[g] <= rank[f])})
Sorted(list, rank) ==
    LET upto[i \in 0..Len(list)] == IF i = 0 THEN << >> ELSE Insert(upto[i - 1], list[i], rank)
    IN  upto[Len(list)]

(* collapse_near_duplicates: a frame that matches a kept one is dropped, or *)
(* takes its slot when it is better.                                        *)
Slots(kept, f, twins) == {i \in DOMAIN kept : {kept[i], f} \in twins}
Weigh(kept, f, twins, merit) ==
    IF Slots(kept, f, twins) = {} THEN Append(kept, f)
    ELSE IF merit[f] > merit[kept[Min(Slots(kept, f, twins))]]
    THEN [kept EXCEPT ![Min(Slots(kept, f, twins))] = f] ELSE kept
Collapse(frames, twins, merit) ==
    LET upto[i \in 0..Len(frames)] ==
            IF i = 0 THEN << >> ELSE Weigh(upto[i - 1], frames[i], twins, merit)
    IN  upto[Len(frames)]

(* select: each required person's best frame, ... *)
With(ranked, person, chosen) == Kept(ranked, {f \in Photos : person \in Shows[f]} \ ToSet(chosen))
AddBest(chosen, best) == IF best = << >> THEN chosen ELSE Append(chosen, best[1])
PeopleFirst(ranked, required) ==
    LET upto[i \in 0..Len(required)] ==
            IF i = 0 THEN << >> ELSE AddBest(upto[i - 1], With(ranked, required[i], upto[i - 1]))
    IN  upto[Len(required)]

FirstOf(list, n) == SubSeq(list, 1, IF n < Len(list) THEN n ELSE Len(list))

(* Defect: the target cuts the people off too. *)
ChooseToTarget(ranked, required, target) ==
    LET people == PeopleFirst(ranked, required)
    IN  Sorted(FirstOf(people \o Kept(ranked, Photos \ ToSet(people)), target), Taken)

(* ... then the best of the rest up to the target, back in capture order.   *)
Choose(ranked, required, target) ==
    LET people == PeopleFirst(ranked, required)
        room == IF target > Len(people) THEN target - Len(people) ELSE 0
    IN  Sorted(people \o FirstOf(Kept(ranked, Photos \ ToSet(people)), room), Taken)

Answer(kept, chosen, required) ==
    LET seen == UNION {Shows[f] : f \in ToSet(chosen)}
    IN  [chosen |-> chosen, kept |-> ToSet(kept), required |-> ToSet(required),
         covered |-> seen \cap ToSet(required), missing |-> ToSet(required) \ seen]

(* propose: what is a twin of what, and how good, is the library's. *)
BestFirstBy(merit) == [f \in Photos |-> -merit[f]]
Propose ==
    /\ show.status = "absent" /\ proposal = NoProposal
    /\ \E frames \in {Sorted(SetToSeq(Photos), Taken)}, merit \in [Photos -> Merits],
          twins \in SUBSET {{a, b} : a, b \in Photos} :
          \E kept \in {Collapse(frames, twins, merit)}, rank \in {BestFirstBy(merit)} :
          \E ranked \in {Sorted(kept, rank)}, target \in SlideCounts,
             required \in SetToAllKPermutations(Persons) :
              proposal' = Answer(kept, Choose(ranked, required, target), required)
    /\ UNCHANGED <<show, press, queued, job, dir, film, tidy, doubled, pressesLeft, deathsLeft>>

-----------------------------------------------------------------------------
(* create: a pace that cannot hold its transitions is refused; the row is   *)
(* committed before the message is sent.                                    *)
Create ==
    /\ show.status = "absent" /\ proposal.chosen # << >>
    /\ \E p \in Paces :
          /\ Len(proposal.chosen) > 1 => p.hold > 2 * p.transition
          /\ show' = [status |-> "pending", slides |-> proposal.chosen, pace |-> p, path |-> FALSE]
    /\ press' = "committed" /\ proposal' = NoProposal
    /\ UNCHANGED <<queued, job, dir, film, tidy, doubled, pressesLeft, deathsLeft>>

(* _queue: with the queue down the row stays pending. *)
Queue ==
    /\ press = "committed" /\ press' = "none"
    /\ queued' \in {queued, queued + 1}
    /\ UNCHANGED <<proposal, show, job, dir, film, tidy, doubled, pressesLeft, deathsLeft>>

(* rerender: refused while rendering; else marked pending and queued. *)
CheckRerender ==
    /\ press = "none" /\ pressesLeft > 0 /\ pressesLeft' = pressesLeft - 1
    /\ show.status \in {"pending", "ready", "failed"}
    /\ press' = "checked"
    /\ UNCHANGED <<proposal, show, queued, job, dir, film, tidy, doubled, deathsLeft>>

Rerender ==
    /\ press = "checked"
    /\ IF show.status = "deleted" THEN press' = "none" /\ UNCHANGED show
       ELSE press' = "committed" /\ show' = [show EXCEPT !.status = "pending"]
    /\ UNCHANGED <<proposal, queued, job, dir, film, tidy, doubled, pressesLeft, deathsLeft>>

-----------------------------------------------------------------------------
(* The timeline: seconds become frames by rounding (half to even), a slide  *)
(* keeps between its transitions what it does not share.                    *)
Rounded(n, d) ==
    LET q == n \div d
        r == 2 * (n % d)
    IN  IF r < d \/ (r = d /\ q % 2 = 0) THEN q ELSE q + 1
AtLeastOne(n) == IF n < 1 THEN 1 ELSE n
SlideFrames == AtLeastOne(Rounded(show.pace.hold * Fps, 1000))
FadeFrames == AtLeastOne(Rounded(show.pace.transition * Fps, 1000))

(* Defect: the fade is taken off the end only. *)
BodyWithoutStart(i) ==
    [slide |-> i, from |-> 0, to |-> SlideFrames - (IF i < Len(show.slides) THEN FadeFrames ELSE 0)]

BodyBounds(i) ==
    [slide |-> i, from |-> IF i > 1 THEN FadeFrames ELSE 0,
     to |-> SlideFrames - (IF i < Len(show.slides) THEN FadeFrames ELSE 0)]

Fade(i) == {[slide |-> i, from |-> SlideFrames - FadeFrames, to |-> SlideFrames],
            [slide |-> i + 1, from |-> 0, to |-> FadeFrames]}

(* plan_pieces: body 1, fade 1, body 2, ...: each piece as the ranges of    *)
(* frames it plays.                                                         *)
Plan == [k \in 1 .. 2 * Len(show.slides) - 1 |->
            IF k % 2 = 1 THEN {BodyBounds((k + 1) \div 2)} ELSE Fade(k \div 2)]
PlanFits == \A i \in DOMAIN show.slides : BodyBounds(i).from < BodyBounds(i).to

-----------------------------------------------------------------------------
(* render_slideshow: the message is held until the task ends. *)
Begin(w) ==
    /\ queued > 0 /\ job[w] = Rest /\ queued' = queued - 1
    /\ IF show.status = "deleted" THEN UNCHANGED <<show, job, doubled>>
       ELSE /\ show' = [show EXCEPT !.status = "rendering"]
            /\ job' = [job EXCEPT ![w].pc = "plan"]
            /\ doubled' = (doubled \/ \E v \in Renderers : job[v].pc # "idle")
    /\ UNCHANGED <<jobVars, dir, film, tidy, deathsLeft>>

(* Room, previews and pacing are checked before anything is encoded. *)
PlanRender(w) ==
    /\ job[w].pc = "plan"
    /\ job' = [job EXCEPT ![w] = IF PlanFits THEN [pc |-> "render", at |-> 1]
                                 ELSE [@ EXCEPT !.pc = "failing"]]
    /\ dir' = [dir EXCEPT !.there = TRUE]
    /\ UNCHANGED <<jobVars, show, queued, film, tidy, doubled, deathsLeft>>

CheckFails(w) ==
    /\ job[w].pc = "plan" /\ job' = [job EXCEPT ![w].pc = "failing"]
    /\ UNCHANGED <<jobVars, show, queued, dir, film, tidy, doubled, deathsLeft>>

(* run_piece: FFmpeg truncates the piece's file and writes it. *)
OpenPiece(w) ==
    /\ job[w].pc = "render" /\ job[w].at \in DOMAIN Plan
    /\ IF dir.there
       THEN /\ dir' = [dir EXCEPT !.whole = @ \ {job[w].at}, !.open = @ \cup {job[w].at}]
            /\ job' = [job EXCEPT ![w].pc = "encode"]
       ELSE job' = [job EXCEPT ![w].pc = "failing"] /\ UNCHANGED dir
    /\ UNCHANGED <<jobVars, show, queued, film, tidy, doubled, deathsLeft>>

(* The piece's file must be there, and the row to count it on. *)
ClosePiece(w) ==
    /\ job[w].pc = "encode"
    /\ LET k == job[w].at
       IN  IF k \in dir.open \cup dir.whole /\ show.status # "deleted"
           THEN /\ dir' = [dir EXCEPT !.whole = @ \cup {k}, !.open = @ \ {k}]
                /\ job' = [job EXCEPT ![w] = [pc |-> "render", at |-> k + 1]]
           ELSE job' = [job EXCEPT ![w].pc = "failing"] /\ UNCHANGED dir
    /\ UNCHANGED <<jobVars, show, queued, film, tidy, doubled, deathsLeft>>

EncodeFails(w) ==
    /\ job[w].pc \in {"encode", "stitch"}
    /\ job' = [job EXCEPT ![w].pc = "failing"]
    /\ UNCHANGED <<jobVars, show, queued, dir, film, tidy, doubled, deathsLeft>>

(* Defect: the pieces are joined where the film is served. *)
StitchInPlace(w) ==
    /\ job[w].pc = "render" /\ job[w].at \notin DOMAIN Plan
    /\ job' = [job EXCEPT ![w].pc = IF dir.there THEN "stitch" ELSE "failing"]
    /\ dir' = [dir EXCEPT !.staged = IF dir.there THEN "partial" ELSE @]
    /\ film' = IF dir.there THEN [NoFilm EXCEPT !.state = "partial"] ELSE film
    /\ UNCHANGED <<jobVars, show, queued, tidy, doubled, deathsLeft>>

(* stitch: joined under a temporary name in the working directory, ...      *)
Stitch(w) ==
    /\ job[w].pc = "render" /\ job[w].at \notin DOMAIN Plan
    /\ job' = [job EXCEPT ![w].pc = IF dir.there THEN "stitch" ELSE "failing"]
    /\ dir' = [dir EXCEPT !.staged = IF dir.there THEN "partial" ELSE @]
    /\ UNCHANGED <<jobVars, show, queued, film, tidy, doubled, deathsLeft>>

(* ... whole if the pieces were; a file another render has moved away is    *)
(* finished where it went.                                                  *)
Joined(w) ==
    /\ job[w].pc = "stitch"
    /\ LET pieces == DOMAIN Plan \subseteq dir.whole
           ready == pieces /\ dir.staged # "none"
       IN  /\ job' = [job EXCEPT ![w].pc = IF ready THEN "move" ELSE "failing"]
           /\ dir' = [dir EXCEPT !.staged = IF ready THEN "whole" ELSE @]
           /\ film' = IF pieces /\ ~ready /\ film.state = "partial"
                      THEN [film EXCEPT !.state = "whole"] ELSE film
    /\ UNCHANGED <<jobVars, show, queued, tidy, doubled, deathsLeft>>

(* ... and moved into place. *)
Move(w) ==
    /\ job[w].pc = "move"
    /\ IF dir.staged = "none" THEN job' = [job EXCEPT ![w].pc = "failing"] /\ UNCHANGED <<dir, film>>
       ELSE /\ film' = [state |-> dir.staged, cut |-> Plan]
            /\ dir' = [dir EXCEPT !.staged = "none"]
            /\ job' = [job EXCEPT ![w].pc = "done"]
    /\ UNCHANGED <<jobVars, show, queued, tidy, doubled, deathsLeft>>

(* The row says ready; the working directory goes. *)
Finish(w) ==
    /\ job[w].pc = "done" /\ job' = [job EXCEPT ![w] = Rest]
    /\ IF show.status = "deleted" THEN UNCHANGED <<show, dir>>
       ELSE show' = [show EXCEPT !.status = "ready", !.path = TRUE] /\ dir' = NoDir
    /\ UNCHANGED <<jobVars, queued, film, tidy, doubled, deathsLeft>>

(* Defect: the failure is logged and the row left as it was. *)
FailQuietly(w) ==
    /\ job[w].pc = "failing" /\ job' = [job EXCEPT ![w] = Rest]
    /\ UNCHANGED <<jobVars, show, queued, dir, film, tidy, doubled, deathsLeft>>

(* What raised: the row says failed, the pieces stay as evidence. *)
Fail(w) ==
    /\ job[w].pc = "failing" /\ job' = [job EXCEPT ![w] = Rest]
    /\ show' = IF show.status = "deleted" THEN show ELSE [show EXCEPT !.status = "failed"]
    /\ UNCHANGED <<jobVars, queued, dir, film, tidy, doubled, deathsLeft>>

(* A worker that dies gives its message back. *)
WorkerDies(w) ==
    /\ job[w].pc # "idle" /\ deathsLeft > 0 /\ deathsLeft' = deathsLeft - 1
    /\ job' = [job EXCEPT ![w] = Rest] /\ queued' = queued + 1 /\ tidy' = FALSE
    /\ UNCHANGED <<jobVars, show, dir, film, doubled>>

(* Defect: the file is unlinked only when the row says it can be watched. *)
DeleteIfReady ==
    /\ show.status \in {"pending", "rendering", "ready", "failed"}
    /\ show' = [show EXCEPT !.status = "deleted"]
    /\ film' = IF show.path /\ show.status = "ready" THEN NoFilm ELSE film
    /\ dir' = NoDir
    /\ tidy' = (tidy /\ \A w \in Renderers : job[w].pc = "idle")
    /\ UNCHANGED <<jobVars, queued, job, doubled, deathsLeft>>

(* delete_slideshow: the file the row names, the directory and the row. *)
DeleteShow ==
    /\ show.status \in {"pending", "rendering", "ready", "failed"}
    /\ show' = [show EXCEPT !.status = "deleted"]
    /\ film' = IF show.path THEN NoFilm ELSE film
    /\ dir' = NoDir
    /\ tidy' = (tidy /\ \A w \in Renderers : job[w].pc = "idle")
    /\ UNCHANGED <<jobVars, queued, job, doubled, deathsLeft>>

RenderStep(w) ==
    \/ PlanRender(w) \/ OpenPiece(w) \/ ClosePiece(w) \/ Stitch(w) \/ Joined(w)
    \/ Move(w) \/ Finish(w) \/ Fail(w)

SlidesNext ==
    \/ Propose \/ Create \/ Queue \/ CheckRerender \/ Rerender \/ DeleteShow
    \/ \E w \in Renderers : \/ Begin(w) \/ RenderStep(w) \/ CheckFails(w) \/ EncodeFails(w)
                            \/ WorkerDies(w)

(* A worker takes what is queued and its task runs to its end. *)
SlidesFairness ==
    /\ WF_slideVars(\E w \in Renderers : Begin(w))
    /\ \A w \in Renderers : WF_slideVars(RenderStep(w))

SlidesSpec == SlidesInit /\ [][SlidesNext]_slideVars /\ SlidesFairness

-----------------------------------------------------------------------------
SlidesTypeOK ==
    /\ show.status \in {"absent", "pending", "rendering", "ready", "failed", "deleted"}
    /\ ToSet(show.slides) \subseteq Photos /\ IsInjective(show.slides)
    /\ press \in {"none", "checked", "committed"} /\ queued \in 0 .. Presses + Deaths + 1
    /\ \A w \in Renderers : job[w].pc \in {"idle", "plan", "render", "encode", "stitch", "move",
                                           "done", "failing"}
    /\ dir.staged \in {"none", "partial", "whole"} /\ film.state \in {"none", "partial", "whole"}
    /\ show.status = "ready" => show.path

(* "Nobody left out": a required person who is in any frame that survived   *)
(* the collapse is in the proposal, however few slides were asked for; and  *)
(* who is missing is said.                                                  *)
NobodyLeftOut ==
    /\ \A f \in proposal.kept : Shows[f] \cap proposal.required \subseteq proposal.covered
    /\ proposal.covered \cup proposal.missing = proposal.required
    /\ proposal.covered \cap proposal.missing = {}

(* The film plays every slide from its first frame to its last, once, in    *)
(* the order that was approved: a body and the fade that abuts it agree     *)
(* about the boundary.                                                      *)
Played(i) == UNION {{r \in film.cut[k] : r.slide = i} : k \in DOMAIN film.cut}
FilmIsWhole ==
    film.state = "whole" =>
        \A i \in DOMAIN show.slides :
            /\ \A r, s \in Played(i) : r # s => r.to <= s.from \/ s.to <= r.from
            /\ \E r \in Played(i) : r.from = 0
            /\ \A r \in Played(i) : r.to = SlideFrames \/ \E s \in Played(i) : s.from = r.to

(* "An interrupted render never leaves behind something that looks like a   *)
(* finished video": what is served is no half-written file, unless two      *)
(* renders shared the directory.                                            *)
WatchedIsFinished == ~doubled => film.state # "partial"

(* A deleted slideshow leaves no film, unless a worker died or was at work. *)
DeletedIsGone == show.status = "deleted" /\ tidy => film.state = "none"

(* A slideshow does not say "rendering" for ever: it ends ready, failed or  *)
(* deleted, through failures and deaths of workers.                         *)
RendersEnd == show.status = "rendering" ~> show.status # "rendering"

=============================================================================
