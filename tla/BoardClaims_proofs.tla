------------------------- MODULE BoardClaims_proofs -------------------------
(***************************************************************************)
(* What the board claims guarantee for every set of tasks and of requests, *)
(* and under every set of faults.                                          *)
(***************************************************************************)
EXTENDS BoardClaims, TLAPS

USE KeeperAssumption, NoneAssumption

\* Who speaks for a row belongs to its scheduler, and a row that the next
\* start may reap has no holder left.
RowShape(t) ==
    /\ claim[t].state = "none" <=> claim[t].kind = "none"
    /\ claim[t].kind = "none" => claim[t].keepers = {}
    /\ \A k \in claim[t].keepers : claim[t].kind = IF k = "job" THEN "in_box" ELSE "external"
    /\ claim[t].old => claim[t].kind = "in_box" /\ claim[t].keepers = {}

\* An engine of this gate works alone, in the turn that holds the slot, under
\* a row of this boot.
BoxHeld(t) ==
    "box" \in workers[t] =>
        /\ "orphan" \notin workers[t]
        /\ claim[t].kind = "in_box" /\ ~claim[t].old
        /\ job.task = t /\ job.at \in {"work", "review"}

\* An engine that outlived its gate is protected by a row nobody can give up.
OrphanHeld(t) ==
    "orphan" \in workers[t] =>
        claim[t].kind = "in_box" /\ ~claim[t].old /\ claim[t].keepers = {}

\* A room is at work under a row that has left its first state.
RoomHeld(t) == room[t] = "live" => External(t) /\ claim[t].state # "active"

\* The request that may still withdraw a new row is its only holder.
Claiming(q, t) ==
    req[q].task = t /\ req[q].at \in {"claiming", "reclaiming"} /\ q \in claim[t].keepers
        => claim[t].state = "active" /\ claim[t].keepers = {q}

\* A request that may settle a room began when its worker was gone.
Ending(q, t) ==
    req[q].task = t /\ req[q].at \in {"completing", "stopping", "recovering"}
        => room[t] = "ended"

IInv ==
    /\ TypeOK
    /\ \A t \in Tasks : RowShape(t) /\ BoxHeld(t) /\ OrphanHeld(t) /\ RoomHeld(t)
    /\ \A t \in Tasks, q \in Requests : Claiming(q, t) /\ Ending(q, t)
    /\ ReceiptIsFinal

-----------------------------------------------------------------------------
(* What one step may do to the rows                                        *)

\* The row stays, with no other holder than before.
Kept(t) ==
    /\ claim'[t].kind = claim[t].kind /\ claim'[t].old = claim[t].old
    /\ claim'[t].state = "none" <=> claim[t].state = "none"
    /\ claim'[t].keepers \subseteq claim[t].keepers
    /\ External(t) => claim'[t].state = claim[t].state

\* The pipeline deletes the row it holds, or takes one where none was.
GivenBack(t) == "job" \in claim[t].keepers /\ claim'[t] = NoClaim
Taken(t) == ~Row(t) /\ claim'[t] = Acquired("in_box", "job")

\* Only the row of t changes, in one of these ways.
RowStep(t) ==
    /\ claim' \in [Tasks -> Claims]
    /\ \A u \in Tasks \ {t} : claim'[u] = claim[u]
    /\ Kept(t) \/ GivenBack(t) \/ Taken(t)

\* A step of the pipeline: an engine starts under the pipeline's own row.
PipelineStep ==
    /\ TypeOK'
    /\ UNCHANGED <<receipt, cache, req, room>>
    /\ \A u \in Tasks :
        /\ Kept(u) \/ GivenBack(u) \/ Taken(u)
        /\ workers'[u] \subseteq workers[u] \cup {"box"}
        /\ "box" \in workers'[u] =>
            /\ "box" \in workers[u] \/ "job" \in claim[u].keepers
            /\ Kept(u) /\ job'.task = u /\ job'.at \in {"work", "review"}

\* The typing of the pipeline's own record and of the sidecar.
JobType == [at : Stages, task : Tasks \cup {None},
            then : {"release", "finish", "park", "unstarted"}, free : BOOLEAN,
            seen : [Tasks -> Cards], snap : [Tasks -> Sides]]
SideType == [Tasks -> Sides]

-----------------------------------------------------------------------------
(* Commands and cards                                                      *)

LEMMA HermesTypes ==
    ASSUME NEW verb \in Verbs, NEW c \in Cards
    PROVE  /\ Effect(verb, c) \in Cards
           /\ \A h \in Hermes(verb, c) : h.card \in Cards
           /\ After(verb, c) \subseteq Cards
<1>1. Effect(verb, c) \in Cards
  BY DEF Effect, Cards, Verbs
<1>2. \A h \in Hermes(verb, c) : h.card \in Cards
  BY <1>1 DEF Hermes
<1> QED
  BY <1>1, <1>2 DEF After

LEMMA ForceBlockedType ==
    ASSUME NEW c \in Cards, NEW free
    PROVE  ForceBlocked(c, free) \subseteq Cards
<1> DEFINE Again(d) == UNION {After("block", e) : e \in After("claim", d)}
<1>1. {"block", "claim"} \subseteq Verbs
  BY DEF Verbs
<1>2. \A d \in Cards : Again(d) \subseteq Cards
  BY <1>1, HermesTypes
<1> HIDE DEF Again
<1>3. \A d \in After("block", c) :
         (IF d = "blocked" \/ ~free THEN {d} ELSE Again(d)) \subseteq Cards
  BY <1>1, <1>2, HermesTypes
<1>4. ForceBlocked(c, free) =
         UNION {IF d = "blocked" \/ ~free THEN {d} ELSE Again(d) : d \in After("block", c)}
  BY DEF ForceBlocked, Again
<1> QED
  BY <1>3, <1>4

-----------------------------------------------------------------------------
(* Rows of the pipeline                                                    *)

LEMMA RowUpdate ==
    ASSUME claim \in [Tasks -> Claims], NEW t \in Tasks, NEW c \in Claims,
           claim' = [claim EXCEPT ![t] = c]
    PROVE  /\ claim' \in [Tasks -> Claims]
           /\ \A u \in Tasks \ {t} : claim'[u] = claim[u]
           /\ claim'[t] = c
  OBVIOUS

LEMMA IdleTypes == Idle \in JobType /\ NoSide \in Sides
  BY DEF Idle, JobType, NoSide, Sides, Stages, Cards

LEMMA SameRow ==
    ASSUME claim \in [Tasks -> Claims], NEW t \in Tasks, UNCHANGED claim
    PROVE  RowStep(t)
  BY DEF RowStep, Kept

\* A holder is dropped.
LEMMA HolderDropped ==
    ASSUME claim \in [Tasks -> Claims], NEW t \in Tasks, NEW k,
           claim' = [claim EXCEPT ![t].keepers = @ \ {k}]
    PROVE  RowStep(t)
  BY DEF RowStep, Kept, Claims

LEMMA ReleaseStep ==
    ASSUME claim \in [Tasks -> Claims], NEW t \in Tasks, Release(t, "job")
    PROVE  RowStep(t)
<1>1. NoClaim \in Claims
  BY DEF NoClaim, Claims
<1> QED
  BY <1>1 DEF Release, RowStep, GivenBack, Current

LEMMA TransitionStep ==
    ASSUME claim \in [Tasks -> Claims], NEW t \in Tasks, RowShape(t),
           NEW from, NEW to \in LiveStates, Transition(t, "job", from, to)
    PROVE  RowStep(t)
<1>1. /\ ~External(t) /\ claim[t].state # "none" /\ to # "none"
  BY DEF Transition, Current, RowShape, External, Live, LiveStates
<1>2. claim'[t] = [claim[t] EXCEPT !.state = to] /\ [claim[t] EXCEPT !.state = to] \in Claims
  BY DEF Transition, Claims, LiveStates
<1> QED
  BY <1>1, <1>2 DEF RowStep, Kept, Transition, Claims

-----------------------------------------------------------------------------
(* Turns of the pipeline, by what they are made of                         *)

\* The row, the sidecar and the turn after a step about t.
TurnStep(t) == RowStep(t) /\ side' \in SideType /\ job' \in JobType

LEMMA SideTypes ==
    ASSUME side \in SideType, NEW t \in Tasks
    PROVE  /\ Quarantined(t) \in SideType
           /\ \A phase \in {"none", "review", "work", "limbo"} : Pending(t, phase) \in SideType
           /\ \A s \in SideType : \A gone : DropPending(s, gone) \in SideType
  BY DEF SideType, Sides, Quarantined, Pending, DropPending

LEMMA JobTypes ==
    ASSUME job \in JobType
    PROVE  /\ Done => job' \in JobType
           /\ \A at \in Stages, then \in {"release", "finish", "park", "unstarted"} :
                 Go(at, then) \/ Fresh(at, then) => job' \in JobType
           /\ \A t \in Tasks, then \in {"release", "finish", "park", "unstarted"} :
                 Park(t, then) => job' \in JobType
           /\ \A t \in Tasks : BlockThenRelease(t) => job' \in JobType
<1>1. Done => job' \in JobType
  BY IdleTypes DEF Done
<1>2. Idle.snap \in [Tasks -> Sides] /\ {"park", "quarantine"} \subseteq Stages
  BY IdleTypes DEF JobType, Stages
<1>3. ASSUME NEW at \in Stages, NEW then \in {"release", "finish", "park", "unstarted"},
             Go(at, then) \/ Fresh(at, then)
      PROVE  job' \in JobType
  BY <1>2, <1>3 DEF Go, Fresh, JobType
<1>4. ASSUME NEW t \in Tasks, NEW then \in {"release", "finish", "park", "unstarted"},
             Park(t, then)
      PROVE  job' \in JobType
  BY <1>2, <1>4 DEF Park, JobType, Row
<1>5. ASSUME NEW t \in Tasks, BlockThenRelease(t) PROVE job' \in JobType
  BY <1>1, <1>2, <1>5 DEF BlockThenRelease, JobType, Row
<1> QED
  BY <1>1, <1>3, <1>4, <1>5

\* Every way a turn may let go of its row.
LEMMA Endings ==
    ASSUME claim \in [Tasks -> Claims], side \in SideType, job \in JobType, NEW t \in Tasks,
           \/ Discard \/ Quarantine(t) \/ Lost(t) \/ FailClaim(t) \/ GiveBack(t) \/ FinishVerified(t)
    PROVE  TurnStep(t)
<1>1. ASSUME Discard PROVE TurnStep(t)
  BY <1>1, JobTypes, SameRow DEF Discard, TurnStep
<1>2. ASSUME Quarantine(t) PROVE TurnStep(t)
  BY <1>2, JobTypes, SideTypes, HolderDropped DEF Quarantine, TurnStep
<1>3. ASSUME Lost(t) PROVE TurnStep(t)
  BY <1>1, <1>2, <1>3 DEF Lost
<1>4. ASSUME FailClaim(t) PROVE TurnStep(t)
  BY <1>1, <1>2, <1>4 DEF FailClaim
<1>5. ASSUME GiveBack(t) PROVE TurnStep(t)
  <2>1. CASE Release(t, "job") /\ Done /\ UNCHANGED side
    BY <2>1, JobTypes, ReleaseStep DEF TurnStep
  <2> QED
    BY <1>4, <1>5, <2>1 DEF GiveBack
<1>6. ASSUME FinishVerified(t) PROVE TurnStep(t)
  <2>1. RowStep(t)
    BY <1>6, ReleaseStep, HolderDropped DEF FinishVerified
  <2> QED
    BY <1>6, <2>1, JobTypes DEF FinishVerified, TurnStep
<1> QED
  BY <1>1, <1>2, <1>3, <1>4, <1>5, <1>6

\* A step of the pipeline in which no engine starts or works on.
LEMMA QuietStep ==
    ASSUME IInv, NEW t \in Tasks, TurnStep(t),
           card' \in [Tasks -> Cards], sweep' \subseteq Tasks, lock' \in [Tasks -> Actions],
           workers' \in [Tasks -> SUBSET Engines],
           \A u \in Tasks : workers'[u] \subseteq workers[u] \ {"box"},
           UNCHANGED <<receipt, cache, req, room>>
    PROVE  PipelineStep
<1>1. TypeOK'
  BY DEF TurnStep, RowStep, TypeOK, IInv, SideType, JobType
<1>2. \A u \in Tasks : Kept(u) \/ GivenBack(u) \/ Taken(u)
  BY DEF TurnStep, RowStep, Kept
<1> QED
  BY <1>1, <1>2 DEF PipelineStep

\* An engine starts.
LEMMA EngineStarts ==
    ASSUME IInv, NEW t \in Tasks, side' \in SideType, job' \in JobType,
           \A u \in Tasks : "box" \notin workers[u],
           "job" \in claim[t].keepers, job'.task = t, job'.at \in {"work", "review"},
           workers' = [workers EXCEPT ![t] = @ \cup {"box"}],
           sweep' \subseteq Tasks,
           UNCHANGED <<claim, receipt, cache, req, room, card, lock>>
    PROVE  PipelineStep
<1>1. workers' \in [Tasks -> SUBSET Engines]
  BY DEF IInv, TypeOK, Engines
<1>2. TypeOK'
  BY <1>1 DEF TypeOK, IInv, SideType, JobType
<1>3. \A u \in Tasks : Kept(u)
  BY DEF Kept, External
<1>4. \A u \in Tasks : workers'[u] = IF u = t THEN workers[u] \cup {"box"} ELSE workers[u]
  BY DEF IInv, TypeOK
<1> QED
  BY <1>2, <1>3, <1>4 DEF PipelineStep

\* A turn keeps the promises of a step of the pipeline.
LEMMA TurnSteps ==
    ASSUME IInv, NEW t \in Tasks, Turn(t), UNCHANGED roomVars
    PROVE  PipelineStep
<1>0. /\ claim \in [Tasks -> Claims] /\ card \in [Tasks -> Cards] /\ side \in SideType
      /\ job \in JobType /\ workers \in [Tasks -> SUBSET Engines]
      /\ sweep \subseteq Tasks /\ lock \in [Tasks -> Actions]
      /\ RowShape(t)
      /\ UNCHANGED <<cache, req, room>>
  BY DEF IInv, TypeOK, SideType, JobType, roomVars
<1>a. job.at \notin {"work", "review"} => \A u \in Tasks : "box" \notin workers[u]
  BY DEF IInv, BoxHeld
<1>b. job.task = t => \A u \in Tasks \ {t} : "box" \notin workers[u]
  BY DEF IInv, BoxHeld
\* A turn that leaves the engines alone, or whose own engine has ended.
<1>1. ASSUME job.at \notin {"work", "review"}, TurnStep(t), card' \in [Tasks -> Cards],
             UNCHANGED <<receipt, workers, sweep, lock>>
      PROVE  PipelineStep
  BY <1>0, <1>a, <1>1, QuietStep
<1>2. ASSUME job.task = t, TurnStep(t), card' \in [Tasks -> Cards],
             workers' = [workers EXCEPT ![t] = @ \ {"box"}],
             UNCHANGED <<receipt, sweep, lock>>
      PROVE  PipelineStep
  BY <1>0, <1>b, <1>2, QuietStep
<1>c. ASSUME UNCHANGED claim, side' \in SideType, job' \in JobType PROVE TurnStep(t)
  BY <1>0, <1>c, SameRow DEF TurnStep
\* Where a turn may go, and what it may write.
<1>d. /\ {"claim", "prepare", "work", "advance", "handoffs", "comment", "fallback", "complete",
          "approve", "note", "block", "finish", "reclaim"} \subseteq Stages
      /\ {"block", "complete", "reclaim", "claim"} \subseteq Verbs
      /\ job.snap \in SideType
  BY <1>0 DEF Stages, Verbs, JobType, SideType
<1>e. ASSUME UNCHANGED claim, side' \in SideType,
             \/ Done
             \/ \E at \in Stages, then \in {"release", "finish", "park", "unstarted"} :
                   Go(at, then) \/ Fresh(at, then)
             \/ \E then \in {"release", "finish", "park", "unstarted"} : Park(t, then)
      PROVE  TurnStep(t)
  BY <1>0, <1>c, <1>e, JobTypes
<1>f. ASSUME Discard \/ Quarantine(t) \/ Lost(t) \/ FailClaim(t) \/ GiveBack(t) \/ FinishVerified(t)
      PROVE  TurnStep(t)
  BY <1>0, <1>f, Endings
<1>g. ASSUME NEW d \in Cards, card' = [card EXCEPT ![t] = d] PROVE card' \in [Tasks -> Cards]
  BY <1>0, <1>g
<1>h. ASSUME NEW verb \in {"block", "complete", "reclaim", "claim"}, NEW h \in Hermes(verb, card[t]),
             card' = [card EXCEPT ![t] = h.card]
      PROVE  card' \in [Tasks -> Cards]
  BY <1>0, <1>d, <1>g, <1>h, HermesTypes
<1>3. ASSUME Classified(t) PROVE PipelineStep
  <2>1. ASSUME TryAcquire(t, "in_box", "job"), Go("claim", "release"), UNCHANGED side
        PROVE  TurnStep(t)
    <3>1. Acquired("in_box", "job") \in Claims
      BY DEF Acquired, Claims, LiveStates, Keepers
    <3>2. RowStep(t)
      BY <1>0, <2>1, <3>1 DEF TryAcquire, RowStep, Taken
    <3> QED
      BY <1>0, <1>d, <2>1, <3>2, JobTypes DEF TurnStep
  <2>2. TurnStep(t)
    BY <1>0, <1>3, <1>d, <1>e, <2>1 DEF Classified
  <2> QED
    BY <1>0, <1>1, <1>3, <2>2 DEF Classified
<1>4. ASSUME Claimed(t) PROVE PipelineStep
  <2>1. PICK h \in Hermes("claim", card[t]) :
          /\ card' = [card EXCEPT ![t] = h.card]
          /\ \/ ~h.ok /\ GiveBack(t)
             \/ h.ok /\ Quarantine(t)
             \/ h.ok /\ ~Mine(t) /\ FailClaim(t)
             \/ /\ h.ok /\ Mine(t)
                /\ \/ /\ claim' = [claim EXCEPT ![t].state = "running", ![t].keepers = {}]
                      /\ side' = Quarantined(t)
                      /\ BlockThenRelease(t)
                   \/ /\ Transition(t, "job", "active", "running")
                      /\ side' = job.snap
                      /\ Fresh("reclaim", "release") \/ Fresh("prepare", "release")
    BY <1>4 DEF Claimed
  <2>2. ASSUME Mine(t), claim' = [claim EXCEPT ![t].state = "running", ![t].keepers = {}],
               side' = Quarantined(t), BlockThenRelease(t)
        PROVE  TurnStep(t)
    <3>1. ~External(t) /\ claim[t].state # "none"
      BY <1>0, <2>2 DEF Mine, Current, Live, LiveStates, RowShape, External
    <3>2. /\ claim'[t] = [claim[t] EXCEPT !.state = "running", !.keepers = {}]
          /\ [claim[t] EXCEPT !.state = "running", !.keepers = {}] \in Claims
      BY <1>0, <2>2 DEF Claims, LiveStates
    <3>3. RowStep(t)
      BY <1>0, <2>2, <3>1, <3>2 DEF RowStep, Kept, Claims
    <3> QED
      BY <1>0, <2>2, <3>3, JobTypes, SideTypes DEF TurnStep
  <2>3. ASSUME Transition(t, "job", "active", "running"), side' = job.snap,
               Fresh("reclaim", "release") \/ Fresh("prepare", "release")
        PROVE  TurnStep(t)
    <3>1. RowStep(t)
      BY <1>0, <2>3, TransitionStep DEF LiveStates
    <3> QED
      BY <1>0, <1>d, <2>3, <3>1, JobTypes DEF TurnStep
  <2>4. TurnStep(t)
    BY <1>f, <2>1, <2>2, <2>3
  <2> QED
    BY <1>1, <1>4, <1>h, <2>1, <2>4 DEF Claimed
<1>5. ASSUME Prepared(t) PROVE PipelineStep
  <2>1. CASE Fresh("work", "release") /\ Mine(t) /\ UNCHANGED <<claim, side>>
             /\ workers' = [workers EXCEPT ![t] = @ \cup {"box"}]
    <3>1. job'.task = t /\ job'.at = "work" /\ job' \in JobType
      BY <1>0, <1>5, <1>d, <2>1, JobTypes DEF Prepared, Fresh, JobType
    <3>2. "job" \in claim[t].keepers /\ \A u \in Tasks : "box" \notin workers[u]
      BY <1>5, <1>a, <2>1 DEF Prepared, Mine, Current
    <3> QED
      BY <1>0, <1>5, <2>1, <3>1, <3>2, EngineStarts DEF Prepared
  <2>2. CASE TurnStep(t) /\ UNCHANGED workers
    BY <1>0, <1>1, <1>5, <2>2 DEF Prepared
  <2> QED
    BY <1>0, <1>5, <1>d, <1>e, <1>f, <2>1, <2>2 DEF Prepared, Launch
<1>6. ASSUME Reclaimed(t) PROVE PipelineStep
  <2>1. PICK h \in Hermes("reclaim", card[t]) :
          card' = [card EXCEPT ![t] = h.card] /\ (Discard \/ GiveBack(t) \/ Quarantine(t))
    BY <1>6 DEF Reclaimed
  <2> QED
    BY <1>1, <1>6, <1>f, <1>h, <2>1 DEF Reclaimed
<1>7. ASSUME Worked(t) PROVE PipelineStep
  <2>1. ASSUME Transition(t, "job", "running", "awaiting_review") \/ UNCHANGED claim,
               UNCHANGED side,
               \E then \in {"release", "park"} :
                  job' = [job EXCEPT !.at = "handoffs", !.then = then, !.snap = side]
        PROVE  TurnStep(t)
    <3>1. RowStep(t)
      BY <1>0, <2>1, TransitionStep, SameRow DEF LiveStates
    <3>2. job' \in JobType
      BY <1>0, <1>d, <2>1 DEF JobType, SideType
    <3> QED
      BY <1>0, <2>1, <3>1, <3>2 DEF TurnStep
  <2>2. ASSUME FinishWork(t) PROVE TurnStep(t)
    BY <1>0, <1>d, <1>e, <2>1, <2>2, SideTypes DEF FinishWork
  <2>3. TurnStep(t)
    BY <1>0, <1>7, <1>d, <1>e, <1>f, <2>2 DEF Worked
  <2> QED
    BY <1>0, <1>2, <1>7, <2>3 DEF Worked
<1>8. ASSUME HandedOff(t) PROVE PipelineStep
  <2>1. \A phase \in {"none", "review"} : [job.snap EXCEPT ![t].pending = phase] \in SideType
    BY <1>d DEF SideType, Sides
  <2>2. TurnStep(t)
    BY <1>8, <1>d, <1>e, <1>f, <2>1 DEF HandedOff
  <2> QED
    BY <1>0, <1>1, <1>8, <2>2 DEF HandedOff
<1>9. ASSUME Commented(t) PROVE PipelineStep
  BY <1>0, <1>1, <1>9, <1>f DEF Commented
<1>10. ASSUME Reviewed(t) PROVE PipelineStep
  <2>1. ASSUME Verdict(t), UNCHANGED claim PROVE TurnStep(t)
    BY <1>0, <1>d, <1>e, <2>1, SideTypes DEF Verdict, Approve
  <2>2. TurnStep(t)
    BY <1>10, <1>f, <2>1 DEF Reviewed
  <2> QED
    BY <1>0, <1>2, <1>10, <2>2 DEF Reviewed
<1>11. ASSUME FellBack(t) PROVE PipelineStep
  <2>1. TurnStep(t)
    BY <1>0, <1>11, <1>d, <1>e DEF FellBack, Approve
  <2> QED
    BY <1>0, <1>1, <1>11, <2>1 DEF FellBack
<1>12. ASSUME Noted(t) PROVE PipelineStep
  <2>1. TurnStep(t)
    BY <1>0, <1>12, <1>d, <1>e, <1>f DEF Noted
  <2> QED
    BY <1>0, <1>1, <1>12, <2>1 DEF Noted
<1>13. ASSUME CompleteAnswered(t) PROVE PipelineStep
  <2>1. PICK h \in Hermes("complete", card[t]) :
          /\ card' = [card EXCEPT ![t] = h.card]
          /\ \/ Lost(t) \/ FinishVerified(t) \/ Discard
             \/ Park(t, "finish") /\ UNCHANGED <<claim, side>>
    BY <1>13 DEF CompleteAnswered
  <2>2. TurnStep(t)
    BY <1>0, <1>e, <1>f, <2>1
  <2> QED
    BY <1>1, <1>13, <1>h, <2>1, <2>2 DEF CompleteAnswered
<1>14. ASSUME Parked(t) PROVE PipelineStep
  <2>1. side' \in SideType
    <3>1. side' = [side EXCEPT ![t].parked = TRUE]
      BY <1>14 DEF Parked
    <3> QED
      BY <1>0, <3>1 DEF SideType, Sides
  <2>2. TurnStep(t)
    BY <1>14, <1>d, <1>e, <2>1 DEF Parked
  <2>3. card' \in [Tasks -> Cards]
    BY <1>0, <1>14, <1>g, ForceBlockedType DEF Parked
  <2> QED
    BY <1>1, <1>14, <2>2, <2>3 DEF Parked
<1>15. ASSUME Blocked(t) PROVE PipelineStep
  <2>1. TurnStep(t)
    BY <1>0, <1>15, <1>d, <1>e DEF Blocked
  <2>2. card' \in [Tasks -> Cards]
    BY <1>0, <1>15, <1>d, <1>g, HermesTypes DEF Blocked
  <2> QED
    BY <1>1, <1>15, <2>1, <2>2 DEF Blocked
<1>16. ASSUME Finished(t) PROVE PipelineStep
  BY <1>0, <1>1, <1>16, <1>f DEF Finished
<1>17. ASSUME QuarantineEnds(t) PROVE PipelineStep
  <2>1. card' \in [Tasks -> Cards]
    BY <1>0, <1>17, <1>g, ForceBlockedType DEF QuarantineEnds
  <2> QED
    BY <1>0, <1>1, <1>17, <1>e, <2>1 DEF QuarantineEnds
<1>18. ASSUME HandoffParks(t) PROVE PipelineStep
  <2>1. side' \in SideType
    <3>1. side' = [side EXCEPT ![t].parked = TRUE]
      BY <1>18 DEF HandoffParks
    <3> QED
      BY <1>0, <3>1 DEF SideType, Sides
  <2>2. TurnStep(t)
    BY <1>18, <1>d, <1>e, <2>1 DEF HandoffParks
  <2>3. card' \in [Tasks -> Cards]
    BY <1>0, <1>18, <1>g, ForceBlockedType DEF HandoffParks
  <2> QED
    BY <1>1, <1>18, <2>2, <2>3 DEF HandoffParks
<1> QED
  BY <1>3, <1>4, <1>5, <1>6, <1>7, <1>8, <1>9, <1>10, <1>11, <1>12, <1>13, <1>14, <1>15, <1>16, <1>17,
     <1>18 DEF Turn

\* A step that touches neither rows nor engines.
LEMMA StillStep ==
    ASSUME IInv, side' \in SideType, job' \in JobType,
           card' \in [Tasks -> Cards], sweep' \subseteq Tasks, lock' \in [Tasks -> Actions],
           UNCHANGED <<claim, receipt, cache, req, room, workers>>,
           UNCHANGED job \/ \A u \in Tasks : "box" \notin workers[u]
    PROVE  PipelineStep
<1>1. TypeOK'
  BY DEF TypeOK, IInv, SideType, JobType
<1>2. \A u \in Tasks : Kept(u)
  BY DEF Kept, External
<1>3. \A u \in Tasks : "box" \in workers'[u] =>
         "box" \in workers[u] /\ job'.task = u /\ job'.at \in {"work", "review"}
  BY DEF IInv, BoxHeld
<1> QED
  BY <1>1, <1>2, <1>3 DEF PipelineStep

\* The sidecar as a tick writes it.
LEMMA SweptType ==
    ASSUME side \in SideType, NEW held, NEW aged
    PROVE  Swept(held, Pruned(aged)) \in SideType /\ Orphans(held, Pruned(aged)) \subseteq Tasks
<1>1. Pruned(aged) \in SideType
  BY DEF Pruned, SideType, Sides
<1> QED
  BY <1>1 DEF Swept, Orphans, SideType, Sides

\* The turn of a tick is built afresh for its task.
LEMMA FreshTurns ==
    ASSUME NEW t \in Tasks, NEW at \in {"review", "work", "quarantine", "park", "classify", "finish"}
    PROVE  /\ [Idle EXCEPT !.at = at, !.task = t] \in JobType
           /\ \A s \in SideType : [Idle EXCEPT !.at = at, !.task = t, !.snap = s] \in JobType
           /\ [Idle EXCEPT !.at = at, !.task = t, !.free = ~Row(t)] \in JobType
           /\ \A then \in {"release", "finish"} :
                [Idle EXCEPT !.at = at, !.task = t, !.then = then, !.free = ~Row(t)] \in JobType
           /\ job \in JobType => [job EXCEPT !.at = at, !.task = t] \in JobType
<1>0. at \in Stages
  BY DEF Stages
<1>1. [Idle EXCEPT !.at = at, !.task = t] \in JobType
  BY <1>0, IdleTypes DEF JobType
<1>2. \A s \in SideType : [Idle EXCEPT !.at = at, !.task = t, !.snap = s] \in JobType
  BY <1>0, IdleTypes DEF JobType, SideType
<1>3. [Idle EXCEPT !.at = at, !.task = t, !.free = ~Row(t)] \in JobType
  BY <1>0, IdleTypes DEF JobType, Row
<1>4. \A then \in {"release", "finish"} :
         [Idle EXCEPT !.at = at, !.task = t, !.then = then, !.free = ~Row(t)] \in JobType
  BY <1>0, IdleTypes DEF JobType, Row
<1>5. job \in JobType => [job EXCEPT !.at = at, !.task = t] \in JobType
  BY <1>0 DEF JobType
<1> QED
  BY <1>1, <1>2, <1>3, <1>4, <1>5

\* A tick, its failed list and its pass over the pending cards.
LEMMA TickSteps ==
    ASSUME IInv, Ticks
    PROVE  PipelineStep
<1>0. /\ claim \in [Tasks -> Claims] /\ card \in [Tasks -> Cards] /\ side \in SideType
      /\ job \in JobType /\ workers \in [Tasks -> SUBSET Engines]
      /\ sweep \subseteq Tasks /\ lock \in [Tasks -> Actions]
      /\ UNCHANGED <<cache, req, room>>
  BY DEF IInv, TypeOK, SideType, JobType, Ticks, roomVars
<1>a. job.at \in {"idle", "list"} => \A u \in Tasks : "box" \notin workers[u]
  BY DEF IInv, BoxHeld
<1>b. Done => job' \in JobType
  BY <1>0, JobTypes
<1>1. CASE Tick
  <2>1. job.at \in {"idle", "list"} /\ job' \in JobType
    BY <1>0, <1>1, IdleTypes DEF Tick, Idle, JobType, Stages
  <2> QED
    BY <1>0, <1>1, <1>a, <2>1, StillStep DEF Tick
<1>2. CASE ListFailed
  <2>1. side' \in SideType
    BY <1>2, IdleTypes DEF ListFailed, SideType
  <2> QED
    BY <1>0, <1>2, <1>a, <1>b, <2>1, StillStep DEF ListFailed
<1>4. CASE ListAbandoned
  BY <1>0, <1>4, <1>a, <1>b, StillStep DEF ListAbandoned
<1>3. ASSUME NEW held, Listed(held) PROVE PipelineStep
  <2>a. PICK aged \in SUBSET Tasks :
          /\ sweep' = sweep \cup Orphans(held, Pruned(aged))
          /\ \/ \E t \in Tasks, gone \in SUBSET Tasks :
                   \/ /\ side' = DropPending(Swept(held, Pruned(aged)), gone \cup {t})
                      /\ job' = [job EXCEPT !.at = "finish", !.task = t]
                      /\ UNCHANGED <<claim, workers>>
                   \/ Advance(t, DropPending(Swept(held, Pruned(aged)), gone))
             \/ \E gone \in SUBSET Tasks : Dispatch(DropPending(Swept(held, Pruned(aged)), gone))
    BY <1>3 DEF Listed
  <2> DEFINE s0 == Swept(held, Pruned(aged))
  <2>0. /\ sweep' \subseteq Tasks /\ UNCHANGED <<receipt, card, lock>>
        /\ \A u \in Tasks : "box" \notin workers[u]
        /\ \A gone : DropPending(s0, gone) \in SideType
    <3>1. job.at = "list" /\ UNCHANGED <<receipt, card, lock>>
      BY <1>3 DEF Listed
    <3>2. \A s \in SideType : \A gone : DropPending(s, gone) \in SideType
      BY DEF DropPending, SideType, Sides
    <3> QED
      BY <1>0, <1>a, <2>a, <3>1, <3>2, SweptType
  <2>1. ASSUME side' \in SideType, job' \in JobType, UNCHANGED <<claim, workers>> PROVE PipelineStep
    BY <1>0, <2>0, <2>1, StillStep
  <2>2. ASSUME NEW s \in SideType, Dispatch(s) PROVE PipelineStep
    <3>1. /\ side' = s /\ UNCHANGED <<claim, workers>>
          /\ Done \/ \E t \in Tasks : job' = [Idle EXCEPT !.at = "classify", !.task = t, !.snap = s]
      BY <2>2 DEF Dispatch, Eligible
    <3>2. \A t \in Tasks : [Idle EXCEPT !.at = "classify", !.task = t, !.snap = s] \in JobType
      BY FreshTurns
    <3>3. job' \in JobType
      BY <1>b, <3>1, <3>2
    <3> QED
      BY <2>1, <3>1, <3>3
  <2>3. ASSUME NEW t \in Tasks, NEW s \in SideType, Advance(t, s) PROVE PipelineStep
    <3>1. DropPending(s, {t}) \in SideType
      BY DEF DropPending, SideType, Sides
    <3>7. [s EXCEPT ![t].pending = "none", ![t].parked = TRUE] \in SideType
      BY DEF SideType, Sides
    <3>2. ASSUME Mine(t), side' \in SideType, UNCHANGED claim,
                 \E at \in {"work", "review"} : job' = [Idle EXCEPT !.at = at, !.task = t],
                 workers' = [workers EXCEPT ![t] = @ \cup {"box"}]
          PROVE  PipelineStep
      <4>1. /\ "job" \in claim[t].keepers /\ job' \in JobType
            /\ job'.task = t /\ job'.at \in {"work", "review"}
        <5>1. PICK at \in {"work", "review"} : job' = [Idle EXCEPT !.at = at, !.task = t]
          BY <3>2
        <5>2. job'.task = t /\ job'.at = at
          BY <5>1 DEF Idle
        <5> QED
          BY <3>2, <5>1, <5>2, FreshTurns DEF Mine, Current
      <4> QED
        BY <1>0, <2>0, <3>2, <4>1, EngineStarts
    <3>3. ASSUME Mine(t), StartReview(t, s) PROVE PipelineStep
      <4>1. side' = s
        BY <3>3 DEF StartReview
      <4>2. ASSUME NEW then \in {"release", "finish"}, UNCHANGED <<claim, workers>>,
                   job' = [Idle EXCEPT !.at = "park", !.task = t, !.then = then, !.free = ~Row(t)]
            PROVE  PipelineStep
        BY <2>1, <4>1, <4>2, FreshTurns
      <4>3. CASE Done /\ UNCHANGED <<claim, workers>>
        BY <1>b, <2>1, <4>1, <4>3
      <4> QED
        BY <3>2, <3>3, <4>1, <4>2, <4>3 DEF StartReview
    <3>4. ASSUME Mine(t), StartCorrection(t, s) PROVE PipelineStep
      <4>1. ASSUME NEW then \in {"release", "finish"}, side' \in SideType, UNCHANGED <<claim, workers>>,
                   job' = [Idle EXCEPT !.at = "park", !.task = t, !.then = then, !.free = ~Row(t)]
            PROVE  PipelineStep
        BY <2>1, <4>1, FreshTurns
      <4> QED
        BY <3>1, <3>2, <3>4, <4>1 DEF StartCorrection
    <3>5. ASSUME side' = s, Done, UNCHANGED <<claim, workers>> PROVE PipelineStep
      BY <1>b, <2>1, <2>3, <3>5
    <3>6. ASSUME claim' = [claim EXCEPT ![t].keepers = @ \ {"job"}],
                 side' = [s EXCEPT ![t].pending = "none", ![t].parked = TRUE],
                 job' = [Idle EXCEPT !.at = "quarantine", !.task = t, !.free = ~Row(t)],
                 UNCHANGED workers
          PROVE  PipelineStep
      <4>1. job' \in JobType
        BY <3>6, FreshTurns
      <4>2. TurnStep(t)
        BY <1>0, <3>6, <3>7, <4>1, HolderDropped DEF TurnStep
      <4> QED
        BY <1>0, <2>0, <3>6, <4>2, QuietStep
    <3> QED
      BY <2>3, <3>3, <3>4, <3>5, <3>6 DEF Advance
  <2>4. ASSUME NEW t \in Tasks, NEW gone, side' = DropPending(s0, gone),
               job' = [job EXCEPT !.at = "finish", !.task = t], UNCHANGED <<claim, workers>>
        PROVE  PipelineStep
    BY <1>0, <2>0, <2>1, <2>4, FreshTurns
  <2> QED
    BY <2>a, <2>0, <2>2, <2>3, <2>4
<1> QED
  BY <1>1, <1>2, <1>3, <1>4 DEF Ticks

\* The operator and the orphan sweep leave rows and engines alone.
LEMMA OperatorSteps ==
    ASSUME IInv, NEW t \in Tasks, Operator(t) \/ SweepEnds(t), UNCHANGED roomVars
    PROVE  PipelineStep
<1>0. /\ card \in [Tasks -> Cards] /\ side \in SideType /\ job \in JobType
      /\ sweep \subseteq Tasks /\ lock \in [Tasks -> Actions]
      /\ UNCHANGED <<claim, receipt, cache, req, room, workers, job>>
  BY DEF IInv, TypeOK, SideType, JobType, roomVars, Operator, SweepEnds, FreezeStarts, FreezeEnds,
         UnfreezeStarts, UnfreezeEnds, ReviewStarts, ReviewEnds
<1>1. lock' \in [Tasks -> Actions] /\ sweep' \subseteq Tasks
  BY <1>0 DEF Operator, SweepEnds, FreezeStarts, FreezeEnds, UnfreezeStarts, UnfreezeEnds,
              ReviewStarts, ReviewEnds, Actions
<1>2. side' \in SideType
  <2>1. \/ side' = [side EXCEPT ![t] = [pending |-> "none", parked |-> FALSE, frozen |-> TRUE]]
        \/ side' = [side EXCEPT ![t].frozen = FALSE]
        \/ side' = [side EXCEPT ![t].pending = "none", ![t].parked = FALSE]
        \/ side' = side
    BY DEF Operator, SweepEnds, FreezeStarts, FreezeEnds, UnfreezeStarts, UnfreezeEnds,
           ReviewStarts, ReviewEnds
  <2>2. /\ [side EXCEPT ![t].frozen = FALSE] \in SideType
        /\ [side EXCEPT ![t] = [pending |-> "none", parked |-> FALSE, frozen |-> TRUE]] \in SideType
    BY <1>0 DEF SideType, Sides
  <2>3. [side EXCEPT ![t].pending = "none", ![t].parked = FALSE] \in SideType
    BY <1>0 DEF SideType, Sides
  <2> QED
    BY <1>0, <2>1, <2>2, <2>3
<1>3. card' \in [Tasks -> Cards]
  <2>1. \A verb \in Verbs : After(verb, card[t]) \subseteq Cards
                            /\ \A h \in Hermes(verb, card[t]) : h.card \in Cards
    BY <1>0, HermesTypes
  <2>2. card' = card \/ \E d \in Cards : card' = [card EXCEPT ![t] = d]
    BY <1>0, <2>1, ForceBlockedType
       DEF Operator, SweepEnds, FreezeStarts, FreezeEnds, UnfreezeStarts, UnfreezeEnds,
           ReviewStarts, ReviewEnds, Verbs
  <2> QED
    BY <1>0, <2>2
<1> QED
  BY <1>0, <1>1, <1>2, <1>3, StillStep

-----------------------------------------------------------------------------
(* Steps of the rooms                                                      *)

\* What IInv says of the room of t.
RoomInv(t) ==
    /\ RowShape(t) /\ RoomHeld(t)
    /\ \A p \in Requests : Claiming(p, t) /\ Ending(p, t)
    /\ receipt[t] # "none" => room[t] = "ended" /\ ~External(t)

\* A room gets a row where none was, keeps it, or gives it up when no worker
\* of it is left; the pipeline's rows are not its own.
RoomRow(t) ==
    \/ claim'[t] = claim[t]
    \/ External(t) /\ claim'[t].kind = "external"
    \/ ~Row(t) /\ receipt[t] = "none" /\ claim'[t].kind = "external" /\ UNCHANGED room
    \/ External(t) /\ claim'[t].kind = "none" /\ room'[t] # "live"

RoomEffect(t) ==
    /\ TypeOK' /\ UNCHANGED <<workers, job>>
    /\ \A u \in Tasks \ {t} :
          claim'[u] = claim[u] /\ receipt'[u] = receipt[u] /\ room'[u] = room[u]
    /\ \A u \in Tasks : RoomInv(u)'
    /\ RoomRow(t)
    /\ receipt'[t] = receipt[t] \/ (External(t) /\ claim'[t].kind = "none")
    /\ room'[t] = "live" => room[t] = "live" \/ (External(t) /\ room[t] = "out")

RequestType == [at : Waits, task : Tasks \cup {None}]

LEMMA RequestTypes ==
    /\ NoRequest \in RequestType /\ NoRequest.at = "idle"
    /\ \A t \in Tasks, at \in Waits : [at |-> at, task |-> t] \in RequestType
  BY DEF NoRequest, RequestType, Waits

\* Nothing but task t, and the requests about it, has moved.
Local(t) ==
    /\ claim' \in [Tasks -> Claims] /\ receipt' \in [Tasks -> Receipts]
    /\ card' \in [Tasks -> Cards] /\ cache' \in [Tasks -> BOOLEAN]
    /\ req' \in [Requests -> RequestType] /\ room' \in [Tasks -> RoomStates]
    /\ \A u \in Tasks \ {t} :
          claim'[u] = claim[u] /\ receipt'[u] = receipt[u] /\ room'[u] = room[u]
    /\ \A p \in Requests : req'[p] = req[p] \/ req'[p].at = "idle" \/ req'[p].task = t
    /\ UNCHANGED pipelineVars

LEMMA RoomFrame ==
    ASSUME IInv, NEW t \in Tasks, Local(t), RoomInv(t)', RoomRow(t),
           receipt'[t] = receipt[t] \/ (External(t) /\ claim'[t].kind = "none"),
           room'[t] = "live" => room[t] = "live" \/ (External(t) /\ room[t] = "out")
    PROVE  RoomEffect(t)
<1>1. TypeOK'
  BY DEF Local, IInv, TypeOK, pipelineVars, RequestType
<1>2. ASSUME NEW u \in Tasks \ {t} PROVE RoomInv(u)'
  <2>1. RowShape(u) /\ RoomHeld(u) /\ (receipt[u] # "none" => room[u] = "ended" /\ ~External(u))
    BY DEF IInv, ReceiptIsFinal
  <2>2. RowShape(u)' /\ RoomHeld(u)' /\ (receipt[u] # "none" => room[u] = "ended" /\ ~External(u))'
    BY <2>1 DEF Local, RowShape, RoomHeld, External
  <2>3. ASSUME NEW p \in Requests PROVE Claiming(p, u)' /\ Ending(p, u)'
    <3>1. Claiming(p, u) /\ Ending(p, u)
      BY DEF IInv
    <3> QED
      BY <3>1 DEF Local, Claiming, Ending
  <2> QED
    BY <2>2, <2>3 DEF RoomInv
<1> QED
  BY <1>1, <1>2 DEF RoomEffect, Local, pipelineVars

\* A room that hears a grant or a refusal.
LEMMA RoomHears ==
    ASSUME room \in [Tasks -> RoomStates], NEW t \in Tasks,
           Granted(t) \/ Refused(t) \/ UNCHANGED room
    PROVE  /\ room' \in [Tasks -> RoomStates]
           /\ \A u \in Tasks \ {t} : room'[u] = room[u]
           /\ room[t] # "out" => room'[t] = room[t]
           /\ Refused(t) => room'[t] # "live" \/ room[t] = "live"
  BY DEF Granted, Refused, RoomStates

\* What the steps below may assume of the state.
LEMMA RoomFacts ==
    ASSUME IInv, NEW t \in Tasks
    PROVE  /\ claim \in [Tasks -> Claims] /\ receipt \in [Tasks -> Receipts]
           /\ card \in [Tasks -> Cards] /\ cache \in [Tasks -> BOOLEAN]
           /\ req \in [Requests -> RequestType] /\ room \in [Tasks -> RoomStates]
           /\ RoomInv(t)
  BY DEF IInv, TypeOK, RequestType, RoomInv, ReceiptIsFinal

\* claim
LEMMA ClaimRequestStep ==
    ASSUME IInv, NEW q \in Requests, NEW t \in Tasks, ClaimRequest(q, t), UNCHANGED pipelineVars
    PROVE  RoomEffect(t)
<1>0. /\ claim \in [Tasks -> Claims] /\ receipt \in [Tasks -> Receipts]
      /\ card \in [Tasks -> Cards] /\ cache \in [Tasks -> BOOLEAN]
      /\ req \in [Requests -> RequestType] /\ room \in [Tasks -> RoomStates]
      /\ RoomInv(t) /\ req[q] = NoRequest
  BY RoomFacts DEF ClaimRequest
<1>1. CASE ClaimFromCache(t)
  <2>1. External(t) /\ claim[t].state # "active"
    BY <1>0, <1>1 DEF ClaimFromCache, Cached, Current, RoomInv, RowShape, External
  <2>2. Local(t)
    BY <1>0, <1>1, RoomHears DEF ClaimFromCache, Local
  <2>3. RoomInv(t)'
    BY <1>0, <1>1, <2>1, RoomHears
       DEF ClaimFromCache, RoomInv, RowShape, RoomHeld, Claiming, Ending, External
  <2> QED
    BY <1>0, <1>1, <2>1, <2>2, <2>3, RoomFrame, RoomHears DEF ClaimFromCache, RoomRow, RoomStates
<1>2. CASE ClaimRefused(t)
  <2>1. Local(t)
    BY <1>0, <1>2, RoomHears DEF ClaimRefused, Local, Forget
  <2>2. UNCHANGED <<claim, receipt, req>> /\ (room'[t] = "live" => room[t] = "live")
    BY <1>0, <1>2, RoomHears DEF ClaimRefused
  <2>3. RoomInv(t)'
    BY <1>0, <1>2, <2>2, RoomHears
       DEF ClaimRefused, RoomInv, RowShape, RoomHeld, Claiming, Ending, External
  <2> QED
    BY <2>1, <2>2, <2>3, RoomFrame DEF RoomRow
<1>3. CASE ClaimReattached(q, t)
  <2>1. External(t) /\ Live(t)
    BY <1>3 DEF ClaimReattached, CanReattach
  <2>2. CASE claim[t].state = "active"
    <3>1. /\ claim' = [claim EXCEPT ![t].keepers = {q}] /\ Forget(t)
          /\ req' = [req EXCEPT ![q] = [at |-> "resuming", task |-> t]]
          /\ UNCHANGED <<receipt, card, room>>
      BY <1>3, <2>2 DEF ClaimReattached, Await
    <3>2. claim'[t] = [claim[t] EXCEPT !.keepers = {q}] /\ claim'[t] \in Claims
      BY <1>0, <3>1 DEF Claims, Keepers
    <3>3. Local(t)
      BY <1>0, <3>1, <3>2 DEF Local, Forget, RequestType, Waits
    <3>4. RoomInv(t)'
      <4>1. \A p \in Requests : req'[p] = IF p = q THEN [at |-> "resuming", task |-> t] ELSE req[p]
        BY <1>0, <3>1
      <4> QED
        BY <1>0, <2>1, <3>1, <3>2, <4>1 DEF RoomInv, RowShape, RoomHeld, Claiming, Ending, External, Claims
    <3> QED
      BY <1>0, <2>1, <3>1, <3>2, <3>3, <3>4, RoomFrame DEF RoomRow, External, Claims
  <2>3. CASE claim[t].state # "active"
    <3>1. /\ claim' = [claim EXCEPT ![t].keepers = {"cache"}]
          /\ cache' = [cache EXCEPT ![t] = TRUE]
          /\ Granted(t) /\ UNCHANGED <<req, receipt, card>>
      BY <1>3, <2>3 DEF ClaimReattached
    <3>2. claim'[t] = [claim[t] EXCEPT !.keepers = {"cache"}] /\ claim'[t] \in Claims
      BY <1>0, <3>1 DEF Claims, Keepers
    <3>3. Local(t)
      BY <1>0, <3>1, <3>2, RoomHears DEF Local
    <3>4. RoomInv(t)'
      BY <1>0, <2>1, <2>3, <3>1, <3>2, RoomHears
         DEF RoomInv, RowShape, RoomHeld, Claiming, Ending, External, Claims
    <3> QED
      BY <1>0, <2>1, <3>1, <3>2, <3>3, <3>4, RoomFrame, RoomHears
         DEF RoomRow, External, Claims, RoomStates
  <2> QED
    BY <2>2, <2>3
<1>4. CASE ClaimReceipted(t)
  <2>1. Local(t)
    BY <1>0, <1>4, RoomHears DEF ClaimReceipted, Local, Forget
  <2>2. UNCHANGED <<claim, receipt, req>> /\ (room'[t] = "live" => room[t] = "live")
    BY <1>0, <1>4, RoomHears DEF ClaimReceipted
  <2>3. RoomInv(t)'
    BY <1>0, <1>4, <2>2, RoomHears
       DEF ClaimReceipted, RoomInv, RowShape, RoomHeld, Claiming, Ending, External
  <2> QED
    BY <2>1, <2>2, <2>3, RoomFrame DEF RoomRow
<1>5. CASE ClaimFresh(q, t)
  <2>1. /\ ~Row(t) /\ receipt[t] = "none" /\ claim' = [claim EXCEPT ![t] = Acquired("external", q)]
        /\ req' = [req EXCEPT ![q] = [at |-> "claiming", task |-> t]]
        /\ Forget(t) /\ UNCHANGED <<receipt, card, room>>
    BY <1>5 DEF ClaimFresh, TryAcquire, Await
  <2>2. claim'[t] = Acquired("external", q) /\ Acquired("external", q) \in Claims
    BY <1>0, <2>1 DEF Acquired, Claims, LiveStates, Keepers
  <2>3. Local(t)
    BY <1>0, <2>1, <2>2 DEF Local, Forget, RequestType, Waits
  <2>4. RoomInv(t)'
    <3>1. \A p \in Requests : req'[p] = IF p = q THEN [at |-> "claiming", task |-> t] ELSE req[p]
      BY <1>0, <2>1
    <3>2. room[t] # "live" /\ q # "job"
      BY <1>0, <2>1 DEF RoomInv, RowShape, RoomHeld, External, Row
    <3> QED
      BY <1>0, <2>1, <2>2, <3>1, <3>2 DEF RoomInv, RowShape, RoomHeld, Claiming, Ending, Acquired
  <2> QED
    BY <2>1, <2>2, <2>3, <2>4, RoomFrame, <1>0 DEF RoomRow, Acquired, RoomInv, RoomHeld
<1> QED
  BY <1>1, <1>2, <1>3, <1>4, <1>5 DEF ClaimRequest

\* The row runs: a holder of a new row makes it run.
LEMMA GrantStep ==
    ASSUME IInv, NEW q \in Requests, NEW t \in Tasks, Grant(q, t), Answer(q),
           card' \in [Tasks -> Cards], UNCHANGED receipt, UNCHANGED pipelineVars
    PROVE  RoomEffect(t)
<1>0. /\ claim \in [Tasks -> Claims] /\ receipt \in [Tasks -> Receipts]
      /\ cache \in [Tasks -> BOOLEAN]
      /\ req \in [Requests -> RequestType] /\ room \in [Tasks -> RoomStates]
      /\ RoomInv(t)
  BY RoomFacts
<1>1. /\ q \in claim[t].keepers /\ claim[t].state = "active" /\ External(t)
      /\ claim' = [claim EXCEPT ![t].state = "running", ![t].keepers = (@ \ {q}) \cup {"cache"}]
      /\ cache' = [cache EXCEPT ![t] = TRUE] /\ Granted(t)
      /\ req' = [req EXCEPT ![q] = NoRequest]
  BY <1>0 DEF Grant, Answer, Current, RoomInv, RowShape, External
<1>2. /\ claim'[t] = [claim[t] EXCEPT !.state = "running", !.keepers = (@ \ {q}) \cup {"cache"}]
      /\ claim'[t] \in Claims
  BY <1>0, <1>1 DEF Claims, LiveStates, Keepers
<1>3. \A p \in Requests : req'[p] = IF p = q THEN NoRequest ELSE req[p]
  BY <1>0, <1>1
<1>4. Local(t)
  BY <1>0, <1>1, <1>2, <1>3, RoomHears, RequestTypes DEF Local
<1>5. RoomInv(t)'
  BY <1>0, <1>1, <1>2, <1>3, RoomHears, RequestTypes
     DEF RoomInv, RowShape, RoomHeld, Claiming, Ending, External, Claims
<1> QED
  BY <1>0, <1>1, <1>2, <1>4, <1>5, RoomFrame, RoomHears DEF RoomRow, External, Claims, RoomStates

\* A request ends, and its row with it if it still holds one that never ran.
LEMMA WithdrawStep ==
    ASSUME IInv, NEW q \in Requests, NEW t \in Tasks,
           req[q].task = t, req[q].at \in {"claiming", "reclaiming"},
           ReleaseOrLeave(t, q), Answer(q),
           card' \in [Tasks -> Cards], UNCHANGED <<receipt, cache, room>>, UNCHANGED pipelineVars
    PROVE  RoomEffect(t)
<1>0. /\ claim \in [Tasks -> Claims] /\ receipt \in [Tasks -> Receipts]
      /\ cache \in [Tasks -> BOOLEAN]
      /\ req \in [Requests -> RequestType] /\ room \in [Tasks -> RoomStates]
      /\ RoomInv(t)
  BY RoomFacts
<1>1. \A p \in Requests : req'[p] = IF p = q THEN NoRequest ELSE req[p]
  BY <1>0 DEF Answer
<1>2. CASE UNCHANGED claim
  <2>1. Local(t)
    BY <1>0, <1>1, <1>2, RequestTypes DEF Local, Answer
  <2>2. RoomInv(t)'
    BY <1>0, <1>1, <1>2, RequestTypes DEF RoomInv, RowShape, RoomHeld, Claiming, Ending, External
  <2> QED
    BY <1>2, <2>1, <2>2, RoomFrame DEF RoomRow
<1>3. CASE Release(t, q)
  <2>1. /\ q \in claim[t].keepers /\ claim' = [claim EXCEPT ![t] = NoClaim]
        /\ claim'[t] = NoClaim /\ NoClaim \in Claims
    BY <1>0, <1>3 DEF Release, Current, NoClaim, Claims
  <2>2. External(t) /\ room[t] # "live"
    BY <1>0, <2>1 DEF RoomInv, RowShape, RoomHeld, Claiming, External
  <2>3. Local(t)
    BY <1>0, <1>1, <2>1, RequestTypes DEF Local, Answer
  <2>4. RoomInv(t)'
    BY <1>0, <1>1, <2>1, <2>2, RequestTypes
       DEF RoomInv, RowShape, RoomHeld, Claiming, Ending, External, NoClaim
  <2> QED
    BY <2>1, <2>2, <2>3, <2>4, RoomFrame DEF RoomRow, NoClaim
<1> QED
  BY <1>2, <1>3 DEF ReleaseOrLeave

\* Holders are dropped, and at most a request ends.
LEMMA DropStep ==
    ASSUME IInv, NEW t \in Tasks, NEW kept \in SUBSET claim[t].keepers,
           claim' = [claim EXCEPT ![t].keepers = kept],
           req' = req \/ \E q \in Requests : Answer(q),
           card' \in [Tasks -> Cards], cache' \in [Tasks -> BOOLEAN],
           UNCHANGED <<receipt, room>>, UNCHANGED pipelineVars,
           External(t) \/ kept = claim[t].keepers
    PROVE  RoomEffect(t)
<1>0. /\ claim \in [Tasks -> Claims] /\ receipt \in [Tasks -> Receipts]
      /\ req \in [Requests -> RequestType] /\ room \in [Tasks -> RoomStates]
      /\ RoomInv(t)
  BY RoomFacts
<1>1. claim'[t] = [claim[t] EXCEPT !.keepers = kept] /\ claim'[t] \in Claims
  BY <1>0 DEF Claims
<1>2. /\ req' \in [Requests -> RequestType]
      /\ \A p \in Requests : req'[p] = req[p] \/ req'[p] = NoRequest
  BY <1>0, RequestTypes DEF Answer
<1>3. Local(t)
  BY <1>0, <1>1, <1>2, RequestTypes DEF Local
<1>4. RoomInv(t)'
  BY <1>0, <1>1, <1>2, RequestTypes DEF RoomInv, RowShape, RoomHeld, Claiming, Ending, External, Claims
<1>5. RoomRow(t)
  BY <1>0, <1>1 DEF RoomRow, External, Claims
<1> QED
  BY <1>0, <1>3, <1>4, <1>5, RoomFrame

\* A refused lease drops at most the cached holder.
LEMMA LeaseRefusedStep ==
    ASSUME IInv, NEW t \in Tasks, LeaseRefused(t), UNCHANGED <<receipt, card, req, room>>,
           UNCHANGED pipelineVars
    PROVE  RoomEffect(t)
<1>0. cache \in [Tasks -> BOOLEAN] /\ card \in [Tasks -> Cards] /\ RoomInv(t)
  BY RoomFacts
<1> DEFINE kept == IF ~cache[t] /\ CanReattach(t) THEN {} ELSE claim[t].keepers \ {"cache"}
<1>1. /\ claim' = [claim EXCEPT ![t].keepers = kept] /\ kept \in SUBSET claim[t].keepers
      /\ cache' \in [Tasks -> BOOLEAN]
  BY <1>0 DEF LeaseRefused, Forget
<1>2. External(t) \/ kept = claim[t].keepers
  BY <1>0 DEF RoomInv, RowShape, External, CanReattach
<1> QED
  BY <1>0, <1>1, <1>2, DropStep

\* A lease is held: the row runs, and the cache and who speak for it.
LEMMA LeaseHeldStep ==
    ASSUME IInv, NEW t \in Tasks, NEW who \in SUBSET Requests, LeaseFor(t, who),
           req' \in [Requests -> RequestType],
           \A p \in Requests : p \notin who => req'[p] = req[p],
           \A p \in who : /\ req'[p].task = t /\ req'[p].at \in {"completing", "stopping"}
                          /\ room[t] = "ended",
           UNCHANGED <<receipt, card, room>>, UNCHANGED pipelineVars
    PROVE  RoomEffect(t)
<1>0. /\ claim \in [Tasks -> Claims] /\ receipt \in [Tasks -> Receipts]
      /\ card \in [Tasks -> Cards] /\ cache \in [Tasks -> BOOLEAN]
      /\ req \in [Requests -> RequestType] /\ room \in [Tasks -> RoomStates]
      /\ RoomInv(t)
  BY RoomFacts
<1> DEFINE kept == (IF Cached(t) THEN claim[t].keepers ELSE {"cache"}) \cup who
<1>1. /\ claim' = [claim EXCEPT ![t].keepers = kept] /\ cache' = [cache EXCEPT ![t] = TRUE]
      /\ claim[t].state = "running" /\ External(t)
  BY <1>0 DEF LeaseFor, Cached, Current, CanReattach, RoomInv, RowShape, External
<1>2. /\ kept \in SUBSET Keepers /\ "job" \notin kept
      /\ \A k \in kept : k \in claim[t].keepers \/ k = "cache" \/ k \in who
  BY <1>0, <1>1 DEF Claims, Keepers, RoomInv, RowShape, External
<1> HIDE DEF kept
<1>3. claim'[t] = [claim[t] EXCEPT !.keepers = kept] /\ claim'[t] \in Claims
  BY <1>0, <1>1, <1>2 DEF Claims
<1>4. Local(t)
  BY <1>0, <1>1, <1>3 DEF Local
<1>5. RoomInv(t)'
  <2>1. RowShape(t)' /\ RoomHeld(t)'
    BY <1>0, <1>1, <1>2, <1>3 DEF RoomInv, RowShape, RoomHeld, External, Claims
  <2>2. ASSUME NEW p \in Requests PROVE Claiming(p, t)' /\ Ending(p, t)'
    BY <1>0, <1>1, <1>2, <1>3 DEF RoomInv, Claiming, Ending
  <2> QED
    BY <1>0, <1>1, <1>3, <2>1, <2>2 DEF RoomInv, External, Claims
<1>6. RoomRow(t)
  BY <1>1, <1>3 DEF RoomRow, External, Claims
<1> QED
  BY <1>0, <1>4, <1>5, <1>6, RoomFrame

\* A terminal receipt replaces the row of a room whose worker is gone.
LEMMA SettleStep ==
    ASSUME IInv, NEW q \in Requests, NEW t \in Tasks, NEW how \in {"done", "blocked"},
           req[q].task = t, req[q].at \in {"completing", "stopping", "recovering"},
           External(t), Receipt(t, how), Forget(t), Answer(q),
           card' \in [Tasks -> Cards], UNCHANGED room, UNCHANGED pipelineVars
    PROVE  RoomEffect(t)
<1>0. /\ claim \in [Tasks -> Claims] /\ receipt \in [Tasks -> Receipts]
      /\ cache \in [Tasks -> BOOLEAN]
      /\ req \in [Requests -> RequestType] /\ room \in [Tasks -> RoomStates]
      /\ RoomInv(t)
  BY RoomFacts
<1>1. /\ claim' = [claim EXCEPT ![t] = NoClaim] /\ claim'[t] = NoClaim /\ NoClaim \in Claims
      /\ receipt' = [receipt EXCEPT ![t] = how] /\ how \in Receipts
      /\ cache' = [cache EXCEPT ![t] = FALSE]
      /\ \A p \in Requests : req'[p] = IF p = q THEN NoRequest ELSE req[p]
  BY <1>0 DEF Receipt, Forget, Answer, NoClaim, Claims, Receipts
<1>2. room[t] = "ended"
  BY <1>0 DEF RoomInv, Ending
<1>3. Local(t)
  BY <1>0, <1>1, RequestTypes DEF Local, Answer
<1>4. RoomInv(t)'
  BY <1>0, <1>1, <1>2, RequestTypes
     DEF RoomInv, RowShape, RoomHeld, Claiming, Ending, External, NoClaim
<1> QED
  BY <1>1, <1>2, <1>3, <1>4, RoomFrame DEF RoomRow, NoClaim

\* A request goes on, or ends, and the rest stays.
LEMMA SameRowStep ==
    ASSUME IInv, NEW q \in Requests, NEW t \in Tasks,
           \/ Answer(q)
           \/ Await(q, t, "reclaiming") /\ req[q] = [at |-> "claiming", task |-> t],
           card' \in [Tasks -> Cards], UNCHANGED <<claim, receipt, cache, room>>,
           UNCHANGED pipelineVars
    PROVE  RoomEffect(t)
<1>0. /\ claim \in [Tasks -> Claims] /\ receipt \in [Tasks -> Receipts]
      /\ cache \in [Tasks -> BOOLEAN]
      /\ req \in [Requests -> RequestType] /\ room \in [Tasks -> RoomStates]
      /\ RoomInv(t)
  BY RoomFacts
<1>1. /\ req' \in [Requests -> RequestType]
      /\ \A p \in Requests : \/ req'[p] = req[p] \/ req'[p] = NoRequest
                             \/ /\ req'[p] = [at |-> "reclaiming", task |-> t]
                                /\ req[p] = [at |-> "claiming", task |-> t]
  BY <1>0, RequestTypes DEF Answer, Await, RequestType, Waits
<1>2. Local(t)
  BY <1>0, <1>1, RequestTypes DEF Local
<1>3. RoomInv(t)'
  BY <1>0, <1>1, RequestTypes DEF RoomInv, RowShape, RoomHeld, Claiming, Ending, External
<1> QED
  BY <1>2, <1>3, RoomFrame DEF RoomRow

\* A request gives up its holder.
LEMMA LetGoStep ==
    ASSUME IInv, NEW q \in Requests, NEW t \in Tasks,
           claim' = [claim EXCEPT ![t].keepers = @ \ {q}], Answer(q),
           card' \in [Tasks -> Cards], UNCHANGED <<receipt, cache, room>>,
           UNCHANGED pipelineVars
    PROVE  RoomEffect(t)
<1>1. cache \in [Tasks -> BOOLEAN] /\ RoomInv(t)
  BY RoomFacts
<1>2. PICK kept \in SUBSET claim[t].keepers : kept = claim[t].keepers \ {q}
  OBVIOUS
<1>3. External(t) \/ kept = claim[t].keepers
  BY <1>1, <1>2 DEF RoomInv, RowShape, External
<1> QED
  BY <1>1, <1>2, <1>3, DropStep

\* Every lifecycle call of a room, and every answer to one.
LEMMA RoomSteps ==
    ASSUME IInv, NEW t \in Tasks, (\E q \in Requests : RoomStep(q, t)) \/ Heartbeat(t),
           UNCHANGED pipelineVars
    PROVE  RoomEffect(t)
<1>0. /\ claim \in [Tasks -> Claims] /\ receipt \in [Tasks -> Receipts]
      /\ card \in [Tasks -> Cards] /\ cache \in [Tasks -> BOOLEAN]
      /\ req \in [Requests -> RequestType] /\ room \in [Tasks -> RoomStates]
      /\ RoomInv(t)
  BY RoomFacts
<1>a. ASSUME NEW d \in Cards, card' = [card EXCEPT ![t] = d] PROVE card' \in [Tasks -> Cards]
  BY <1>0, <1>a
<1>b. \A verb \in Verbs : /\ \A h \in Hermes(verb, card[t]) : h.card \in Cards
                          /\ After(verb, card[t]) \subseteq Cards
  BY <1>0, HermesTypes
<1>c. {"claim", "reclaim", "complete", "block"} \subseteq Verbs
  BY DEF Verbs
<1>1. ASSUME NEW q \in Requests, ClaimAnswered(q, t) PROVE RoomEffect(t)
  <2>1. PICK h \in Hermes("claim", card[t]) :
          /\ card' = [card EXCEPT ![t] = h.card]
          /\ \/ ReleaseOrLeave(t, q) /\ Answer(q) /\ UNCHANGED <<cache, room>>
             \/ Grant(q, t) /\ Answer(q)
             \/ Await(q, t, "reclaiming") /\ UNCHANGED <<claim, cache, room>>
    BY <1>1 DEF ClaimAnswered
  <2>2. card' \in [Tasks -> Cards]
    BY <1>a, <1>b, <1>c, <2>1
  <2> QED
    BY <1>1, <2>1, <2>2, WithdrawStep, GrantStep, SameRowStep DEF ClaimAnswered
<1>2. ASSUME NEW q \in Requests, ClaimUndone(q, t) PROVE RoomEffect(t)
  <2>1. card' \in [Tasks -> Cards]
    BY <1>2, <1>a, <1>b, <1>c DEF ClaimUndone
  <2> QED
    BY <1>2, <2>1, WithdrawStep DEF ClaimUndone
<1>3. ASSUME NEW q \in Requests, ClaimResumed(q, t) PROVE RoomEffect(t)
  <2>1. PICK d \in After("claim", card[t]) :
          /\ card' = [card EXCEPT ![t] = d]
          /\ \/ Grant(q, t)
             \/ claim' = [claim EXCEPT ![t].keepers = @ \ {q}] /\ UNCHANGED <<cache, room>>
    BY <1>3 DEF ClaimResumed
  <2>2. card' \in [Tasks -> Cards]
    BY <1>a, <1>b, <1>c, <2>1
  <2> QED
    BY <1>3, <2>1, <2>2, GrantStep, LetGoStep DEF ClaimResumed
<1>4. ASSUME NEW q \in Requests, NEW at \in {"completing", "stopping"}, EndRequest(q, t, at)
      PROVE  RoomEffect(t)
  <2>1. CASE LeaseRefused(t) /\ UNCHANGED req
    BY <1>4, <2>1, LeaseRefusedStep DEF EndRequest
  <2>2. CASE LeaseFor(t, {q}) /\ Await(q, t, at)
    <3>1. /\ req' \in [Requests -> RequestType]
          /\ \A p \in Requests : req'[p] = IF p = q THEN [at |-> at, task |-> t] ELSE req[p]
      BY <1>0, <2>2 DEF Await, RequestType, Waits
    <3>2. room[t] = "ended" /\ UNCHANGED <<receipt, card, room>>
      BY <1>4 DEF EndRequest
    <3> QED
      BY <2>2, <3>1, <3>2, LeaseHeldStep
  <2> QED
    BY <1>4, <2>1, <2>2 DEF EndRequest
<1>5. ASSUME NEW q \in Requests, NEW how \in {"done", "blocked"}, Ended(q, t, how) \/ NotEnded(q, t),
             req[q].task = t, req[q].at \in {"completing", "stopping"},
             Answer(q), card' \in [Tasks -> Cards], UNCHANGED room
      PROVE  RoomEffect(t)
  <2>1. CASE ReleaseExternalTerminal(t, q, how) /\ Forget(t)
    BY <1>5, <2>1, SettleStep DEF ReleaseExternalTerminal
  <2>2. CASE claim' = [claim EXCEPT ![t].keepers = @ \ {q}] /\ UNCHANGED <<receipt, cache>>
    BY <1>5, <2>2, LetGoStep
  <2> QED
    BY <1>5, <2>1, <2>2 DEF Ended, NotEnded
<1>6. ASSUME NEW q \in Requests, Completed(q, t) \/ Stopped(q, t) PROVE RoomEffect(t)
  <2>1. card' \in [Tasks -> Cards]
    BY <1>6, <1>a, <1>b, <1>c DEF Completed, Stopped
  <2>2. \E how \in {"done", "blocked"} : Ended(q, t, how) \/ NotEnded(q, t)
    BY <1>6 DEF Completed, Stopped
  <2>3. /\ req[q].task = t /\ req[q].at \in {"completing", "stopping"}
        /\ Answer(q) /\ UNCHANGED room
    BY <1>6 DEF Completed, Stopped
  <2> QED
    BY <1>5, <2>1, <2>2, <2>3
<1>7. ASSUME NEW q \in Requests, RecoverRequest(q, t) PROVE RoomEffect(t)
  <2>1. /\ claim' = [claim EXCEPT ![t].state = "recovering", ![t].keepers = {q}]
        /\ External(t) /\ room[t] = "ended"
        /\ cache' = [cache EXCEPT ![t] = TRUE]
        /\ req' = [req EXCEPT ![q] = [at |-> "recovering", task |-> t]]
        /\ UNCHANGED <<receipt, card, room>>
    BY <1>7 DEF RecoverRequest, BeginExternalRecovery, Await
  <2>2. /\ claim'[t] = [claim[t] EXCEPT !.state = "recovering", !.keepers = {q}]
        /\ claim'[t] \in Claims
    <3>1. claim[t] \in Claims
      BY <1>0
    <3>2. [claim[t] EXCEPT !.state = "recovering", !.keepers = {q}] \in Claims
      BY <3>1 DEF Claims, Keepers
    <3>3. claim'[t] = [claim[t] EXCEPT !.state = "recovering", !.keepers = {q}]
      BY <1>0, <2>1
    <3> QED
      BY <3>2, <3>3
  <2>3. \A p \in Requests : req'[p] = IF p = q THEN [at |-> "recovering", task |-> t] ELSE req[p]
    BY <1>0, <2>1
  <2>4. Local(t)
    BY <1>0, <2>1, <2>2, <2>3 DEF Local, RequestType, Waits
  <2>5. RoomInv(t)'
    BY <1>0, <2>1, <2>2, <2>3
       DEF RoomInv, RowShape, RoomHeld, Claiming, Ending, External, Claims
  <2> QED
    BY <2>1, <2>2, <2>4, <2>5, RoomFrame, <1>0 DEF RoomRow, External, Claims
<1>8. ASSUME NEW q \in Requests, Recovered(q, t) PROVE RoomEffect(t)
  <2>1. Withdrawn(card[t]) \subseteq Cards
    BY <1>0, <1>c, HermesTypes DEF Withdrawn
  <2>2. PICK d \in IF card[t] \in Terminal THEN {card[t]} ELSE Withdrawn(card[t]) :
          /\ card' = [card EXCEPT ![t] = d]
          /\ \/ d \in Terminal /\ ReleaseExternalRecovered(t, q, d) /\ Forget(t)
             \/ NotEnded(q, t)
    BY <1>8 DEF Recovered
  <2>3. card' \in [Tasks -> Cards]
    BY <1>0, <1>a, <2>1, <2>2
  <2>4. req[q].task = t /\ req[q].at = "recovering" /\ Answer(q) /\ UNCHANGED room
    BY <1>8 DEF Recovered
  <2>5. CASE d \in Terminal /\ ReleaseExternalRecovered(t, q, d) /\ Forget(t)
    BY <2>3, <2>4, <2>5, SettleStep DEF ReleaseExternalRecovered, Terminal
  <2>6. CASE NotEnded(q, t)
    BY <2>3, <2>4, <2>6, LetGoStep DEF NotEnded
  <2> QED
    BY <2>2, <2>5, <2>6
<1>9. ASSUME Heartbeat(t) PROVE RoomEffect(t)
  <2>1. CASE LeaseRefused(t)
    BY <1>9, <2>1, LeaseRefusedStep DEF Heartbeat
  <2>2. CASE LeaseFor(t, {})
    BY <1>0, <1>9, <2>2, LeaseHeldStep DEF Heartbeat
  <2> QED
    BY <1>9, <2>1, <2>2 DEF Heartbeat
<1> QED
  BY <1>1, <1>2, <1>3, <1>4, <1>6, <1>7, <1>8, <1>9, ClaimRequestStep DEF RoomStep

-----------------------------------------------------------------------------
(* The invariant                                                           *)

LEMMA InitHolds == Init => IInv
<1> SUFFICES ASSUME Init PROVE IInv
  OBVIOUS
<1>1. \A t \in Tasks : /\ claim[t] = NoClaim /\ receipt[t] = "none" /\ room[t] = "out"
                       /\ workers[t] = {}
  BY DEF Init, RoomInit, PipelineInit
<1>2. \A q \in Requests : req[q].at = "idle"
  BY RequestTypes DEF Init, RoomInit
<1>3. TypeOK
  <2>1. /\ NoClaim \in Claims /\ "none" \in Receipts /\ "queued" \in Cards /\ "out" \in RoomStates
        /\ "none" \in Actions
    BY DEF NoClaim, Claims, Receipts, Cards, RoomStates, Actions
  <2> QED
    BY <2>1, RequestTypes, IdleTypes
       DEF Init, RoomInit, PipelineInit, TypeOK, RequestType, JobType
<1>4. \A t \in Tasks : RowShape(t) /\ BoxHeld(t) /\ OrphanHeld(t) /\ RoomHeld(t)
  BY <1>1 DEF RowShape, BoxHeld, OrphanHeld, RoomHeld, NoClaim
<1>5. \A t \in Tasks, q \in Requests : Claiming(q, t) /\ Ending(q, t)
  BY <1>2 DEF Claiming, Ending
<1>6. ReceiptIsFinal
  BY <1>1 DEF ReceiptIsFinal
<1> QED
  BY <1>3, <1>4, <1>5, <1>6 DEF IInv

\* A step of the pipeline keeps the invariant.
LEMMA PipelinePreserves ==
    ASSUME IInv, PipelineStep
    PROVE  IInv'
<1>1. TypeOK' /\ UNCHANGED <<receipt, req, room>>
  BY DEF PipelineStep
<1>2. ASSUME NEW t \in Tasks
      PROVE  /\ RowShape(t)' /\ BoxHeld(t)' /\ OrphanHeld(t)' /\ RoomHeld(t)'
             /\ \A q \in Requests : Claiming(q, t)' /\ Ending(q, t)'
             /\ (receipt[t] # "none" => room[t] = "ended" /\ ~External(t))'
  <2>0. /\ claim[t] \in Claims /\ workers[t] \subseteq Engines
        /\ RowShape(t) /\ BoxHeld(t) /\ OrphanHeld(t) /\ RoomHeld(t)
        /\ \A q \in Requests : Claiming(q, t) /\ Ending(q, t)
        /\ receipt[t] # "none" => room[t] = "ended" /\ ~External(t)
    BY DEF IInv, TypeOK, ReceiptIsFinal
  <2>1. /\ workers'[t] \subseteq workers[t] \cup {"box"}
        /\ "box" \in workers'[t] =>
            /\ "box" \in workers[t] \/ "job" \in claim[t].keepers
            /\ Kept(t) /\ job'.task = t /\ job'.at \in {"work", "review"}
    BY DEF PipelineStep
  <2>2. CASE Kept(t)
    <3>1. RowShape(t)' /\ OrphanHeld(t)' /\ RoomHeld(t)'
      BY <1>1, <2>0, <2>1, <2>2 DEF Kept, RowShape, OrphanHeld, RoomHeld, External
    <3>2. BoxHeld(t)'
      BY <2>0, <2>1, <2>2 DEF Kept, RowShape, BoxHeld, OrphanHeld
    <3>3. \A q \in Requests : Claiming(q, t)' /\ Ending(q, t)'
      BY <1>1, <2>0, <2>2 DEF Kept, Claiming, Ending, RowShape, External
    <3> QED
      BY <1>1, <2>0, <2>2, <3>1, <3>2, <3>3 DEF Kept, External
  <2>3. CASE GivenBack(t) /\ ~Kept(t)
    <3>1. claim'[t] = NoClaim /\ claim[t].kind = "in_box" /\ workers'[t] \subseteq {}
      BY <2>0, <2>1, <2>3 DEF GivenBack, RowShape, OrphanHeld, Engines
    <3> QED
      BY <1>1, <2>0, <3>1
         DEF RowShape, BoxHeld, OrphanHeld, RoomHeld, External, Claiming, Ending, NoClaim
  <2>4. CASE Taken(t) /\ ~Kept(t)
    <3>1. /\ claim'[t] = Acquired("in_box", "job") /\ claim[t].kind = "none"
          /\ workers'[t] \subseteq {}
      BY <2>0, <2>1, <2>4 DEF Taken, Row, RowShape, OrphanHeld, Engines
    <3> QED
      BY <1>1, <2>0, <3>1
         DEF RowShape, BoxHeld, OrphanHeld, RoomHeld, External, Claiming, Ending, Acquired
  <2> QED
    BY <2>2, <2>3, <2>4 DEF PipelineStep
<1> QED
  BY <1>1, <1>2 DEF IInv, ReceiptIsFinal

\* A step of a room keeps the invariant.
LEMMA RoomPreserves ==
    ASSUME IInv, NEW t \in Tasks, RoomEffect(t)
    PROVE  IInv'
<1>1. ASSUME NEW u \in Tasks PROVE BoxHeld(u)' /\ OrphanHeld(u)'
  <2>1. claim'[u] = claim[u] \/ (claim[u].kind # "in_box")
    BY DEF RoomEffect, RoomRow, External, Row, IInv, RowShape
  <2>2. BoxHeld(u) /\ OrphanHeld(u)
    BY DEF IInv
  <2> QED
    BY <2>1, <2>2 DEF RoomEffect, BoxHeld, OrphanHeld
<1> QED
  BY <1>1 DEF RoomEffect, RoomInv, IInv, ReceiptIsFinal

\* Time, and workers that end.
LEMMA TimePreserves ==
    ASSUME IInv, NEW t \in Tasks, Expire(t) \/ RoomEnds(t) \/ OrphanEnds(t)
    PROVE  IInv'
<1>1. CASE Expire(t)
  <2>1. TypeOK'
    <3>1. claim \in [Tasks -> Claims] /\ claim' = [claim EXCEPT ![t].fresh = FALSE]
      BY <1>1 DEF IInv, TypeOK, Expire
    <3>2. [claim[t] EXCEPT !.fresh = FALSE] \in Claims
      BY <3>1 DEF Claims
    <3>3. claim' \in [Tasks -> Claims]
      BY <3>1, <3>2
    <3> QED
      BY <1>1, <3>3 DEF IInv, TypeOK, Expire, roomVars, pipelineVars
  <2>2. \A u \in Tasks : /\ claim'[u].state = claim[u].state /\ claim'[u].kind = claim[u].kind
                         /\ claim'[u].old = claim[u].old /\ claim'[u].keepers = claim[u].keepers
    BY <1>1 DEF IInv, TypeOK, Expire, Claims
  <2> QED
    BY <1>1, <2>1, <2>2
       DEF IInv, Expire, roomVars, pipelineVars, RowShape, BoxHeld, OrphanHeld, RoomHeld, Claiming,
           Ending, ReceiptIsFinal, External
<1>2. CASE RoomEnds(t)
  <2>1. TypeOK'
    BY <1>2 DEF IInv, TypeOK, RoomEnds, RoomStates, pipelineVars
  <2>2. \A u \in Tasks : room'[u] = room[u] \/ room'[u] = "ended"
    BY <1>2 DEF IInv, TypeOK, RoomEnds
  <2> QED
    BY <1>2, <2>1, <2>2
       DEF IInv, RoomEnds, pipelineVars, RowShape, BoxHeld, OrphanHeld, RoomHeld, Claiming,
           Ending, ReceiptIsFinal, External
<1>3. CASE OrphanEnds(t)
  <2>1. TypeOK'
    BY <1>3 DEF IInv, TypeOK, OrphanEnds, roomVars
  <2>2. \A u \in Tasks : workers'[u] \subseteq workers[u]
    BY <1>3 DEF IInv, TypeOK, OrphanEnds
  <2> QED
    BY <1>3, <2>1, <2>2
       DEF IInv, OrphanEnds, roomVars, RowShape, BoxHeld, OrphanHeld, RoomHeld, Claiming,
           Ending, ReceiptIsFinal, External
<1> QED
  BY <1>1, <1>2, <1>3

\* What a start of the gate leaves of a row.
LEMMA RowAtStart ==
    ASSUME IInv, NEW t \in Tasks, NEW rebooted \in BOOLEAN, NEW reaps \in BOOLEAN
    PROVE  /\ AtStart(t, rebooted, reaps) \in Claims
           /\ AtStart(t, rebooted, reaps).keepers = {}
           /\ \/ /\ AtStart(t, rebooted, reaps).kind = claim[t].kind
                 /\ AtStart(t, rebooted, reaps).state = claim[t].state
                 /\ AtStart(t, rebooted, reaps).old =
                       (claim[t].kind = "in_box" /\ (claim[t].old \/ rebooted))
              \/ /\ AtStart(t, rebooted, reaps) = NoClaim /\ claim[t].kind = "in_box"
                 /\ claim[t].old \/ rebooted
<1>1. claim[t] \in Claims /\ NoClaim \in Claims /\ NoClaim.keepers = {}
  BY DEF IInv, TypeOK, NoClaim, Claims
<1> DEFINE c == [claim[t] EXCEPT !.keepers = {},
                     !.old = claim[t].kind = "in_box" /\ (claim[t].old \/ rebooted)]
<1>2. /\ c \in Claims /\ c.keepers = {} /\ c.kind = claim[t].kind /\ c.state = claim[t].state
      /\ c.old = (claim[t].kind = "in_box" /\ (claim[t].old \/ rebooted))
  BY <1>1 DEF Claims
<1>3. AtStart(t, rebooted, reaps) = IF reaps /\ c.old THEN NoClaim ELSE c
  BY DEF AtStart
<1> HIDE DEF c
<1> QED
  BY <1>1, <1>2, <1>3

\* A new gate, or a new boot: what outlived it is an orphan under its row.
LEMMA StartPreserves ==
    ASSUME IInv, GateRestart \/ MachineReboot
    PROVE  IInv'
<1>1. PICK rebooted \in BOOLEAN, reaps \in BOOLEAN :
        /\ claim' = [t \in Tasks |-> AtStart(t, rebooted, reaps)]
        /\ workers' = [t \in Tasks |-> IF rebooted THEN {} ELSE
                                       IF "box" \in workers[t] THEN {"orphan"} ELSE workers[t]]
  BY DEF GateRestart, MachineReboot, GateStarts
<1>2. /\ card' \in [Tasks -> Cards] /\ cache' = [t \in Tasks |-> FALSE]
      /\ req' = [q \in Requests |-> NoRequest] /\ job' = Idle /\ sweep' = {}
      /\ lock' = [t \in Tasks |-> "none"] /\ UNCHANGED <<receipt, room, side>>
  BY DEF GateRestart, MachineReboot, GateStarts
<1>3. TypeOK'
  <2>1. claim' \in [Tasks -> Claims]
    BY <1>1, RowAtStart
  <2>2. workers' \in [Tasks -> SUBSET Engines]
    BY <1>1 DEF IInv, TypeOK, Engines
  <2>3. lock' \in [Tasks -> Actions] /\ req' \in [Requests -> RequestType] /\ job' \in JobType
    BY <1>2, RequestTypes, IdleTypes DEF Actions
  <2> QED
    BY <1>2, <2>1, <2>2, <2>3 DEF IInv, TypeOK, RequestType, JobType
<1>4. ASSUME NEW t \in Tasks
      PROVE  /\ RowShape(t)' /\ BoxHeld(t)' /\ OrphanHeld(t)' /\ RoomHeld(t)'
             /\ (receipt[t] # "none" => room[t] = "ended" /\ ~External(t))'
  <2>0. /\ RowShape(t) /\ BoxHeld(t) /\ OrphanHeld(t) /\ RoomHeld(t)
        /\ receipt[t] # "none" => room[t] = "ended" /\ ~External(t)
        /\ workers[t] \subseteq Engines
    BY DEF IInv, ReceiptIsFinal, TypeOK
  <2>1. /\ claim'[t].keepers = {}
        /\ \/ /\ claim'[t].kind = claim[t].kind /\ claim'[t].state = claim[t].state
              /\ claim'[t].old = (claim[t].kind = "in_box" /\ (claim[t].old \/ rebooted))
           \/ /\ claim'[t] = NoClaim /\ claim[t].kind = "in_box"
              /\ claim[t].old \/ rebooted
    BY <1>1, RowAtStart
  <2>2. /\ workers'[t] = {} \/ (workers'[t] = {"orphan"} /\ workers[t] # {} /\ ~rebooted)
    BY <1>1, <2>0 DEF Engines
  <2>3. workers[t] # {} => claim[t].kind = "in_box" /\ ~claim[t].old
    BY <2>0 DEF BoxHeld, OrphanHeld, Engines
  <2>4. RowShape(t)'
    <3>1. CASE claim'[t] = NoClaim
      BY <3>1 DEF RowShape, NoClaim
    <3>2. CASE claim'[t].kind = claim[t].kind /\ claim'[t].state = claim[t].state
               /\ (claim'[t].old => claim[t].kind = "in_box")
      BY <2>0, <2>1, <3>2 DEF RowShape
    <3> QED
      BY <2>1, <3>1, <3>2
  <2>5. BoxHeld(t)' /\ OrphanHeld(t)'
    BY <2>1, <2>2, <2>3 DEF BoxHeld, OrphanHeld
  <2>6. RoomHeld(t)' /\ (receipt[t] # "none" => room[t] = "ended" /\ ~External(t))'
    BY <1>2, <2>0, <2>1 DEF RoomHeld, External, NoClaim
  <2> QED
    BY <2>4, <2>5, <2>6
<1>5. \A t \in Tasks, q \in Requests : Claiming(q, t)' /\ Ending(q, t)'
  BY <1>2, RequestTypes DEF Claiming, Ending
<1> QED
  BY <1>3, <1>4, <1>5 DEF IInv, ReceiptIsFinal

\* Every step is of one of these kinds.
LEMMA StepKinds ==
    ASSUME IInv, [Next]_vars
    PROVE  \/ PipelineStep
           \/ \E t \in Tasks : RoomEffect(t)
           \/ \E t \in Tasks : Expire(t) \/ RoomEnds(t) \/ OrphanEnds(t)
           \/ GateRestart \/ MachineReboot
           \/ UNCHANGED vars
<1>1. ASSUME NEW t \in Tasks, (\E q \in Requests : Room(q, t)) \/ RoomBeat(t)
      PROVE  RoomEffect(t)
  BY <1>1, RoomSteps DEF Room, RoomBeat
<1>2. ASSUME Turns PROVE PipelineStep
  BY <1>2, TurnSteps DEF Turns
<1>3. ASSUME Sweeps \/ \E t \in Tasks : Board(t) PROVE PipelineStep
  BY <1>3, OperatorSteps DEF Sweeps, Board
<1> QED
  BY <1>1, <1>2, <1>3, TickSteps DEF Next

LEMMA InvStep == IInv /\ [Next]_vars => IInv'
<1> SUFFICES ASSUME IInv, [Next]_vars PROVE IInv'
  OBVIOUS
<1>1. CASE UNCHANGED vars
  BY <1>1 DEF vars, IInv, TypeOK, RowShape, BoxHeld, OrphanHeld, RoomHeld, Claiming, Ending,
              ReceiptIsFinal, External
<1> QED
  BY <1>1, StepKinds, PipelinePreserves, RoomPreserves, TimePreserves, StartPreserves

LEMMA Invariance == Spec => []IInv
  BY InitHolds, InvStep, PTL DEF Spec

\* Every variable keeps its type.
THEOREM Typed == Spec => []TypeOK
<1>1. IInv => TypeOK
  BY DEF IInv
<1> QED
  BY <1>1, Invariance, PTL

\* A task is worked on by one worker at a time: an engine of the gate, one
\* that outlived its gate, or a room's.
THEOREM Exclusive == Spec => []OneWorker
<1>1. IInv => OneWorker
  BY DEF IInv, TypeOK, OneWorker, BoxHeld, OrphanHeld, RoomHeld, External, Engines
<1> QED
  BY <1>1, Invariance, PTL

\* A terminal receipt ends its room for good.
THEOREM Settlement == Spec => []ReceiptIsFinal
<1>1. IInv => ReceiptIsFinal
  BY DEF IInv
<1> QED
  BY <1>1, Invariance, PTL

-----------------------------------------------------------------------------
(* The refinement of TaskOwnership                                         *)

\* One step of the ownership of t, in the terms of the claims.
OwnershipOf(t) ==
    /\ \/ claim'[t].kind = claim[t].kind
       \/ /\ claim[t].kind = "none" /\ WorkerOn(t)' = "none"
          /\ claim'[t].kind = "external" => receipt[t] = "none"
       \/ claim'[t].kind = "none" /\ WorkerOn(t)' = "none"
    /\ \/ WorkerOn(t)' \in {WorkerOn(t), "none"}
       \/ WorkerOn(t) = "none" /\ WorkerOn(t)' = "box" /\ claim[t].kind = "in_box"
       \/ /\ WorkerOn(t) = "none" /\ WorkerOn(t)' = "room" /\ claim[t].kind = "external"
          /\ receipt[t] = "none"
       \/ WorkerOn(t) = "box" /\ WorkerOn(t)' = "orphan"
    /\ \/ receipt'[t] = receipt[t]
       \/ receipt'[t] # "none" /\ External(t) /\ claim'[t].kind = "none"

\* What works on a task, given the invariant.
WorkerIs(t) ==
    /\ workers[t] = {} \/ workers[t] = {"box"} \/ workers[t] = {"orphan"}
    /\ workers[t] # {} => claim[t].kind = "in_box" /\ room[t] # "live"
    /\ room[t] = "live" => claim[t].kind = "external" /\ receipt[t] = "none"
    /\ WorkerOn(t) = IF room[t] = "live" THEN "room"
                     ELSE IF workers[t] = {"orphan"} THEN "orphan"
                     ELSE IF workers[t] = {"box"} THEN "box" ELSE "none"

LEMMA Workers == IInv => \A t \in Tasks : WorkerIs(t)
<1> SUFFICES ASSUME IInv, NEW t \in Tasks PROVE WorkerIs(t)
  OBVIOUS
<1>1. /\ workers[t] \subseteq {"box", "orphan"} /\ BoxHeld(t) /\ OrphanHeld(t) /\ RoomHeld(t)
      /\ receipt[t] # "none" => room[t] = "ended" /\ ~External(t)
  BY DEF IInv, TypeOK, Engines, ReceiptIsFinal
<1> QED
  BY <1>1 DEF WorkerIs, BoxHeld, OrphanHeld, RoomHeld, External, WorkerOn

LEMMA WorkersNext == IInv' => \A t \in Tasks : WorkerIs(t)'
<1>1. IInv' => (\A t \in Tasks : WorkerIs(t))'
  BY Workers, PTL
<1> QED
  BY <1>1

LEMMA OwnershipSteps ==
    ASSUME IInv, IInv', [Next]_vars, NEW t \in Tasks
    PROVE  OwnershipOf(t)
<1>1. WorkerIs(t)
  BY Workers
<1>2. WorkerIs(t)'
  BY WorkersNext
<1> USE DEF WorkerIs
<1>3. ASSUME PipelineStep PROVE OwnershipOf(t)
  <2>1. /\ UNCHANGED <<receipt, room>>
        /\ Kept(t) \/ GivenBack(t) \/ Taken(t)
        /\ workers'[t] \subseteq workers[t] \cup {"box"}
        /\ "box" \in workers'[t] => Kept(t) /\ ("box" \in workers[t] \/ "job" \in claim[t].keepers)
    BY <1>3 DEF PipelineStep
  <2>2. "orphan" \in workers[t] => "box" \notin workers'[t]
    BY <1>1, <2>1 DEF IInv, OrphanHeld, BoxHeld
  <2>3. claim'[t].kind = claim[t].kind \/ claim'[t].kind = "none"
        \/ (claim[t].kind = "none" /\ claim'[t].kind = "in_box" /\ "box" \notin workers'[t])
    BY <2>1 DEF Kept, GivenBack, Taken, NoClaim, Acquired, Row, IInv, RowShape
  <2> QED
    BY <1>1, <1>2, <2>1, <2>2, <2>3 DEF OwnershipOf, Kept
<1>4. ASSUME NEW u \in Tasks, RoomEffect(u) PROVE OwnershipOf(t)
  <2>1. workers'[t] = workers[t]
    BY <1>4 DEF RoomEffect
  <2>2. CASE t # u
    <3>1. claim'[t] = claim[t] /\ receipt'[t] = receipt[t] /\ room'[t] = room[t]
      BY <1>4, <2>2 DEF RoomEffect
    <3> QED
      BY <1>1, <1>2, <2>1, <3>1 DEF OwnershipOf
  <2>3. CASE t = u
    <3>1. /\ RoomRow(t)
          /\ receipt'[t] = receipt[t] \/ (External(t) /\ claim'[t].kind = "none")
          /\ room'[t] = "live" => room[t] = "live" \/ (External(t) /\ room[t] = "out")
      BY <1>4, <2>3 DEF RoomEffect
    <3>2. claim[t].state = "none" <=> claim[t].kind = "none"
      BY DEF IInv, RowShape
    <3>3. receipt[t] # "none" => room[t] = "ended" /\ ~External(t)
      BY DEF IInv, ReceiptIsFinal
    <3> QED
      BY <1>1, <1>2, <2>1, <3>1, <3>2, <3>3 DEF OwnershipOf, RoomRow, External, Row
  <2> QED
    BY <2>2, <2>3
<1>5. ASSUME NEW u \in Tasks, Expire(u) \/ RoomEnds(u) \/ OrphanEnds(u) PROVE OwnershipOf(t)
  <2>1. /\ claim'[t].kind = claim[t].kind /\ receipt'[t] = receipt[t]
        /\ room'[t] \in {room[t], "ended"} /\ workers'[t] \in {workers[t], workers[t] \ {"orphan"}}
    BY <1>5 DEF IInv, TypeOK, Claims, Expire, RoomEnds, OrphanEnds, roomVars, pipelineVars
  <2> QED
    BY <1>1, <1>2, <2>1 DEF OwnershipOf
<1>6. ASSUME GateRestart \/ MachineReboot PROVE OwnershipOf(t)
  <2>1. PICK rebooted \in BOOLEAN, reaps \in BOOLEAN :
          claim' = [u \in Tasks |-> AtStart(u, rebooted, reaps)]
    BY <1>6 DEF GateRestart, MachineReboot, GateStarts
  <2>2. claim'[t].kind \in {claim[t].kind, "none"}
    BY <2>1, RowAtStart DEF NoClaim
  <2>3. /\ UNCHANGED <<receipt, room>>
        /\ workers'[t] \in {{}, workers[t], {"orphan"}} /\ (workers[t] = {} => workers'[t] = {})
    BY <1>6 DEF GateRestart, MachineReboot, GateStarts
  <2> QED
    BY <1>1, <1>2, <2>2, <2>3 DEF OwnershipOf
<1>7. ASSUME UNCHANGED vars PROVE OwnershipOf(t)
  BY <1>7, <1>1, <1>2 DEF OwnershipOf, vars
<1> QED
  BY <1>3, <1>4, <1>5, <1>6, <1>7, StepKinds

LEMMA OwnershipStep ==
    IInv /\ IInv' /\ [Next]_vars => [Ownership!Next]_<<Owner, Worker, Settled>>
<1> SUFFICES ASSUME IInv, IInv', [Next]_vars PROVE Ownership!Next
  OBVIOUS
<1>1. /\ Owner' \in [Tasks -> Ownership!Owners] /\ Worker' \in [Tasks -> Ownership!Workers]
      /\ Settled' \in [Tasks -> BOOLEAN]
  BY DEF IInv, TypeOK, Claims, Owner, Worker, Settled, WorkerOn, Ownership!Owners, Ownership!Workers
<1>2. ASSUME NEW t \in Tasks
      PROVE  Ownership!WorkerStep(t) /\ Ownership!OwnerStep(t) /\ Ownership!SettleStep(t)
  <2>1. /\ Owner[t] = claim[t].kind /\ Owner'[t] = claim'[t].kind
        /\ Worker[t] = WorkerOn(t) /\ Worker'[t] = WorkerOn(t)'
        /\ Settled[t] = (receipt[t] # "none") /\ Settled'[t] = (receipt'[t] # "none")
    BY DEF Owner, Worker, Settled
  <2>2. OwnershipOf(t)
    BY OwnershipSteps
  <2>3. Ownership!WorkerStep(t)
    BY <2>1, <2>2 DEF OwnershipOf, Ownership!WorkerStep
  <2>4. Ownership!OwnerStep(t)
    BY <2>1, <2>2 DEF OwnershipOf, Ownership!OwnerStep
  <2>5. Ownership!SettleStep(t)
    BY <2>1, <2>2 DEF OwnershipOf, External, Ownership!SettleStep
  <2> QED
    BY <2>3, <2>4, <2>5
<1> QED
  BY <1>1, <1>2 DEF Ownership!Next

\* The two schedulers and the durable claims implement exclusive ownership.
THEOREM Implements == Spec => Owns
<1>1. Init => Ownership!Init
  <2>1. Init => \A t \in Tasks : /\ claim[t].kind = "none" /\ receipt[t] = "none"
                                 /\ WorkerOn(t) = "none"
    BY DEF Init, RoomInit, PipelineInit, NoClaim, WorkerOn
  <2> QED
    BY <2>1 DEF Ownership!Init, Owner, Worker, Settled
<1>2. Spec => [][Ownership!Next]_<<Owner, Worker, Settled>>
  BY Invariance, OwnershipStep, PTL DEF Spec
<1> QED
  BY <1>1, <1>2, PTL DEF Spec, Owns, Ownership!Spec
=============================================================================
