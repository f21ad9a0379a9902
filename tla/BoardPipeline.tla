--------------------------- MODULE BoardPipeline ---------------------------
(***************************************************************************)
(* The autonomous board pipeline of gate.js: one tick at a time holds the  *)
(* agent slot, sweeps orphans, advances a pending card, or claims a queued *)
(* one and runs its author; the result waits for a review on a later tick. *)
(* A step is one synchronous turn; the pipeline awaits between them.       *)
(*                                                                         *)
(* The chains.json sidecar keeps the phase of a card and its human gates.  *)
(* Some turns write back a copy of the sidecar that an earlier turn read.  *)
(***************************************************************************)
EXTENDS ClaimStore, HermesBoard

VARIABLES
    side,           \* side[t]: what chains.json says of task t
    job,            \* the pipeline turn that holds the agent slot
    workers,        \* workers[t]: in-box engines at work on task t
    sweep,          \* tasks whose forceBlock nobody awaits
    lock            \* lock[t]: the board action that locks task t

pipelineVars == <<side, job, workers, sweep, lock>>

Sides == [pending : {"none", "review", "work", "limbo"}, parked : BOOLEAN, frozen : BOOLEAN]
NoSide == [pending |-> "none", parked |-> FALSE, frozen |-> FALSE]
Stages == {"idle", "list", "classify", "claim", "prepare", "work", "advance", "handoffs",
           "comment", "review", "fallback", "complete", "approve", "note", "park",
           "block", "finish", "reclaim", "quarantine"}
Engines == {"box", "orphan"}
Actions == {"none", "freeze", "unfreeze", "review"}

Idle == [at |-> "idle",     \* what the turn awaits
         task |-> None,
         then |-> "release",    \* what follows a note, a park or a reclaim
         free |-> FALSE,        \* forceBlock found no durable row
         seen |-> [t \in Tasks |-> "queued"],   \* the cards as list showed them, while it matters
         snap |-> [t \in Tasks |-> NoSide]]     \* the sidecar as it was read

\* The slot is released.
Done == job' = Idle
Go(at, then) == job' = [job EXCEPT !.at = at, !.then = then]
\* The copy of the sidecar is not used again.
Fresh(at, then) == job' = [job EXCEPT !.at = at, !.then = then, !.snap = Idle.snap]
Park(t, then) ==
    job' = [job EXCEPT !.at = "park", !.then = then, !.free = ~Row(t), !.snap = Idle.snap]

Pending(t, phase) == [side EXCEPT ![t].pending = phase]
Mine(t) == Current(t, "job")

\* Mutant: the entry is kept under a phase of its own.
QuarantinedInPlace(t) == [side EXCEPT ![t].pending = "quarantined", ![t].parked = TRUE]

\* quarantineBoardClaim: the holder is dropped and the card parked; an open
\* card is blocked before the slot is released.
Quarantined(t) == [side EXCEPT ![t].pending = "none", ![t].parked = TRUE]
BlockThenRelease(t) ==
    IF job.seen[t] \in Terminal THEN Done
    ELSE job' = [job EXCEPT !.at = "quarantine", !.free = ~Row(t), !.snap = Idle.snap]
Quarantine(t) ==
    /\ claim' = [claim EXCEPT ![t].keepers = @ \ {"job"}]
    /\ side' = Quarantined(t)
    /\ BlockThenRelease(t)

\* Mutant: the slot is not released.
KeepSlot == UNCHANGED <<job, claim, side>>

Discard == Done /\ UNCHANGED <<claim, side>>

\* requireLiveBoardClaim refuses: a live owner that is not this holder is
\* left alone, anything else is quarantined.
Lost(t) ==
    /\ ~Mine(t)
    /\ IF "job" \notin claim[t].keepers /\ (Live(t) \/ claim[t].state = "recovering")
       THEN Discard ELSE Quarantine(t)

\* failClaimOperation: as above, but an expired row of this holder is left.
FailClaim(t) == IF Row(t) /\ ~Mine(t) THEN Discard ELSE Quarantine(t)

\* The row is given back and the slot released, or the claim has failed.
GiveBack(t) ==
    \/ Release(t, "job") /\ Done /\ UNCHANGED side
    \/ ~Mine(t) /\ FailClaim(t)

-----------------------------------------------------------------------------
(* A tick                                                                  *)

Tick ==
    /\ job = Idle
    /\ job' = [Idle EXCEPT !.at = "list", !.seen = card]
    /\ UNCHANGED <<claim, receipt, card, side, workers, sweep, lock>>

\* list failed: the tick works on an empty board, and prunes every entry of
\* the sidecar as that of a card that is gone.
ListFailed ==
    /\ job.at = "list" /\ "list" \in Faults
    /\ side' = [t \in Tasks |-> NoSide]
    /\ Done
    /\ UNCHANGED <<claim, receipt, card, workers, sweep, lock>>

\* list answered a tick whose lane was quarantined meanwhile.
ListAbandoned ==
    /\ job.at = "list"
    /\ Done
    /\ UNCHANGED <<claim, receipt, card, side, workers, sweep, lock>>

\* The sidecar once the aged pending entries and the parked marks of
\* resolved cards are pruned.
Pruned(aged) ==
    [t \in Tasks |-> [side[t] EXCEPT !.pending = IF t \in aged THEN "none" ELSE @,
                                     !.parked = @ /\ job.seen[t] \notin {"done", "running"}]]

\* Running cards that nothing accounts for; held are the tasks rooms hold.
Orphans(held, s) ==
    {t \in Tasks : /\ job.seen[t] = "running" /\ t \notin held
                   /\ s[t].pending = "none" /\ ~s[t].frozen
                   /\ ~Row(t)}

Swept(held, s) ==
    [t \in Tasks |-> [s[t] EXCEPT !.parked = @ \/ t \in Orphans(held, s)]]

\* Pending entries of cards a human closed or finished are dropped.
Over(t) == job.seen[t] \in Terminal
DropPending(s, gone) == [t \in Tasks |-> IF t \in gone THEN [s[t] EXCEPT !.pending = "none"] ELSE s[t]]

\* runReviewPhase up to its first await.
StartReview(t, s) ==
    /\ side' = s
    /\ \/ /\ job' = [Idle EXCEPT !.at = "review", !.task = t]
          /\ workers' = [workers EXCEPT ![t] = @ \cup {"box"}]
          /\ UNCHANGED claim
       \/ \* no run record or start checkpoint; no reviewer at all
          /\ \E then \in {"release", "finish"} :
                job' = [Idle EXCEPT !.at = "park", !.task = t, !.then = then, !.free = ~Row(t)]
          /\ UNCHANGED <<claim, workers>>
       \/ \* every reviewer is down: `cur` is not declared, and the tick ends
          Done /\ UNCHANGED <<claim, workers>>

\* runCorrectionPhase up to its first await.
StartCorrection(t, s) ==
    \/ /\ side' = s
       /\ job' = [Idle EXCEPT !.at = "work", !.task = t]
       /\ workers' = [workers EXCEPT ![t] = @ \cup {"box"}]
       /\ UNCHANGED claim
    \/ \* the budget or the private workspace is gone
       /\ side' = DropPending(s, {t})
       /\ job' = [Idle EXCEPT !.at = "park", !.task = t, !.then = "finish", !.free = ~Row(t)]
       /\ UNCHANGED <<claim, workers>>
    \/ \* no run record or start checkpoint
       /\ side' = s
       /\ job' = [Idle EXCEPT !.at = "park", !.task = t, !.then = "release", !.free = ~Row(t)]
       /\ UNCHANGED <<claim, workers>>

\* A pending card in flight: its claim must still await a review.
Advance(t, s) ==
    \/ /\ Mine(t) /\ claim[t].state = "awaiting_review"
       /\ \/ s[t].pending = "review" /\ StartReview(t, s)
          \/ s[t].pending = "work" /\ StartCorrection(t, s)
    \/ \* a live owner that is not this holder, or not in this state
       /\ ~(Mine(t) /\ claim[t].state = "awaiting_review")
       /\ Live(t) \/ claim[t].state = "recovering"
       /\ side' = s /\ Done /\ UNCHANGED <<claim, workers>>
    \/ /\ ~Live(t) /\ claim[t].state # "recovering"
       /\ claim' = [claim EXCEPT ![t].keepers = @ \ {"job"}]
       /\ side' = [s EXCEPT ![t].pending = "none", ![t].parked = TRUE]
       /\ job' = [Idle EXCEPT !.at = "quarantine", !.task = t, !.free = ~Row(t)]
       /\ UNCHANGED workers

\* Nothing in flight: an eligible card is chosen, or none runs now.
Eligible(s) ==
    {t \in Tasks : /\ job.seen[t] = "queued" /\ lock[t] = "none"
                   /\ s[t] = NoSide}
Dispatch(s) ==
    /\ side' = s
    /\ \/ Done
       \/ \E t \in Eligible(s) :
            job' = [Idle EXCEPT !.at = "classify", !.task = t, !.snap = s]
    /\ UNCHANGED <<claim, workers>>

\* list answered.  The pending entries are looked at in any order, up to
\* the first one that decides the tick.
Listed(held) ==
    /\ job.at = "list"
    /\ \E aged \in SUBSET Tasks :
       LET s == Swept(held, Pruned(aged))
           open == {t \in Tasks : s[t].pending # "none"}
           shut == {t \in open : Over(t) /\ "job" \notin claim[t].keepers}
           stop == {t \in open : ~(t \in shut) /\ ~(s[t].pending = "limbo" /\ ~Over(t) /\
                                 Mine(t) /\ claim[t].state = "awaiting_review")}
       IN  /\ sweep' = sweep \cup Orphans(held, Pruned(aged))
           /\ \/ \E t \in stop, gone \in SUBSET shut :
                   IF Over(t)
                   THEN /\ side' = DropPending(s, gone \cup {t})
                        /\ job' = [job EXCEPT !.at = "finish", !.task = t]
                        /\ UNCHANGED <<claim, workers>>
                   ELSE Advance(t, DropPending(s, gone))
              \/ stop = {} /\ Dispatch(DropPending(s, shut))
    /\ UNCHANGED <<receipt, card, lock>>

-----------------------------------------------------------------------------
(* Dispatch of a new card                                                  *)

\* The classifier (or an approved override) decides; then the chain guard,
\* the board lock and the durable claim.
Classified(t) ==
    /\ job.at = "classify" /\ job.task = t
    /\ \/ Park(t, "release") /\ UNCHANGED <<claim, side>>
       \/ side' = job.snap /\ Park(t, "release") /\ UNCHANGED claim
       \/ (lock[t] # "none" \/ Row(t)) /\ Done /\ UNCHANGED <<claim, side>>
       \/ /\ lock[t] = "none" /\ TryAcquire(t, "in_box", "job")
          /\ Go("claim", "release") /\ UNCHANGED side
    /\ UNCHANGED <<receipt, card, workers, sweep, lock>>

\* The author starts, unless its start cannot be recorded or armed.
Launch(t) ==
    \/ /\ Fresh("work", "release")
       /\ workers' = [workers EXCEPT ![t] = @ \cup {"box"}]
       /\ UNCHANGED <<claim, side>>
    \/ /\ Fresh("reclaim", "unstarted")
       /\ UNCHANGED <<claim, side, workers>>

\* Hermes answered the claim; the sidecar that was read before the
\* classifier is written back.
Claimed(t) ==
    /\ job.at = "claim" /\ job.task = t
    /\ \E h \in Hermes("claim", card[t]) :
        /\ card' = [card EXCEPT ![t] = h.card]
        /\ \/ ~h.ok /\ GiveBack(t)
           \/ h.ok /\ Quarantine(t)      \* the lane was quarantined meanwhile
           \/ h.ok /\ ~Mine(t) /\ FailClaim(t)
           \/ /\ h.ok /\ Mine(t)
              /\ \/ \* the approved override expired meanwhile
                    /\ claim' = [claim EXCEPT ![t].state = "running", ![t].keepers = {}]
                    /\ side' = Quarantined(t)
                    /\ BlockThenRelease(t)
                 \/ \* the run record, then the workspace
                    /\ Transition(t, "job", "active", "running")
                    /\ side' = job.snap
                    /\ Fresh("reclaim", "release") \/ Fresh("prepare", "release")
    /\ UNCHANGED <<receipt, workers, sweep, lock>>

\* The workspace of the author is ready, at once or after an await.
Prepared(t) ==
    /\ job.at = "prepare" /\ job.task = t
    /\ \/ Lost(t) /\ UNCHANGED workers
       \/ Quarantine(t) /\ UNCHANGED workers     \* the lane was quarantined
       \/ Mine(t) /\ Launch(t)
       \/ Mine(t) /\ Park(t, "finish") /\ UNCHANGED <<claim, side, workers>>
    /\ UNCHANGED <<receipt, card, sweep, lock>>

\* The card is given back; the row only if the run had a record.
Reclaimed(t) ==
    /\ job.at = "reclaim" /\ job.task = t
    /\ \E h \in Hermes("reclaim", card[t]) :
        /\ card' = [card EXCEPT ![t] = h.card]
        /\ CASE job.then = "release" -> Discard
             [] job.then = "unstarted" /\ h.ok -> GiveBack(t)
             [] OTHER -> Quarantine(t)
    /\ UNCHANGED <<receipt, workers, sweep, lock>>

-----------------------------------------------------------------------------
(* The result of an author: finishWorkRun                                  *)

FinishWork(t) ==
    \/ \* the run failed
       /\ side' = Pending(t, "none") /\ Go("block", "finish") /\ UNCHANGED claim
    \/ \* Git stopped it
       /\ side' = Pending(t, "none") /\ Go("note", "park") /\ UNCHANGED claim
    \/ \* clean: a correction already awaits review
       /\ \/ Transition(t, "job", "running", "awaiting_review")
          \/ claim[t].state = "awaiting_review" /\ UNCHANGED claim
       /\ \E then \in {"release", "park"} :
             job' = [job EXCEPT !.at = "handoffs", !.then = then, !.snap = side]
       /\ UNCHANGED side

Worked(t) ==
    /\ job.at \in {"work", "advance"} /\ job.task = t
    /\ workers' = [workers EXCEPT ![t] = @ \ {"box"}]
    /\ \/ Lost(t)
       \/ Mine(t) /\ FinishWork(t)
       \/ Mine(t) /\ job.at = "work" /\ Go("advance", "release") /\ UNCHANGED <<claim, side>>
    /\ UNCHANGED <<receipt, card, sweep, lock>>

\* A handoff proposed too often parks the card before the others go on.
HandoffParks(t) ==
    /\ job.at = "handoffs" /\ job.then = "park" /\ job.task = t
    /\ \E d \in ForceBlocked(card[t], FALSE) : card' = [card EXCEPT ![t] = d]
    /\ side' = [side EXCEPT ![t].parked = TRUE]
    /\ Go("handoffs", "release")
    /\ UNCHANGED <<claim, receipt, workers, sweep, lock>>

\* The handoffs are created; the sidecar read before them is written back.
HandedOff(t) ==
    /\ job.at = "handoffs" /\ job.then = "release" /\ job.task = t
    /\ \/ Lost(t)
       \/ /\ Mine(t) /\ UNCHANGED claim
          /\ \/ /\ side' = [job.snap EXCEPT ![t].pending = "review"]
                /\ Fresh("comment", "release")
             \/ /\ side' = [job.snap EXCEPT ![t].pending = "none"]
                /\ Park(t, "release")
    /\ UNCHANGED <<receipt, card, workers, sweep, lock>>

\* The result is posted; the slot is released and the claim kept.
Commented(t) ==
    /\ job.at = "comment" /\ job.task = t
    /\ Lost(t) \/ (Mine(t) /\ Discard)
    /\ UNCHANGED <<receipt, card, workers, sweep, lock>>

-----------------------------------------------------------------------------
(* The result of a reviewer: runReviewPhase                                *)

\* An approval completes the card, unless the card is frozen.
Approve(t, at) ==
    IF side[t].frozen THEN Park(t, "finish") ELSE Go(at, "release")

Verdict(t) ==
    \/ \* approved by a spawned reviewer
       side' = Pending(t, "none") /\ (IF side[t].frozen THEN Go("note", "park") ELSE Go("complete", "release"))
    \/ \* approved by the API reviewer, stopped after a rejection, or unclear
       side' = Pending(t, "none") /\ Go("note", "park")
    \/ \* no verdict, and no other reviewer: approved
       side' = Pending(t, "none") /\ Approve(t, "approve")
    \/ \* no verdict: the API reviewer is asked; the entry comes back, phaseless
       side' = Pending(t, "limbo") /\ Go("fallback", "release")
    \/ \* rejected
       side' = Pending(t, "work") /\ Go("note", "release")

Reviewed(t) ==
    /\ job.at = "review" /\ job.task = t
    /\ workers' = [workers EXCEPT ![t] = @ \ {"box"}]
    /\ Lost(t) \/ (Mine(t) /\ Verdict(t) /\ UNCHANGED claim)
    /\ UNCHANGED <<receipt, card, sweep, lock>>

\* The API reviewer approves, is down like every other, rejects or is unclear.
FellBack(t) ==
    /\ job.at = "fallback" /\ job.task = t
    /\ Approve(t, "approve") \/ Go("note", "park")
    /\ UNCHANGED <<claim, receipt, card, side, workers, sweep, lock>>

\* A comment was posted before a park, or before the slot is released.
Noted(t) ==
    /\ job.at = "note" /\ job.task = t
    /\ \/ Lost(t)
       \/ Mine(t) /\ job.then = "release" /\ Discard
       \/ Mine(t) /\ job.then = "park" /\ Park(t, "finish") /\ UNCHANGED <<claim, side>>
    /\ UNCHANGED <<receipt, card, workers, sweep, lock>>

\* finishClaimedBoardTask without its look at the card: whatever it says,
\* the holder is dropped and the slot released.
FinishVerified(t) ==
    /\ \/ Release(t, "job")
       \/ ~Mine(t) /\ claim' = [claim EXCEPT ![t].keepers = @ \ {"job"}]
    /\ Done /\ UNCHANGED side

\* Hermes answered complete; only a reviewer's own approval looks at the
\* claim again.  An outcome that cannot be recorded keeps the row.
CompleteAnswered(t) ==
    /\ job.at \in {"complete", "approve"} /\ job.task = t
    /\ \E h \in Hermes("complete", card[t]) :
        /\ card' = [card EXCEPT ![t] = h.card]
        /\ \/ job.at = "complete" /\ Lost(t)
           \/ /\ job.at = "complete" => Mine(t)
              /\ \/ h.ok /\ FinishVerified(t)
                 \/ h.ok /\ Discard
                 \/ ~h.ok /\ Park(t, "finish") /\ UNCHANGED <<claim, side>>
    /\ UNCHANGED <<receipt, workers, sweep, lock>>

-----------------------------------------------------------------------------
(* Endings                                                                 *)

\* parkForReview: the mark is set whether or not the block took.
Parked(t) ==
    /\ job.at = "park" /\ job.task = t
    /\ \E d \in ForceBlocked(card[t], job.free) : card' = [card EXCEPT ![t] = d]
    /\ side' = [side EXCEPT ![t].parked = TRUE]
    /\ IF job.then = "finish" THEN Go("finish", "release") ELSE Done
    /\ UNCHANGED <<claim, receipt, workers, sweep, lock>>

\* A failed run's card is blocked once, whatever the answer.
Blocked(t) ==
    /\ job.at = "block" /\ job.task = t
    /\ \E d \in After("block", card[t]) : card' = [card EXCEPT ![t] = d]
    /\ Go("finish", "release")
    /\ UNCHANGED <<claim, receipt, side, workers, sweep, lock>>

\* finishClaimedBoardTask: the row goes once the card is shown terminal.
Finished(t) ==
    /\ job.at = "finish" /\ job.task = t
    /\ \/ card[t] \in Terminal /\ GiveBack(t)
       \/ (card[t] \notin Terminal \/ "hermes" \in Faults) /\ FailClaim(t)
    /\ UNCHANGED <<receipt, card, workers, sweep, lock>>

QuarantineEnds(t) ==
    /\ job.at = "quarantine" /\ job.task = t
    /\ \E d \in ForceBlocked(card[t], job.free) : card' = [card EXCEPT ![t] = d]
    /\ Done
    /\ UNCHANGED <<claim, receipt, side, workers, sweep, lock>>

\* The forceBlock of a swept orphan.
SweepEnds(t) ==
    /\ t \in sweep
    /\ \E d \in ForceBlocked(card[t], TRUE) : card' = [card EXCEPT ![t] = d]
    /\ sweep' = sweep \ {t}
    /\ UNCHANGED <<claim, receipt, side, job, workers, lock>>

-----------------------------------------------------------------------------
(* The operator's actions on a card                                        *)

\* No other action in progress, and no durable row.
MayAct(t) == lock[t] = "none" /\ ~Row(t)

FreezeStarts(t) ==
    /\ MayAct(t)
    /\ lock' = [lock EXCEPT ![t] = "freeze"]
    /\ UNCHANGED <<claim, receipt, card, side, job, workers, sweep>>

FreezeEnds(t) ==
    /\ lock[t] = "freeze"
    /\ \E d \in ForceBlocked(card[t], TRUE) : card' = [card EXCEPT ![t] = d]
    /\ side' = [side EXCEPT ![t] = [pending |-> "none", parked |-> FALSE, frozen |-> TRUE]]
    /\ lock' = [lock EXCEPT ![t] = "none"]
    /\ UNCHANGED <<claim, receipt, job, workers, sweep>>

UnfreezeStarts(t) ==
    /\ MayAct(t) /\ side[t].frozen
    /\ side' = [side EXCEPT ![t].frozen = FALSE]
    /\ lock' = [lock EXCEPT ![t] = "unfreeze"]
    /\ UNCHANGED <<claim, receipt, card, job, workers, sweep>>

UnfreezeEnds(t) ==
    /\ lock[t] = "unfreeze"
    /\ \E d \in After("unblock", card[t]) : card' = [card EXCEPT ![t] = d]
    /\ lock' = [lock EXCEPT ![t] = "none"]
    /\ UNCHANGED <<claim, receipt, side, job, workers, sweep>>

ReviewStarts(t) ==
    /\ MayAct(t)
    /\ lock' = [lock EXCEPT ![t] = "review"]
    /\ UNCHANGED <<claim, receipt, card, side, job, workers, sweep>>

\* The decision is carried to the board, and clears the gates if it took.
ReviewEnds(t) ==
    /\ lock[t] = "review"
    /\ \E verb \in {"unblock", "reassign"} : \E h \in Hermes(verb, card[t]) :
        /\ card' = [card EXCEPT ![t] = h.card]
        /\ \/ side' = [side EXCEPT ![t].pending = "none", ![t].parked = FALSE]
           \/ ~h.ok /\ UNCHANGED side
    /\ lock' = [lock EXCEPT ![t] = "none"]
    /\ UNCHANGED <<claim, receipt, job, workers, sweep>>

-----------------------------------------------------------------------------
PipelineInit ==
    /\ side = [t \in Tasks |-> NoSide]
    /\ job = Idle
    /\ workers = [t \in Tasks |-> {}]
    /\ sweep = {}
    /\ lock = [t \in Tasks |-> "none"]

\* A turn of the pipeline after its list.
Turn(t) ==
    \/ Classified(t) \/ Claimed(t) \/ Prepared(t) \/ Reclaimed(t)
    \/ Worked(t) \/ HandoffParks(t) \/ HandedOff(t) \/ Commented(t)
    \/ Reviewed(t) \/ FellBack(t) \/ Noted(t) \/ CompleteAnswered(t)
    \/ Parked(t) \/ Blocked(t) \/ Finished(t) \/ QuarantineEnds(t)

Operator(t) ==
    \/ FreezeStarts(t) \/ FreezeEnds(t) \/ UnfreezeStarts(t) \/ UnfreezeEnds(t)
    \/ ReviewStarts(t) \/ ReviewEnds(t)
=============================================================================
