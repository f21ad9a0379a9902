---------------------------- MODULE BoardClaims ----------------------------
(***************************************************************************)
(* The board's two schedulers, the autonomous pipeline of the gate and the *)
(* desktop rooms, over one durable claim store, with the operator's board  *)
(* actions, leases that expire, and restarts of the gate and the machine.  *)
(***************************************************************************)
EXTENDS RoomLease, BoardPipeline

vars == <<claim, receipt, card, cache, req, room, side, job, workers, sweep, lock>>

TypeOK ==
    /\ claim \in [Tasks -> Claims]
    /\ receipt \in [Tasks -> Receipts]
    /\ card \in [Tasks -> Cards]
    /\ cache \in [Tasks -> BOOLEAN]
    /\ req \in [Requests -> [at : Waits, task : Tasks \cup {None}]]
    /\ room \in [Tasks -> RoomStates]
    /\ side \in [Tasks -> Sides]
    /\ job \in [at : Stages, task : Tasks \cup {None},
                then : {"release", "finish", "park", "unstarted"}, free : BOOLEAN,
                seen : [Tasks -> Cards], snap : [Tasks -> Sides]]
    /\ workers \in [Tasks -> SUBSET Engines]
    /\ sweep \subseteq Tasks
    /\ lock \in [Tasks -> Actions]

Init ==
    /\ claim = [t \in Tasks |-> NoClaim]
    /\ receipt = [t \in Tasks |-> "none"]
    /\ card = [t \in Tasks |-> "queued"]
    /\ RoomInit
    /\ PipelineInit

-----------------------------------------------------------------------------
(* Time and crashes                                                        *)

Expire(t) ==
    /\ Live(t)
    /\ claim' = [claim EXCEPT ![t].fresh = FALSE]
    /\ UNCHANGED <<receipt, card, roomVars, pipelineVars>>

\* The room's worker ends; its supervisor knows.
RoomEnds(t) ==
    /\ room[t] = "live"
    /\ room' = [room EXCEPT ![t] = "ended"]
    /\ UNCHANGED <<claim, receipt, card, cache, req, pipelineVars>>

OrphanEnds(t) ==
    /\ "orphan" \in workers[t]
    /\ workers' = [workers EXCEPT ![t] = @ \ {"orphan"}]
    /\ UNCHANGED <<claim, receipt, card, roomVars, side, job, sweep, lock>>

\* One of the commands in flight for a card may still land.
InFlight(t) ==
    LET mine == job.task = t
        forced == \/ t \in sweep \/ lock[t] = "freeze"
                  \/ mine /\ (job.at \in {"park", "quarantine"} \/ (job.at = "handoffs" /\ job.then = "park"))
        verbs == {v \in {"claim", "block", "complete", "reclaim"} :
                    \/ mine /\ job.at = v
                    \/ v = "complete" /\ mine /\ job.at = "approve"
                    \/ v \in {"claim", "block"} /\ forced}
                 \cup {v \in {"unblock", "reassign"} :
                    \/ lock[t] = "review" \/ (v = "unblock" /\ lock[t] = "unfreeze")}
                 \cup UNION {CASE req[q].at \in {"claiming", "resuming"} -> {"claim"}
                               [] req[q].at = "completing" -> {"complete"}
                               [] req[q].at = "stopping" -> {"block"}
                               [] req[q].at = "reclaiming" -> {"reclaim"}
                               [] req[q].at = "recovering" -> {"reclaim", "claim", "block"}
                               [] OTHER -> {} : q \in {p \in Requests : req[p].task = t}}
    IN  {card[t]} \cup {Effect(v, card[t]) : v \in verbs}

\* A new gate process: memory is gone, the rows and the sidecar are not.
GateStarts(rebooted) ==
    /\ \E reaps \in BOOLEAN : claim' = [t \in Tasks |-> AtStart(t, rebooted, reaps)]
    /\ card' \in [Tasks -> Cards] /\ \A t \in Tasks : card'[t] \in InFlight(t)
    /\ cache' = [t \in Tasks |-> FALSE]
    /\ req' = [q \in Requests |-> NoRequest]
    /\ job' = Idle
    /\ sweep' = {}
    /\ lock' = [t \in Tasks |-> "none"]
    /\ UNCHANGED <<receipt, room, side>>

\* The gate alone restarts: its engines may run on.
GateRestart ==
    /\ "restart" \in Faults
    /\ GateStarts(FALSE)
    /\ workers' = [t \in Tasks |-> IF "box" \in workers[t] THEN {"orphan"} ELSE workers[t]]

\* The machine reboots: no in-box engine survives, a desktop room does.
MachineReboot ==
    /\ "reboot" \in Faults
    /\ GateStarts(TRUE)
    /\ workers' = [t \in Tasks |-> {}]

-----------------------------------------------------------------------------
Room(q, t) == RoomStep(q, t) /\ UNCHANGED pipelineVars
RoomBeat(t) == Heartbeat(t) /\ UNCHANGED pipelineVars

Ticks == (Tick \/ ListFailed \/ ListAbandoned \/ Listed({t \in Tasks : cache[t]})) /\ UNCHANGED roomVars
Turns == \E t \in Tasks : Turn(t) /\ UNCHANGED roomVars
Sweeps == \E t \in Tasks : SweepEnds(t) /\ UNCHANGED roomVars
Board(t) == Operator(t) /\ UNCHANGED roomVars

Next ==
    \/ \E t \in Tasks : (\E q \in Requests : Room(q, t)) \/ RoomBeat(t)
    \/ Ticks \/ Turns \/ Sweeps
    \/ \E t \in Tasks : Board(t) \/ Expire(t) \/ RoomEnds(t) \/ OrphanEnds(t)
    \/ GateRestart \/ MachineReboot

Spec == Init /\ [][Next]_vars

\* A turn awaits commands and engines that are timed out, so it goes on.
TurnsSettle == WF_vars(Turns) /\ WF_vars(Ticks /\ job.at = "list")

FairSpec == Spec /\ TurnsSettle

-----------------------------------------------------------------------------
(* Properties                                                              *)

\* At most one worker is at work on a task: an engine of this gate, one that
\* outlived its gate, or the room's.
OneWorker ==
    \A t \in Tasks :
        /\ workers[t] # Engines
        /\ room[t] = "live" => workers[t] = {}

\* Once a terminal receipt stands, its room has ended and no room row comes
\* back: neither a late answer of an abandoned request nor a retry revives it.
ReceiptIsFinal ==
    \A t \in Tasks : receipt[t] # "none" => room[t] = "ended" /\ ~External(t)

\* The two schedulers implement exclusive ownership of a task.
WorkerOn(t) ==
    IF room[t] = "live" THEN "room"
    ELSE IF "orphan" \in workers[t] THEN "orphan"
    ELSE IF "box" \in workers[t] THEN "box" ELSE "none"

Owner == [t \in Tasks |-> claim[t].kind]
Worker == [t \in Tasks |-> WorkerOn(t)]
Settled == [t \in Tasks |-> receipt[t] # "none"]

Ownership == INSTANCE TaskOwnership WITH owner <- Owner, worker <- Worker, settled <- Settled
Owns == Ownership!Spec

\* Every path of a tick, of its author and of its review gives the agent
\* slot back.
SlotReleased == job.at # "idle" ~> job.at = "idle"

\* A freeze stands until the operator lifts it.
FreezeHolds ==
    [][\A t \in Tasks : side[t].frozen => side'[t].frozen \/ UnfreezeStarts(t)]_vars
=============================================================================
