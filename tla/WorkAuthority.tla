--------------------------- MODULE WorkAuthority ---------------------------
(***************************************************************************)
(* The Foundation-B work authority of PID 1: runs, claims, budget          *)
(* reservations and recoveries kept in one append-only journal, the launch *)
(* of a governed worker, its completion, cancellation and recovery, and    *)
(* the reconciliation each new service makes over the replayed journal.    *)
(*                                                                         *)
(* A handler is one synchronous turn of PID 1's event loop: a sequence of  *)
(* journal writes of which the first k reach the disk.  All do, unless     *)
(* PID 1 dies between two of them or a write is refused.  Only recovery    *)
(* awaits in the middle.  The stores of a service are images of the        *)
(* journal: read once when the service is built, then kept up by its own   *)
(* writes alone.                                                           *)
(***************************************************************************)
EXTENDS Naturals, Sequences, FiniteSets

CONSTANTS
    Runs,           \* worker-authority runs the gate may accept (one chain)
    ModeOf,         \* ModeOf[r]: the run's workMode
    EngineOf,       \* EngineOf[r]: the engine work.start names for r
    Claims,         \* claim refs
    Workers,        \* workerRefs
    MaxExecs,       \* structuralLimits.maxExecs of the chain
    Faults,         \* the faults of this instance
    NoRun, NoWorker, NoClaim

Modes == {"new", "review", "correction"}

ASSUME ModeAssumption == ModeOf \in [Runs -> Modes]
ASSUME EngineAssumption == DOMAIN EngineOf = Runs
ASSUME WorkerAssumption == IsFiniteSet(Workers) /\ NoWorker \notin Workers
ASSUME ClaimAssumption == NoClaim \notin Claims
ASSUME RunAssumption == NoRun \notin Runs
ASSUME ExecsAssumption == MaxExecs \in Nat
ASSUME FaultAssumption == Faults \subseteq {"crash", "refusal", "gate_loss", "unreadable"}

VARIABLES
    disk,           \* the journal, folded: the last record of each key
    mem,            \* the stores of the current service
    old,            \* the stores a superseded service's recovery holds on to
    job,            \* the suspended recovery of the current service
    oldJob,         \* the suspended recovery of a superseded service
    phase,          \* "down", "replaying", "ready" or "lost" (no gate)
    lane,           \* the launcher's lane: its worker, claim and run
    view,           \* view[w]: the worker registry's view of w
    child,          \* child[w]: "none", "live" or "gone"
    closing,        \* workers whose outer "close" event is still to come
    lease,          \* the worker that holds the root agent lane
    latched,        \* the root agent lane is quarantined
    handles         \* claims and workers the gate holds a handle to

volatile == <<mem, old, job, oldJob, lane, view, child, closing, lease, latched, handles>>
vars == <<disk, phase, volatile>>

-----------------------------------------------------------------------------
(* The journal and its images                                              *)

Prelaunch == {"queued", "parked"}          \* parked: waiting or gated
RunTerminal == {"completed", "failed", "cancelled", "interrupted"}
RunStates == {"none", "running"} \cup Prelaunch \cup RunTerminal

Releasable == {"completed", "failed", "cancelled", "interrupted"}
ClaimLive == {"active", "awaiting_review", "reviewing", "correction_required"}
ClaimStates == {"none", "quarantined", "released"} \cup ClaimLive \cup Releasable

\* The compiled matrix of claim transitions.
Transitions == [s \in ClaimStates |->
    CASE s = "active" -> {"awaiting_review", "failed", "interrupted", "cancelled", "quarantined"}
      [] s = "awaiting_review" -> {"reviewing", "failed", "interrupted", "cancelled", "quarantined"}
      [] s = "reviewing" -> {"completed", "correction_required", "failed", "interrupted",
                             "cancelled", "quarantined"}
      [] s = "correction_required" -> {"active", "failed", "interrupted", "cancelled", "quarantined"}
      [] s \in Releasable -> {"released"}
      [] OTHER -> {}]

BudgetStates == {"none", "reserved", "settled", "refunded"}
RecoveryLive == {"requested", "stopping", "cleaning"}
RecoveryStates == {"none", "complete", "quarantined"} \cup RecoveryLive

ClaimRecord == [state : ClaimStates, worker : Workers \cup {NoWorker}, run : Runs \cup {NoRun}]
Mark == [claim : Claims \cup {NoClaim}, run : Runs \cup {NoRun}]
Store == [run : [Runs -> RunStates], claim : [Claims -> ClaimRecord],
          budget : [Workers -> BudgetStates], recovery : [Claims -> RecoveryStates],
          mark : [Workers -> Mark], stop : BOOLEAN]

NoMark == [claim |-> NoClaim, run |-> NoRun]
FreshStore == [run |-> [r \in Runs |-> "none"],
               claim |-> [c \in Claims |-> [state |-> "none", worker |-> NoWorker, run |-> NoRun]],
               budget |-> [w \in Workers |-> "none"],
               recovery |-> [c \in Claims |-> "none"],
               mark |-> [w \in Workers |-> NoMark],
               stop |-> TRUE]           \* the first secure boot is stopped

\* One journal record; the audit record spawn_attempted is of kind "mark".
Put(kind, key, val) == [kind |-> kind, key |-> key, val |-> val]
Audit == <<Put("audit", NoRun, NoRun)>>

\* The value of a key after the writes ws: the last one wins.
Latest(ws, kind, key, before) ==
    LET hits == {i \in 1..Len(ws) : ws[i].kind = kind /\ ws[i].key = key} IN
    IF hits = {} THEN before
    ELSE ws[CHOOSE i \in hits : \A j \in hits : j <= i].val

Replay(S, ws) ==
    [run |-> [r \in Runs |-> Latest(ws, "run", r, S.run[r])],
     claim |-> [c \in Claims |-> Latest(ws, "claim", c, S.claim[c])],
     budget |-> [w \in Workers |-> Latest(ws, "budget", w, S.budget[w])],
     recovery |-> [c \in Claims |-> Latest(ws, "recovery", c, S.recovery[c])],
     mark |-> [w \in Workers |-> Latest(ws, "mark", w, S.mark[w])],
     stop |-> Latest(ws, "stop", NoRun, S.stop)]

\* The worker, claim and run the lane or a recovery is about.
Binding == [worker : Workers \cup {NoWorker}, claim : Claims \cup {NoClaim}, run : Runs \cup {NoRun}]
Nothing == [worker |-> NoWorker, claim |-> NoClaim, run |-> NoRun]
ViewStates == {"none", "running", "stopping", "completed", "failed", "cancelled", "interrupted"}

Kept(ws, k) == SubSeq(ws, 1, k)

\* A handler of the current service stops after k of its writes: it is done,
\* or PID 1 died there, or the next write was refused and the handler threw.
Write(ws, k) ==
    /\ disk' = Replay(disk, Kept(ws, k))
    /\ mem' = Replay(mem, Kept(ws, k))
    /\ \/ k = Len(ws) /\ UNCHANGED phase
       \/ k < Len(ws) /\ "crash" \in Faults /\ phase' = "down"
       \/ k < Len(ws) /\ "refusal" \in Faults /\ UNCHANGED phase

Cuts(ws) == IF Faults \cap {"crash", "refusal"} = {} THEN {Len(ws)} ELSE 0..Len(ws)

TypeOK ==
    /\ disk \in Store /\ mem \in Store /\ old \in Store
    /\ job \in Binding /\ oldJob \in Binding /\ lane \in Binding
    /\ phase \in {"down", "replaying", "ready", "lost"}
    /\ view \in [Workers -> ViewStates]
    /\ child \in [Workers -> {"none", "live", "gone"}]
    /\ closing \subseteq Workers
    /\ lease \in Workers \cup {NoWorker}
    /\ latched \in BOOLEAN
    /\ handles \subseteq Claims \cup Workers

Init ==
    /\ disk = FreshStore /\ mem = FreshStore /\ old = FreshStore
    /\ job = Nothing /\ oldJob = Nothing /\ lane = Nothing
    /\ phase = "ready"
    /\ view = [w \in Workers |-> "none"]
    /\ child = [w \in Workers |-> "none"]
    /\ closing = {}
    /\ lease = NoWorker
    /\ latched = FALSE
    /\ handles = {}

-----------------------------------------------------------------------------
(* Requests of the gate.  A connection has one request in flight, so none  *)
(* is served while a recovery awaits.                                      *)

Serving == phase = "ready" /\ job = Nothing
Authorized == Serving /\ ~latched          \* classes R and O

\* A request that only writes the journal.
Request(ws) ==
    /\ \E k \in Cuts(ws) : Write(ws, k)
    /\ UNCHANGED <<old, job, oldJob, lane, view, child, closing, lease, latched, handles>>

Accept(r) ==
    /\ Authorized
    /\ mem.run[r] = "none"
    /\ Request(<<Put("run", r, "queued")>>)

\* The gate may park a run, restore it, or give it up, before its launch.
GateTransition(r, to) ==
    /\ Authorized
    /\ \/ mem.run[r] = "queued" /\ to = "parked"
       \/ mem.run[r] = "parked" /\ to = "queued"
       \/ mem.run[r] \in Prelaunch /\ to = "cancelled"
    /\ Request(<<Put("run", r, to)>>)

\* STOP may be engaged again: only its version moves.
StopEngage ==
    /\ Serving
    /\ Request(<<Put("stop", NoRun, TRUE)>>)

StopResume ==
    /\ Authorized
    /\ mem.stop
    /\ Request(<<Put("stop", NoRun, FALSE)>>)

In(record, state) == [record EXCEPT !.state = state]
Detached(record) == [record EXCEPT !.worker = NoWorker]

ClaimTransition(c, to) ==
    /\ Authorized
    /\ c \in handles
    /\ to \in {"awaiting_review", "completed", "correction_required"}
    /\ to \in Transitions[mem.claim[c].state]
    /\ Request(<<Put("claim", c, In(mem.claim[c], to))>>)

\* Mutant: the cleanup check of a release is dropped.
ClaimReleaseUnclean(c) ==
    /\ Authorized
    /\ c \in handles
    /\ "released" \in Transitions[mem.claim[c].state]
    /\ Request(<<Put("claim", c, In(mem.claim[c], "released"))>>)

ClaimRelease(c) ==
    /\ Authorized
    /\ c \in handles
    /\ "released" \in Transitions[mem.claim[c].state]
    /\ mem.claim[c].worker = NoWorker
    /\ Request(<<Put("claim", c, In(mem.claim[c], "released"))>>)

\* An operator's work.cancel.  It only marks the view: nothing is killed.
Cancel(w) ==
    /\ Authorized
    /\ w \in handles
    /\ view[w] = "running"
    /\ view' = [view EXCEPT ![w] = "stopping"]
    /\ UNCHANGED <<disk, mem, old, job, oldJob, phase, lane, child, closing, lease, latched, handles>>

-----------------------------------------------------------------------------
(* work.start                                                              *)

\* Mutant: any accepted run will do, launched before or not.
StartableAgain(r, c) ==
    /\ Authorized
    /\ ~mem.stop
    /\ lane = Nothing
    /\ mem.run[r] # "none"
    /\ ModeOf[r] = "new"
    /\ mem.claim[c].state = "none"

\* The checks that change nothing; c is the claim the run makes or moves.
Startable(r, c) ==
    /\ Authorized
    /\ ~mem.stop
    /\ lane = Nothing
    /\ mem.run[r] \in Prelaunch
    /\ \/ /\ ModeOf[r] = "new"
          /\ mem.claim[c].state = "none"
       \/ /\ ModeOf[r] = "review"
          /\ c \in handles
          /\ mem.claim[c].state = "awaiting_review"
          /\ EngineOf[mem.claim[c].run] # EngineOf[r]
       \/ /\ ModeOf[r] = "correction"
          /\ c \in handles
          /\ mem.claim[c].state = "correction_required"

\* Mutant: a state the matrix does not have.
MovedElsewhere(r, c) ==
    IF ModeOf[r] = "new"
      THEN [state |-> "active", worker |-> NoWorker, run |-> r]
      ELSE [state |-> "working", worker |-> NoWorker, run |-> mem.claim[c].run]

\* The claim as the launch moves it: its run stays the author's.
Moved(r, c) ==
    IF ModeOf[r] = "new"
      THEN [state |-> "active", worker |-> NoWorker, run |-> r]
      ELSE In(mem.claim[c], IF ModeOf[r] = "review" THEN "reviewing" ELSE "active")

Execs(S) == {w \in Workers : S.budget[w] \in {"reserved", "settled"}}
CanReserve == Cardinality(Execs(mem)) + 1 <= MaxExecs
Fresh(w) == mem.budget[w] = "none" /\ child[w] = "none"
RootLaneFree == lease = NoWorker /\ ~latched

\* Claim, reservation, launch_authorized, spawn_attempted; then the spawn.
Opening(r, c, w) ==
    <<Put("claim", c, Moved(r, c)), Put("budget", w, "reserved")>> \o Audit
        \o <<Put("mark", w, [claim |-> c, run |-> r])>>

LaneTaken(k, r, c, w) == IF k >= 3 THEN [worker |-> w, claim |-> c, run |-> r] ELSE Nothing
Spawned(k) == k >= 4

\* The reservation is refused: the claim just moved is interrupted.
StartExhausted(r, c) ==
    /\ Startable(r, c)
    /\ ~CanReserve \/ "refusal" \in Faults
    /\ Request(<<Put("claim", c, Moved(r, c)), Put("claim", c, In(Moved(r, c), "interrupted"))>>)

\* The spawn proves that it made no child: busy root lane or no handle.
StartConclusive(r, c, w) ==
    LET ws == Opening(r, c, w)
                \o <<Put("budget", w, "refunded"), Put("claim", c, In(Moved(r, c), "failed")),
                     Put("run", r, "failed")>> \o Audit IN
    /\ Startable(r, c) /\ CanReserve /\ Fresh(w)
    /\ \E k \in Cuts(ws) :
        /\ Write(ws, k)
        /\ lane' = IF k = Len(ws) THEN Nothing ELSE LaneTaken(k, r, c, w)
    /\ UNCHANGED <<old, job, oldJob, view, child, closing, lease, latched, handles>>

\* Mutants: an ambiguous spawn is refunded; its claim is merely interrupted.
AmbiguousRefund(r, c, w) ==
    <<Put("budget", w, "refunded"), Put("claim", c, In(Moved(r, c), "quarantined")),
      Put("run", r, "interrupted")>>
AmbiguousInterrupt(r, c, w) ==
    <<Put("budget", w, "settled"), Put("claim", c, In(Moved(r, c), "interrupted")),
      Put("run", r, "interrupted")>>

\* The reservation is charged in full and the claim quarantined.
AmbiguousWrites(r, c, w) ==
    <<Put("budget", w, "settled"), Put("claim", c, In(Moved(r, c), "quarantined")),
      Put("run", r, "interrupted")>>

\* Mutant: the root lane is given back as if no child could exist.
GiveBackRootLane(w) == UNCHANGED <<lease, latched>>

KeepRootLane(w) == lease' = w /\ latched' = TRUE

\* A process was spawned and no child observed: it may live on, unwatched,
\* and the root lane is latched with its lease still held.
StartAmbiguous(r, c, w) ==
    LET ws == Opening(r, c, w) \o AmbiguousWrites(r, c, w) IN
    /\ Startable(r, c) /\ CanReserve /\ Fresh(w) /\ RootLaneFree
    /\ \E k \in Cuts(ws), fate \in {"live", "gone"} :
        /\ Write(ws, k)
        /\ lane' = IF k = Len(ws) THEN Nothing ELSE LaneTaken(k, r, c, w)
        /\ IF Spawned(k)
             THEN child' = [child EXCEPT ![w] = fate] /\ KeepRootLane(w)
             ELSE UNCHANGED <<child, lease, latched>>
    /\ UNCHANGED <<old, job, oldJob, view, closing, handles>>

\* The child is observed: the run is running and the worker attached.  The
\* reply hands out the two handles, but the protocol refuses to send it when
\* the claim's run is not the request's.
StartObserved(r, c, w) ==
    LET attached == [Moved(r, c) EXCEPT !.worker = w]
        ws == Opening(r, c, w) \o Audit \o <<Put("run", r, "running"), Put("claim", c, attached)>> IN
    /\ Startable(r, c) /\ CanReserve /\ Fresh(w) /\ RootLaneFree
    /\ \E k \in Cuts(ws) :
        /\ Write(ws, k)
        /\ lane' = LaneTaken(k, r, c, w)
        /\ IF Spawned(k)
             THEN /\ child' = [child EXCEPT ![w] = "live"]
                  /\ lease' = w
                  /\ closing' = closing \cup {w}
             ELSE UNCHANGED <<child, lease, closing>>
        /\ view' = IF k = Len(ws) THEN [view EXCEPT ![w] = "running"] ELSE view
        /\ handles' = IF k = Len(ws) /\ attached.run = r THEN handles \cup {c, w} ELSE handles
    /\ UNCHANGED <<old, job, oldJob, latched>>

-----------------------------------------------------------------------------
(* The end of a worker                                                     *)

ChildDies(w) ==
    /\ phase # "down"
    /\ child[w] = "live"
    /\ child' = [child EXCEPT ![w] = "gone"]
    /\ UNCHANGED <<disk, mem, old, job, oldJob, phase, lane, view, closing, lease, latched, handles>>

Up == phase \in {"ready", "lost"}

\* Mutant: the exit of a cancelled worker is left to its canceller.
CompletesIfRunning(w) ==
    /\ view[w] = "running"
    /\ lane.worker = w
    /\ mem.budget[w] = "reserved"

\* The exit of w settles: it is the worker of the launcher's lane, its view is
\* not terminal and its reservation is still open (else the settlement throws
\* and the sink swallows it).
Completes(w) ==
    /\ view[w] \in {"running", "stopping"}
    /\ lane.worker = w
    /\ mem.budget[w] = "reserved"

RunOutcome(outcome) == IF outcome \in {"failed", "interrupted"} THEN outcome ELSE "completed"

\* Mutant: the lane is freed with the worker still attached to its claim.
CompletionAttached(w, outcome) ==
    <<Put("budget", w, "settled")>> \o Audit
      \o (IF mem.run[lane.run] = "running"
            THEN <<Put("run", lane.run, RunOutcome(outcome))>> ELSE <<>>)

CompletionWrites(w, outcome) ==
    <<Put("budget", w, "settled")>> \o Audit
      \o <<Put("claim", lane.claim, Detached(mem.claim[lane.claim]))>>
      \o (IF mem.run[lane.run] = "running"
            THEN <<Put("run", lane.run, RunOutcome(outcome))>> ELSE <<>>)

\* Mutant: the close of the outer process is proof enough.
CloseIsProof(w) == child[w] \in {"live", "gone"}

NamespaceGone(w) == child[w] = "gone"

\* The outer process closed and the namespace is proven gone.
OuterClose(w, exit) ==
    /\ Up
    /\ w \in closing
    /\ NamespaceGone(w)
    /\ closing' = closing \ {w}
    /\ lease' = NoWorker
    /\ IF Completes(w)
         THEN LET outcome == IF view[w] = "stopping" THEN "cancelled" ELSE exit
                  ws == CompletionWrites(w, outcome) IN
              \E k \in Cuts(ws) :
                /\ Write(ws, k)
                /\ lane' = IF k = Len(ws) THEN Nothing ELSE lane
                /\ view' = IF k = Len(ws) THEN [view EXCEPT ![w] = outcome] ELSE view
         ELSE UNCHANGED <<disk, mem, phase, lane, view>>
    /\ UNCHANGED <<old, job, oldJob, child, latched, handles>>

\* It closed and the proof failed: the root lane is latched, nothing settles.
OuterCloseUnproven(w) ==
    /\ Up
    /\ w \in closing
    /\ closing' = closing \ {w}
    /\ latched' = TRUE
    /\ UNCHANGED <<disk, mem, old, job, oldJob, phase, lane, view, child, lease, handles>>

-----------------------------------------------------------------------------
(* recovery.request                                                        *)

Attached(S, c) == S.claim[c].worker # NoWorker

\* Up to the await; the teardown's kill shows as ChildDies.
RecoverBegin(c) ==
    LET ws == <<Put("recovery", c, "requested"), Put("recovery", c, "stopping")>> IN
    /\ Serving
    /\ mem.claim[c].state \in ClaimLive
    /\ Attached(mem, c)
    /\ mem.recovery[c] \notin RecoveryLive
    /\ \E k \in Cuts(ws) :
        /\ Write(ws, k)
        /\ job' = IF k = Len(ws)
                    THEN [worker |-> mem.claim[c].worker, claim |-> c, run |-> mem.claim[c].run]
                    ELSE Nothing
    /\ UNCHANGED <<old, oldJob, lane, view, child, closing, lease, latched, handles>>

\* From the await on, over the stores S the driver was built with.
RecoveryWrites(S, j, gone) ==
    LET record == S.claim[j.claim]
        end == IF gone THEN "interrupted" ELSE "quarantined" IN
    (IF S.budget[j.worker] = "reserved" THEN <<Put("budget", j.worker, "settled")>> ELSE <<>>)
      \o (IF Attached(S, j.claim) THEN <<Put("claim", j.claim, Detached(record))>> ELSE <<>>)
      \o <<Put("recovery", j.claim, IF gone THEN "cleaning" ELSE "quarantined"),
           Put("claim", j.claim, In(Detached(record), end))>>
      \o (IF S.run[j.run] = "running" THEN <<Put("run", j.run, "interrupted")>> ELSE <<>>)
      \o (IF gone THEN <<Put("recovery", j.claim, "complete")>> ELSE <<>>)
      \o Audit

\* The driver's releaseLane is a no-op here: the launcher's lane is not freed.
RecoverEnd(gone) ==
    LET ws == RecoveryWrites(mem, job, gone) IN
    /\ Up
    /\ job # Nothing
    /\ gone => child[job.worker] = "gone"
    /\ \E k \in Cuts(ws) : Write(ws, k)
    /\ job' = Nothing
    /\ UNCHANGED <<old, oldJob, lane, view, child, closing, lease, latched, handles>>

\* The same of a service that has since been superseded.
StaleRecoverEnd(gone) ==
    LET ws == RecoveryWrites(old, oldJob, gone) IN
    /\ Up
    /\ oldJob # Nothing
    /\ gone => child[oldJob.worker] = "gone"
    /\ \E k \in Cuts(ws) :
        /\ disk' = Replay(disk, Kept(ws, k))
        /\ \/ (k = Len(ws) \/ "refusal" \in Faults) /\ UNCHANGED phase
           \/ k < Len(ws) /\ "crash" \in Faults /\ phase' = "down"
    /\ oldJob' = Nothing
    /\ old' = FreshStore
    /\ UNCHANGED <<mem, job, lane, view, child, closing, lease, latched, handles>>

\* /proc cannot be read with certainty: the proof throws, nothing catches it,
\* and the request is answered with an error.  The recovery stays "stopping",
\* its claim attached.
RecoverUnread ==
    /\ "unreadable" \in Faults
    /\ Up
    /\ job # Nothing
    /\ job' = Nothing
    /\ UNCHANGED <<disk, mem, old, oldJob, phase, lane, view, child, closing, lease, latched, handles>>

StaleRecoverUnread ==
    /\ "unreadable" \in Faults
    /\ Up
    /\ oldJob # Nothing
    /\ oldJob' = Nothing
    /\ old' = FreshStore
    /\ UNCHANGED <<disk, mem, job, phase, lane, view, child, closing, lease, latched, handles>>

-----------------------------------------------------------------------------
(* Losing the gate, losing PID 1, and the services that come after         *)

GateLoss ==
    /\ "gate_loss" \in Faults
    /\ phase = "ready"
    /\ phase' = "lost"
    /\ latched' = TRUE
    /\ handles' = {}
    /\ UNCHANGED <<disk, mem, old, job, oldJob, lane, view, child, closing, lease>>

\* The replacement gate connects: a fresh service, built over the journal.
Connect ==
    /\ phase = "lost"
    /\ phase' = "replaying"
    /\ mem' = disk
    /\ IF job = Nothing THEN UNCHANGED <<old, oldJob>>
       ELSE old' = mem /\ oldJob' = job
    /\ job' = Nothing
    /\ lane' = Nothing
    /\ view' = [w \in Workers |-> "none"]
    /\ UNCHANGED <<disk, child, closing, lease, latched, handles>>

Crash ==
    /\ "crash" \in Faults
    /\ phase \in {"ready", "lost"}
    /\ phase' = "down"
    /\ UNCHANGED <<disk, volatile>>

\* The container restarts: every process of the last one is gone.
Boot ==
    /\ phase = "down"
    /\ phase' = "replaying"
    /\ mem' = disk /\ old' = FreshStore
    /\ job' = Nothing /\ oldJob' = Nothing /\ lane' = Nothing
    /\ view' = [w \in Workers |-> "none"]
    /\ child' = [w \in Workers |-> IF child[w] = "live" THEN "gone" ELSE child[w]]
    /\ closing' = {}
    /\ lease' = NoWorker
    /\ latched' = FALSE
    /\ handles' = {}
    /\ UNCHANGED disk

\* Mutant: only an author's claim is in flight.
InFlightActive(c) == mem.claim[c].state = "active" /\ Attached(mem, c)

InFlight(c) == mem.claim[c].state \in ClaimLive /\ Attached(mem, c)

\* Mutants: the run is interrupted whatever it is; the reservation refunded.
ReconcileBlindly(c, record) ==
    (IF mem.budget[record.worker] = "reserved"
       THEN <<Put("budget", record.worker, "settled")>> ELSE <<>>)
      \o <<Put("run", record.run, "interrupted"), Put("claim", c, Detached(record)),
           Put("claim", c, In(Detached(record), "interrupted"))>>
ReconcileRefund(c, record) ==
    (IF mem.budget[record.worker] = "reserved"
       THEN <<Put("budget", record.worker, "refunded")>> ELSE <<>>)
      \o <<Put("claim", c, In(Detached(record), "interrupted"))>>

ReconcileWrites(c, record) ==
    (IF mem.budget[record.worker] = "reserved"
       THEN <<Put("budget", record.worker, "settled")>> ELSE <<>>)
      \o (IF mem.run[record.run] \notin RunTerminal
            THEN <<Put("run", record.run, "interrupted")>> ELSE <<>>)
      \o <<Put("claim", c, Detached(record)), Put("claim", c, In(Detached(record), "interrupted"))>>

\* bootReconcile, claim by claim; a write that fails here ends PID 1.
Reconcile(c) ==
    LET ws == ReconcileWrites(c, mem.claim[c]) IN
    /\ phase = "replaying"
    /\ InFlight(c)
    /\ \E k \in Cuts(ws) :
        /\ disk' = Replay(disk, Kept(ws, k))
        /\ mem' = Replay(mem, Kept(ws, k))
        /\ phase' = IF k = Len(ws) THEN phase ELSE "down"
    /\ UNCHANGED <<old, job, oldJob, lane, view, child, closing, lease, latched, handles>>

Serve ==
    /\ phase = "replaying"
    /\ ~\E c \in Claims : InFlight(c)
    /\ phase' = "ready"
    /\ UNCHANGED <<disk, volatile>>

Exits == {"completed", "failed", "interrupted"}

Next ==
    \/ \E r \in Runs :
        \/ Accept(r)
        \/ \E to \in RunStates : GateTransition(r, to)
        \/ \E c \in Claims :
            \/ StartExhausted(r, c)
            \/ \E w \in Workers :
                StartConclusive(r, c, w) \/ StartAmbiguous(r, c, w) \/ StartObserved(r, c, w)
    \/ StopEngage \/ StopResume
    \/ \E c \in Claims :
        \/ \E to \in ClaimStates : ClaimTransition(c, to)
        \/ ClaimRelease(c) \/ RecoverBegin(c) \/ Reconcile(c)
    \/ \E w \in Workers :
        \/ Cancel(w) \/ ChildDies(w) \/ OuterCloseUnproven(w)
        \/ \E exit \in Exits : OuterClose(w, exit)
    \/ \E gone \in BOOLEAN : RecoverEnd(gone) \/ StaleRecoverEnd(gone)
    \/ RecoverUnread \/ StaleRecoverUnread
    \/ GateLoss \/ Connect \/ Crash \/ Boot \/ Serve

Spec == Init /\ [][Next]_vars

\* What PID 1's event loop, its supervisor and the container's restart policy
\* give: the close of a dead child is reported, an awaited proof returns or
\* throws, a lost gate and a dead PID 1 come back.  The proof's timer keeps firing
\* between turns however often a gate is lost: strong fairness, since no timer
\* fires inside the turn that replays.
Fairness ==
    /\ \A w \in Workers : WF_vars(\E exit \in Exits : OuterClose(w, exit))
    /\ SF_vars(RecoverUnread \/ \E gone \in BOOLEAN : RecoverEnd(gone))
    /\ SF_vars(StaleRecoverUnread \/ \E gone \in BOOLEAN : StaleRecoverEnd(gone))
    /\ WF_vars(Connect) /\ WF_vars(Boot) /\ WF_vars(Serve)
    /\ WF_vars(\E c \in Claims : Reconcile(c))

FairSpec == Spec /\ Fairness

-----------------------------------------------------------------------------
(* Properties.  A worker's mark names the claim and run it was spawned for. *)

WorkersOf(c) == {w \in Workers : disk.mark[w].claim = c}
LaunchesOf(r) == {w \in Workers : disk.mark[w].run = r}
LiveWorkers == {w \in Workers : child[w] = "live"}

\* At most one governed process is alive at a time, across recoveries, lost
\* gates and ambiguous launches (work-launch.js: "never a lane pool").
OneChild == \A v, w \in LiveWorkers : v = w

\* A released claim has no live process: neither an early verdict of the gate
\* nor the reconciliation of a new service opens the way to a release while a
\* worker runs (claims-store.js, CLEANUP_UNPROVEN).
ReleasedMeansGone ==
    \A c \in Claims : disk.claim[c].state = "released" => WorkersOf(c) \cap LiveWorkers = {}

\* A run recorded completed or failed has no live process left, whichever of
\* exit, recovery and reconciliation came first (work-service.js,
\* completeFromExit).
FinishedMeansGone ==
    \A r \in Runs : disk.run[r] \in {"completed", "failed"} => LaunchesOf(r) \cap LiveWorkers = {}

\* A claim is interrupted, and so releasable, only once its worker is proven
\* gone (recovery-driver.js header: "PROVES the worker is gone").
InterruptedMeansGone ==
    \A c \in Claims : disk.claim[c].state = "interrupted" => WorkersOf(c) \cap LiveWorkers = {}

\* Between requests, a claim in flight is backed: its worker's reservation is
\* open and the launcher's lane is held for it, so a settlement is still to
\* come and no second worker can start (work-launch.js steps 5 to 9).
AttachedIsBacked ==
    \A c \in Claims : Serving /\ mem.claim[c].state \in ClaimLive /\ Attached(mem, c) =>
        /\ mem.budget[mem.claim[c].worker] = "reserved"
        /\ lane.worker = mem.claim[c].worker /\ lane.claim = c

\* Work that once had a process is never launched again (boot-reconciler.js
\* header: "Consequential work is never replayed").
NoReplay ==
    \A r \in Runs : \A v, w \in LaunchesOf(r) : child[v] # "none" /\ child[w] # "none" => v = w

\* On disk, a final run or claim stays as it is; only a release may follow
\* (claims-store.js: "confined to the legal matrix"; runs-store.js: terminal).
FinalStaysFinal ==
    [][/\ \A r \in Runs : disk.run[r] \in RunTerminal => disk'.run[r] = disk.run[r]
       /\ \A c \in Claims : disk.claim[c].state \in ClaimStates \ (ClaimLive \cup {"none"}) =>
            disk'.claim[c].state \in {disk.claim[c].state} \cup Transitions[disk.claim[c].state]]_vars

\* The lane is held for a worker that lives, whose exit or recovery is still
\* to come, or under a quarantine (work-launch.js releaseLane: "Free the lane
\* for a specific worker after an out-of-band teardown").
LaneIsFreed ==
    Up /\ ~latched /\ lane # Nothing =>
        child[lane.worker] = "live" \/ lane.worker \in closing \/ job.worker = lane.worker

\* The exit of every worker the registry holds is settled, or the root lane is
\* latched (work-service.js, completeFromExit).
ExitSettles ==
    \A w \in Workers :
        (Up /\ view[w] \in {"running", "stopping"} /\ child[w] = "gone")
            ~> (disk.budget[w] = "settled" \/ latched)

\* A claim under recovery does not stay in flight on a dead worker: the
\* proof's answer, the worker's own exit or, once the gate is lost, the next
\* service takes it out, even when the proof throws.  The exception is a
\* worker whose close came unproven: its lease stays behind the latch.
InFlightOn(c, w) == disk.claim[c].state \in ClaimLive /\ disk.claim[c].worker = w
Unproven(w) == lease = w /\ w \notin closing /\ latched

RecoverySettles ==
    \A c \in Claims, w \in Workers :
        (disk.recovery[c] \in RecoveryLive /\ InFlightOn(c, w) /\ child[w] = "gone")
            ~> (~InFlightOn(c, w) \/ Unproven(w))

\* The chain's budget keeps its promise (budget-store.js header).
Account == disk.budget
Launched == {w \in Workers : child[w] # "none"}
Promise == INSTANCE WorkAccounting WITH account <- Account, launched <- Launched
KeepsAccounts == Promise!Spec
=============================================================================
