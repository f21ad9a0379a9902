# A verification project for AgentHost

AgentHost runs AI agents on one small box. A root process (PID 1, "Foundation B")
owns every heavyweight agent process; an unprivileged gate serves the phone, the
board and the channels and asks PID 1 to start engines. Everything a user may
lose (work, money, a wedged box) passes through a few state machines: who owns
the box's one agent lane, what the journal says of a piece of work, and what a
crash or a lost gate leaves behind. This directory models those.

Line numbers below are those of the modelled commit. `container/` is
`src/container/` in the repository tree, and `maintenance-x.js` lives there.

## 1. Inventory

| Part | State | Operations | Hard because |
|---|---|---|---|
| Root agent lanes (`maintenance-agent-lane.js`, `-chat-server.js`, `-chat-runner.js`, lease code of `-boot-entry.js`) | latches and one lease per lane, runs of each connection, the runner's records, pending termination proofs | run / delivery / autonomous / kill / quarantine frames, child close, connection close, proof retry, governed spawn, gate loss | lanes shared by three callers; children outlive connections; proofs retried on a timer |
| Work authority (`-work-launch.js`, `-work-service.js`, `-claims-store.js`, `-runs-store.js`, `-budget-store.js`, `-recovery-*.js`, `-boot-reconciler.js`, `-boot.js`) | one append-only journal of claims, runs, reservations, recoveries, STOP, audit; in-memory stores, lane and worker views per service | run.accept, run.transition, claim.transition/release, work.start/cancel, worker exit, recovery.request, boot reconcile | PID 1 dies between two appends; recovery awaits; a service per gate connection over one journal |
| Supervisor and run loop (`-supervisor.js`, `-boot-main.js`) | session state, gate child, connection | spawn gate, accept, attach, gate loss | accept/exit races, late events of a superseded gate |
| Method dispatch and sessions (`-method-dispatch.js`, `-foundation-service.js`) | session state, recorded replies, connection handles | authorize, dispatch, record, reply | retries, replies lost after the mutation |
| Operator proofs (`-operator-*.js`) | issued proofs | issue, consume | one use, bound to a session |
| Audit, run events, output spool | append-only logs with cursors | append, page, prune | truncation against cursors |
| Protocol codec and contract | none but the in-flight flag | encode, validate | shapes, not state |
| Autonomous lane driver and chat client (gate side) | pending frames | run, kill, quarantine | late exit frames |
| Containment (`-containment.js`, `-worker-runtime.js`, `-child-observe.js`) | process trees | launch, prove gone, tear down | the kernel's answer may be "unknown" |
| Migrations and auth state | on-disk steps | migrate, resume | crash between steps |
| Gate: agent slot, waiters, deliveries (`gate.js` 5593-5900 and 22771-22840, `channel-delivery-limiter.js`) | slot token, three waiter queues, delivery backlog | acquire, release, dispatch, quarantine, enqueue | fairness between queues, quarantine while queued |
| Gate: board claims, pipeline, desktop rooms (`claim-store.js`, `gate.js` 13100-14900 and 18000-20400) | SQLite claims with leases and holders, receipts, `chains.json`, the pipeline's turn, room requests in flight | tick, author, review, correction, endings; claim, heartbeat, complete, stop, recover; freeze, unfreeze, review; reap at boot | every step awaits an external board; leases expire under late workers; copies of the sidecar are written back |
| Gate: DeepSeek spending (`deepseek-budget*.js`, `dsh-inference-relay.js`) | per-run and per-day ledgers, durable file | reserve, settle, cancel, day rollover | crash between reserve and settle |
| Gate: run ledger (`run-ledger.js`) | event log, runs | create, transition, interrupt, prune | torn tail, retention |
| Chain guards, human gating, cron (`chains-lib.js`, `chat-governance.js`, `cron-lib.js`, `stuck-lib.js`) | per-chain counters | pure decisions | boundaries |
| Mesh (`mesh-state.js`, `mesh-store.js`) | lock epoch, messages | lock, unlock, deliver | stale clients |
| Board projection and bridge | none / snapshots | project, scoped reads | projection totality |
| Review attestation, artifact review, Graphify | files on disk | approve, publish, roll back | partial publication |
| Measurement, growth, brand, mail, push, settings, modes, TOTP | small files | feature code | little shared state |
| CLI (`src/`, `bin/`) and packaging (`scripts/`) | local state file, cloud app | deploy, sync, rotate-key | partial failures of a remote API |
| Native code, entrypoint, shell | kernel objects | syscalls | outside TLC |

How they interact: the gate talks to PID 1 over two sockets. The authority
socket carries framed requests (one in flight) to the foundation service, whose
handlers write the journal and call the shared spawn. The chat socket carries run
frames to the runner. Both take a lease from the same arbiter. Losing the
authority socket trips the arbiter's latch, kills the gate and starts another,
for which a fresh service is built over the same journal.

Inside the gate, chats, channel turns, deliveries, Loops and the board's tick take
the one agent slot in turn; the tick and the desktop rooms share the claim store and
the Hermes board; every DeepSeek request, from a turn or from a contained run's
relay, passes the spending authority. `GateSlot` has the tick as one holder of
the slot, and `BoardClaims` what that holder does: that it gives the slot back
(`SlotReleased`) is shown there.

What makes each part correct is stated as properties in the modules (section 4)
and listed per source line under `hazards` in `PROJECT.json`; a hazard without a
property names the planned module, or says why the code cannot promise one.

## 2. Plan

Modules that exist, in the order they were written; a `_proofs` module holds the
theorems about the module it is named for, an `MC` module only constants.

1. `ExclusiveLane` - what a lane promises: one owner, nobody else's process, freed only when empty.
2. `AgentLane` - arbiter, chat connections, runner, governed leases, gate loss; implements `ExclusiveLane`. `AgentLane_proofs`, `MCAgentLane`.
3. `WorkAccounting` - what a chain's budget promises.
4. `WorkAuthority` - journal, stores, launch, end, recovery, crash and gate loss; implements `WorkAccounting`. `WorkAuthority_proofs`, `WorkJournal_proofs` (what the journal holds), `MCWorkAuthority`.
5. `SpendAuthority` - DeepSeek reservations over their durable file, the ledger and the relay. `SpendAuthority_proofs`, `SpendAccounting_proofs` (the amounts), `MCSpendAuthority`.
6. `HermesBoard` (external), `ClaimStore`, `RoomLease`, `BoardPipeline`, composed by `BoardClaims`, which implements `TaskOwnership`. `BoardClaims_proofs`, `MCBoardClaims`.
7. `GateSlot` - the gate's slot, its four lines of waiters, the delivery limiter, the quarantine. `GateSlot_proofs`, `MCGateSlot`.
8. `FiniteSums` - smallest sets and sums over finite sets, used by `SpendAccounting_proofs`, `GateSlot_proofs` and `WorkJournal_proofs`.

Left, in order:

1. `BudgetStore` - tokens, cost, policy versions, and whether a lowered cap keeps
   "reserved + settled never exceeds the cap" (`maintenance-budget-store.js` l.11).
2. `Dispatch` - sessions, idempotent replies, operator proofs, with lost replies and
   retries; it wraps the requests of `WorkAuthority`.
3. `Supervisor` - gate child, accept, attach, late exits, run loop; it replaces the
   `GateLoss`/`Connect` pair of `WorkAuthority`.
4. `RunLedger`, `MeshLock`, `KeyRotation` - small protocols with crashes and stale readers.
5. `GateSlot` over `ExclusiveLane`: the root's side of the lane the slot asks for;
   team turns and Multi-Loops as holders.
6. Proofs: every safety property a run checks is a theorem; left are the modules above,
   and what a refused append leaves true of `WorkAuthority` (section 5).

## 3. Modules

### AgentLane (and ExclusiveLane)

| Model | Code |
|---|---|
| `latches[l]`, `Trip` | the arbiter's set of latches, `trip` |
| `lease[l]` | the arbiter's single lease |
| `laneOwner[l]` | `laneOwnerRunId` / `assistLaneOwnerRunId` of the runner |
| `tree[t]`, `closing` | a tenant's process tree; its `close` event still to come |
| `leases` | leases of `createSharedAgentLaneSpawn` |
| `conn`, `active`, `activeAssist` | a chat socket, its `activeRuns` and `activeAssistRuns` |
| `proof[c][l]` | `proveTerminationThenClear` for the runs lost with connection c |
| `StartFrame`, `DuplicateFrame`, `RefusedFrame`, `UnprovenLaunchFrame`, `QuarantineFrame` | what a frame can lead to |
| `RunClose`, `ConnClose`, `ProofRetry` | the runner's close handler, the server's cleanup, the timer |
| `WorkStart`, `WorkStartUnproven`, `WorkClose` | governed workers on the same lane |
| `GateLoss` | `reconcileGateLoss`: the latch that is never cleared |

`ConnClose` is one action because cleanup is one synchronous turn: capture the
identities, trip, kill, first proof attempt. Delivery frames take the same path
as chat frames. A kernel query answers "gone" only for a tree that is gone, and may fail to answer.
The module covers one boot: the arbiter has no persistent state.

### WorkAuthority (and WorkAccounting)

| Model | Code |
|---|---|
| `disk` | the journal, folded to the last record of each key |
| `mem` | the stores of the current service, replayed when it is built |
| `old`, `oldJob` | the stores and the suspended `recover()` of a superseded service |
| `job` | the suspended `recover()` of the current service |
| `lane` | the launcher's `lane` object |
| `view` | the worker registry |
| `lease`, `latched` | the root agent lane, as far as governed work sees it |
| `handles` | handles minted for this connection |
| `Opening`, `CompletionWrites`, `RecoveryWrites`, `ReconcileWrites`, ... | the appends of a handler, in order |

A handler is a synchronous turn: its action computes the sequence of journal
writes the handler makes and a cut k; the first k reach the disk. k is the whole
length unless PID 1 dies there (`crash`) or the next append is refused
(`refusal`). Only `recover()` awaits, so it is two actions with everything else in
between: `RecoverBegin`, then `RecoverEnd` with the proof's answer. The proof may
also throw, when `/proc` cannot be read with certainty (`unreadable`): nothing
catches it, the request fails, and `RecoverUnread` drops the wait without a write, so
the recovery stays `stopping` and its claim attached. Abstractions:

* One chain. `waiting` and `gated` are one value `parked`: both are prelaunch and
  the gate moves runs between them freely. `skipped` is `cancelled`.
* A record's version is not kept: CAS versions are read and used inside one turn.
* Usage is never trusted on an exit (`completeFromExit` passes `usage: null`), so
  every settlement is a full charge; tokens and cost are not counted, executions are.
* One request in flight per connection (`RequestFrameDecoder`), hence no request
  while a recovery awaits on that connection.
* After a gate loss the root latch stays until PID 1 restarts
  (`authority_gate_loss` is never cleared), so classes R and O are denied and only
  C-class requests (`recovery.request`, `stop.engage`) are served: `Authorized` and `Serving`.
* An operator proof for an O-class request is taken to be available.
* A child's death by teardown shows as `ChildDies`. A PID-1 crash ends all processes.
* The audit record is a write like another; only `spawn_attempted` is remembered (`mark`).

### SpendAuthority

| Model | Code |
|---|---|
| `file`, `synced` | `budget-state.json` as read, and as a machine crash leaves it (the rename is synced after it is visible) |
| `poisoned` | the fuse of `createDeepSeekBudgetAuthority`: a write whose outcome is unknown stops the process's spending |
| `mem[d]` | base, settled and reserved spend of a day in `createDeepSeekBudgetLedger`; the base is read once and cached |
| `run[r]`, `active` | a budget run, `activeDshRuns` |
| `req[q]` | a provider request: admitted, sent, ended, stuck (its settlement failed), lost (the gate died) |
| `Admit`, `Send`, `Withdraw`, `RelayEnd` | `handleRequestInner` of the relay, cut at its awaits |
| `Stop`, `Close`, `Forget`, `Begin` | cancel and close of a relay, and the contained run around it |
| `Turn`, `TurnEnd` | a chat or team turn: one reservation, one end |
| `SetLimits`, `Midnight`, `GateCrash`, `MachineCrash` | the settings handler, the UTC day, faults |

Amounts are small naturals: what a request may cost at most with all the output it
asks for (`Want`) or one token (`Least`), and what the provider bills, which may
exceed the reservation (`overrun`). Prices, token counting, the input cost (part of
`Want` and `Least`), pruning of days (`MAX_STORED_DAYS` 32),
`MAX_ACTIVE_RESERVATIONS` 1024, the identity checks of the file and the write of a
v1 migration are left out. A stop whose terminal proof times out leaves its run in
`activeDshRuns` for good, so limit changes are refused (409) until a restart.

### The board: HermesBoard, ClaimStore, RoomLease, BoardPipeline, BoardClaims

| Model | Code |
|---|---|
| `card[t]` | the lane of a card in Hermes, the external kanban CLI; only the four lanes the claims tell apart |
| `claim[t]` | the row of `claim-store.js`: state, kind, lease, holders (a holder is the token of one acquisition) |
| `receipt[t]` | the receipt that settled an external claim |
| `cache`, `req` | `externalBoardClaims`; the lifecycle requests of rooms suspended at an await of Hermes |
| `room[t]` | the desktop room's worker; its supervisor is external and honest: it completes, stops or recovers only once the worker is gone |
| `side[t]` | what `chains.json` says of a card: pending phase, parked, frozen |
| `job` | the one pipeline turn: where it awaits, its card, the list and the sidecar copy it read |
| `workers[t]`, `sweep` | in-box engines at work on a card (one may outlive the gate); `forceBlock` calls nobody awaits |
| `lock[t]` | the board action (freeze, unfreeze, review) that locks a card |
| `Expire`, `Restart`, `Reboot` | a lease that runs out at any moment, a gate crash, a machine crash with the reap at the next start |

A step is one synchronous turn: a durable read and the write that follows an await
are different steps, and so is a Hermes command and what the gate does with its
answer. A command may be refused, may apply and not be answered, or may be lost
(`hermes`); `list` may fail (`list`). A lane quarantined during an await ends the
tick (`ListAbandoned`) or quarantines the card. A tick may prune pending entries
that have aged out, and the circuit breaker may park a card between its handoffs
(`HandoffParks`). Some turns of the pipeline write back a copy of the sidecar read
by an earlier turn, as the code does. Abstractions: one room per task; the three
recovery proofs are recorded together, because the bridge refuses a recovery without
all of them; Hermes commands of one await chain take effect as one step at its end.
Not modelled: `runGitReviewPhase`, archiving, one-run overrides beyond their expiry,
chain budgets, an unreadable store, the triage and awaiting lanes, cards that
vanish, the bound of 3 orphans per sweep.

### GateSlot

| Model | Code |
|---|---|
| `gate.owner` | whose `agentRunToken` is, while `agentBusy` |
| `gate.latched` | `agentLaneQuarantined` and the limiter's `quarantined`, set in the same turn |
| `gate.chats`, `.deliveries`, `.wakes`, `.loops` | the lines of waiters and the Loops queued for the slot |
| `gate.pending`, `.sending` | the limiter's queue and its one active delivery |
| `gate.dispatch` | a `setImmediate(dispatchAgentSlot)` that is due |
| `gate.inFlight` | `channelInFlight` |
| `gate.st`, `.tries`, `.answers`, `.alive` | where a run stands, the processes asked for, the outcomes its caller got, the processes that may exist |

The state is one record and the functions of the code are operators on it
(`Take`, `Release`, `Dispatched`, `Quarantine`, ...), because one callback
calls several of them in a row. Only brokered children are modelled (Foundation
B): the gate hears an exit, which is proof, or loses the broker, which is not;
`error` is never emitted. The limiter hands the slot one delivery at a time, so the
cap of the delivery line is never reached (part of `TypeOK`). Attempts of a run are
forgotten once it is told. A chat, turn, Loop, wake round or board tick happens at
most once: starvation of a delivery by an endless stream of chats is out of scope.
A Loop that cannot write its gated checkpoint ends failed in the tick that checked it.
Not modelled: team turns, Multi-Loops, the Assist lane, the 16-minute watchdog (a
quarantine like `ElsewhereUnproven`), the shutdown, reconciliation of approved
Loops at a gate restart, `/brain`, and `relayEngineMention` (`gate.js` l.7998-8066):
an engine's mention of another takes a slot just freed, ahead of those in line, as
a new chat does.

## 4. Runs

### Lanes

| Run | Instance | Shows |
|---|---|---|
| `lanes` | 2 connections, each with engines on both lanes at once, 2 runs, a governed worker, 2 proof attempts | typing, exclusion, accepted releases, no silent leak, no reopening over a live child, latches kept, refinement of `ExclusiveLane` |
| `lanes_progress` | one connection that runs one engine, 3 proof attempts, fair | what a lost connection leaves behind is under a latch naming it, lost connections are resolved, exits free their lane |
| `orphan_any_engine` | mixed engines | violated: a process is left behind with no latch on its own lane |

Deadlock is not checked in the lane runs: run ids are spent once and a latch
without a proof loop is a legitimate end of a boot.

### Work

| Run | Faults | Bounds | Shows |
|---|---|---|---|
| `work_faults` | crash, refused appends, unreadable `/proc` | author, review and correction of one claim, 3 workers, 3 executions | typing, final states final, finished and interrupted mean gone, accounts kept |
| `work_gate_loss` | gate loss, unreadable `/proc` | two authors and a review, 2 claims, 2 workers | one child, no replay, released and finished mean gone, attached claims are backed, accounts kept |
| `work_progress` | gate loss, unreadable `/proc`, fair | author and review, one claim, 2 workers | exits settle; no claim under recovery stays in flight on a dead worker |
| `relaunched_after_crash` | crash | two authors, 2 claims, 2 workers | violated: a run is launched twice |
| `lane_after_recovery` | none | one claim, one worker | violated: the launcher's lane stays busy after a recovery |

Why the bounds are enough: one chain has one lane, so an interleaving involves the
current worker, at most one superseded recovery and what follows; two workers show
every overlap. Three runs are the whole cycle of a claim (author, review,
correction), two authors a second piece of work. Claims and workers are
symmetric; runs are not (they differ in mode and engine). Deadlock is checked in
all work runs.

A property is checked under the faults it survives. `NoReplay` falls to a crash
(a violation run shows it). `OneChild` also holds under crashes and refused
appends, and `AttachedIsBacked` under crashes (section 5). That every recovery
ends is no property: a proof that throws leaves it `stopping` (below). What holds
is `RecoverySettles`: the proof's answer, the worker's own exit or the service of the
next gate takes the claim out of flight, unless the worker's close came unproven
and its lease stays behind the latch. `InterruptedMeansGone` and
`FinalStaysFinal` do not survive a gate loss, nor `ReleasedMeansGone` a refused
append, because of the behaviours below.

### Spending, board and slot

| Run | Instance | Shows |
|---|---|---|
| `spend` | a contained run with two requests and a chat turn, two limits, two days, refused and unsure writes, overruns, gate and machine crashes, fair | nothing spent is off the books, the ledger says what the file says, a closed run owes nothing, no admission exceeds a ceiling, a stop ends |
| `board` | one task, two room requests in flight, all faults, fair | one worker at a time, final receipts, exclusive ownership (`TaskOwnership`), the agent slot always comes back |
| `freeze_lost` | one task, one request, failing lists | violated: a freeze is lost |
| `gate_slot` | one web chat, two channel turns with replies on two candidates, a two-engine wake round, a Loop, a board tick, fair | one process, one answer each, humans before deliveries and wakes, no process after a quarantine, nobody left waiting, the line moves |

Bounds. A task is owned, worked on and settled by itself; two tasks share only the
slot and the sidecar file, whose entries are per task, so one task with two room requests shows every overlap of
the pipeline, a room, its retry, its recovery and the operator; the proofs of
section 5 hold for any number. Two requests of one run and one of another are what
it takes for a sum to be wrong; two days, to settle across midnight. Two turns and
two candidates make the limiter hold one reply while another is tried again.
`CHAT_WAITER_MAX` and `CHANNEL_INFLIGHT_MAX` are 2 where the code has 8.
Deadlock is not checked in these instances: requests, turns and runs happen
at most once, so a quiet system is a legitimate end.

A machine crash of `spend` may lose the last rename that was not synced, so
`Accounted` speaks of both images of the file. `NoReplacement` and `NoneLeftWaiting`
state their exceptions, which are behaviours of the code listed below.

### What the code does against its own documentation

Four have a violation run and are listed under `findings`:

* `orphan_any_engine`: a repeated frame for the assist engine makes cleanup latch
  the wrong lane (`maintenance-chat-server.js` l.221 and l.407).
* `relaunched_after_crash`: a crash between the spawn and the append of `running`
  leaves the run queued, and it is launched again (`maintenance-work-launch.js`
  l.61, `maintenance-boot-reconciler.js` l.53).
* `lane_after_recovery`: `releaseLane` is a no-op, so the launcher's lane stays
  busy after a recovery (`maintenance-boot.js` l.92).
* `freeze_lost`: a `list` that failed is taken for an empty board and the sidecar is
  pruned by it, frozen cards included (`gate.js` l.13110-13117 against l.20083).

The models have these as well, and no run states a property about them. Work authority:

* A crash between the `spawn_attempted` marker and `attachWorker` leaves the
  reservation open for good (`maintenance-boot-reconciler.js` l.53; `-work-launch.js` l.23).
* The reconciliation interrupts `claim.runId`, the author's run, so the run of a
  reviewer in flight stays running (`-boot-reconciler.js` l.58).
* The run of an operator-cancelled worker is recorded completed
  (`-work-launch.js` l.152, against `-work-service.js` l.95).
* The reply of a started review fails its own validation: its worker runs and the
  gate has no handle (`-protocol.js` l.1308).
* A replacement gate's reconciliation interrupts and detaches the claim of a
  worker that is still alive (`-boot.js` l.65, against `-claims-store.js` l.130).
* The proof of a recovery throws when `/proc` cannot be read for another reason than an
  absent process (`-child-observe.js` l.68). Nothing catches it (`-recovery-driver.js`
  l.43): the recovery stays `stopping`, its claim attached, where the header (l.8)
  promises a quarantine, and another recovery of that claim is refused
  (`-recovery-store.js` l.83).
* The gate may record its verdict on a claim before the worker's exit. If the gate is
  then lost, the reconciliation skips the terminal claim, as its header says
  (`-boot-reconciler.js` l.54), and neither settles the reservation nor detaches the worker.
* The suspended recovery of a superseded service overwrites what the new service
  recorded (`-boot.js` l.61).
* A refused append in `work.start` lets the claim of a review be completed and
  released while its reviewer runs (`-work-launch.js` l.136).
* A `work.start` answered BUDGET_EXHAUSTED has made and interrupted a claim
  (`-work-launch.js` l.97, against `-method-dispatch.js` l.271).

Board:

* A turn that saves the sidecar it read before an await also loses a freeze set
  meanwhile (`gate.js` l.13606, 13727, 13990), and a freeze in progress can end over
  a live room, since `claimExternalBoardTask` does not look at the lock.
* The branch for "no reviewer is up" reads an undeclared `cur` (`gate.js`
  l.14305-14306): the card is never approved automatically, although its comment says so.
* A ledger that is not fresh (about l.13740) and a park followed by a release keep
  the in-box row until the machine reboots; operator actions are answered 409.
* After a gate restart a pending review whose holder is gone makes every tick
  return: the whole board waits for the two-hour lease.
* A late `complete` of an abandoned room request can finish a card that another
  scheduler has claimed since; of two concurrent claims of one room, the loser's
  `reclaim` queues the card again while the lease runs.
* Parked marks are pruned while the card is shown running.

Slot:

* The approve route (`gate.js` l.15280-15412) does not look at the quarantine: a Loop
  approved after it waits for a slot that no longer opens this boot (against l.5768).
* A reply's next candidate is launched after a quarantine that came from elsewhere
  (credentialed Git, l.16427), against "no replacement process will start" (l.5748),
  unless the root refuses it.
* A dispatch that the governance gate answers wakes nobody else; the 30 s `cronTick`
  heals it, and `LineDrains` holds because of it.
* A new chat, turn or tick may take a free slot ahead of those who wait; only
  deliveries, wakes and queued Loops yield.
* A wake round whose durable start or resume fails releases the slot without
  finishing its run in the ledger.

### Fairness

`AgentLane`: the timers of the proof loop keep firing, and the `close` event of a
child whose tree is gone is delivered. No fairness on frames, connections, on a
child's end, or on a proof succeeding.
`WorkAuthority`: the close of a dead child is delivered (WF), a lost gate is
replaced and a dead PID 1 restarted (WF), the reconciliation proceeds (WF). An
awaited proof returns or throws, with strong fairness: its timers keep firing, gates may
be lost for ever, and the turn that replays the journal for a new connection disables
them only while it runs. No fairness on requests or on a worker's exit.
`SpendAuthority`: a request that was admitted is sent or withdrawn, one that was
sent ends (the relay and the turns have timeouts), and a close whose requests are
settled proceeds. No fairness on new requests, limits or the day.
`BoardClaims` (`TurnsSettle`): what a turn awaits settles, because Hermes commands
and engines have timeouts. No promise body is taken to throw: two chains have no
catch (`gate.js` l.13659, 13845), and an exception there would keep the slot;
`SlotReleased` is about every awaited outcome, not that. No fairness on rooms, operators, leases or restarts.
`GateSlot`: `setImmediate`, the kill timers, the 30 s tick and the board's list are
delivered. No exit is assumed: a process may never end.

## 5. Proofs

Every theorem is about `Spec` and holds for every value of the constants that
satisfies the named assumptions, so for every set of faults too unless it says so.

### AgentLane_proofs

Assumptions: the sets of runs and workers are disjoint and do not contain `Nobody`,
`NoConn` is no connection, `KindsOf` has its type, `MaxAttempts` is positive.

* `Typed`, `LaneExclusive`, `ReleaseAccepted`, `NoLeak`: the invariants of the runs,
* `Implements`: every step is a step of `ExclusiveLane` or a stutter,
* `LatchesKept`: the action property `LatchesSurvive`.

The argument: `IInv` strengthens the safety invariants with who may hold a lane:
`WorkOnAgent` (governed work is on the agent lane), `Holds` (a live tree or a
close still to come holds its lane's lease), `NoRejection` and `Accounted`
(a lease with no close to come is under a latch that is never cleared).
`LaneHeldWhileLive` alone is not inductive: a close handler releases what
`laneOwner` names, and only `Holds` says that this is the closing run's own lease.
Each action is a lemma; the refinement is read off the same invariant.
`LatchesKept` uses `LoopInv`, which ties a pending proof loop to its own latch.

* `OpensEmpty` (`ReopensEmpty`), for every gate. `WInv` adds what a lost connection
  leaves behind: it answers only for runs it started itself on that lane (`Answered`,
  `NoStray`), and a lane latched for it waits for every tree that lives there
  (`Watched`). "The lane is empty when the last latch goes" is not inductive: exits,
  proofs and other connections come in between, and `Watched` is what survives them.
* `OrphansLatched` (`OrphanQuarantined`), under `EngineKeepsLane`: the gate keeps a
  runId to the engines of one lane. Without it the code breaks the property
  (`orphan_any_engine`). `OInv` adds that a run is on the lane of an engine it was
  named with (`OwnLane`, `OwnAssist`) and that the connection which started a live run
  answers for it: it will when it closes, its proof loop still asks, or the latch
  that names it stands (`Known`).

### WorkAuthority_proofs

Assumptions: `WorkerAssumption` (workers are finitely many, `NoWorker` is none of
them) and `ExecsAssumption`.

* `Alone` (`OneChild`): a worker that is live, or whose close is still to come,
  holds the root lease (`HoldsRoot`), and there is one root lease.
* `Implements` (`KeepsAccounts`): every step is a step of `WorkAccounting`. `AInv`
  says how far a service's stores may lag behind the journal: by what a superseded
  recovery settled; what a superseded service still thinks reserved is reserved or
  settled on disk.
* `Gone` (`FinishedMeansGone`): `FInv` adds that a live worker is the one the
  launcher's lane names, or the root lane is latched (`LaneOrLatch`), and that a run
  the service may still launch is not finished on disk (`Launchable`).
* `LaunchedOnce` (`NoReplay`), under `NeverDown`: PID 1 does not die, neither by a
  crash nor by an append refused to the reconciliation that follows a gate loss.
  Without it the code breaks the property (`relaunched_after_crash`). `NInv` says
  of every worker that had a process that its run has left the launchable states,
  or the root lane is latched, or the launcher's lane is still its own and its exit
  cannot settle (`Spent`): the third case is a start whose append was refused
  before the run was recorded running.
* `InterruptedProven` (`InterruptedMeansGone`), under `NeverLost`: no gate is lost.
  With a gate loss the reconciliation interrupts claims whose workers still run
  (section 4, "What the code does against its own documentation"). `CInv` adds that
  no service is superseded or replays while a worker lives (`Coherent`), that a
  claim in flight is the one of the launcher's lane, with its worker, and so is the
  one under recovery (`Backed`), and that the claim a live worker was spawned for is
  the lane's or is quarantined
  (`Guarded`).

A handler's writes are a sequence that may be cut anywhere. The proofs handle it
with lemmas on what the first k writes do (`Settles`, `Silent`, `NoneTo`,
`NoneMarked`, `ClaimTo`), so that an action has one argument, not one per cut.

### WorkJournal_proofs

No further assumption on the constants; each theorem says under which faults it holds.

* `Typed` (`TypeOK`), under all faults: every write a handler makes is of the type of
  its key (`TypedPut`), so whatever prefix is replayed gives a store.
* `EndingsKept` (`FinalStaysFinal`), under `NeverLost`. From `CInv`, which makes the
  stores agree with the journal, every handler writes about a final record only what
  may follow it (`LawfulPut`). A lost gate breaks it: a superseded recovery writes over
  what the new service recorded (section 4).
* `FlightBacked` (`AttachedIsBacked`), under `NeverRefused`: no append is refused. A
  refused append leaves a service that serves with half a launch written. `BInv` is
  `TypeOK` and `Backs`: a service that replays has no recovery of its own, and while
  one is under way the launcher's lane is that claim's or free.
* `ReleasedGone` (`ReleasedMeansGone`), under `NeverRefused`: crashes, lost gates and
  superseded recoveries included. A release looks only at the claim's record, so
  the invariant has to say what the record knows of the living: while the root lane
  is not latched the stores are the journal's and no superseded recovery is left
  (`Clean`), and whoever is alive is the worker its claim names or its claim is
  quarantined (`Kinship`). A recovery drops the name before its last write, so the
  worker it waits for must be the one the claim named (`JobsOwn`), and its claim
  must still be in flight (`Awaited`). Under the latch nothing is released. It extends
  `BInv` and `FInv`.

### SpendAuthority_proofs

Assumptions: `RunAssumption` and `OneRequestPerTurn`; neither proof depends on an amount.

* `Closed` (`ClosedIsSettled`) and `WrittenAhead` (`WriteAhead`: a request on its
  way to the provider has its reservation in the file and in what a machine crash
  leaves of it).

`SInv` is the typing without amounts (`Shape`) and, request by request: one on its
way is in both images of the file (`Backed`), an ended one is not in the file
(`Cleared`), and none outruns the phases of its run (`InStep`). Closing a run counts
what is outstanding over its requests; `InStep` is what makes that count right when
a stop races a request's own end. `WriteAhead` is proved only; no run lists it.

### SpendAccounting_proofs (with FiniteSums)

Assumptions: those of `SpendAuthority_proofs`, `RequestAssumption` (requests are
finitely many), `LimitAssumption`, `AmountAssumption` and `UnreadAssumption`.

* `Typed` (`TypeOK`), `ChargedOnce` (`Accounted`), `FileAgrees` (`LedgerIsFile`),
* `CeilingsHold` (`CapAtAdmission`, an action property).

`AInv` is `SInv` with the amounts. Request by request, in the file and in what a crash
of the machine leaves of it, a request of a day is held as it was reserved or is loose;
what the file has settled for a day is between the least and the most its loose requests
cost (`Sound`). The ledger's counters are the sums over the requests it
has under way (`Ledger`), and the limits of an open contained run are those in
force (`Captured`), which is why an admission that looks at the run's own limits
keeps the file's. `ChargedOnce` then follows by arithmetic; `CeilingsHold` needs that
what the file holds for a run is at most what memory promises it.
Sums over a set are the library's folds. Its induction theorems cannot be
instantiated here, so `FiniteSums` proves what is needed of them by a smallest
counterexample among the subsets of a finite set.

### BoardClaims_proofs

Assumptions: `KeeperAssumption` (a room request is neither the pipeline nor the
cache) and `NoneAssumption`.

* `Typed`, `Exclusive` (`OneWorker`), `Settlement` (`ReceiptIsFinal`),
* `Implements` (`Owns`): every step is a step of `TaskOwnership` or a stutter.

`IInv` is: types, the shape of a row (`RowShape`), what an in-box worker, an orphan
and a room imply about the row that protects their task (`BoxHeld`, `OrphanHeld`,
`RoomHeld`), what a request suspended at an await may rely on (`Claiming`,
`Ending`), and `ReceiptIsFinal`. `OneWorker` alone is not inductive: a claim is
dropped by four parties on what they read before an await. The actions are summarised
first as what they may do to one task (`PipelineStep`, `RoomEffect`); invariance and
refinement are proved from the summaries.

### GateSlot_proofs

Assumptions: `NoOneAssumption` (nobody is no run), `TurnsAssumption` (turns are
finitely many) and `BoundAssumption` (the two caps are numbers).

* `Typed` (`TypeOK`), `OneEngine` (`OneProcess`), `ToldOnce` (`AnsweredOnce`),
* the action properties `HumansGoFirst` (`HumanFirst`), `NothingStarts`
  (`NoReplacement`) and `NobodyWaits` (`NoneLeftWaiting`).

The state is one record handed from operator to operator, so the invariant `GInv(g, x)`
is of such a record and of the run `x` the code has in hand between two statements:
out of its line, not yet the holder, not yet told. It says that who is in line is
queued and the other way round (`Lines`), that what runs is the holder and its process
the only one (`Held`), that who was told is done (`Fates`), and that `channelInFlight`
counts the open turns (`Count`). `OneProcess` alone is not inductive: the slot is given
back on an exit, and only `Held` says that no other process is left. Each
operator has a lemma that takes a run in hand to its place; the lemma of an action
composes them. `Steady` is what every step but a quarantine has in common, and gives
the action properties. What `Without` leaves of a line is proved by a smallest
counterexample over its recursive function.

### Only model-checked

The liveness properties: `LostResolves`, `ExitFreesLane`, `ExitSettles`,
`RecoverySettles`, `StopEnds`, `SlotReleased` and `LineDrains`. The prover does not
handle ENABLED, hence not fairness. Every safety property of a passing run has a
theorem. Six of these hold only under a named restriction of the faults or of the gate
(`NeverDown`, `NeverLost`, `NeverRefused`, `EngineKeepsLane`); the behaviours
that break them without it are in section 4.

## 6. Not modelled

See the components with status `not_modelled` in `PROJECT.json`: planned parts
(section 2) and parts that stay out: engine output and argv, protocol shapes,
kernel and native code, shell, feature code with no shared state, packaging.
