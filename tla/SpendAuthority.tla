-------------------------- MODULE SpendAuthority --------------------------
(***************************************************************************)
(* The gate's DeepSeek spending authority: every paid request is reserved  *)
(* at its worst case in a protected file before it leaves, under a ceiling *)
(* per run and per UTC day, and settled by the usage the provider reports. *)
(*                                                                         *)
(* Three layers are composed: the file (deepseek-budget-state.js), the     *)
(* in-memory ledger of runs over a cached daily base (deepseek-budget.js)  *)
(* behind a process-wide fuse, and what sends requests: chat and team      *)
(* turns, one request each, and contained runs, whose harness sends        *)
(* several through a relay (dsh-inference-relay.js) that can be cancelled. *)
(* A step is one synchronous turn of the gate; the relay awaits between    *)
(* an admission and the request, and between a request and its end.        *)
(***************************************************************************)
EXTENDS Integers, FiniteSets, FiniteSetsExt, Functions

CONSTANTS
    Runs,           \* budget runs
    Relayed,        \* the contained runs among them
    Requests,       \* provider requests
    RunOf,          \* RunOf[q]: the run that makes request q
    Limits,         \* the spending limits an operator may set
    FirstLimits,    \* DEFAULT_LIMITS
    LastDay,        \* bound: UTC days go from 1 to LastDay
    Want,           \* worst case of a request with all the output it asks for
    Least,          \* worst case of a request with one output token
    Faults,         \* the faults of this instance
    Unread          \* a daily base that was not read yet

ASSUME RunAssumption == Relayed \subseteq Runs /\ RunOf \in [Requests -> Runs]
ASSUME RequestAssumption == IsFiniteSet(Requests)
ASSUME OneRequestPerTurn ==
    \A p, q \in Requests : RunOf[p] = RunOf[q] /\ RunOf[p] \notin Relayed => p = q
ASSUME LimitAssumption == Limits \subseteq [run : Nat, day : Nat] /\ FirstLimits \in Limits
ASSUME AmountAssumption == LastDay \in Nat \ {0} /\ Least \in Nat \ {0} /\ Want \in Nat /\ Least <= Want
ASSUME FaultAssumption ==
    Faults \subseteq {"refused", "unsure", "gate_crash", "machine_crash", "overrun"}
ASSUME UnreadAssumption == Unread \notin Nat

VARIABLES
    file,           \* budget-state.json as a process reads it
    synced,         \* budget-state.json as it survives a crash of the machine
    poisoned,       \* the fuse of the gate process
    mem,            \* mem[d]: the ledger's base, settled and reserved spend of day d
    run,            \* run[r]: phase, limits, day and settled spend of a run
    active,         \* activeDshRuns
    req,            \* req[q]: phase, reservation, and what the provider bills
    today           \* the UTC day

vars == <<file, synced, poisoned, mem, run, active, req, today>>

Days == 1..LastDay
RunPhases == {"idle", "open", "refusing", "closed", "failed", "lost"}
ReqPhases == {"idle", "denied", "admitted", "sent", "ended", "stuck", "lost"}
Held == [req : Requests, day : Days, usd : Nat]
File == [limits : Limits, settled : [Days -> Nat], held : SUBSET Held]

TypeOK ==
    /\ file \in File /\ synced \in File
    /\ poisoned \in BOOLEAN
    /\ mem \in [Days -> [base : Nat \cup {Unread}, settled : Nat, reserved : Nat]]
    /\ run \in [Runs -> [phase : RunPhases, limits : Limits, day : Days, settled : Nat]]
    /\ active \subseteq Relayed
    /\ req \in [Requests -> [phase : ReqPhases, day : Days, usd : Nat, bill : Nat]]
    /\ today \in Days

-----------------------------------------------------------------------------
(* The file                                                                *)

\* What a set of reservations adds up to.
Holding(held) == SumFunctionOnSet([h \in Held |-> h.usd], held)

\* Held and settled spend of a day: what todayUsd answers.
Charge(f, d) == f.settled[d] + Holding({h \in f.held : h.day = d})

\* The reservation of q as it is written.
HeldFor(q) == {h \in file.held : h.req = q}
Reserved(h) == [file EXCEPT !.held = @ \cup {h}]
Cancelled(q) == [file EXCEPT !.held = @ \ HeldFor(q)]
Settled(q, usd) == [Cancelled(q) EXCEPT !.settled[req[q].day] = @ + usd]

\* A write whose rename and directory sync both succeeded.
Saved(new) == ~poisoned /\ file' = new /\ synced' = new

\* A write that failed before the rename, or after it: then the new file is
\* visible and nobody knows whether it would survive.  A poisoned authority
\* does not reach the file.
NotSaved(new) ==
    \/ (poisoned \/ "refused" \in Faults) /\ UNCHANGED <<file, synced>>
    \/ ~poisoned /\ "unsure" \in Faults /\ file' = new /\ UNCHANGED synced

-----------------------------------------------------------------------------
(* The ledger                                                              *)

FreshDay == [base |-> Unread, settled |-> 0, reserved |-> 0]
FreshRun == [phase |-> "idle", limits |-> FirstLimits, day |-> 1, settled |-> 0]
FreshReq == [phase |-> "idle", day |-> 1, usd |-> 0, bill |-> 0]

\* The durable base of a day is read once per process and kept.
Base(d) == IF mem[d].base = Unread THEN Charge(file, d) ELSE mem[d].base
\* Mutant: what concurrent requests hold is not counted.
UsedSettled(d) == Base(d) + mem[d].settled

Used(d) == Base(d) + mem[d].settled + mem[d].reserved

\* Mutant: a reservation is forgotten although its accounting failed.
OutstandingKnown(r) == {q \in Requests : RunOf[q] = r /\ req[q].phase \in {"admitted", "sent"}}

\* Requests whose reservation the run still holds in memory.
Outstanding(r) == {q \in Requests : RunOf[q] = r /\ req[q].phase \in {"admitted", "sent", "stuck"}}

Available(limits, spent, r, d) ==
    LET held == SumFunctionOnSet([q \in Requests |-> req[q].usd], Outstanding(r))
        byRun == limits.run - spent - held
        byDay == limits.day - Used(d)
    IN Min({byRun, byDay})

\* The output is clamped to what the ceilings leave.
Amount(available) == IF available < Want THEN available ELSE Want

ReadBase(d) == [mem EXCEPT ![d].base = Base(d)]
Reserve(d, usd) == [mem EXCEPT ![d].base = Base(d), ![d].reserved = @ + usd]
\* Mutant: the settled cost is not added to the day.
ReleaseFree(q, cost) == [mem EXCEPT ![req[q].day].reserved = @ - req[q].usd]

Release(q, cost) ==
    [mem EXCEPT ![req[q].day].reserved = @ - req[q].usd, ![req[q].day].settled = @ + cost]

Reservation(q, d, usd) == [req |-> q, day |-> d, usd |-> usd]

\* What a provider may charge for a request it received: nothing, all that was
\* reserved, or more than the bounds allow.
Bills(usd) == {0, usd} \cup (IF "overrun" \in Faults THEN {usd + 1} ELSE {})

-----------------------------------------------------------------------------
(* Contained runs and their relay                                          *)

Begin(r) ==
    /\ r \in Relayed /\ run[r].phase = "idle"
    /\ ~poisoned
    /\ run' = [run EXCEPT ![r] = [phase |-> "open", limits |-> file.limits, day |-> today,
                                  settled |-> 0]]
    /\ active' = active \cup {r}
    /\ UNCHANGED <<file, synced, poisoned, mem, req, today>>

\* A request arrives with its body; its reservation is written ahead.
Admit(q) ==
    LET r == RunOf[q]
        d == run[r].day
        available == Available(run[r].limits, run[r].settled, r, d)
        usd == Amount(available)
        new == Reserved(Reservation(q, d, usd))
    IN
    /\ r \in Relayed /\ run[r].phase = "open"
    /\ req[q].phase = "idle"
    /\ \/ /\ today = d /\ available >= Least
          /\ Saved(new)
          /\ mem' = Reserve(d, usd)
          /\ req' = [req EXCEPT ![q] = [phase |-> "admitted", day |-> d, usd |-> usd, bill |-> 0]]
          /\ UNCHANGED poisoned
       \/ /\ today = d /\ available >= Least
          /\ NotSaved(new)
          /\ poisoned' = TRUE
          /\ mem' = IF poisoned THEN mem ELSE ReadBase(d)
          /\ req' = [req EXCEPT ![q] = [phase |-> "denied", day |-> d, usd |-> usd, bill |-> 0]]
       \/ /\ today # d \/ available < Least
          /\ mem' = IF poisoned \/ today # d THEN mem ELSE ReadBase(d)
          /\ req' = [req EXCEPT ![q].phase = "denied"]
          /\ UNCHANGED <<file, synced, poisoned>>
    /\ UNCHANGED <<run, active, today>>

\* The handler resumes after its admission: nothing refuses requests.
Send(q) ==
    /\ req[q].phase = "admitted" /\ run[RunOf[q]].phase = "open"
    /\ \E bill \in Bills(req[q].usd) :
        req' = [req EXCEPT ![q].phase = "sent", ![q].bill = bill]
    /\ UNCHANGED <<file, synced, poisoned, mem, run, active, today>>

\* markFailed: the relay refuses requests from now on and the child is killed.
MarkFailed(r) == IF run[r].phase = "open" THEN [run EXCEPT ![r].phase = "refusing"] ELSE run

\* The accounting of q failed: its reservation stays charged.
Unsettled(q, new) ==
    /\ NotSaved(new)
    /\ poisoned' = TRUE
    /\ req' = [req EXCEPT ![q].phase = "stuck"]
    /\ UNCHANGED mem

\* A request that never reached the provider: cancelled relay, client gone,
\* or a body that does not survive normalization.
Withdraw(q) ==
    /\ req[q].phase = "admitted"
    /\ \/ /\ Saved(Cancelled(q))
          /\ mem' = Release(q, 0)
          /\ req' = [req EXCEPT ![q].phase = "ended"]
          /\ UNCHANGED <<poisoned, run>>
       \/ /\ Unsettled(q, Cancelled(q))
          /\ run' = MarkFailed(RunOf[q])
    /\ UNCHANGED <<active, today>>

\* Mutant: a request without trusted usage costs nothing.
CostReported(q, trusted) == IF trusted THEN req[q].bill ELSE 0

\* Usage that is reported and well formed is believed; anything else, an
\* abort, an error or a timeout included, costs the whole reservation.
Cost(q, trusted) == IF trusted THEN req[q].bill ELSE req[q].usd
Exceeds(q, trusted) == trusted /\ req[q].bill > req[q].usd

RelayEnd(q) ==
    LET r == RunOf[q] IN
    /\ r \in Relayed /\ req[q].phase = "sent"
    /\ \E trusted \in BOOLEAN :
        LET cost == Cost(q, trusted) IN
        \/ /\ Saved(Settled(q, cost))
           /\ mem' = Release(q, cost)
           /\ req' = [req EXCEPT ![q].phase = "ended"]
           /\ poisoned' = Exceeds(q, trusted)
           /\ run' = [(IF Exceeds(q, trusted) THEN MarkFailed(r) ELSE run) EXCEPT
                        ![r].settled = @ + cost]
        \/ /\ Unsettled(q, Settled(q, cost))
           /\ run' = MarkFailed(r)
    /\ UNCHANGED <<active, today>>

\* The run ends, an operator stops it, or the gate shuts down.
Stop(r) ==
    /\ r \in Relayed /\ run[r].phase = "open"
    /\ run' = [run EXCEPT ![r].phase = "refusing"]
    /\ UNCHANGED <<file, synced, poisoned, mem, active, req, today>>

\* Mutant: a request whose finalization failed counts as in flight.
InFlightForever(r) == {q \in Requests : RunOf[q] = r /\ req[q].phase \in {"admitted", "sent", "stuck"}}

\* The cancelled relay has finalized every request it knew.
InFlight(r) == {q \in Requests : RunOf[q] = r /\ req[q].phase \in {"admitted", "sent"}}

Close(r) ==
    /\ r \in Relayed /\ run[r].phase = "refusing"
    /\ InFlight(r) = {}
    /\ run' = [run EXCEPT ![r].phase = IF Outstanding(r) = {} THEN "closed" ELSE "failed"]
    /\ UNCHANGED <<file, synced, poisoned, mem, active, req, today>>

\* The run is forgotten once its relay is closed and its child proven gone.
Forget(r) ==
    /\ r \in active /\ run[r].phase = "closed"
    /\ active' = active \ {r}
    /\ UNCHANGED <<file, synced, poisoned, mem, run, req, today>>

-----------------------------------------------------------------------------
(* Chat and team turns                                                     *)

\* Limits, run, reservation and request in one turn of the event loop.
Turn(q) ==
    LET r == RunOf[q]
        available == Available(file.limits, 0, r, today)
        usd == Amount(available)
        new == Reserved(Reservation(q, today, usd))
        opened == [phase |-> "open", limits |-> file.limits, day |-> today, settled |-> 0]
    IN
    /\ r \notin Relayed /\ run[r].phase = "idle" /\ ~poisoned
    /\ \/ /\ available >= Least
          /\ Saved(new)
          /\ mem' = Reserve(today, usd)
          /\ \E bill \in Bills(usd) :
                req' = [req EXCEPT ![q] = [phase |-> "sent", day |-> today, usd |-> usd, bill |-> bill]]
          /\ run' = [run EXCEPT ![r] = opened]
          /\ UNCHANGED poisoned
       \/ /\ available >= Least
          /\ NotSaved(new)
          /\ poisoned' = TRUE
          /\ mem' = ReadBase(today)
          /\ req' = [req EXCEPT ![q] = [phase |-> "denied", day |-> today, usd |-> usd, bill |-> 0]]
          /\ run' = [run EXCEPT ![r] = [opened EXCEPT !.phase = "closed"]]
       \/ /\ available < Least
          /\ mem' = ReadBase(today)
          /\ req' = [req EXCEPT ![q].phase = "denied"]
          /\ run' = [run EXCEPT ![r] = [opened EXCEPT !.phase = "closed"]]
          /\ UNCHANGED <<file, synced, poisoned>>
    /\ UNCHANGED <<active, today>>

\* The turn ends once: its answer, an error, a timeout, a cancel, a quarantine.
TurnEnd(q) ==
    LET r == RunOf[q] IN
    /\ r \notin Relayed /\ req[q].phase = "sent"
    /\ \E trusted \in BOOLEAN :
        LET cost == Cost(q, trusted) IN
        \/ /\ Saved(Settled(q, cost))
           /\ mem' = Release(q, cost)
           /\ req' = [req EXCEPT ![q].phase = "ended"]
           /\ poisoned' = Exceeds(q, trusted)
           /\ run' = [run EXCEPT ![r].phase = "closed", ![r].settled = @ + cost]
        \/ /\ Unsettled(q, Settled(q, cost))
           /\ run' = [run EXCEPT ![r].phase = "failed"]
    /\ UNCHANGED <<active, today>>

-----------------------------------------------------------------------------
(* Limits, time and faults                                                 *)

\* A limit is refused while a contained run is active.
SetLimits(limits) ==
    /\ active = {} /\ ~poisoned
    /\ limits # file.limits
    /\ LET new == [file EXCEPT !.limits = limits] IN
       \/ Saved(new) /\ UNCHANGED poisoned
       \/ NotSaved(new) /\ poisoned' = TRUE
    /\ UNCHANGED <<mem, run, active, req, today>>

Midnight ==
    /\ today < LastDay
    /\ today' = today + 1
    /\ UNCHANGED <<file, synced, poisoned, mem, run, active, req>>

\* A gate process starts over whatever the file holds; what the old one knew
\* of its runs and requests is gone.
Restarted ==
    /\ poisoned' = FALSE
    /\ mem' = [d \in Days |-> FreshDay]
    /\ active' = {}
    /\ run' = [r \in Runs |-> IF run[r].phase = "idle" THEN run[r] ELSE [FreshRun EXCEPT !.phase = "lost"]]
    /\ req' = [q \in Requests |-> IF req[q].phase = "idle" THEN req[q] ELSE [req[q] EXCEPT !.phase = "lost"]]
    /\ UNCHANGED today

GateCrash ==
    /\ "gate_crash" \in Faults
    /\ Restarted
    /\ UNCHANGED <<file, synced>>

\* An unsynced rename may or may not have reached the disk.
MachineCrash ==
    /\ "machine_crash" \in Faults
    /\ Restarted
    /\ file' \in {file, synced}
    /\ synced' = file'

-----------------------------------------------------------------------------

Init ==
    /\ file = [limits |-> FirstLimits, settled |-> [d \in Days |-> 0], held |-> {}]
    /\ synced = file
    /\ poisoned = FALSE
    /\ mem = [d \in Days |-> FreshDay]
    /\ run = [r \in Runs |-> FreshRun]
    /\ active = {}
    /\ req = [q \in Requests |-> FreshReq]
    /\ today = 1

Next ==
    \/ \E r \in Runs : Begin(r) \/ Stop(r) \/ Close(r) \/ Forget(r)
    \/ \E q \in Requests : \/ Admit(q) \/ Send(q) \/ Withdraw(q) \/ RelayEnd(q)
                           \/ Turn(q) \/ TurnEnd(q)
    \/ \E limits \in Limits : SetLimits(limits)
    \/ Midnight \/ GateCrash \/ MachineCrash

\* A handler that was admitted resumes, a request ends by its hard timer at
\* the latest, and the lifecycle goes on to its end once it has begun.
Fairness ==
    /\ \A q \in Requests : /\ WF_vars(Send(q) \/ Withdraw(q))
                           /\ WF_vars(RelayEnd(q))
                           /\ WF_vars(TurnEnd(q))
    /\ \A r \in Runs : WF_vars(Close(r))

Spec == Init /\ [][Next]_vars /\ Fairness

-----------------------------------------------------------------------------
(* Properties                                                              *)

\* What the provider bills for requests of day d that kept to their bounds,
\* and the most the gate may have to charge for them.
OfDay(d) == {q \in Requests : req[q].usd > 0 /\ req[q].day = d}
Owed(d) == SumFunctionOnSet([q \in Requests |-> Min({req[q].bill, req[q].usd})], OfDay(d))
Ceiling(d) == SumFunctionOnSet([q \in Requests |-> Max({req[q].bill, req[q].usd})], OfDay(d))

\* The day's charge on disk never falls below what was spent, whatever write
\* fails and whenever the gate or the machine dies, and no request is charged
\* twice (deepseek-budget-state.js:3-6: a crash leaves the reservation charged).
Accounted ==
    \A d \in Days : \A f \in {file, synced} : Owed(d) <= Charge(f, d) /\ Charge(f, d) <= Ceiling(d)

\* The cached base and the ledger's own counters add up to the file as long as
\* the fuse is whole: no admission works from a stale daily total
\* (gate.js:3433-3437, "No later request may reuse a cached daily base").
LedgerIsFile ==
    \A d \in Days : ~poisoned /\ mem[d].base # Unread => Used(d) = Charge(file, d)

\* A run whose budget closed left no reservation behind (the relay's finish
\* raced its cancel, and each may settle a request only once).
ClosedIsSettled ==
    \A r \in Runs : run[r].phase = "closed" =>
        /\ \A q \in Requests : RunOf[q] = r => req[q].phase \in {"idle", "denied", "ended"}
        /\ \A q \in Requests : RunOf[q] = r /\ req[q].phase = "ended" => HeldFor(q) = {}

\* Whatever is reserved keeps the day and the run within the limits in force
\* at that moment: several requests of several runs share the day, limits are
\* captured when a run begins, and an operator may change them.
SpentBy(r) == run[r].settled + Holding({h \in file.held : RunOf[h.req] = r})
CapAtAdmission ==
    [][\A h \in file'.held \ file.held : req[h.req].phase = "idle" =>
            /\ Charge(file', h.day) <= file'.limits.day
            /\ SpentBy(RunOf[h.req])' <= file'.limits.run]_vars

\* Once a relay refuses requests its run ends with every reservation settled
\* or the failure known, unless the gate restarts (a stop never hangs on a
\* request in flight).
StopEnds ==
    \A r \in Relayed :
        run[r].phase = "refusing" ~> run[r].phase \in {"closed", "failed", "lost"} /\ InFlight(r) = {}

\* Nothing leaves for the provider unless its reservation is synced.
WriteAhead ==
    \A q \in Requests : req[q].phase = "sent" =>
        \E h \in file.held \cap synced.held : h.req = q
=============================================================================
