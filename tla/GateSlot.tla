------------------------------ MODULE GateSlot ------------------------------
(***************************************************************************)
(* The gate's one agent slot: who holds it, who waits for it (web chats    *)
(* and channel turns, channel deliveries, the boot's wake round, scheduled *)
(* Loops), the limiter that sends one channel reply at a time, and the     *)
(* quarantine that closes the slot for the rest of the boot when an agent  *)
(* process cannot be shown to have ended.                                  *)
(*                                                                         *)
(* The gate is one JavaScript thread, so an action is a callback and the   *)
(* microtasks it leaves; the state is one record, on which the functions   *)
(* of the code are operators.  Agents are run by the root broker: the gate *)
(* hears an exit, which is proof that the process is gone, or loses the    *)
(* broker, which is not.                                                   *)
(***************************************************************************)
EXTENDS Naturals, Sequences, FiniteSets, SequencesExt

CONSTANTS
    Chats, Turns, Loops,    \* web chats, channel turns, scheduled Loops: each at most once
    WakeSteps,              \* engines of the wake round
    Candidates,             \* targets a reply is tried on, in order
    CHAT_WAITER_MAX, CHANNEL_INFLIGHT_MAX,
    NoOne

VARIABLE gate

vars == gate

Delivery(u) == <<"delivery", u>>
Wake == <<"wake", "boot">>
Board == <<"board", "tick">>
Humans == ({"chat"} \X Chats) \cup ({"turn"} \X Turns)
Sends == {Delivery(u) : u \in Turns}
Scheduled == {"loop"} \X Loops
Runs == Humans \cup Sends \cup Scheduled \cup {Wake, Board}

ASSUME NoOneAssumption == NoOne \notin Runs
ASSUME TurnsAssumption == IsFiniteSet(Turns)
ASSUME BoundAssumption == CHAT_WAITER_MAX \in Nat /\ CHANNEL_INFLIGHT_MAX \in Nat

\* "reading" is a turn in flight that awaits the board snapshot, "approved" a
\* Loop queued on the operator's one-run approval, "cancelled" a chat whose
\* agent was told to stop, "killed" a run past its time, in its kill's grace.
Stages == {"idle", "reading", "queued", "approved", "gated", "running",
           "cancelled", "killed", "done"}

Init ==
  \E quarantinedAtBoot \in BOOLEAN :
    gate = [owner |-> NoOne,            \* whose token agentRunToken is, while agentBusy
            latched |-> quarantinedAtBoot,  \* agentLaneQuarantined, and the limiter's
            dispatch |-> FALSE,         \* a setImmediate(dispatchAgentSlot) is due
            chats |-> <<>>, deliveries |-> <<>>, wakes |-> <<>>, loops |-> <<>>,
            pending |-> <<>>,           \* the limiter's queue,
            sending |-> NoOne,          \* and its active delivery
            inFlight |-> 0,             \* channelInFlight
            st |-> [r \in Runs |-> "idle"],
            tries |-> [r \in Runs |-> 0],       \* processes asked for
            answers |-> [r \in Runs |-> 0],     \* outcomes its caller was given
            alive |-> {}]               \* runs whose process may still exist

-----------------------------------------------------------------------------
(* The slot                                                                *)

\* Mutant: the slot is handed out in a quarantined lane.
FreeLatched(g) == g.owner = NoOne

Free(g) == g.owner = NoOne /\ ~g.latched

Take(g, r) == [g EXCEPT !.owner = r, !.st[r] = "running"]

\* A token that is not the current one, and a latched lane, release nothing.
Release(g, r) ==
    IF g.owner = r /\ ~g.latched
    THEN [g EXCEPT !.owner = NoOne, !.dispatch = TRUE]
    ELSE g

Launch(g, r) ==
    [g EXCEPT !.st[r] = "running", !.tries[r] = @ + 1, !.alive = @ \cup {r}]

\* Callers are told what became of their runs, whose attempts are forgotten.
TellAll(g, told) ==
    [g EXCEPT !.st = [r \in Runs |-> IF r \in told THEN "done" ELSE g.st[r]],
              !.tries = [r \in Runs |-> IF r \in told THEN 0 ELSE g.tries[r]],
              !.answers = [r \in Runs |-> IF r \in told THEN g.answers[r] + 1 ELSE g.answers[r]]]

Tell(g, r) == TellAll(g, {r})

\* A line when some have left it.
Without(line, gone) ==
    LET kept[i \in 0..Len(line)] ==
            IF i = 0 THEN <<>>
            ELSE IF line[i] \in gone THEN kept[i - 1] ELSE Append(kept[i - 1], line[i])
    IN  kept[Len(line)]

Queued(g) == {r \in Runs : g.st[r] \in {"queued", "approved"}}

\* Mutant: queued Loops are left to wait for a slot that never comes.
QuarantineKeepsLoops(g) ==
    LET line == ToSet(g.pending) \cup ToSet(g.chats) \cup ToSet(g.wakes) \cup ToSet(g.deliveries)
        held == {g.owner} \ (Sends \cup {NoOne})
        turns == {u \in Turns : <<"turn", u>> \in line \cup held}
        told == line \cup held \cup {Delivery(u) : u \in turns}
    IN  IF g.latched THEN g
        ELSE TellAll([g EXCEPT !.latched = TRUE, !.inFlight = @ - Cardinality(turns),
                               !.pending = <<>>, !.chats = <<>>, !.wakes = <<>>,
                               !.deliveries = <<>>], told)

\* quarantineAgentLane: the holder's handler and everyone in line are told; the
\* delivery that is with the agent lane's broker is left to its own events.
\* A turn's error is a reply, which the limiter, latched first, refuses.
Quarantine(g) ==
    LET line == ToSet(g.pending) \cup ToSet(g.chats) \cup ToSet(g.wakes)
                \cup ToSet(g.deliveries) \cup ToSet(g.loops)
        held == {g.owner} \ (Sends \cup {NoOne})
        turns == {u \in Turns : <<"turn", u>> \in line \cup held}
        told == line \cup held \cup {Delivery(u) : u \in turns}
    IN  IF g.latched THEN g
        ELSE TellAll([g EXCEPT !.latched = TRUE, !.inFlight = @ - Cardinality(turns),
                               !.pending = <<>>, !.chats = <<>>, !.wakes = <<>>,
                               !.deliveries = <<>>, !.loops = <<>>], told)

-----------------------------------------------------------------------------
(* Channel deliveries                                                      *)

\* Mutant: a delivery takes the slot whoever waits.
DeliverFirst(g, d) ==
    IF Free(g) THEN Launch(Take(g, d), d) ELSE [g EXCEPT !.deliveries = Append(@, d)]

\* The limiter's drain runs on a microtask, so it may find the slot just
\* released, before the dispatch that release scheduled: a delivery takes it
\* only when no human waits.  The limiter is the one caller, and has one
\* delivery out, so the line of deliveries never reaches its cap.
Deliver(g, d) ==
    IF Free(g) /\ g.chats = <<>>
    THEN Launch(Take(g, d), d)
    ELSE [g EXCEPT !.deliveries = Append(@, d)]

Drain(g) ==
    IF g.sending # NoOne \/ g.latched \/ g.pending = <<>> THEN g
    ELSE LET d == Head(g.pending)
         IN  Deliver([g EXCEPT !.pending = Tail(@), !.sending = d], d)

Enqueue(g, d) ==
    IF g.latched \/ Len(g.pending) >= CHANNEL_INFLIGHT_MAX THEN Tell(g, d)
    ELSE Drain([g EXCEPT !.pending = Append(@, d), !.st[d] = "queued"])

\* The end of the run of candidates: the slot first, then the limiter.
Sent(g, d) == Drain([Tell(Release(g, d), d) EXCEPT !.sending = NoOne])

\* The limiter stays with a delivery whose process may be alive.
SendUnproven(g, d) == Tell(Quarantine(g), d)

-----------------------------------------------------------------------------
(* Humans, the wake round and Loops                                        *)

\* A chat's stream ends; a turn's answer leaves as a channel reply.
Answer(g, r) ==
    IF r \in {"turn"} \X Turns
    THEN Enqueue([Tell(g, r) EXCEPT !.inFlight = @ - 1], Delivery(r[2]))
    ELSE Tell(g, r)

\* startChatRun, and a channel turn's start: the governance gate or the daily
\* cap may answer the message without the slot.
HumanStarts(g, r) == {Answer(g, r), Launch(Take(g, r), r)}

\* Mutant: the line may grow one past its bound.
JoinChatsPast(g, r) ==
    IF g.latched \/ Len(g.chats) > CHAT_WAITER_MAX THEN Answer(g, r)
    ELSE [g EXCEPT !.chats = Append(@, r), !.st[r] = "queued"]

JoinChats(g, r) ==
    IF g.latched \/ Len(g.chats) >= CHAT_WAITER_MAX THEN Answer(g, r)
    ELSE [g EXCEPT !.chats = Append(@, r), !.st[r] = "queued"]

\* The round gets in line again before it lets go, behind any human.
WakeYields(g) ==
    IF g.tries[Wake] >= WakeSteps THEN Tell(Release(g, Wake), Wake)
    ELSE Release([g EXCEPT !.wakes = Append(@, Wake), !.st[Wake] = "queued"], Wake)

\* Its durable record cannot be moved, its next engine cannot be run, or it is.
WakeStarts(g) ==
    {Release([Take(g, Wake) EXCEPT !.st[Wake] = "done"], Wake),
     WakeYields([Take(g, Wake) EXCEPT !.tries[Wake] = @ + 1]),
     Launch(Take(g, Wake), Wake)}

\* startCronRun: an approval that no longer fits keeps the Loop gated, a start
\* that cannot be recorded fails it, both giving the slot back.
LoopStarts(g, r) ==
    {Release(Tell(Take(g, r), r), r), Launch(Take(g, r), r)}
    \cup IF g.st[r] = "approved" THEN {Release([Take(g, r) EXCEPT !.st[r] = "gated"], r)} ELSE {}

\* drainCronQueue: Loops deleted, or parked by the mode, drop out on the way.
LoopsDrained(g) ==
    UNION {LET h == TellAll([g EXCEPT !.loops = SubSeq(@, n + 1, Len(@))],
                            ToSet(SubSeq(g.loops, 1, n)))
           IN  IF h.loops = <<>> THEN {h}
               ELSE LoopStarts([h EXCEPT !.loops = Tail(@)], Head(h.loops))
           : n \in 0..Len(g.loops)}

\* One waiter is taken out of line and run; if it does not take the slot the
\* others stay where they are.
Dispatched(g) ==
    IF ~Free(g) THEN {g}
    ELSE IF g.chats # <<>> THEN HumanStarts([g EXCEPT !.chats = Tail(@)], Head(g.chats))
    ELSE IF g.deliveries # <<>> THEN {Deliver([g EXCEPT !.deliveries = Tail(@)], Head(g.deliveries))}
    ELSE IF g.wakes # <<>> THEN WakeStarts([g EXCEPT !.wakes = Tail(@)])
    ELSE LoopsDrained(g)

Immediate ==
    /\ gate.dispatch
    /\ gate' \in Dispatched([gate EXCEPT !.dispatch = FALSE])

-----------------------------------------------------------------------------
(* Arrivals                                                                *)

Chat(c) ==
    LET r == <<"chat", c>>
    IN  /\ gate.st[r] = "idle"
        /\ IF Free(gate) THEN gate' \in HumanStarts(gate, r)
           ELSE gate' = JoinChats(gate, r)

\* A message that is gated, or over the bound on turns in flight, is answered
\* with a line of text; the others are turns.
ChannelMessage(u) ==
    LET r == <<"turn", u>>
    IN  /\ gate.st[r] = "idle"
        /\ \/ gate' = Enqueue(Tell(gate, r), Delivery(u))
           \/ /\ gate.inFlight < CHANNEL_INFLIGHT_MAX
              /\ gate' = [gate EXCEPT !.inFlight = @ + 1, !.st[r] = "reading"]

TurnStarts(u) ==
    LET r == <<"turn", u>>
    IN  /\ gate.st[r] = "reading"
        /\ \/ gate' = Answer(gate, r)       \* over the cap, or quarantined
           \/ ~gate.latched /\ IF Free(gate) THEN gate' = Launch(Take(gate, r), r)
                               ELSE gate' = JoinChats(gate, r)

\* Cancel takes a queued chat out of line, and tells a running one's agent to
\* stop; deleting a schedule takes its Loop out of line.
Cancel(r) ==
    /\ r \in {"chat"} \X Chats \cup Scheduled
    /\ \/ /\ r \in Queued(gate)
          /\ gate' = Tell([gate EXCEPT !.chats = Without(@, {r}), !.loops = Without(@, {r})], r)
       \/ /\ r \in Humans /\ gate.st[r] = "running" /\ ~gate.latched
          /\ gate' = [gate EXCEPT !.st[r] = "cancelled"]

WakeRound ==
    /\ gate.st[Wake] = "idle" /\ ~gate.latched
    /\ gate' \in Dispatched([gate EXCEPT !.wakes = Append(@, Wake), !.st[Wake] = "queued"])

\* Mutant: the tick does not dispatch.
CronTickOnly ==
    /\ ~gate.latched
    /\ \E r \in Scheduled :
          /\ gate.st[r] = "idle"
          /\ \/ gate' \in {[gate EXCEPT !.st[r] = "gated"], Tell(gate, r)}
             \/ Free(gate) /\ gate' \in LoopStarts(gate, r)
             \/ ~Free(gate) /\ gate' = [gate EXCEPT !.loops = Append(@, r), !.st[r] = "queued"]

\* The scheduler's tick: approvals expire, the safety net dispatches, and a
\* Loop that is due is gated, started or queued, or failed by a gate that
\* cannot be recorded.
CronTick ==
    /\ ~gate.latched
    /\ \E expired \in SUBSET {r \in Scheduled : gate.st[r] = "approved"} :
       \E g \in Dispatched([gate EXCEPT
                    !.loops = Without(@, expired),
                    !.st = [r \in Runs |-> IF r \in expired THEN "gated" ELSE gate.st[r]]]) :
          \/ gate' = g
          \/ \E r \in Scheduled :
                /\ g.st[r] = "idle"
                /\ \/ gate' \in {[g EXCEPT !.st[r] = "gated"], Tell(g, r)}
                   \/ Free(g) /\ gate' \in LoopStarts(g, r)
                   \/ ~Free(g) /\ gate' = [g EXCEPT !.loops = Append(@, r), !.st[r] = "queued"]

\* The operator approves one gated run; the route does not ask if the lane is
\* quarantined.
Approve(r) ==
    /\ r \in Scheduled /\ gate.st[r] = "gated"
    /\ gate' = [gate EXCEPT !.loops = Append(@, r), !.st[r] = "approved", !.dispatch = TRUE]

\* The board's tick holds the slot while it lists the cards, and keeps it for
\* an agent if it dispatches one.
BoardTick ==
    /\ gate.st[Board] = "idle" /\ Free(gate)
    /\ gate' = Take(gate, Board)

BoardListed ==
    /\ gate.st[Board] = "running" /\ gate.tries[Board] = 0
    /\ \/ gate' = Tell(Release(gate, Board), Board)
       \/ ~gate.latched /\ gate' = Launch(gate, Board)

-----------------------------------------------------------------------------
(* Processes and time                                                      *)

\* Mutant: an exit heard after a quarantine settles its run again.
RunExitsAgain(r) ==
    LET g == [gate EXCEPT !.alive = @ \ {r}]
    IN  /\ r \in gate.alive \ Sends
        /\ gate' = IF r = Wake THEN WakeYields(g) ELSE Answer(Release(g, r), r)

\* A run's process ends and the gate hears of it.  A human's run whose resume
\* failed is started once more on the same lease.
RunExits(r) ==
    LET g == [gate EXCEPT !.alive = @ \ {r}]
    IN  /\ r \in gate.alive \ Sends
        /\ IF gate.latched THEN gate' = g
           ELSE \/ gate' = IF r = Wake THEN WakeYields(g) ELSE Answer(Release(g, r), r)
                \/ /\ r \in Humans /\ gate.st[r] = "running" /\ gate.tries[r] = 1
                   /\ gate' = Launch(g, r)

\* Mutant: a lost broker is taken for an exit.
RunLostIsExit(r) ==
    /\ r \in gate.alive \ Sends /\ ~gate.latched
    /\ gate' = IF r = Wake THEN WakeYields(gate) ELSE Answer(Release(gate, r), r)

\* The broker is lost: the process may be alive, the lane is not released.
RunLost(r) ==
    /\ r \in gate.alive \ Sends /\ ~gate.latched
    /\ gate' = Quarantine(gate)

\* A run's own time limit; the wake round's has no kill before it.
RunTimeout(r) ==
    /\ r \in gate.alive \ Sends /\ ~gate.latched
    /\ gate.st[r] \in {"running", "cancelled"}
    /\ gate' = IF r = Wake THEN Quarantine(gate) ELSE [gate EXCEPT !.st[r] = "killed"]

RunGraceEnds(r) ==
    /\ r \in gate.alive \ Sends /\ ~gate.latched /\ gate.st[r] = "killed"
    /\ gate' = Quarantine(gate)

\* A delivery's process ends; a failure is followed by the next candidate.
SendExits(d) ==
    LET g == [gate EXCEPT !.alive = @ \ {d}]
    IN  /\ d \in gate.alive \cap Sends
        /\ IF gate.st[d] = "done" THEN gate' = g
           ELSE \/ gate' = Sent(g, d)
                \/ gate.tries[d] < Candidates /\ gate' = Launch(g, d)

SendLost(d) ==
    /\ d \in gate.alive \cap Sends /\ gate.st[d] # "done"
    /\ gate' = SendUnproven(gate, d)

SendTimeout(d) ==
    /\ d \in gate.alive \cap Sends /\ gate.st[d] = "running"
    /\ gate' = [gate EXCEPT !.st[d] = "killed"]

SendGraceEnds(d) ==
    /\ d \in gate.alive \cap Sends /\ gate.st[d] = "killed"
    /\ gate' = SendUnproven(gate, d)

\* Work outside the slot lost its proof: a credentialed Git command, a relay.
ElsewhereUnproven ==
    /\ ~gate.latched
    /\ gate' = Quarantine(gate)

Next ==
    \/ Immediate \/ WakeRound \/ CronTick \/ BoardTick \/ BoardListed \/ ElsewhereUnproven
    \/ \E c \in Chats : Chat(c)
    \/ \E u \in Turns : ChannelMessage(u) \/ TurnStarts(u)
    \/ \E r \in Runs : \/ Cancel(r) \/ Approve(r)
                       \/ RunExits(r) \/ RunLost(r) \/ RunTimeout(r) \/ RunGraceEnds(r)
                       \/ SendExits(r) \/ SendLost(r) \/ SendTimeout(r) \/ SendGraceEnds(r)

Spec == Init /\ [][Next]_vars

\* Timers fire, immediates run, the ticks go on and the board's list answers.
\* No exit is assumed.
TimeLimit == \E r \in Runs : RunTimeout(r) \/ RunGraceEnds(r) \/ SendTimeout(r) \/ SendGraceEnds(r)

Scheduling ==
    WF_vars(TimeLimit) /\ WF_vars(Immediate) /\ WF_vars(CronTick) /\ WF_vars(BoardListed)

FairSpec == Spec /\ Scheduling

-----------------------------------------------------------------------------
(* Properties                                                              *)

TypeOK ==
    /\ gate.owner \in Runs \cup {NoOne} /\ gate.sending \in Sends \cup {NoOne}
    /\ gate.latched \in BOOLEAN /\ gate.dispatch \in BOOLEAN
    /\ gate.chats \in Seq(Humans) /\ gate.deliveries \in Seq(Sends) /\ gate.pending \in Seq(Sends)
    /\ gate.wakes \in Seq({Wake}) /\ gate.loops \in Seq(Scheduled)
    /\ gate.st \in [Runs -> Stages] /\ gate.alive \subseteq Runs
    /\ gate.inFlight \in 0..CHANNEL_INFLIGHT_MAX
    /\ Len(gate.chats) <= CHAT_WAITER_MAX /\ Len(gate.deliveries) <= 1 /\ Len(gate.wakes) <= 1

\* "two engines can't run at once" (gate.js:5640): whatever a timeout, a lost
\* broker or a quarantine leaves behind, at most one agent process may exist.
OneProcess == Cardinality(gate.alive) <= 1

\* No caller is told twice what became of its run, although a quarantine, an
\* exit, a timeout and a cancellation may all come to tell it; and the bound on
\* channel turns counts exactly the turns that have not been answered.
AnsweredOnce ==
    /\ \A r \in Runs : gate.answers[r] <= 1
    /\ gate.inFlight = Cardinality({u \in Turns :
           gate.st[<<"turn", u>>] \in {"reading", "queued", "running", "killed"}})

\* "A human waiting on the phone always goes before background boot check-ins"
\* (gate.js:5798): a delivery, the wake round or a queued Loop is given the slot
\* only when no human is in line, also by the limiter's microtask.
HumanFirst ==
    [][\A r \in Sends \cup {Wake} \cup ToSet(gate.loops) :
          gate'.owner = r /\ gate.owner # r => gate'.chats = <<>>]_vars

\* "no replacement process will start" (gate.js:5748): once quarantined, the
\* one process that starts is the next candidate of the delivery under way.
NoReplacement ==
    [][gate.latched => \A r \in gate'.alive \ (gate.alive \ {gate.sending}) :
          r = gate.sending]_vars

\* A quarantine is terminal for the boot, so it leaves nobody in line, and
\* nobody joins one but a Loop the operator approves afterwards.
NoneLeftWaiting ==
    [][/\ gate'.latched /\ ~gate.latched => Queued(gate') = {}
       /\ gate.latched => \A r \in Queued(gate') \ Queued(gate) : gate.st[r] = "gated"]_vars

\* Short of a quarantine the line drains again and again, although a dispatch
\* whose message a governance gate answers wakes nobody else.
LineDrains == []<>(gate.latched \/ Queued(gate) = {})
=============================================================================
