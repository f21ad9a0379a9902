----------------------------- MODULE AgentLane -----------------------------
(***************************************************************************)
(* The lanes root admits heavyweight processes through, during one boot of *)
(* PID 1.  Three parties share them: chat connections of the gate (the     *)
(* chat server and the chat runner), governed work (the Foundation-B       *)
(* launcher, through the shared spawn of the boot entry) and the           *)
(* supervisor, which latches the agent lane when the gate is lost.  Each   *)
(* action is one callback of PID 1's event loop.                           *)
(*                                                                         *)
(* A lane is closed while any latch is held (maintenance-agent-lane.js).   *)
(* A latch is <<reason, connection>>: the latch of a lost connection is    *)
(* one object per connection and lane, and the only kind that can go away. *)
(***************************************************************************)
EXTENDS Naturals

CONSTANTS
    Runs,           \* run ids the gate names in its frames
    Workers,        \* workerRefs of governed work
    Conns,          \* chat connections
    KindsOf,        \* KindsOf[r]: the kinds of frame the gate sends for r
    MaxAttempts,    \* terminationProofAttempts (40 in the code)
    Nobody,         \* no tenant
    NoConn          \* the connection of a latch that is about none

Lanes == {"agent", "assist"}
Kinds == {"chat", "assist", "autonomous"}   \* a delivery frame acts as chat
Tenants == Runs \cup Workers

ASSUME RunsAssumption == Runs \cap Workers = {} /\ Nobody \notin Tenants
ASSUME ConnAssumption == NoConn \notin Conns
ASSUME KindsAssumption == KindsOf \in [Runs -> SUBSET Kinds]
ASSUME AttemptsAssumption == MaxAttempts \in Nat \ {0}

VARIABLES
    latches,        \* latches[l]: the latches held on lane l
    lease,          \* lease[l]: the tenant of the active lease, or Nobody
    laneOwner,      \* laneOwner[l]: the runner's (assist)laneOwnerRunId
    lane,           \* lane[t]: the lane t last launched on
    tree,           \* tree[t]: t's process tree: "none", "live" or "gone"
    closing,        \* tenants whose child "close" event is still to come
    leases,         \* workers whose lease the shared spawn remembers
    conn,           \* conn[c]: "closed", "open" or "doomed" (destroyed socket)
    active,         \* active[c]: activeRuns of connection c
    activeAssist,   \* activeAssist[c]: activeAssistRuns of connection c
    home,           \* home[r]: the connection that started r, or NoConn
    proof           \* proof[c][l]: the proof loop about lost connection c

vars == <<latches, lease, laneOwner, lane, tree, closing, leases,
          conn, active, activeAssist, home, proof>>

connVars == <<conn, active, activeAssist, proof>>

Reasons == {"connection_lost", "child_unproven", "duplicate", "launch_unproven",
            "terminal_unproven", "sink_failed", "release_rejected",
            "gate_reported", "fatal_containment", "gate_loss"}
Latch == Reasons \X (Conns \cup {NoConn})
Lost(c) == <<"connection_lost", c>>
Unproven(c) == <<"child_unproven", c>>
Permanent(reason) == <<reason, NoConn>>

LaneOfKind(k) == IF k = "assist" THEN "assist" ELSE "agent"
ProofState == [pending : SUBSET Runs, blind : SUBSET Runs, left : 0..MaxAttempts]
NoProof == [pending |-> {}, blind |-> {}, left |-> 0]
Quarantined(l) == latches[l] # {}
\* Mutant: one latch per lane, a new reason replacing the one before.
TripReplaces(l, latch) == [latches EXCEPT ![l] = {latch}]

Trip(l, latch) == [latches EXCEPT ![l] = @ \cup {latch}]

TypeOK ==
    /\ latches \in [Lanes -> SUBSET Latch]
    /\ lease \in [Lanes -> Tenants \cup {Nobody}]
    /\ laneOwner \in [Lanes -> Runs \cup {Nobody}]
    /\ lane \in [Tenants -> Lanes]
    /\ tree \in [Tenants -> {"none", "live", "gone"}]
    /\ closing \subseteq Tenants
    /\ leases \subseteq Workers
    /\ conn \in [Conns -> {"closed", "open", "doomed"}]
    /\ active \in [Conns -> SUBSET Runs]
    /\ activeAssist \in [Conns -> SUBSET Runs]
    /\ home \in [Runs -> Conns \cup {NoConn}]
    /\ proof \in [Conns -> [Lanes -> ProofState]]

Init ==
    /\ latches = [l \in Lanes |-> {}]
    /\ lease = [l \in Lanes |-> Nobody]
    /\ laneOwner = [l \in Lanes |-> Nobody]
    /\ lane = [t \in Tenants |-> "agent"]
    /\ tree = [t \in Tenants |-> "none"]
    /\ closing = {}
    /\ leases = {}
    /\ conn = [c \in Conns |-> "closed"]
    /\ active = [c \in Conns |-> {}]
    /\ activeAssist = [c \in Conns |-> {}]
    /\ home = [r \in Runs |-> NoConn]
    /\ proof = [c \in Conns |-> [l \in Lanes |-> NoProof]]

-----------------------------------------------------------------------------
(* Chat connections                                                        *)

\* Bound: a connection's name is reused only once nothing refers to it.
Open(c) ==
    /\ conn[c] = "closed"
    /\ proof[c] = [l \in Lanes |-> NoProof]
    /\ \A r \in closing \cap Runs : home[r] # c
    /\ conn' = [conn EXCEPT ![c] = "open"]
    /\ UNCHANGED <<latches, lease, laneOwner, lane, tree, closing, leases,
                   active, activeAssist, home, proof>>

\* The runner already owns a run of this id.
Duplicate(r, l) == r \in closing \/ laneOwner[l] = r

\* Bound: a run id is reused only when its last child is gone and no proof
\* loop still asks about it.
Reusable(r) ==
    /\ tree[r] # "live"
    /\ \A c \in Conns, l \in Lanes : r \notin proof[c][l].pending

\* A frame of an open connection passes the server's quarantine check.
Admitted(c, r, k) ==
    /\ conn[c] = "open"
    /\ k \in KindsOf[r]
    /\ ~Quarantined(LaneOfKind(k))

\* A second frame for a run the runner holds: the lane is latched for good
\* and the socket is destroyed.  A "claude-assist" frame has by then entered
\* the id in activeAssistRuns, where it stays if it was active here.
DuplicateFrame(c, r, k) ==
    LET l == LaneOfKind(k) IN
    /\ Admitted(c, r, k)
    /\ Duplicate(r, l)
    /\ latches' = Trip(l, Permanent("duplicate"))
    /\ conn' = [conn EXCEPT ![c] = "doomed"]
    /\ activeAssist' = IF k = "assist" /\ r \in active[c]
                         THEN [activeAssist EXCEPT ![c] = @ \cup {r}]
                         ELSE activeAssist
    /\ UNCHANGED <<lease, laneOwner, lane, tree, closing, leases, active, home,
                   proof>>

\* The runner answers with an exit frame and starts nothing: the lane is taken,
\* the profile is refused, or the launch conclusively left no child.
RefusedFrame(c, r, k) ==
    /\ Admitted(c, r, k)
    /\ ~Duplicate(r, LaneOfKind(k))
    /\ active' = [active EXCEPT ![c] = @ \ {r}]
    /\ activeAssist' = [activeAssist EXCEPT ![c] = @ \ {r}]
    /\ UNCHANGED <<latches, lease, laneOwner, lane, tree, closing, leases, conn,
                   home, proof>>

\* Mutant: an active lease does not stop the next acquire.
TakeLaneAnyway(c, r, l, a) ==
    /\ ~Duplicate(r, l)
    /\ Reusable(r)
    /\ laneOwner[l] = Nobody
    /\ lease' = [lease EXCEPT ![l] = r]
    /\ laneOwner' = [laneOwner EXCEPT ![l] = r]
    /\ lane' = [lane EXCEPT ![r] = l]
    /\ tree' = [tree EXCEPT ![r] = a]
    /\ home' = [home EXCEPT ![r] = c]

\* The runner takes the lane for r; a is the state of r's tree when it returns.
TakeLane(c, r, l, a) ==
    /\ ~Duplicate(r, l)
    /\ Reusable(r)
    /\ laneOwner[l] = Nobody
    /\ lease[l] = Nobody
    /\ lease' = [lease EXCEPT ![l] = r]
    /\ laneOwner' = [laneOwner EXCEPT ![l] = r]
    /\ lane' = [lane EXCEPT ![r] = l]
    /\ tree' = [tree EXCEPT ![r] = a]
    /\ home' = [home EXCEPT ![r] = c]

\* The run starts: it is observed, recorded and its close event is awaited.
StartFrame(c, r, k) ==
    /\ Admitted(c, r, k)
    /\ TakeLane(c, r, LaneOfKind(k), "live")
    /\ closing' = closing \cup {r}
    /\ active' = [active EXCEPT ![c] = @ \cup {r}]
    /\ activeAssist' = IF k = "assist"
                         THEN [activeAssist EXCEPT ![c] = @ \cup {r}]
                         ELSE activeAssist
    /\ UNCHANGED <<latches, leases, conn, proof>>

\* The launch fails without showing that no child exists: the lane is latched,
\* lease and owner are kept, no exit frame is sent.  The runId stays active on
\* the connection, except that an "autonomous" frame takes it back.
UnprovenLaunchFrame(c, r, k) ==
    LET l == LaneOfKind(k) IN
    /\ Admitted(c, r, k)
    /\ \E a \in {"live", "gone"} : TakeLane(c, r, l, a)
    /\ latches' = Trip(l, Permanent("launch_unproven"))
    /\ active' = [active EXCEPT ![c] = IF k = "autonomous" THEN @ \ {r}
                                                          ELSE @ \cup {r}]
    /\ activeAssist' = IF k = "assist"
                         THEN [activeAssist EXCEPT ![c] = @ \cup {r}]
                         ELSE activeAssist
    /\ UNCHANGED <<closing, leases, conn, proof>>

\* The gate asks for quarantine, or for its once-per-boot restart fuse.
QuarantineFrame(c, reason) ==
    /\ conn[c] = "open"
    /\ reason = "fatal_containment" =>
           Permanent("fatal_containment") \notin latches["agent"]
    /\ latches' = Trip("agent", Permanent(reason))
    /\ UNCHANGED <<lease, laneOwner, lane, tree, closing, leases, conn, active,
                   activeAssist, home, proof>>

-----------------------------------------------------------------------------
(* Children end                                                            *)

\* A process tree ends: on its own, by a kill frame, a timeout or a teardown.
ChildExit(t) ==
    /\ tree[t] = "live"
    /\ tree' = [tree EXCEPT ![t] = "gone"]
    /\ UNCHANGED <<latches, lease, laneOwner, lane, closing, leases, connVars, home>>

\* Mutant: the close of the outer handle is taken for the end of the tree.
RunCloseTrusting(r, seen) ==
    LET l == lane[r] IN
    /\ r \in closing \cap Runs
    /\ closing' = closing \ {r}
    /\ laneOwner' = [laneOwner EXCEPT ![l] = IF @ = r THEN Nobody ELSE @]
    /\ lease' = [lease EXCEPT ![l] = Nobody]
    /\ UNCHANGED <<latches, lane, tree, leases, conn, active, activeAssist, home,
                   proof>>

\* Mutant: a proven exit forgets to release the lease.
RunCloseKeepsLease(r, seen) ==
    LET l == lane[r] IN
    /\ r \in closing \cap Runs
    /\ closing' = closing \ {r}
    /\ laneOwner' = [laneOwner EXCEPT ![l] = IF @ = r THEN Nobody ELSE @]
    /\ latches' = IF tree[r] = "gone" /\ seen THEN latches
                  ELSE Trip(l, Permanent("terminal_unproven"))
    /\ UNCHANGED <<lease, lane, tree, leases, conn, active, activeAssist, home,
                   proof>>

\* settle(): the outer handle of r closed.  The namespace may be provably gone
\* (seen), still alive, or /proc may not answer.  Only a proof frees the lane
\* and sends the exit frame, which drops r from its connection.
RunClose(r, seen) ==
    LET l == lane[r]
        held == lease[l] = r IN
    /\ r \in closing \cap Runs
    /\ seen => tree[r] = "gone"
    /\ closing' = closing \ {r}
    /\ laneOwner' = [laneOwner EXCEPT ![l] = IF @ = r THEN Nobody ELSE @]
    /\ latches' = IF ~seen THEN Trip(l, Permanent("terminal_unproven"))
                  ELSE IF ~held THEN Trip(l, Permanent("release_rejected"))
                  ELSE latches
    /\ lease' = IF seen /\ held THEN [lease EXCEPT ![l] = Nobody] ELSE lease
    /\ active' = [c \in Conns |-> IF seen /\ held /\ home[r] = c
                                    THEN active[c] \ {r} ELSE active[c]]
    /\ activeAssist' = [c \in Conns |-> IF seen /\ held /\ home[r] = c
                                          THEN activeAssist[c] \ {r}
                                          ELSE activeAssist[c]]
    /\ UNCHANGED <<lane, tree, leases, conn, home, proof>>

-----------------------------------------------------------------------------
(* A lost connection                                                       *)

\* The runs connection c answers for on lane l.
Doomed(c, l) == IF l = "assist" THEN active[c] \cap activeAssist[c]
                                ELSE active[c] \ activeAssist[c]

\* Mutants: the attempts are counted up; the named latch replaces nothing, or is
\* never set.
CountUp(c, held, todo, blind, left) ==
    IF todo = {} THEN [latches |-> held \ {Lost(c)}, proof |-> NoProof]
    ELSE [latches |-> held,
          proof |-> [pending |-> todo, blind |-> blind, left |-> left + 2]]

NeverResolved(c, held, todo, blind, left) ==
    IF todo = {} THEN [latches |-> held \ {Lost(c)}, proof |-> NoProof]
    ELSE IF left > 0
      THEN [latches |-> held,
            proof |-> [pending |-> todo, blind |-> blind, left |-> left]]
    ELSE [latches |-> held \cup {Unproven(c)}, proof |-> NoProof]

NeverNamed(c, held, todo, blind, left) ==
    IF todo = {} \/ left = 0
      THEN [latches |-> held \ {Lost(c)}, proof |-> NoProof]
      ELSE [latches |-> held,
            proof |-> [pending |-> todo, blind |-> blind, left |-> left]]

\* One proof attempt about connection c on lane l: the runs of todo were not
\* provably gone, those of blind never will be, and left attempts remain after
\* it.  held is the set of latches on the lane with Lost(c) among them.
AfterAttempt(c, held, todo, blind, left) ==
    IF todo = {} THEN [latches |-> held \ {Lost(c)}, proof |-> NoProof]
    ELSE IF left > 0
      THEN [latches |-> held,
            proof |-> [pending |-> todo, blind |-> blind, left |-> left]]
    ELSE [latches |-> (held \cup {Unproven(c)}) \ {Lost(c)}, proof |-> NoProof]

\* cleanup(): capture identities (only runs the runner still records have one),
\* latch every lane with a doomed run, kill (some trees, dead, end at once),
\* forget the runs and make the first proof attempt (seen: the proven ones).
ConnClose(c, dead, seen) ==
    LET outcome(l) == AfterAttempt(c, latches[l] \cup {Lost(c)},
                                   Doomed(c, l) \ seen,
                                   Doomed(c, l) \ closing, MaxAttempts - 1) IN
    /\ conn[c] # "closed"
    /\ dead \subseteq {r \in active[c] \cap closing : tree[r] = "live"}
    /\ tree' = [t \in Tenants |-> IF t \in dead THEN "gone" ELSE tree[t]]
    /\ seen \subseteq {r \in active[c] \cap closing : tree'[r] = "gone"}
    /\ latches' = [l \in Lanes |-> IF Doomed(c, l) = {} THEN latches[l]
                                     ELSE outcome(l).latches]
    /\ proof' = [proof EXCEPT ![c] =
           [l \in Lanes |-> IF Doomed(c, l) = {} THEN NoProof ELSE outcome(l).proof]]
    /\ conn' = [conn EXCEPT ![c] = "closed"]
    /\ active' = [active EXCEPT ![c] = {}]
    /\ activeAssist' = [activeAssist EXCEPT ![c] = {}]
    /\ UNCHANGED <<lease, laneOwner, lane, closing, leases, home>>

\* Mutant: a run that has been signalled counts as gone.
ProofRetryTrusting(c, l, seen) ==
    LET p == proof[c][l]
        outcome == AfterAttempt(c, latches[l], p.pending \ seen, p.blind,
                                p.left - 1) IN
    /\ p.left > 0
    /\ seen \subseteq p.pending
    /\ latches' = [latches EXCEPT ![l] = outcome.latches]
    /\ proof' = [proof EXCEPT ![c][l] = outcome.proof]
    /\ UNCHANGED <<lease, laneOwner, lane, tree, closing, leases, conn, active,
                   activeAssist, home>>

\* The timer of the proof loop fires again.
ProofRetry(c, l, seen) ==
    LET p == proof[c][l]
        outcome == AfterAttempt(c, latches[l], p.pending \ seen, p.blind,
                                p.left - 1) IN
    /\ p.left > 0
    /\ seen \subseteq {r \in p.pending \ p.blind : tree[r] = "gone"}
    /\ latches' = [latches EXCEPT ![l] = outcome.latches]
    /\ proof' = [proof EXCEPT ![c][l] = outcome.proof]
    /\ UNCHANGED <<lease, laneOwner, lane, tree, closing, leases, conn, active,
                   activeAssist, home>>

-----------------------------------------------------------------------------
(* Governed work and the supervisor                                        *)

\* The shared spawn takes the agent lane for worker w (a workerRef is used for
\* one launch).  A lane that is closed or taken, and a conclusive failure,
\* leave everything as it was.
TakeForWork(w, a) ==
    /\ tree[w] = "none"
    /\ ~Quarantined("agent")
    /\ lease["agent"] = Nobody
    /\ lease' = [lease EXCEPT !["agent"] = w]
    /\ lane' = [lane EXCEPT ![w] = "agent"]
    /\ tree' = [tree EXCEPT ![w] = a]
    /\ UNCHANGED <<laneOwner, connVars, home>>

WorkStart(w) ==
    /\ TakeForWork(w, "live")
    /\ closing' = closing \cup {w}
    /\ leases' = leases \cup {w}
    /\ UNCHANGED latches

WorkStartUnproven(w) ==
    /\ \E a \in {"live", "gone"} : TakeForWork(w, a)
    /\ latches' = Trip("agent", Permanent("launch_unproven"))
    /\ UNCHANGED <<closing, leases>>

\* Mutants: an unproven end returns before it latches; the lease is released
\* before the proof is asked for.
WorkCloseSilent(w, seen, sinkFails) ==
    /\ w \in closing \cap leases
    /\ seen => tree[w] = "gone"
    /\ closing' = closing \ {w}
    /\ lease' = IF seen THEN [lease EXCEPT !["agent"] = Nobody] ELSE lease
    /\ leases' = IF seen THEN leases \ {w} ELSE leases
    /\ UNCHANGED <<latches, laneOwner, lane, tree, connVars, home>>

WorkCloseReleasesFirst(w, seen, sinkFails) ==
    /\ w \in closing \cap leases
    /\ seen => tree[w] = "gone"
    /\ closing' = closing \ {w}
    /\ latches' = IF ~seen THEN Trip("agent", Permanent("terminal_unproven"))
                  ELSE latches
    /\ lease' = [lease EXCEPT !["agent"] = Nobody]
    /\ leases' = leases \ {w}
    /\ UNCHANGED <<laneOwner, lane, tree, connVars, home>>

\* completeAfterOuterClose(): the worker's outer handle closed.
WorkClose(w, seen, sinkFails) ==
    LET held == lease["agent"] = w
        released == seen /\ ~sinkFails /\ held IN
    /\ w \in closing \cap leases
    /\ seen => tree[w] = "gone"
    /\ closing' = closing \ {w}
    /\ latches' = IF ~seen THEN Trip("agent", Permanent("terminal_unproven"))
                  ELSE IF sinkFails THEN Trip("agent", Permanent("sink_failed"))
                  ELSE IF ~held THEN Trip("agent", Permanent("release_rejected"))
                  ELSE latches
    /\ lease' = IF released THEN [lease EXCEPT !["agent"] = Nobody] ELSE lease
    /\ leases' = IF released THEN leases \ {w} ELSE leases
    /\ UNCHANGED <<laneOwner, lane, tree, connVars, home>>

\* reconcileGateLoss(): the authority connection or the gate process is lost.
GateLoss ==
    /\ latches' = Trip("agent", Permanent("gate_loss"))
    /\ UNCHANGED <<lease, laneOwner, lane, tree, closing, leases, connVars, home>>

-----------------------------------------------------------------------------
Frame(c, r, k) ==
    \/ DuplicateFrame(c, r, k)
    \/ RefusedFrame(c, r, k)
    \/ StartFrame(c, r, k)
    \/ UnprovenLaunchFrame(c, r, k)

Next ==
    \/ \E c \in Conns : Open(c)
    \/ \E c \in Conns, r \in Runs, k \in Kinds : Frame(c, r, k)
    \/ \E c \in Conns, reason \in {"gate_reported", "fatal_containment"} :
           QuarantineFrame(c, reason)
    \/ \E t \in Tenants : ChildExit(t)
    \/ \E r \in Runs, seen \in BOOLEAN : RunClose(r, seen)
    \/ \E c \in Conns : \E dead \in SUBSET active[c] :
           \E seen \in SUBSET active[c] : ConnClose(c, dead, seen)
    \/ \E c \in Conns, l \in Lanes : \E seen \in SUBSET proof[c][l].pending :
           ProofRetry(c, l, seen)
    \/ \E w \in Workers : WorkStart(w) \/ WorkStartUnproven(w)
    \/ \E w \in Workers, seen \in BOOLEAN, sinkFails \in BOOLEAN :
           WorkClose(w, seen, sinkFails)
    \/ GateLoss

Spec == Init /\ [][Next]_vars

\* Timers of the proof loop keep firing; the close event of a child whose tree
\* is gone is delivered.  Nothing forces a child to end or a frame to arrive.
Fairness ==
    /\ \A c \in Conns, l \in Lanes :
           WF_vars(\E seen \in SUBSET proof[c][l].pending : ProofRetry(c, l, seen))
    /\ \A r \in Runs : WF_vars(tree[r] = "gone" /\ \E seen \in BOOLEAN : RunClose(r, seen))
    /\ \A w \in Workers : WF_vars(tree[w] = "gone" /\
           \E seen, sinkFails \in BOOLEAN : WorkClose(w, seen, sinkFails))

FairSpec == Spec /\ Fairness
-----------------------------------------------------------------------------
(* Properties                                                              *)

\* A live process tree holds the lease of its lane, so a lane never has two:
\* not after a launch that went wrong, a lost connection or an unproven exit
\* (acquire/release across run, settle, the shared spawn and its close).
LaneHeldWhileLive == \A t \in Tenants : tree[t] = "live" => lease[lane[t]] = t

\* A child whose close event is still to come holds its lane, so the release
\* at the end of settle() and releaseAfterTerminal() is never rejected.
ReleaseNeverRejected ==
    /\ \A t \in closing : lease[lane[t]] = t
    /\ \A l \in Lanes : Permanent("release_rejected") \notin latches[l]

\* A lane that is taken and not latched has a close event to come that will
\* free it: no path loses a lease without saying why the lane is closed.
NoSilentLeak ==
    \A l \in Lanes : lease[l] # Nobody /\ ~Quarantined(l) => lease[l] \in closing

\* A run still alive after the connection that started it is gone keeps its
\* lane latched (the latch goes on before a signal is sent and comes off only
\* on proof, or is replaced by one that names the run).
OrphanQuarantined ==
    \A r \in Runs : tree[r] = "live" /\ home[r] # NoConn /\ conn[home[r]] = "closed"
                       => Quarantined(lane[r])

\* A lane reopens only when no process tree lives on it.
ReopensEmpty ==
    [][\A l \in Lanes : latches[l] # {} /\ latches'[l] = {}
           => \A t \in Tenants : lane[t] = l => tree'[t] # "live"]_vars

\* A proof about one connection clears that connection's latch and no other:
\* of two reasons to be closed, losing one never loses the other.
LatchesSurvive ==
    [][\A l \in Lanes : \A p \in latches[l] \ latches'[l] :
           \E c \in Conns : /\ p = Lost(c)
                           /\ latches[l] \ latches'[l] = {p}
                           /\ proof[c][l] # NoProof /\ proof'[c][l] = NoProof]_vars

\* The latch of a lost connection is always resolved: cleared on proof or
\* replaced by the permanent one that names the runs.
LostResolves ==
    \A c \in Conns, l \in Lanes : Lost(c) \in latches[l] ~> Lost(c) \notin latches[l]

\* Once the owner's tree is gone its lane is freed, or says why it is not.
ExitFreesLane ==
    \A l \in Lanes, t \in Tenants :
        (lease[l] = t /\ lane[t] = l /\ tree[t] = "gone")
            ~> (lease[l] # t \/ Quarantined(l))

\* Running[l]: the tenants with a live process tree on lane l.
Running == [l \in Lanes |-> {t \in Tenants : tree[t] = "live" /\ lane[t] = l}]

\* The lanes keep the promise of ExclusiveLane.
Promise == INSTANCE ExclusiveLane WITH
    Lane <- Lanes, Tenant <- Tenants, Nobody <- Nobody,
    owner <- lease, running <- Running

\* Every step of the lanes is a step the promise allows, or none.
KeepsPromise == Promise!Spec
=============================================================================
