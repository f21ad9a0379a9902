-------------------------- MODULE AgentLane_proofs --------------------------
(***************************************************************************)
(* What AgentLane guarantees for every set of runs, workers and            *)
(* connections, for every gate (KindsOf) and for every MaxAttempts.        *)
(***************************************************************************)
EXTENDS AgentLane, Integers, TLAPS

USE RunsAssumption, ConnAssumption, KindsAssumption, AttemptsAssumption
    DEF Tenants, Lanes, Kinds

\* A lane latched for a reason no proof can clear.
Final(l) == \E reason \in Reasons : Permanent(reason) \in latches[l]

\* The inductive form of NoSilentLeak: clearing the latch of a connection must
\* not uncover a lost lease, so only the final latches count, and a lease held
\* without one belongs to the lane its holder last launched on.
Accounted ==
    \A l \in Lanes : lease[l] # Nobody /\ ~Final(l)
                         => lease[l] \in closing /\ lane[lease[l]] = l

\* A child whose tree lives or whose close event is to come holds its lane.
Holds == \A t \in Tenants : tree[t] = "live" \/ t \in closing => lease[lane[t]] = t

NoRejection == \A l \in Lanes : Permanent("release_rejected") \notin latches[l]

\* Governed work only ever runs on the agent lane.
WorkOnAgent == \A w \in Workers : lane[w] = "agent"

IInv == TypeOK /\ WorkOnAgent /\ Holds /\ NoRejection /\ Accounted

-----------------------------------------------------------------------------
\* The outcome of a proof attempt is a set of latches and a proof record.
LEMMA AttemptType ==
    ASSUME NEW c \in Conns, NEW held \in SUBSET Latch,
           NEW todo \in SUBSET Runs, NEW blind \in SUBSET Runs,
           NEW left \in Int, left <= MaxAttempts
    PROVE  /\ AfterAttempt(c, held, todo, blind, left).latches \in SUBSET Latch
           /\ AfterAttempt(c, held, todo, blind, left).proof \in ProofState
  BY DEF AfterAttempt, NoProof, ProofState, Lost, Unproven, Latch, Reasons

\* The latch of a lost connection, and every final one, is a latch.
LEMMA LatchType ==
    /\ \A c \in Conns : Lost(c) \in Latch
    /\ \A reason \in Reasons : Permanent(reason) \in Latch
    /\ NoProof \in ProofState
  BY DEF Lost, Permanent, Latch, Reasons, NoProof, ProofState

\* A proof attempt about a connection touches no final latch: it removes none
\* and adds none.
LEMMA AttemptKeepsFinal ==
    ASSUME NEW c \in Conns, NEW held, NEW todo, NEW blind, NEW left,
           NEW reason \in Reasons
    PROVE  Permanent(reason) \in AfterAttempt(c, held, todo, blind, left).latches
             <=> Permanent(reason) \in held
  BY DEF AfterAttempt, Permanent, Lost, Unproven

-----------------------------------------------------------------------------
\* Every variable keeps its type: TypeOK is inductive by itself.
LEMMA TypeStep == TypeOK /\ [Next]_vars => TypeOK'
<1> SUFFICES ASSUME TypeOK, [Next]_vars PROVE TypeOK'
  OBVIOUS
<1>0. {"duplicate", "launch_unproven", "terminal_unproven", "sink_failed",
       "release_rejected", "gate_reported", "fatal_containment", "gate_loss"}
         \subseteq Reasons
  BY DEF Reasons
<1> USE <1>0, LatchType DEF TypeOK, Trip
<1>1. ASSUME NEW c \in Conns, Open(c) PROVE TypeOK'
  BY <1>1 DEF Open
<1>2. ASSUME NEW c \in Conns, NEW r \in Runs, NEW k \in Kinds, Frame(c, r, k)
      PROVE  TypeOK'
  <2>1. CASE DuplicateFrame(c, r, k)
    BY <2>1 DEF DuplicateFrame, LaneOfKind
  <2>2. CASE RefusedFrame(c, r, k)
    BY <2>2 DEF RefusedFrame
  <2>3. CASE StartFrame(c, r, k)
    BY <2>3 DEF StartFrame, TakeLane, LaneOfKind
  <2>4. CASE UnprovenLaunchFrame(c, r, k)
    BY <2>4 DEF UnprovenLaunchFrame, TakeLane, LaneOfKind
  <2> QED
    BY <1>2, <2>1, <2>2, <2>3, <2>4 DEF Frame
<1>3. ASSUME NEW c \in Conns, NEW reason \in {"gate_reported", "fatal_containment"},
             QuarantineFrame(c, reason)
      PROVE  TypeOK'
  BY <1>3 DEF QuarantineFrame
<1>4. ASSUME NEW t \in Tenants, ChildExit(t) PROVE TypeOK'
  BY <1>4 DEF ChildExit, connVars
<1>5. ASSUME NEW r \in Runs, NEW seen \in BOOLEAN, RunClose(r, seen) PROVE TypeOK'
  BY <1>5 DEF RunClose
<1>6. ASSUME NEW c \in Conns, NEW dead \in SUBSET active[c],
             NEW seen \in SUBSET active[c], ConnClose(c, dead, seen)
      PROVE  TypeOK'
  <2> DEFINE outcome(l) == AfterAttempt(c, latches[l] \cup {Lost(c)},
                                        Doomed(c, l) \ seen,
                                        Doomed(c, l) \ closing, MaxAttempts - 1)
  <2>1. ASSUME NEW l \in Lanes
        PROVE  outcome(l).latches \in SUBSET Latch /\ outcome(l).proof \in ProofState
    <3>1. latches[l] \cup {Lost(c)} \in SUBSET Latch
      OBVIOUS
    <3>2. Doomed(c, l) \ seen \in SUBSET Runs /\ Doomed(c, l) \ closing \in SUBSET Runs
      BY DEF Doomed
    <3>3. MaxAttempts - 1 \in Int /\ MaxAttempts - 1 <= MaxAttempts
      OBVIOUS
    <3> HIDE DEF TypeOK
    <3> QED
      BY <3>1, <3>2, <3>3, AttemptType
  <2>2. latches' = [l \in Lanes |-> IF Doomed(c, l) = {} THEN latches[l]
                                      ELSE outcome(l).latches]
        /\ proof' = [proof EXCEPT ![c] =
             [l \in Lanes |-> IF Doomed(c, l) = {} THEN NoProof ELSE outcome(l).proof]]
    BY <1>6 DEF ConnClose
  <2> HIDE DEF outcome
  <2>3. latches' \in [Lanes -> SUBSET Latch]
    BY <2>1, <2>2
  <2>4. proof' \in [Conns -> [Lanes -> ProofState]]
    <3>1. [l \in Lanes |-> IF Doomed(c, l) = {} THEN NoProof ELSE outcome(l).proof]
            \in [Lanes -> ProofState]
      BY <2>1
    <3> QED
      BY <2>2, <3>1
  <2> QED
    BY <1>6, <2>3, <2>4 DEF ConnClose
<1>7. ASSUME NEW c \in Conns, NEW l \in Lanes,
             NEW seen \in SUBSET proof[c][l].pending, ProofRetry(c, l, seen)
      PROVE  TypeOK'
  <2> DEFINE p == proof[c][l]
             outcome == AfterAttempt(c, latches[l], p.pending \ seen, p.blind,
                                     p.left - 1)
  <2>1. outcome.latches \in SUBSET Latch /\ outcome.proof \in ProofState
    <3>1. p.pending \ seen \in SUBSET Runs /\ p.blind \in SUBSET Runs
          /\ p.left - 1 \in Int /\ p.left - 1 <= MaxAttempts
      BY DEF ProofState
    <3>2. latches[l] \in SUBSET Latch
      OBVIOUS
    <3> HIDE DEF TypeOK
    <3> QED
      BY <3>1, <3>2, AttemptType
  <2>2. latches' = [latches EXCEPT ![l] = outcome.latches]
        /\ proof' = [proof EXCEPT ![c] = [proof[c] EXCEPT ![l] = outcome.proof]]
    BY <1>7 DEF ProofRetry
  <2> HIDE DEF outcome
  <2>3. latches' \in [Lanes -> SUBSET Latch]
    BY <2>1, <2>2
  <2>4. proof' \in [Conns -> [Lanes -> ProofState]]
    BY <2>1, <2>2
  <2> QED
    BY <1>7, <2>3, <2>4 DEF ProofRetry
<1>8. ASSUME NEW w \in Workers, WorkStart(w) \/ WorkStartUnproven(w) PROVE TypeOK'
  <2>1. CASE WorkStart(w)
    BY <2>1 DEF WorkStart, TakeForWork, connVars
  <2>2. CASE WorkStartUnproven(w)
    BY <2>2 DEF WorkStartUnproven, TakeForWork, connVars
  <2> QED
    BY <1>8, <2>1, <2>2
<1>9. ASSUME NEW w \in Workers, NEW seen \in BOOLEAN, NEW sinkFails \in BOOLEAN,
             WorkClose(w, seen, sinkFails)
      PROVE  TypeOK'
  BY <1>9 DEF WorkClose, connVars
<1>10. CASE GateLoss
  BY <1>10 DEF GateLoss, connVars
<1>11. CASE UNCHANGED vars
  BY <1>11 DEF vars
<1> HIDE DEF TypeOK
<1> QED
  BY <1>1, <1>2, <1>3, <1>4, <1>5, <1>6, <1>7, <1>8, <1>9, <1>10, <1>11 DEF Next

\* Type correctness of the lanes, for every value of the constants.
THEOREM Typed == Spec => []TypeOK
<1>1. Init => TypeOK
  BY LatchType DEF Init, TypeOK
<1> QED
  BY <1>1, TypeStep, PTL DEF Spec

-----------------------------------------------------------------------------
\* Losing a connection and proving its children gone leave the final latches of
\* every lane as they are.
LEMMA ProofLoopKeepsFinal ==
    ASSUME TypeOK, NEW c \in Conns,
           \/ \E dead, seen \in SUBSET active[c] : ConnClose(c, dead, seen)
           \/ \E l \in Lanes : \E seen \in SUBSET proof[c][l].pending :
                  ProofRetry(c, l, seen)
    PROVE  \A l \in Lanes, reason \in Reasons :
               Permanent(reason) \in latches'[l] <=> Permanent(reason) \in latches[l]
<1> TAKE l \in Lanes, reason \in Reasons
<1>0. Permanent(reason) # Lost(c)
  BY DEF Permanent, Lost
<1>1. ASSUME NEW dead \in SUBSET active[c], NEW seen \in SUBSET active[c],
             ConnClose(c, dead, seen)
      PROVE  Permanent(reason) \in latches'[l] <=> Permanent(reason) \in latches[l]
  <2> DEFINE held == latches[l] \cup {Lost(c)}
             after == AfterAttempt(c, held, Doomed(c, l) \ seen,
                                   Doomed(c, l) \ closing, MaxAttempts - 1)
  <2>1. latches'[l] = IF Doomed(c, l) = {} THEN latches[l] ELSE after.latches
    BY <1>1 DEF ConnClose
  <2>2. Permanent(reason) \in after.latches <=> Permanent(reason) \in held
    BY AttemptKeepsFinal
  <2> QED
    BY <1>0, <2>1, <2>2
<1>2. ASSUME NEW m \in Lanes, NEW seen \in SUBSET proof[c][m].pending,
             ProofRetry(c, m, seen)
      PROVE  Permanent(reason) \in latches'[l] <=> Permanent(reason) \in latches[l]
  <2> DEFINE after == AfterAttempt(c, latches[m], proof[c][m].pending \ seen,
                                   proof[c][m].blind, proof[c][m].left - 1)
  <2>1. latches' = [latches EXCEPT ![m] = after.latches]
    BY <1>2 DEF ProofRetry
  <2>2. Permanent(reason) \in after.latches <=> Permanent(reason) \in latches[m]
    BY AttemptKeepsFinal
  <2> HIDE DEF after
  <2> QED
    BY <2>1, <2>2 DEF TypeOK
<1> QED
  BY <1>1, <1>2

\* Only a run's launch can choose a lane; a worker's is the agent lane.
LEMMA WorkOnAgentStep == TypeOK /\ WorkOnAgent /\ [Next]_vars => WorkOnAgent'
<1> SUFFICES ASSUME TypeOK, WorkOnAgent, [Next]_vars PROVE WorkOnAgent'
  OBVIOUS
<1>1. ASSUME NEW c \in Conns, NEW r \in Runs, NEW k \in Kinds, Frame(c, r, k)
      PROVE  WorkOnAgent'
  <2>1. UNCHANGED lane \/ lane' = [lane EXCEPT ![r] = LaneOfKind(k)]
    BY <1>1 DEF Frame, DuplicateFrame, RefusedFrame, StartFrame,
                UnprovenLaunchFrame, TakeLane
  <2>2. r \notin Workers
    OBVIOUS
  <2> QED
    BY <2>1, <2>2 DEF WorkOnAgent, TypeOK
<1>2. ASSUME NEW w \in Workers, WorkStart(w) \/ WorkStartUnproven(w)
      PROVE  WorkOnAgent'
  BY <1>2 DEF WorkStart, WorkStartUnproven, TakeForWork, WorkOnAgent, TypeOK
<1>3. CASE UNCHANGED lane
  BY <1>3 DEF WorkOnAgent
<1>4. \/ \E c \in Conns, r \in Runs, k \in Kinds : Frame(c, r, k)
      \/ \E w \in Workers : WorkStart(w) \/ WorkStartUnproven(w)
      \/ UNCHANGED lane
  BY DEF Next, vars, Open, QuarantineFrame, ChildExit, RunClose, ConnClose,
         ProofRetry, WorkClose, GateLoss
<1> QED
  BY <1>1, <1>2, <1>3, <1>4

\* The lane stays accounted for across every step.
LEMMA InvStep == IInv /\ [Next]_vars => IInv'
<1> SUFFICES ASSUME IInv, [Next]_vars PROVE IInv'
  OBVIOUS
<1>0. TypeOK' /\ WorkOnAgent'
  BY TypeStep, WorkOnAgentStep DEF IInv
<1> USE DEF IInv, Holds, NoRejection, Accounted, Final
<1>a. \A m, n \in Reasons : m # n => Permanent(m) # Permanent(n)
  BY DEF Permanent
<1>b. {"duplicate", "launch_unproven", "terminal_unproven", "sink_failed",
       "release_rejected", "gate_reported", "fatal_containment", "gate_loss"}
         \subseteq Reasons
  BY DEF Reasons
\* A step that adds final latches other than release_rejected, or none, and
\* leaves leases, launches and close events alone preserves all three parts.
<1>c. ASSUME UNCHANGED <<lease, lane, closing>>,
             \A t \in Tenants : tree'[t] = "live" => tree[t] = "live",
             \A l \in Lanes, reason \in Reasons :
                 Permanent(reason) \in latches[l] => Permanent(reason) \in latches'[l],
             \A l \in Lanes : Permanent("release_rejected") \in latches'[l]
                 => Permanent("release_rejected") \in latches[l]
      PROVE  IInv'
  BY <1>0, <1>c
<1>1. ASSUME NEW c \in Conns, Open(c) PROVE IInv'
  BY <1>1, <1>c DEF Open
<1>2. ASSUME NEW c \in Conns, NEW r \in Runs, NEW k \in Kinds, Frame(c, r, k)
      PROVE  IInv'
  <2> DEFINE l == LaneOfKind(k)
  <2>0. l \in Lanes
    BY DEF LaneOfKind
  <2> HIDE DEF l
  <2>1. CASE DuplicateFrame(c, r, k)
    <3>1. latches' = Trip(l, Permanent("duplicate"))
      BY <2>1 DEF DuplicateFrame, l
    <3>2. UNCHANGED <<lease, lane, closing, tree>>
      BY <2>1 DEF DuplicateFrame
    <3> QED
      BY <3>1, <3>2, <2>0, <1>a, <1>b, <1>c DEF Trip, TypeOK
  <2>2. CASE RefusedFrame(c, r, k)
    BY <2>2, <1>c DEF RefusedFrame
  <2>3. ASSUME NEW a \in {"live", "gone"}, TakeLane(c, r, l, a)
        PROVE  /\ \A t \in Tenants \ {r} : tree'[t] = "live" \/ t \in closing
                                              => lease'[lane'[t]] = t
               /\ lease'[l] = r /\ lane'[r] = l
               /\ \A m \in Lanes \ {l} : lease'[m] = lease[m]
               /\ \A t \in Tenants \ {r} : lane'[t] = lane[t]
               /\ r \notin closing
    BY <2>3, <2>0 DEF TakeLane, TypeOK, Duplicate
  <2>4. CASE StartFrame(c, r, k)
    <3>1. /\ TakeLane(c, r, l, "live")
          /\ closing' = closing \cup {r}
          /\ UNCHANGED latches
      BY <2>4 DEF StartFrame, l
    <3>2. Holds'
      BY <3>1, <2>3
    <3>3. Accounted'
      <4> SUFFICES ASSUME NEW m \in Lanes, lease'[m] # Nobody, ~Final(m)'
                   PROVE  lease'[m] \in closing' /\ lane'[lease'[m]] = m
        OBVIOUS
      <4>1. CASE m = l
        BY <4>1, <3>1, <2>3
      <4>2. CASE m # l
        <5>1. lease'[m] = lease[m] /\ lease[m] \in closing /\ lane[lease[m]] = m
          BY <4>2, <3>1, <2>3
        <5> QED
          BY <5>1, <3>1, <2>3 DEF TypeOK
      <4> QED
        BY <4>1, <4>2
    <3> QED
      BY <1>0, <3>1, <3>2, <3>3
  <2>5. CASE UnprovenLaunchFrame(c, r, k)
    <3>1. PICK a \in {"live", "gone"} : TakeLane(c, r, l, a)
      BY <2>5 DEF UnprovenLaunchFrame, l
    <3>2. latches' = Trip(l, Permanent("launch_unproven")) /\ UNCHANGED closing
      BY <2>5 DEF UnprovenLaunchFrame, l
    <3>3. Holds'
      BY <3>1, <3>2, <2>3
    <3>4. NoRejection'
      BY <3>2, <2>0, <1>a, <1>b DEF Trip, TypeOK
    <3>5. Final(l)' /\ \A m \in Lanes \ {l} : Final(m)' <=> Final(m)
      BY <3>2, <2>0, <1>b DEF Trip, TypeOK
    <3>6. Accounted'
      <4> SUFFICES ASSUME NEW m \in Lanes, lease'[m] # Nobody, ~Final(m)'
                   PROVE  lease'[m] \in closing' /\ lane'[lease'[m]] = m
        OBVIOUS
      <4>1. m # l /\ ~Final(m)
        BY <3>5
      <4>2. lease'[m] = lease[m] /\ lease[m] \in closing /\ lane[lease[m]] = m
        BY <4>1, <3>1, <2>3
      <4> QED
        BY <4>2, <3>1, <3>2, <2>3 DEF TypeOK
    <3> QED
      BY <1>0, <3>3, <3>4, <3>6
  <2> QED
    BY <1>2, <2>1, <2>2, <2>4, <2>5 DEF Frame
<1>3. ASSUME NEW c \in Conns, NEW reason \in {"gate_reported", "fatal_containment"},
             QuarantineFrame(c, reason)
      PROVE  IInv'
  <2>1. /\ latches' = Trip("agent", Permanent(reason))
        /\ UNCHANGED <<lease, lane, closing, tree>>
    BY <1>3 DEF QuarantineFrame
  <2> QED
    BY <2>1, <1>a, <1>b, <1>c DEF Trip, TypeOK
<1>4. ASSUME NEW t \in Tenants, ChildExit(t) PROVE IInv'
  BY <1>4, <1>c DEF ChildExit, TypeOK
<1>5. ASSUME NEW r \in Runs, NEW seen \in BOOLEAN, RunClose(r, seen) PROVE IInv'
  <2>0. PICK l \in Lanes : l = lane[r] /\ lease[l] = r /\ r \in closing /\ r # Nobody
    BY <1>5 DEF RunClose, TypeOK
  <2>1. closing' = closing \ {r} /\ UNCHANGED <<lane, tree>>
    BY <1>5 DEF RunClose
  <2>2. CASE seen
    <3>1. /\ tree[r] = "gone"
          /\ lease' = [lease EXCEPT ![l] = Nobody]
          /\ UNCHANGED latches
      BY <1>5, <2>0, <2>2 DEF RunClose
    <3>2. Holds'
      BY <2>0, <2>1, <3>1 DEF TypeOK
    <3>3. Accounted'
      BY <2>0, <2>1, <3>1 DEF TypeOK
    <3> QED
      BY <1>0, <3>1, <3>2, <3>3
  <2>3. CASE ~seen
    <3>1. latches' = Trip(l, Permanent("terminal_unproven")) /\ UNCHANGED lease
      BY <1>5, <2>0, <2>3 DEF RunClose
    <3>2. Holds'
      BY <2>1, <3>1
    <3>3. NoRejection'
      BY <3>1, <2>0, <1>a, <1>b DEF Trip, TypeOK
    <3>4. Final(l)'
      BY <3>1, <2>0, <1>b DEF Trip, TypeOK
    <3>5. \A m \in Lanes \ {l} : latches'[m] = latches[m]
      BY <3>1, <2>0 DEF Trip, TypeOK
    <3>6. Accounted'
      <4> SUFFICES ASSUME NEW m \in Lanes, lease[m] # Nobody, ~Final(m)'
                   PROVE  lease[m] \in closing \ {r} /\ lane[lease[m]] = m
        BY <2>1, <3>1
      <4>1. m # l /\ ~Final(m)
        BY <3>4, <3>5
      <4>2. lease[m] \in closing /\ lane[lease[m]] = m
        BY <4>1
      <4> QED
        BY <2>0, <4>1, <4>2
    <3> QED
      BY <1>0, <3>2, <3>3, <3>6
  <2> QED
    BY <2>2, <2>3
<1>6. ASSUME NEW c \in Conns, NEW dead \in SUBSET active[c],
             NEW seen \in SUBSET active[c], ConnClose(c, dead, seen)
      PROVE  IInv'
  <2>1. UNCHANGED <<lease, lane, closing>>
        /\ \A t \in Tenants : tree'[t] = "live" => tree[t] = "live"
    BY <1>6 DEF ConnClose, TypeOK
  <2> QED
    BY <2>1, <1>6, <1>b, <1>c, ProofLoopKeepsFinal
<1>7. ASSUME NEW c \in Conns, NEW l \in Lanes,
             NEW seen \in SUBSET proof[c][l].pending, ProofRetry(c, l, seen)
      PROVE  IInv'
  <2>1. UNCHANGED <<lease, lane, closing, tree>>
    BY <1>7 DEF ProofRetry
  <2> QED
    BY <2>1, <1>7, <1>b, <1>c, ProofLoopKeepsFinal
<1>8. ASSUME NEW w \in Workers, WorkStart(w) \/ WorkStartUnproven(w) PROVE IInv'
  <2>0. w \in Tenants /\ w # Nobody
    OBVIOUS
  <2>1. ASSUME NEW a \in {"live", "gone"}, TakeForWork(w, a)
        PROVE  /\ \A t \in Tenants \ {w} : tree'[t] = "live" \/ t \in closing
                                              => lease'[lane'[t]] = t
               /\ lease'["agent"] = w /\ lane'[w] = "agent"
               /\ lease'["assist"] = lease["assist"]
               /\ \A t \in Tenants \ {w} : lane'[t] = lane[t]
               /\ ~Final("agent")
    BY <2>1, <2>0 DEF TakeForWork, TypeOK, Quarantined
  <2>2. CASE WorkStart(w)
    <3>1. /\ TakeForWork(w, "live")
          /\ closing' = closing \cup {w}
          /\ UNCHANGED latches
      BY <2>2 DEF WorkStart
    <3>2. Holds'
      BY <3>1, <2>1
    <3>3. Accounted'
      <4> SUFFICES ASSUME NEW m \in Lanes, lease'[m] # Nobody, ~Final(m)'
                   PROVE  lease'[m] \in closing' /\ lane'[lease'[m]] = m
        OBVIOUS
      <4>1. CASE m = "agent"
        BY <4>1, <3>1, <2>1
      <4>2. CASE m = "assist"
        <5>1. lease'[m] = lease[m] /\ lease[m] \in closing /\ lane[lease[m]] = m
          BY <4>2, <3>1, <2>1
        <5>2. lease[m] \in Tenants \ {w}
          BY <5>1, <4>2 DEF TypeOK, WorkOnAgent
        <5> QED
          BY <5>1, <5>2, <4>2, <3>1, <2>1
      <4> QED
        BY <4>1, <4>2
    <3> QED
      BY <1>0, <3>1, <3>2, <3>3
  <2>3. CASE WorkStartUnproven(w)
    <3>1. PICK a \in {"live", "gone"} : TakeForWork(w, a)
      BY <2>3 DEF WorkStartUnproven
    <3>2. /\ latches' = Trip("agent", Permanent("launch_unproven"))
          /\ UNCHANGED closing
      BY <2>3 DEF WorkStartUnproven
    <3>3. w \notin closing
      BY <3>1, <2>0 DEF TakeForWork, TypeOK, WorkOnAgent
    <3>4. Holds'
      BY <3>1, <3>2, <3>3, <2>1
    <3>5. NoRejection'
      BY <3>2, <1>a, <1>b DEF Trip, TypeOK
    <3>6. Final("agent")' /\ (Final("assist")' <=> Final("assist"))
      BY <3>2, <1>b DEF Trip, TypeOK
    <3>7. Accounted'
      BY <3>1, <3>2, <3>3, <3>6, <2>1 DEF TypeOK
    <3> QED
      BY <1>0, <3>4, <3>5, <3>7
  <2> QED
    BY <1>8, <2>2, <2>3
<1>9. ASSUME NEW w \in Workers, NEW seen \in BOOLEAN, NEW sinkFails \in BOOLEAN,
             WorkClose(w, seen, sinkFails)
      PROVE  IInv'
  <2>0. /\ w \in Tenants /\ w # Nobody /\ lane[w] = "agent"
        /\ w \in closing /\ lease["agent"] = w
    BY <1>9 DEF WorkClose, WorkOnAgent
  <2>1. closing' = closing \ {w} /\ UNCHANGED <<lane, tree>>
    BY <1>9 DEF WorkClose
  <2>2. CASE seen /\ ~sinkFails
    <3>1. /\ tree[w] = "gone"
          /\ lease' = [lease EXCEPT !["agent"] = Nobody]
          /\ UNCHANGED latches
      BY <1>9, <2>0, <2>2 DEF WorkClose
    <3>2. Holds'
      BY <2>0, <2>1, <3>1 DEF TypeOK
    <3>3. Accounted'
      BY <2>0, <2>1, <3>1 DEF TypeOK
    <3> QED
      BY <1>0, <3>1, <3>2, <3>3
  <2>3. CASE ~seen \/ sinkFails
    <3>1. PICK reason \in {"terminal_unproven", "sink_failed"} :
              latches' = Trip("agent", Permanent(reason))
      BY <1>9, <2>3 DEF WorkClose
    <3>2. UNCHANGED lease
      BY <1>9, <2>3 DEF WorkClose
    <3>3. Holds'
      BY <2>1, <3>2
    <3>4. NoRejection'
      BY <3>1, <1>a, <1>b DEF Trip, TypeOK
    <3>5. Final("agent")' /\ latches'["assist"] = latches["assist"]
      BY <3>1, <1>b DEF Trip, TypeOK
    <3>6. Accounted'
      BY <2>0, <2>1, <3>2, <3>5
    <3> QED
      BY <1>0, <3>3, <3>4, <3>6
  <2> QED
    BY <2>2, <2>3
<1>10. CASE GateLoss
  <2>1. /\ latches' = Trip("agent", Permanent("gate_loss"))
        /\ UNCHANGED <<lease, lane, closing, tree>>
    BY <1>10 DEF GateLoss
  <2> QED
    BY <2>1, <1>a, <1>b, <1>c DEF Trip, TypeOK
<1>11. CASE UNCHANGED vars
  BY <1>11, <1>c DEF vars
<1> QED
  BY <1>1, <1>2, <1>3, <1>4, <1>5, <1>6, <1>7, <1>8, <1>9, <1>10, <1>11 DEF Next

\* The initial state, and so every state, satisfies the inductive invariant.
THEOREM Invariance == Spec => []IInv
<1>1. Init => IInv
  <2> SUFFICES ASSUME Init PROVE IInv
    OBVIOUS
  <2>1. TypeOK
    BY LatchType DEF Init, TypeOK
  <2>2. WorkOnAgent /\ Holds /\ NoRejection /\ Accounted
    BY DEF Init, WorkOnAgent, Holds, NoRejection, Accounted
  <2> QED
    BY <2>1, <2>2 DEF IInv
<1> QED
  BY <1>1, InvStep, PTL DEF Spec

-----------------------------------------------------------------------------
\* At most one live process tree per lane, whatever the gate sends: a live tree
\* holds its lane's only lease (run, settle and the shared spawn).
THEOREM LaneExclusive == Spec => []LaneHeldWhileLive
<1>1. IInv => LaneHeldWhileLive
  BY DEF IInv, Holds, LaneHeldWhileLive
<1> QED
  BY <1>1, Invariance, PTL

\* The release_rejected branches of settle() and releaseAfterTerminal() are
\* never taken.
THEOREM ReleaseAccepted == Spec => []ReleaseNeverRejected
<1>1. IInv => ReleaseNeverRejected
  BY DEF IInv, Holds, NoRejection, ReleaseNeverRejected, TypeOK
<1> QED
  BY <1>1, Invariance, PTL

\* A lane that is taken and open to new work is waiting for a close event.
THEOREM NoLeak == Spec => []NoSilentLeak
<1>1. IInv => NoSilentLeak
  BY DEF IInv, Accounted, Final, NoSilentLeak, Quarantined
<1> QED
  BY <1>1, Invariance, PTL

-----------------------------------------------------------------------------
(* The lanes implement ExclusiveLane.                                      *)

\* What runs on a lane before and after a launch.
LEMMA LaunchedOn ==
    ASSUME TypeOK, Holds, NEW l \in Lanes, NEW t \in Tenants, NEW a \in {"live", "gone"},
           lease[l] = Nobody, tree[t] # "live",
           lane' = [lane EXCEPT ![t] = l], tree' = [tree EXCEPT ![t] = a]
    PROVE  /\ Running[l] = {}
           /\ Running' = [Running EXCEPT ![l] = IF a = "live" THEN {t} ELSE {}]
<1>1. Running[l] = {}
  BY DEF Running, Holds
<1>2. \A u \in Tenants : /\ u # t => tree'[u] = tree[u] /\ lane'[u] = lane[u]
                         /\ u = t => tree'[u] = a /\ lane'[u] = l
  BY DEF TypeOK
<1>3. Running'[l] = IF a = "live" THEN {t} ELSE {}
  BY <1>1, <1>2 DEF Running
<1>4. ASSUME NEW m \in Lanes \ {l} PROVE Running'[m] = Running[m]
  <2>1. \A u \in Tenants : tree'[u] = "live" /\ lane'[u] = m
                             <=> tree[u] = "live" /\ lane[u] = m
    BY <1>2
  <2>2. \A u : u \in Running'[m] <=> u \in Tenants /\ tree'[u] = "live" /\ lane'[u] = m
    BY DEF Running
  <2>3. \A u : u \in Running[m] <=> u \in Tenants /\ tree[u] = "live" /\ lane[u] = m
    BY DEF Running
  <2>4. \A u : u \in Running'[m] <=> u \in Running[m]
    BY <2>1, <2>2, <2>3
  <2>5. Running'[m] \subseteq Tenants /\ Running[m] \subseteq Tenants
    BY DEF Running
  <2> QED
    BY <2>4, <2>5
<1> QED
  BY <1>1, <1>3, <1>4 DEF Running

\* Every step of the lanes is a step of the promise, or leaves it unchanged.
LEMMA PromiseStep == IInv /\ [Next]_vars => [Promise!Next]_(Promise!vars)
<1> SUFFICES ASSUME IInv, [Next]_vars PROVE Promise!Next \/ UNCHANGED <<lease, Running>>
  BY DEF Promise!vars
<1> USE DEF IInv
\* Leases and trees untouched: no step of the promise.
<1>a. ASSUME UNCHANGED <<lease, lane, tree>> PROVE UNCHANGED <<lease, Running>>
  BY <1>a DEF Running
\* A lane is taken.
<1>b. ASSUME NEW l \in Lanes, NEW t \in Tenants, NEW a \in {"live", "gone"},
             lease[l] = Nobody, tree[t] # "live",
             lease' = [lease EXCEPT ![l] = t],
             lane' = [lane EXCEPT ![t] = l], tree' = [tree EXCEPT ![t] = a]
      PROVE  Promise!Next
  <2>1. /\ Running[l] = {}
        /\ Running' = [Running EXCEPT ![l] = IF a = "live" THEN {t} ELSE {}]
    BY <1>b, LaunchedOn
  <2>2. CASE a = "live"
    <3>1. Promise!Launch(l, t)
      BY <1>b, <2>1, <2>2 DEF Promise!Launch
    <3> QED
      BY <3>1 DEF Promise!Next
  <2>3. CASE a = "gone"
    <3>1. Running' = Running
      BY <2>1, <2>3 DEF Running
    <3>2. Promise!LaunchStillborn(l, t)
      BY <1>b, <2>1, <3>1 DEF Promise!LaunchStillborn
    <3> QED
      BY <3>2 DEF Promise!Next
  <2> QED
    BY <2>2, <2>3
\* Trees end.
<1>c. ASSUME UNCHANGED <<lease, lane>>,
             \A t \in Tenants : tree'[t] = "live" => tree[t] = "live"
      PROVE  Promise!Next
  <2>1. /\ Running' \in [Lanes -> SUBSET Tenants]
        /\ \A l \in Lanes : Running'[l] \subseteq Running[l]
    BY <1>c DEF Running
  <2>2. Promise!Exit(Running')
    BY <1>c, <2>1 DEF Promise!Exit
  <2> QED
    BY <2>1, <2>2 DEF Promise!Next
\* A lane is given back by its holder, whose tree is gone.
<1>d. ASSUME NEW l \in Lanes, lease[l] # Nobody, tree[lease[l]] # "live",
             lease' = [lease EXCEPT ![l] = Nobody], UNCHANGED <<lane, tree>>
      PROVE  Promise!Next
  <2>1. Running[l] = {} /\ UNCHANGED Running
    BY <1>d DEF Running, Holds
  <2>2. Promise!Free(l)
    BY <1>d, <2>1 DEF Promise!Free
  <2> QED
    BY <2>2 DEF Promise!Next
<1>1. ASSUME NEW c \in Conns, NEW r \in Runs, NEW k \in Kinds, Frame(c, r, k)
      PROVE  Promise!Next \/ UNCHANGED <<lease, Running>>
  <2>0. LaneOfKind(k) \in Lanes
    BY DEF LaneOfKind
  <2>1. CASE DuplicateFrame(c, r, k) \/ RefusedFrame(c, r, k)
    BY <2>1, <1>a DEF DuplicateFrame, RefusedFrame
  <2>2. CASE \E a \in {"live", "gone"} : TakeLane(c, r, LaneOfKind(k), a)
    BY <2>0, <2>2, <1>b DEF TakeLane, Reusable
  <2> QED
    BY <1>1, <2>1, <2>2 DEF Frame, StartFrame, UnprovenLaunchFrame
<1>2. ASSUME NEW r \in Runs, NEW seen \in BOOLEAN, RunClose(r, seen)
      PROVE  Promise!Next \/ UNCHANGED <<lease, Running>>
  <2>1. lane[r] \in Lanes /\ r # Nobody /\ UNCHANGED <<lane, tree>>
    BY <1>2 DEF RunClose, TypeOK
  <2>2. CASE seen /\ lease[lane[r]] = r
    <3>1. tree[r] # "live" /\ lease' = [lease EXCEPT ![lane[r]] = Nobody]
      BY <1>2, <2>2 DEF RunClose
    <3>2. PICK l \in Lanes : l = lane[r]
      BY <2>1
    <3>3. /\ lease[l] # Nobody /\ tree[lease[l]] # "live"
          /\ lease' = [lease EXCEPT ![l] = Nobody]
      BY <2>1, <2>2, <3>1, <3>2
    <3> QED
      BY <2>1, <3>3, <1>d
  <2>3. CASE ~(seen /\ lease[lane[r]] = r)
    BY <1>2, <2>1, <2>3, <1>a DEF RunClose
  <2> QED
    BY <2>2, <2>3
<1>3. ASSUME NEW w \in Workers, NEW seen \in BOOLEAN, NEW sinkFails \in BOOLEAN,
             WorkClose(w, seen, sinkFails)
      PROVE  Promise!Next \/ UNCHANGED <<lease, Running>>
  <2>1. w # Nobody /\ UNCHANGED <<lane, tree>>
    BY <1>3 DEF WorkClose
  <2>2. CASE seen /\ ~sinkFails /\ lease["agent"] = w
    <3>1. tree[w] # "live" /\ lease' = [lease EXCEPT !["agent"] = Nobody]
      BY <1>3, <2>2 DEF WorkClose
    <3>2. "agent" \in Lanes /\ lease["agent"] # Nobody /\ tree[lease["agent"]] # "live"
      BY <2>1, <2>2, <3>1
    <3> QED
      BY <2>1, <3>1, <3>2, <1>d
  <2>3. CASE ~(seen /\ ~sinkFails /\ lease["agent"] = w)
    BY <1>3, <2>1, <2>3, <1>a DEF WorkClose
  <2> QED
    BY <2>2, <2>3
<1>4. ASSUME NEW w \in Workers, WorkStart(w) \/ WorkStartUnproven(w) PROVE Promise!Next
  <2>1. PICK a \in {"live", "gone"} : TakeForWork(w, a)
    BY <1>4 DEF WorkStart, WorkStartUnproven
  <2> QED
    BY <2>1, <1>b DEF TakeForWork
<1>5. ASSUME NEW t \in Tenants, ChildExit(t) PROVE Promise!Next
  BY <1>5, <1>c DEF ChildExit, TypeOK
<1>6. ASSUME NEW c \in Conns, NEW dead \in SUBSET active[c],
             NEW seen \in SUBSET active[c], ConnClose(c, dead, seen)
      PROVE  Promise!Next
  BY <1>6, <1>c DEF ConnClose
<1>7. CASE UNCHANGED <<lease, lane, tree>>
  BY <1>7, <1>a
<1>8. \/ \E c \in Conns, r \in Runs, k \in Kinds : Frame(c, r, k)
      \/ \E r \in Runs, seen \in BOOLEAN : RunClose(r, seen)
      \/ \E w \in Workers, seen, sinkFails \in BOOLEAN : WorkClose(w, seen, sinkFails)
      \/ \E w \in Workers : WorkStart(w) \/ WorkStartUnproven(w)
      \/ \E t \in Tenants : ChildExit(t)
      \/ \E c \in Conns : \E dead, seen \in SUBSET active[c] : ConnClose(c, dead, seen)
      \/ UNCHANGED <<lease, lane, tree>>
  BY DEF Next, vars, Open, QuarantineFrame, ProofRetry, GateLoss
<1> QED
  BY <1>1, <1>2, <1>3, <1>4, <1>5, <1>6, <1>7, <1>8

\* The lanes keep the promise of ExclusiveLane, step by step.
THEOREM Implements == Spec => KeepsPromise
<1>1. Init => Promise!Init
  BY DEF Init, Promise!Init, Running
<1>2. Spec => [][Promise!Next]_(Promise!vars)
  BY Invariance, PromiseStep, PTL DEF Spec
<1> QED
  BY <1>1, <1>2, PTL DEF Spec, KeepsPromise, Promise!Spec

-----------------------------------------------------------------------------
(* Latches.                                                                *)

\* The latch of a lost connection is held only while its proof loop runs, and
\* the loop runs only for a connection that is closed.
LoopInv ==
    \A c \in Conns, l \in Lanes :
        /\ Lost(c) \in latches[l] => proof[c][l].left > 0
        /\ proof[c][l].left > 0 => conn[c] = "closed"

\* An attempt adds or removes nothing but the two latches of its connection; it
\* keeps Lost(c) exactly while attempts remain, and it only ends the loop then.
LEMMA AttemptOutcome ==
    ASSUME NEW c \in Conns, NEW held, NEW todo, NEW blind, NEW left \in Int, left >= 0
    PROVE  LET after == AfterAttempt(c, held, todo, blind, left) IN
           /\ held \ {Lost(c)} \subseteq after.latches
           /\ after.latches \subseteq held \cup {Unproven(c)}
           /\ Lost(c) \in after.latches => after.proof.left > 0
           /\ Lost(c) \notin after.latches /\ Lost(c) \in held => after.proof = NoProof
  BY DEF AfterAttempt, NoProof, Lost, Unproven

\* What a step may do to the latches and the proof loops.
LEMMA LatchStep ==
    ASSUME TypeOK, LoopInv, [Next]_vars
    PROVE  /\ LoopInv'
           /\ \A l \in Lanes : \A p \in latches[l] \ latches'[l] :
                  \E c \in Conns : /\ p = Lost(c)
                                  /\ latches[l] \ latches'[l] = {p}
                                  /\ proof[c][l] # NoProof /\ proof'[c][l] = NoProof
<1> DEFINE Survive == \A l \in Lanes : \A p \in latches[l] \ latches'[l] :
                  \E c \in Conns : /\ p = Lost(c)
                                  /\ latches[l] \ latches'[l] = {p}
                                  /\ proof[c][l] # NoProof /\ proof'[c][l] = NoProof
<1>a. \A c, d \in Conns : /\ Lost(c) = Lost(d) => c = d
                          /\ Lost(c) # Unproven(d)
  BY DEF Lost, Unproven
\* A step that may latch for good and otherwise leaves the loops alone.
<1>b. ASSUME UNCHANGED proof,
             \A c \in Conns : conn[c] = "closed" /\ (\E l \in Lanes : proof[c][l].left > 0)
                               => conn'[c] = "closed",
             \/ UNCHANGED latches
             \/ \E l \in Lanes, reason \in Reasons : latches' = Trip(l, Permanent(reason))
      PROVE  LoopInv' /\ Survive
  <2>1. \A l \in Lanes : latches[l] \subseteq latches'[l]
    BY <1>b DEF Trip, TypeOK
  <2>2. \A l \in Lanes, c \in Conns : Lost(c) \in latches'[l] => Lost(c) \in latches[l]
    BY <1>b DEF Trip, TypeOK, Lost, Permanent
  <2> QED
    BY <1>b, <2>1, <2>2 DEF LoopInv
<1>1. ASSUME NEW c \in Conns, NEW dead \in SUBSET active[c],
             NEW seen \in SUBSET active[c], ConnClose(c, dead, seen)
      PROVE  LoopInv' /\ Survive
  <2> DEFINE held(l) == latches[l] \cup {Lost(c)}
             after(l) == AfterAttempt(c, held(l), Doomed(c, l) \ seen,
                                      Doomed(c, l) \ closing, MaxAttempts - 1)
  <2>1. \A l \in Lanes : latches'[l] = IF Doomed(c, l) = {} THEN latches[l]
                                        ELSE after(l).latches
    BY <1>1 DEF ConnClose
  <2>2. \A l \in Lanes : proof'[c][l] = IF Doomed(c, l) = {} THEN NoProof
                                         ELSE after(l).proof
    BY <1>1 DEF ConnClose, TypeOK
  <2>3. /\ \A d \in Conns \ {c} : proof'[d] = proof[d] /\ conn'[d] = conn[d]
        /\ conn'[c] = "closed"
    BY <1>1 DEF ConnClose, TypeOK
  <2>4. \A l \in Lanes : Lost(c) \notin latches[l]
    BY <1>1 DEF ConnClose, LoopInv
  <2>5. ASSUME NEW l \in Lanes
        PROVE  /\ held(l) \ {Lost(c)} \subseteq after(l).latches
               /\ after(l).latches \subseteq held(l) \cup {Unproven(c)}
               /\ Lost(c) \in after(l).latches => after(l).proof.left > 0
    <3>1. MaxAttempts - 1 \in Int /\ MaxAttempts - 1 >= 0
      OBVIOUS
    <3> QED
      BY <3>1, AttemptOutcome
  <2> HIDE DEF after
  <2>6. \A l \in Lanes : latches[l] \subseteq latches'[l]
    BY <2>1, <2>4, <2>5
  <2>7. \A l \in Lanes : Lost(c) \in latches'[l] => proof'[c][l].left > 0
    BY <2>1, <2>2, <2>4, <2>5
  <2>8. \A l \in Lanes, d \in Conns \ {c} : Lost(d) \in latches'[l] => Lost(d) \in latches[l]
    BY <2>1, <2>5, <1>a
  <2>9. LoopInv'
    <3> SUFFICES ASSUME NEW d \in Conns, NEW l \in Lanes
                 PROVE  /\ Lost(d) \in latches'[l] => proof'[d][l].left > 0
                        /\ proof'[d][l].left > 0 => conn'[d] = "closed"
      BY DEF LoopInv
    <3> QED
      BY <2>3, <2>7, <2>8 DEF LoopInv
  <2> QED
    BY <2>6, <2>9
<1>2. ASSUME NEW c \in Conns, NEW m \in Lanes,
             NEW seen \in SUBSET proof[c][m].pending, ProofRetry(c, m, seen)
      PROVE  LoopInv' /\ Survive
  <2> DEFINE after == AfterAttempt(c, latches[m], proof[c][m].pending \ seen,
                                   proof[c][m].blind, proof[c][m].left - 1)
  <2>1. latches' = [latches EXCEPT ![m] = after.latches]
        /\ proof' = [proof EXCEPT ![c] = [proof[c] EXCEPT ![m] = after.proof]]
        /\ UNCHANGED conn
    BY <1>2 DEF ProofRetry
  <2>2. proof[c][m].left > 0 /\ proof[c][m].left \in Int /\ proof[c][m] # NoProof
    BY <1>2 DEF ProofRetry, TypeOK, ProofState, NoProof
  <2>3. /\ latches[m] \ {Lost(c)} \subseteq after.latches
        /\ after.latches \subseteq latches[m] \cup {Unproven(c)}
        /\ Lost(c) \in after.latches => after.proof.left > 0
        /\ Lost(c) \notin after.latches /\ Lost(c) \in latches[m] => after.proof = NoProof
    <3>1. proof[c][m].left - 1 \in Int /\ proof[c][m].left - 1 >= 0
      BY <2>2
    <3> QED
      BY <3>1, AttemptOutcome
  <2> HIDE DEF after
  <2>4. /\ latches'[m] = after.latches /\ proof'[c][m] = after.proof
        /\ \A l \in Lanes \ {m} : latches'[l] = latches[l] /\ proof'[c][l] = proof[c][l]
        /\ \A d \in Conns \ {c} : proof'[d] = proof[d]
    BY <2>1 DEF TypeOK
  <2>5. Survive
    <3> SUFFICES ASSUME NEW l \in Lanes, NEW p \in latches[l] \ latches'[l]
                 PROVE  /\ p = Lost(c)
                        /\ latches[l] \ latches'[l] = {p}
                        /\ proof[c][l] # NoProof /\ proof'[c][l] = NoProof
      OBVIOUS
    <3>1. l = m /\ p = Lost(c)
      BY <2>3, <2>4
    <3> QED
      BY <2>2, <2>3, <2>4, <3>1
  <2>6. LoopInv'
    <3> SUFFICES ASSUME NEW d \in Conns, NEW l \in Lanes
                 PROVE  /\ Lost(d) \in latches'[l] => proof'[d][l].left > 0
                        /\ proof'[d][l].left > 0 => conn'[d] = "closed"
      BY DEF LoopInv
    <3>1. CASE d = c
      BY <2>1, <2>2, <2>3, <2>4, <3>1 DEF LoopInv
    <3>2. CASE d # c
      BY <2>1, <2>3, <2>4, <3>2, <1>a DEF LoopInv
    <3> QED
      BY <3>1, <3>2
  <2> QED
    BY <2>5, <2>6
<1>3. ASSUME NEW c \in Conns, Open(c) PROVE LoopInv' /\ Survive
  <2>1. UNCHANGED <<latches, proof>> /\ \A d \in Conns \ {c} : conn'[d] = conn[d]
    BY <1>3 DEF Open, TypeOK
  <2>2. \A l \in Lanes : proof[c][l].left = 0
    BY <1>3 DEF Open, NoProof
  <2> QED
    BY <2>1, <2>2, <1>b
<1>4. ASSUME NEW c \in Conns, NEW r \in Runs, NEW k \in Kinds, Frame(c, r, k)
      PROVE  LoopInv' /\ Survive
  <2>1. LaneOfKind(k) \in Lanes /\ {"duplicate", "launch_unproven"} \subseteq Reasons
    BY DEF LaneOfKind, Reasons
  <2>2. conn[c] = "open" /\ UNCHANGED proof
    BY <1>4 DEF Frame, DuplicateFrame, RefusedFrame, StartFrame, UnprovenLaunchFrame,
                Admitted
  <2>3. \A d \in Conns \ {c} : conn'[d] = conn[d]
    BY <1>4 DEF Frame, DuplicateFrame, RefusedFrame, StartFrame, UnprovenLaunchFrame,
                TypeOK
  <2>4. \/ UNCHANGED latches
        \/ latches' = Trip(LaneOfKind(k), Permanent("duplicate"))
        \/ latches' = Trip(LaneOfKind(k), Permanent("launch_unproven"))
    BY <1>4 DEF Frame, DuplicateFrame, RefusedFrame, StartFrame, UnprovenLaunchFrame
  <2> QED
    BY <2>1, <2>2, <2>3, <2>4, <1>b
<1>5. ASSUME UNCHANGED <<conn, proof>>,
             \/ UNCHANGED latches
             \/ \E l \in Lanes, reason \in Reasons : latches' = Trip(l, Permanent(reason))
      PROVE  LoopInv' /\ Survive
  BY <1>5, <1>b
<1>6. ASSUME NEW c \in Conns, NEW reason \in {"gate_reported", "fatal_containment"},
             QuarantineFrame(c, reason)
      PROVE  LoopInv' /\ Survive
  <2>1. reason \in Reasons
    BY DEF Reasons
  <2> QED
    BY <1>5, <1>6, <2>1 DEF QuarantineFrame
<1>7. ASSUME NEW r \in Runs, NEW seen \in BOOLEAN, RunClose(r, seen)
      PROVE  LoopInv' /\ Survive
  <2>1. lane[r] \in Lanes /\ {"terminal_unproven", "release_rejected"} \subseteq Reasons
    BY DEF TypeOK, Reasons
  <2>2. \/ UNCHANGED latches
        \/ latches' = Trip(lane[r], Permanent("terminal_unproven"))
        \/ latches' = Trip(lane[r], Permanent("release_rejected"))
    BY <1>7 DEF RunClose
  <2> QED
    BY <1>5, <1>7, <2>1, <2>2 DEF RunClose
<1>8. ASSUME NEW w \in Workers,
             \/ WorkStart(w) \/ WorkStartUnproven(w)
             \/ \E seen, sinkFails \in BOOLEAN : WorkClose(w, seen, sinkFails)
      PROVE  LoopInv' /\ Survive
  <2>1. {"launch_unproven", "terminal_unproven", "sink_failed", "release_rejected"}
          \subseteq Reasons
    BY DEF Reasons
  <2>2. UNCHANGED <<conn, proof>>
    BY <1>8 DEF WorkStart, WorkStartUnproven, TakeForWork, WorkClose, connVars
  <2>3. \/ UNCHANGED latches
        \/ \E reason \in Reasons : latches' = Trip("agent", Permanent(reason))
    BY <1>8, <2>1 DEF WorkStart, WorkStartUnproven, WorkClose
  <2> QED
    BY <1>5, <2>2, <2>3
<1>9. ASSUME GateLoss PROVE LoopInv' /\ Survive
  <2>1. "gate_loss" \in Reasons
    BY DEF Reasons
  <2> QED
    BY <1>5, <1>9, <2>1 DEF GateLoss, connVars
<1>10. ASSUME NEW t \in Tenants, ChildExit(t) PROVE LoopInv' /\ Survive
  BY <1>5, <1>10 DEF ChildExit, connVars
<1>11. ASSUME UNCHANGED vars PROVE LoopInv' /\ Survive
  BY <1>5, <1>11 DEF vars
<1> HIDE DEF Survive
<1>12. ASSUME NEW w \in Workers, NEW seen \in BOOLEAN, NEW sinkFails \in BOOLEAN,
              WorkClose(w, seen, sinkFails)
       PROVE  LoopInv' /\ Survive
  BY <1>8, <1>12
<1>13. ASSUME NEW w \in Workers, WorkStart(w) \/ WorkStartUnproven(w)
       PROVE  LoopInv' /\ Survive
  BY <1>8, <1>13
<1>14. LoopInv' /\ Survive
  BY <1>1, <1>2, <1>3, <1>4, <1>6, <1>7, <1>9, <1>10, <1>11, <1>12, <1>13 DEF Next
<1> QED
  BY <1>14 DEF Survive

\* A latch goes away only with the proof loop of its own connection, and alone.
THEOREM LatchesKept == Spec => LatchesSurvive
<1>1. Init => LoopInv
  BY DEF Init, LoopInv, NoProof
<1>2. TypeOK /\ LoopInv /\ [Next]_vars => LoopInv'
  BY LatchStep
<1>3. TypeOK /\ LoopInv /\ [Next]_vars =>
         [\A l \in Lanes : \A p \in latches[l] \ latches'[l] :
             \E c \in Conns : /\ p = Lost(c)
                             /\ latches[l] \ latches'[l] = {p}
                             /\ proof[c][l] # NoProof /\ proof'[c][l] = NoProof]_vars
  BY LatchStep
<1> QED
  BY <1>1, <1>2, <1>3, Typed, PTL DEF Spec, LatchesSurvive
-----------------------------------------------------------------------------
(* What a lost connection leaves behind.                                   *)

\* On a lane that is not latched for good, the runs a connection answers for
\* are runs it started there itself and whose close event is to come.
Answered ==
    \A c \in Conns, l \in Lanes : ~Final(l) =>
        \A r \in Doomed(c, l) : r \in closing /\ lane[r] = l /\ home[r] = c

\* No runId lingers among the assistant's once it is no longer active, unless
\* a launch nobody could disprove has latched the assistant's lane.
NoStray ==
    ~Final("assist") => \A c \in Conns : activeAssist[c] \subseteq active[c]

\* A lane latched for a lost connection waits for every tree that lives on it:
\* each is among those the connection's proof loop still asks about.
Watched ==
    \A c \in Conns, l \in Lanes : Lost(c) \in latches[l] /\ ~Final(l) =>
        \A t \in Tenants : tree[t] = "live" /\ lane[t] = l
                               => t \in proof[c][l].pending

WInv == IInv /\ LoopInv /\ Answered /\ NoStray /\ Watched

\* The gate keeps a run to the engines of one lane.
EngineKeepsLane ==
    \A r \in Runs : \A j, k \in KindsOf[r] : LaneOfKind(j) = LaneOfKind(k)

\* A run sits on the lane of an engine the gate named for it.
OwnLane ==
    \A r \in Runs : home[r] # NoConn => \E k \in KindsOf[r] : lane[r] = LaneOfKind(k)

\* Only the assistant's runs are ever recorded as such.
OwnAssist ==
    \A c \in Conns : \A r \in activeAssist[c] : "assist" \in KindsOf[r]

\* Connection c answers for run r on lane l: it will when it closes, or its
\* proof loop still asks about the run, or the latch that names the run stands.
AnswersFor(c, l, r) ==
    \/ conn[c] # "closed" /\ r \in Doomed(c, l)
    \/ Lost(c) \in latches[l] /\ r \in proof[c][l].pending
    \/ Unproven(c) \in latches[l]

\* The connection that started it answers for every live run on a lane that is
\* not latched for good.
Known ==
    \A r \in Runs : tree[r] = "live" /\ home[r] # NoConn /\ ~Final(lane[r])
                       => AnswersFor(home[r], lane[r], r)

OInv == WInv /\ OwnLane /\ OwnAssist /\ Known

\* A final latch is never taken off.
LEMMA FinalStays ==
    ASSUME TypeOK, LoopInv, [Next]_vars
    PROVE  \A l \in Lanes : Final(l) => Final(l)'
<1> SUFFICES ASSUME NEW l \in Lanes, NEW reason \in Reasons, Permanent(reason) \in latches[l]
             PROVE  Permanent(reason) \in latches'[l]
  BY DEF Final
<1>1. \A c \in Conns : Permanent(reason) # Lost(c)
  BY DEF Permanent, Lost
<1> QED
  BY <1>1, LatchStep

\* A proof loop that runs is moved only by its own timer: its connection is
\* closed, and a closed connection is not closed again.
LEMMA LoopMoves ==
    ASSUME TypeOK, LoopInv, [Next]_vars,
           NEW c \in Conns, NEW l \in Lanes, Lost(c) \in latches[l],
           \/ proof'[c][l] = proof[c][l]
           \/ \A seen \in SUBSET proof[c][l].pending : ~ProofRetry(c, l, seen)
    PROVE  proof'[c][l] = proof[c][l] /\ Lost(c) \in latches'[l]
<1>1. conn[c] = "closed" /\ proof[c][l].left > 0
  BY DEF LoopInv
<1>2. proof'[c][l] = proof[c][l]
  <2>1. ASSUME NEW d \in Conns, NEW dead \in SUBSET active[d],
               NEW seen \in SUBSET active[d], ConnClose(d, dead, seen)
        PROVE  proof'[c] = proof[c]
    BY <1>1, <2>1 DEF ConnClose, TypeOK
  <2>2. ASSUME NEW d \in Conns, NEW m \in Lanes,
               NEW seen \in SUBSET proof[d][m].pending, ProofRetry(d, m, seen)
        PROVE  proof'[c][l] = proof[c][l]
    <3>1. proof'[c][l] = proof[c][l] \/ d # c \/ m # l
      BY <2>2
    <3>2. PICK after : proof' = [proof EXCEPT ![d] = [proof[d] EXCEPT ![m] = after]]
      BY <2>2 DEF ProofRetry
    <3> QED
      BY <3>1, <3>2 DEF TypeOK
  <2>3. \/ UNCHANGED proof
        \/ \E d \in Conns : \E dead \in SUBSET active[d], seen \in SUBSET active[d] :
               ConnClose(d, dead, seen)
        \/ \E d \in Conns, m \in Lanes : \E seen \in SUBSET proof[d][m].pending :
               ProofRetry(d, m, seen)
    BY DEF Next, vars, Open, Frame, DuplicateFrame, RefusedFrame, StartFrame,
           UnprovenLaunchFrame, QuarantineFrame, ChildExit, RunClose, WorkStart,
           WorkStartUnproven, TakeForWork, WorkClose, GateLoss, connVars
  <2> QED
    BY <2>1, <2>2, <2>3
<1>3. Lost(c) \in latches'[l]
  <2> SUFFICES ASSUME Lost(c) \in latches[l] \ latches'[l] PROVE FALSE
    OBVIOUS
  <2>1. PICK d \in Conns : /\ Lost(c) = Lost(d)
                           /\ proof[d][l] # NoProof /\ proof'[d][l] = NoProof
    BY LatchStep
  <2>2. d = c
    BY <2>1 DEF Lost
  <2> QED
    BY <1>2, <2>1, <2>2
<1> QED
  BY <1>2, <1>3

\* Frames, exits and lost connections keep the sets of runIds honest.
LEMMA AnsweredStep ==
    ASSUME IInv, LoopInv, Answered, NoStray, [Next]_vars
    PROVE  Answered' /\ NoStray'
<1> USE DEF IInv
<1>a. \A l \in Lanes : Final(l) => Final(l)'
  BY FinalStays
<1>b. "agent" \in Lanes /\ "assist" \in Lanes /\ "agent" # "assist"
  OBVIOUS
\* Sets that only shrink, about runs that stay where they are.
<1>c. ASSUME \A c \in Conns, l \in Lanes : ~Final(l)' =>
                 \A r \in Doomed(c, l)' :
                     /\ r \in Doomed(c, l)
                     /\ lane'[r] = lane[r] /\ home'[r] = home[r]
                     /\ r \in closing => r \in closing',
             ~Final("assist")' => \A c \in Conns : activeAssist'[c] \ active'[c]
                                             \subseteq activeAssist[c] \ active[c]
      PROVE  Answered' /\ NoStray'
  BY <1>a, <1>b, <1>c DEF Answered, NoStray
<1>d. ASSUME UNCHANGED <<active, activeAssist, home>>,
             \A r \in Runs : lane'[r] = lane[r] /\ (r \in closing => r \in closing')
      PROVE  Answered' /\ NoStray'
  BY <1>c, <1>d DEF Doomed, TypeOK
<1>1. ASSUME NEW c \in Conns, NEW r \in Runs, NEW k \in Kinds, Frame(c, r, k)
      PROVE  Answered' /\ NoStray'
  <2>1. CASE DuplicateFrame(c, r, k)
    <3>1. /\ Final(LaneOfKind(k))' /\ LaneOfKind(k) \in Lanes
          /\ UNCHANGED <<active, home, lane, closing>>
      BY <2>1 DEF DuplicateFrame, Trip, LaneOfKind, Final, Reasons, TypeOK
    <3>2. CASE UNCHANGED activeAssist
      BY <1>d, <3>1, <3>2
    <3>3. CASE k = "assist" /\ activeAssist' = [activeAssist EXCEPT ![c] = @ \cup {r}]
      <4>1. Final("assist")'
        BY <3>1, <3>3 DEF LaneOfKind
      <4>2. \A d \in Conns : Doomed(d, "agent")' \subseteq Doomed(d, "agent")
        BY <3>1, <3>3 DEF Doomed, TypeOK
      <4> QED
        BY <1>c, <3>1, <4>1, <4>2
    <3> QED
      BY <2>1, <3>2, <3>3 DEF DuplicateFrame
  <2>2. CASE RefusedFrame(c, r, k)
    <3>1. /\ UNCHANGED <<lane, home, closing>>
          /\ \A d \in Conns : /\ active'[d] = IF d = c THEN active[d] \ {r} ELSE active[d]
                              /\ activeAssist'[d] = IF d = c THEN activeAssist[d] \ {r}
                                                             ELSE activeAssist[d]
      BY <2>2 DEF RefusedFrame, TypeOK
    <3>2. \A d \in Conns, l \in Lanes : Doomed(d, l)' \subseteq Doomed(d, l)
      BY <3>1 DEF Doomed
    <3>3. \A d \in Conns : activeAssist'[d] \ active'[d] \subseteq activeAssist[d] \ active[d]
      BY <3>1
    <3> QED
      BY <1>c, <3>1, <3>2, <3>3
  <2>3. CASE StartFrame(c, r, k) \/ UnprovenLaunchFrame(c, r, k)
    <3> DEFINE l == LaneOfKind(k)
    <3>0. l \in Lanes /\ (l = "assist" <=> k = "assist")
      BY DEF LaneOfKind
    <3>1. /\ r \notin closing
          /\ lane' = [lane EXCEPT ![r] = l] /\ home' = [home EXCEPT ![r] = c]
      BY <2>3 DEF StartFrame, UnprovenLaunchFrame, TakeLane, Duplicate
    <3>2. activeAssist' = IF k = "assist" THEN [activeAssist EXCEPT ![c] = @ \cup {r}]
                                          ELSE activeAssist
      BY <2>3 DEF StartFrame, UnprovenLaunchFrame
    <3>3. \/ active' = [active EXCEPT ![c] = @ \cup {r}]
          \/ k = "autonomous" /\ active' = [active EXCEPT ![c] = @ \ {r}]
      BY <2>3 DEF StartFrame, UnprovenLaunchFrame
    <3>4. \/ closing' = closing \cup {r} /\ active' = [active EXCEPT ![c] = @ \cup {r}]
          \/ closing' = closing /\ Final(l)'
      BY <2>3, <3>0 DEF StartFrame, UnprovenLaunchFrame, Trip, Final, Reasons, TypeOK
    <3> HIDE DEF l
    <3>5. \A d \in Conns, m \in Lanes : r \in Doomed(d, m) => Final(m)
      BY <3>1 DEF Answered
    <3>6. \A d \in Conns : r \in activeAssist[d] => Final("assist")
      BY <3>5, <1>b DEF NoStray, Doomed
    <3>7. \A d \in Conns :
            /\ \A q \in Runs : q # r => /\ q \in active'[d] <=> q \in active[d]
                                        /\ q \in activeAssist'[d] <=> q \in activeAssist[d]
            /\ d # c => active'[d] = active[d] /\ activeAssist'[d] = activeAssist[d]
            /\ active'[d] \subseteq Runs
            /\ r \in activeAssist'[c] => k = "assist" \/ r \in activeAssist[c]
            /\ k = "assist" => r \in active'[c] /\ r \in activeAssist'[c]
      BY <3>2, <3>3 DEF TypeOK
    <3>8. NoStray'
      <4> SUFFICES ASSUME ~Final("assist")', NEW d \in Conns, NEW q \in activeAssist'[d]
                   PROVE  q \in active'[d]
        BY DEF NoStray
      <4>1. ~Final("assist") /\ q \in Runs
        BY <1>a, <1>b, TypeStep DEF TypeOK
      <4>2. CASE q # r
        BY <4>1, <4>2, <3>7 DEF NoStray
      <4>3. CASE q = r
        BY <4>1, <4>3, <3>6, <3>7
      <4> QED
        BY <4>2, <4>3
    <3>9. Answered'
      <4> SUFFICES ASSUME NEW d \in Conns, NEW m \in Lanes, ~Final(m)',
                          NEW q \in Doomed(d, m)'
                   PROVE  q \in closing' /\ lane'[q] = m /\ home'[q] = d
        BY DEF Answered
      <4>1. ~Final(m) /\ q \in Runs
        BY <1>a, <3>7 DEF Doomed
      <4>2. CASE q # r
        <5>1. q \in Doomed(d, m)
          BY <4>1, <4>2, <3>7 DEF Doomed
        <5>2. q \in closing /\ lane[q] = m /\ home[q] = d
          BY <4>1, <5>1 DEF Answered
        <5> QED
          BY <4>1, <4>2, <5>2, <3>1, <3>4 DEF TypeOK
      <4>3. CASE q = r
        <5>1. d = c
          BY <4>1, <4>3, <3>5, <3>7 DEF Doomed
        <5>2. m = l
          <6>1. CASE m = "assist"
            <7>1. r \in activeAssist'[c]
              BY <4>3, <5>1, <6>1 DEF Doomed
            <7> QED
              BY <4>1, <6>1, <7>1, <3>0, <3>6, <3>7
          <6>2. CASE m = "agent"
            <7>1. r \notin activeAssist'[c]
              BY <4>3, <5>1, <6>2 DEF Doomed
            <7> QED
              BY <6>2, <7>1, <3>0, <3>7
          <6> QED
            BY <6>1, <6>2
        <5>3. closing' = closing \cup {r}
          BY <3>4, <5>2
        <5> QED
          BY <4>3, <5>1, <5>2, <5>3, <3>1 DEF TypeOK
      <4> QED
        BY <4>2, <4>3
    <3> QED
      BY <3>8, <3>9
  <2> QED
    BY <1>1, <2>1, <2>2, <2>3 DEF Frame
<1>2. ASSUME NEW r \in Runs, NEW seen \in BOOLEAN, RunClose(r, seen)
      PROVE  Answered' /\ NoStray'
  <2>1. /\ closing' = closing \ {r} /\ UNCHANGED <<lane, home>>
        /\ r \in closing /\ lane[r] \in Lanes /\ lease[lane[r]] = r
    BY <1>2 DEF RunClose, Holds, TypeOK
  <2>2. \A d \in Conns :
          /\ active'[d] = IF seen /\ home[r] = d THEN active[d] \ {r} ELSE active[d]
          /\ activeAssist'[d] = IF seen /\ home[r] = d THEN activeAssist[d] \ {r}
                                                       ELSE activeAssist[d]
    BY <1>2, <2>1 DEF RunClose
  <2>3. ~seen => Final(lane[r])'
    BY <1>2, <2>1 DEF RunClose, Trip, Final, Reasons, TypeOK
  <2>4. \A d \in Conns, m \in Lanes : Doomed(d, m)' \subseteq Doomed(d, m)
    BY <2>2 DEF Doomed
  <2>5. \A d \in Conns : activeAssist'[d] \ active'[d] \subseteq activeAssist[d] \ active[d]
    BY <2>2
  <2>6. ASSUME NEW d \in Conns, NEW m \in Lanes, ~Final(m)', r \in Doomed(d, m)'
        PROVE  FALSE
    <3>1. lane[r] = m /\ home[r] = d
      BY <2>4, <2>6, <1>a DEF Answered
    <3>2. seen
      BY <2>1, <2>3, <2>6, <3>1
    <3>3. r \in active'[d]
      BY <2>6 DEF Doomed
    <3> QED
      BY <2>2, <3>1, <3>2, <3>3
  <2> QED
    BY <2>1, <2>4, <2>5, <2>6, <1>c
<1>3. ASSUME NEW c \in Conns, NEW dead \in SUBSET active[c],
             NEW seen \in SUBSET active[c], ConnClose(c, dead, seen)
      PROVE  Answered' /\ NoStray'
  <2>1. /\ UNCHANGED <<lane, home, closing>>
        /\ \A d \in Conns : /\ active'[d] = IF d = c THEN {} ELSE active[d]
                            /\ activeAssist'[d] = IF d = c THEN {} ELSE activeAssist[d]
    BY <1>3 DEF ConnClose, TypeOK
  <2>2. \A d \in Conns, m \in Lanes : Doomed(d, m)' \subseteq Doomed(d, m)
    BY <2>1 DEF Doomed
  <2>3. \A d \in Conns : activeAssist'[d] \ active'[d] \subseteq activeAssist[d] \ active[d]
    BY <2>1
  <2> QED
    BY <2>1, <2>2, <2>3, <1>c
<1>4. ASSUME NEW w \in Workers,
             \/ WorkStart(w) \/ WorkStartUnproven(w)
             \/ \E seen, sinkFails \in BOOLEAN : WorkClose(w, seen, sinkFails)
      PROVE  Answered' /\ NoStray'
  <2>1. \A r \in Runs : r # w
    OBVIOUS
  <2>2. /\ UNCHANGED <<active, activeAssist, home>>
        /\ UNCHANGED lane \/ lane' = [lane EXCEPT ![w] = "agent"]
        /\ closing \subseteq closing' \/ closing' = closing \ {w}
    BY <1>4 DEF WorkStart, WorkStartUnproven, TakeForWork, WorkClose, connVars
  <2> QED
    BY <2>1, <2>2, <1>d DEF TypeOK
<1>5. ASSUME UNCHANGED <<active, activeAssist, home, lane, closing>>
      PROVE  Answered' /\ NoStray'
  BY <1>5, <1>d
<1>6. ASSUME NEW c \in Conns, Open(c) PROVE Answered' /\ NoStray'
  BY <1>5, <1>6 DEF Open
<1>7. ASSUME NEW c \in Conns, NEW reason \in {"gate_reported", "fatal_containment"},
             QuarantineFrame(c, reason)
      PROVE  Answered' /\ NoStray'
  BY <1>5, <1>7 DEF QuarantineFrame
<1>8. ASSUME NEW t \in Tenants, ChildExit(t) PROVE Answered' /\ NoStray'
  BY <1>5, <1>8 DEF ChildExit, connVars
<1>9. ASSUME NEW c \in Conns, NEW l \in Lanes,
             NEW seen \in SUBSET proof[c][l].pending, ProofRetry(c, l, seen)
      PROVE  Answered' /\ NoStray'
  BY <1>5, <1>9 DEF ProofRetry
<1>10. ASSUME NEW w \in Workers, WorkStart(w) \/ WorkStartUnproven(w)
       PROVE  Answered' /\ NoStray'
  BY <1>4, <1>10
<1>11. ASSUME NEW w \in Workers, NEW seen \in BOOLEAN, NEW sinkFails \in BOOLEAN,
              WorkClose(w, seen, sinkFails)
       PROVE  Answered' /\ NoStray'
  BY <1>4, <1>11
<1>12. CASE GateLoss
  BY <1>5, <1>12 DEF GateLoss, connVars
<1>13. CASE UNCHANGED vars
  BY <1>5, <1>13 DEF vars
<1> HIDE DEF IInv
<1> QED
  BY <1>1, <1>2, <1>3, <1>6, <1>7, <1>8, <1>9, <1>10, <1>11, <1>12, <1>13 DEF Next

\* Nothing is launched on a latched lane, so what lives there lived there.
LEMMA NothingNewOn ==
    ASSUME TypeOK, WorkOnAgent, [Next]_vars, NEW l \in Lanes, Quarantined(l),
           NEW t \in Tenants, tree'[t] = "live", lane'[t] = l
    PROVE  tree[t] = "live" /\ lane[t] = l
<1>1. ASSUME NEW c \in Conns, NEW r \in Runs, NEW k \in Kinds, Frame(c, r, k)
      PROVE  tree[t] = "live" /\ lane[t] = l
  <2>1. CASE DuplicateFrame(c, r, k) \/ RefusedFrame(c, r, k)
    BY <2>1 DEF DuplicateFrame, RefusedFrame
  <2>2. ASSUME NEW a \in {"live", "gone"}, NEW m \in Lanes, m # l, TakeLane(c, r, m, a)
        PROVE  tree[t] = "live" /\ lane[t] = l
    BY <2>2 DEF TakeLane, TypeOK
  <2>3. LaneOfKind(k) \in Lanes /\ (Admitted(c, r, k) => LaneOfKind(k) # l)
    BY DEF LaneOfKind, Admitted
  <2> QED
    BY <1>1, <2>1, <2>2, <2>3 DEF Frame, StartFrame, UnprovenLaunchFrame
<1>2. ASSUME NEW w \in Workers, WorkStart(w) \/ WorkStartUnproven(w)
      PROVE  tree[t] = "live" /\ lane[t] = l
  <2>1. PICK a \in {"live", "gone"} : TakeForWork(w, a)
    BY <1>2 DEF WorkStart, WorkStartUnproven
  <2> QED
    BY <2>1 DEF TakeForWork, TypeOK
<1>3. ASSUME NEW c \in Conns, NEW dead \in SUBSET active[c],
             NEW seen \in SUBSET active[c], ConnClose(c, dead, seen)
      PROVE  tree[t] = "live" /\ lane[t] = l
  BY <1>3 DEF ConnClose, TypeOK
<1>4. ASSUME NEW u \in Tenants, ChildExit(u) PROVE tree[t] = "live" /\ lane[t] = l
  BY <1>4 DEF ChildExit, TypeOK
<1>5. ASSUME UNCHANGED <<lane, tree>> PROVE tree[t] = "live" /\ lane[t] = l
  BY <1>5
<1>6. ASSUME NEW c \in Conns,
             \/ Open(c)
             \/ \E reason \in {"gate_reported", "fatal_containment"} :
                    QuarantineFrame(c, reason)
             \/ \E m \in Lanes : \E seen \in SUBSET proof[c][m].pending :
                    ProofRetry(c, m, seen)
      PROVE  tree[t] = "live" /\ lane[t] = l
  BY <1>5, <1>6 DEF Open, QuarantineFrame, ProofRetry
<1>7. ASSUME NEW u \in Tenants, NEW seen \in BOOLEAN,
             \/ RunClose(u, seen)
             \/ \E sinkFails \in BOOLEAN : WorkClose(u, seen, sinkFails)
      PROVE  tree[t] = "live" /\ lane[t] = l
  BY <1>5, <1>7 DEF RunClose, WorkClose
<1>8. CASE GateLoss \/ UNCHANGED vars
  BY <1>5, <1>8 DEF GateLoss, vars
<1> QED
  BY <1>1, <1>2, <1>3, <1>4, <1>6, <1>7, <1>8 DEF Next

\* Only closing a connection that answers for a run on the lane puts the latch
\* of that connection there.
LEMMA LostAppears ==
    ASSUME TypeOK, [Next]_vars, NEW c \in Conns, NEW l \in Lanes,
           Lost(c) \in latches'[l], Lost(c) \notin latches[l]
    PROVE  \E dead, seen \in SUBSET active[c] :
               ConnClose(c, dead, seen) /\ Doomed(c, l) # {}
<1>0. /\ \A d \in Conns : Lost(d) = Lost(c) => d = c
      /\ \A d \in Conns : Lost(c) # Unproven(d)
      /\ \A reason \in Reasons : Lost(c) # Permanent(reason)
  BY DEF Lost, Unproven, Permanent
<1>1. ASSUME NEW d \in Conns, NEW dead \in SUBSET active[d],
             NEW seen \in SUBSET active[d], ConnClose(d, dead, seen)
      PROVE  d = c /\ Doomed(c, l) # {}
  <2> DEFINE after == AfterAttempt(d, latches[l] \cup {Lost(d)}, Doomed(d, l) \ seen,
                                   Doomed(d, l) \ closing, MaxAttempts - 1)
  <2>1. latches'[l] = IF Doomed(d, l) = {} THEN latches[l] ELSE after.latches
    BY <1>1 DEF ConnClose
  <2>2. after.latches \subseteq latches[l] \cup {Lost(d), Unproven(d)}
    <3>1. MaxAttempts - 1 \in Int /\ MaxAttempts - 1 >= 0
      OBVIOUS
    <3>2. after.latches \subseteq (latches[l] \cup {Lost(d)}) \cup {Unproven(d)}
      BY <3>1, AttemptOutcome
    <3> QED
      BY <3>2
  <2> HIDE DEF after
  <2> QED
    BY <1>0, <2>1, <2>2
<1>2. ASSUME NEW d \in Conns, NEW m \in Lanes,
             NEW seen \in SUBSET proof[d][m].pending, ProofRetry(d, m, seen)
      PROVE  FALSE
  <2> DEFINE after == AfterAttempt(d, latches[m], proof[d][m].pending \ seen,
                                   proof[d][m].blind, proof[d][m].left - 1)
  <2>1. latches' = [latches EXCEPT ![m] = after.latches]
    BY <1>2 DEF ProofRetry
  <2>2. after.latches \subseteq latches[m] \cup {Unproven(d)}
    <3>1. proof[d][m].left - 1 \in Int /\ proof[d][m].left - 1 >= 0
      BY <1>2 DEF ProofRetry, TypeOK, ProofState
    <3> QED
      BY <3>1, AttemptOutcome
  <2> HIDE DEF after
  <2> QED
    BY <1>0, <2>1, <2>2 DEF TypeOK
<1>3. ASSUME NEW m \in Lanes, NEW reason \in Reasons, latches' = Trip(m, Permanent(reason))
      PROVE  FALSE
  BY <1>0, <1>3 DEF Trip, TypeOK
<1>4. {"duplicate", "launch_unproven", "terminal_unproven", "sink_failed",
       "release_rejected", "gate_reported", "fatal_containment", "gate_loss"}
         \subseteq Reasons
  BY DEF Reasons
<1>5. ASSUME NEW d \in Conns, NEW r \in Runs, NEW k \in Kinds, Frame(d, r, k)
      PROVE  FALSE
  <2>1. LaneOfKind(k) \in Lanes
    BY DEF LaneOfKind
  <2>2. \/ UNCHANGED latches
        \/ latches' = Trip(LaneOfKind(k), Permanent("duplicate"))
        \/ latches' = Trip(LaneOfKind(k), Permanent("launch_unproven"))
    BY <1>5 DEF Frame, DuplicateFrame, RefusedFrame, StartFrame, UnprovenLaunchFrame
  <2> QED
    BY <2>1, <2>2, <1>3, <1>4
<1>6. ASSUME NEW r \in Runs, NEW seen \in BOOLEAN, RunClose(r, seen) PROVE FALSE
  <2>1. lane[r] \in Lanes
    BY DEF TypeOK
  <2>2. \/ UNCHANGED latches
        \/ latches' = Trip(lane[r], Permanent("terminal_unproven"))
        \/ latches' = Trip(lane[r], Permanent("release_rejected"))
    BY <1>6 DEF RunClose
  <2> QED
    BY <2>1, <2>2, <1>3, <1>4
<1>7. ASSUME NEW w \in Workers, NEW seen \in BOOLEAN, NEW sinkFails \in BOOLEAN,
             WorkClose(w, seen, sinkFails)
      PROVE  FALSE
  BY <1>3, <1>4, <1>7 DEF WorkClose
<1>8. ASSUME NEW w \in Workers, WorkStart(w) \/ WorkStartUnproven(w) PROVE FALSE
  BY <1>3, <1>4, <1>8 DEF WorkStart, WorkStartUnproven
<1>9. ASSUME NEW d \in Conns, NEW reason \in {"gate_reported", "fatal_containment"},
             QuarantineFrame(d, reason)
      PROVE  FALSE
  BY <1>3, <1>4, <1>9 DEF QuarantineFrame
<1>10. ASSUME GateLoss PROVE FALSE
  BY <1>3, <1>4, <1>10 DEF GateLoss
<1>11. ASSUME UNCHANGED latches PROVE FALSE
  BY <1>11
<1>12. \E d \in Conns : \E dead \in SUBSET active[d], seen \in SUBSET active[d] :
           ConnClose(d, dead, seen)
  <2>1. ASSUME NEW d \in Conns, Open(d) PROVE FALSE
    BY <1>11, <2>1 DEF Open
  <2>2. ASSUME NEW t \in Tenants, ChildExit(t) PROVE FALSE
    BY <1>11, <2>2 DEF ChildExit
  <2>3. ~UNCHANGED vars
    BY <1>11 DEF vars
  <2> QED
    BY <1>2, <1>5, <1>6, <1>7, <1>8, <1>9, <1>10, <2>1, <2>2, <2>3 DEF Next
<1> QED
  BY <1>1, <1>12

\* The timer of a proof loop: what it strikes off is gone.
LEMMA RetryLeaves ==
    ASSUME TypeOK, NEW c \in Conns, NEW l \in Lanes, Lost(c) \in latches[l],
           NEW seen \in SUBSET proof[c][l].pending, ProofRetry(c, l, seen)
    PROVE  /\ UNCHANGED <<tree, lane, home, closing, conn, active, activeAssist>>
           /\ \A t \in seen : tree[t] = "gone"
           /\ Lost(c) \in latches'[l] => proof'[c][l].pending = proof[c][l].pending \ seen
           /\ \/ Lost(c) \in latches'[l] \/ Unproven(c) \in latches'[l]
              \/ proof[c][l].pending \subseteq seen
<1> DEFINE after == AfterAttempt(c, latches[l], proof[c][l].pending \ seen,
                                 proof[c][l].blind, proof[c][l].left - 1)
<1>1. /\ latches' = [latches EXCEPT ![l] = after.latches]
      /\ proof' = [proof EXCEPT ![c] = [proof[c] EXCEPT ![l] = after.proof]]
      /\ UNCHANGED <<tree, lane, home, closing, conn, active, activeAssist>>
      /\ \A t \in seen : tree[t] = "gone"
  BY DEF ProofRetry
<1>2. Lost(c) # Unproven(c)
  BY DEF Lost, Unproven
<1>3. /\ Lost(c) \in after.latches => after.proof.pending = proof[c][l].pending \ seen
      /\ \/ Lost(c) \in after.latches \/ Unproven(c) \in after.latches
         \/ proof[c][l].pending \subseteq seen
  BY <1>2 DEF AfterAttempt
<1> HIDE DEF after
<1>4. latches'[l] = after.latches /\ proof'[c][l] = after.proof
  BY <1>1 DEF TypeOK
<1> QED
  BY <1>1, <1>3, <1>4

\* Closing a connection that answers for a run on the lane: its loop asks about
\* every such run that did not provably end.
LEMMA CloseLeaves ==
    ASSUME TypeOK, NEW c \in Conns, NEW l \in Lanes, Doomed(c, l) # {},
           NEW dead, NEW seen, ConnClose(c, dead, seen)
    PROVE  /\ UNCHANGED <<lane, home, closing>>
           /\ \A t \in Tenants : tree'[t] = "live" => tree[t] = "live" /\ t \notin seen
           /\ Lost(c) \in latches'[l] => proof'[c][l].pending = Doomed(c, l) \ seen
           /\ \/ Lost(c) \in latches'[l] \/ Unproven(c) \in latches'[l]
              \/ Doomed(c, l) \subseteq seen
<1> DEFINE after == AfterAttempt(c, latches[l] \cup {Lost(c)}, Doomed(c, l) \ seen,
                                 Doomed(c, l) \ closing, MaxAttempts - 1)
<1>1. /\ UNCHANGED <<lane, home, closing>>
      /\ \A t \in Tenants : tree'[t] = "live" => tree[t] = "live" /\ t \notin seen
  BY DEF ConnClose, TypeOK
<1>2. latches'[l] = after.latches /\ proof'[c][l] = after.proof
  BY DEF ConnClose, TypeOK
<1>3. Lost(c) # Unproven(c)
  BY DEF Lost, Unproven
<1>4. /\ Lost(c) \in after.latches => after.proof.pending = Doomed(c, l) \ seen
      /\ \/ Lost(c) \in after.latches \/ Unproven(c) \in after.latches
         \/ Doomed(c, l) \subseteq seen
  BY <1>3 DEF AfterAttempt
<1> HIDE DEF after
<1> QED
  BY <1>1, <1>2, <1>4

\* A lane latched for a lost connection keeps waiting for what lives there.
LEMMA WatchedStep == WInv /\ [Next]_vars => Watched'
<1> SUFFICES ASSUME WInv, [Next]_vars,
                    NEW c \in Conns, NEW l \in Lanes, Lost(c) \in latches'[l], ~Final(l)',
                    NEW t \in Tenants, tree'[t] = "live", lane'[t] = l
             PROVE  t \in proof'[c][l].pending
  BY DEF Watched
<1>0. ~Final(l) /\ TypeOK /\ WorkOnAgent
  BY FinalStays DEF WInv, IInv
<1>1. CASE Lost(c) \in latches[l]
  <2>1. tree[t] = "live" /\ lane[t] = l
    BY <1>0, <1>1, NothingNewOn DEF Quarantined
  <2>2. t \in proof[c][l].pending
    BY <1>0, <1>1, <2>1 DEF WInv, Watched
  <2>3. ASSUME NEW seen \in SUBSET proof[c][l].pending, ProofRetry(c, l, seen)
        PROVE  t \in proof'[c][l].pending
    BY <1>0, <1>1, <2>1, <2>2, <2>3, RetryLeaves
  <2>4. CASE \A seen \in SUBSET proof[c][l].pending : ~ProofRetry(c, l, seen)
    BY <1>0, <1>1, <2>2, <2>4, LoopMoves DEF WInv
  <2> QED
    BY <2>3, <2>4
<1>2. CASE Lost(c) \notin latches[l]
  <2>1. PICK dead, seen \in SUBSET active[c] :
            ConnClose(c, dead, seen) /\ Doomed(c, l) # {}
    BY <1>0, <1>2, LostAppears
  <2>2. /\ tree[t] = "live" /\ t \notin seen /\ lane[t] = l
        /\ proof'[c][l].pending = Doomed(c, l) \ seen
    <3>1. /\ UNCHANGED <<lane, home, closing>>
          /\ \A u \in Tenants : tree'[u] = "live" => tree[u] = "live" /\ u \notin seen
          /\ Lost(c) \in latches'[l] => proof'[c][l].pending = Doomed(c, l) \ seen
      BY <1>0, <2>1, CloseLeaves
    <3> QED
      BY <3>1
  <2>3. PICK r \in Doomed(c, l) : r \in closing /\ lane[r] = l
    BY <1>0, <2>1 DEF WInv, Answered
  <2>4. r \in Tenants
    BY <1>0, <2>3 DEF Doomed, TypeOK
  <2>5. lease[l] = t /\ lease[l] = r
    BY <2>2, <2>3, <2>4 DEF WInv, IInv, Holds
  <2> QED
    BY <2>2, <2>3, <2>5
<1> QED
  BY <1>1, <1>2

\* Who answers for a lane and who watches it, in every state.
LEMMA WStep == WInv /\ [Next]_vars => WInv'
<1> SUFFICES ASSUME WInv, [Next]_vars PROVE WInv'
  OBVIOUS
<1>1. IInv'
  BY InvStep DEF WInv
<1>2. LoopInv'
  BY LatchStep DEF WInv, IInv
<1>3. Answered' /\ NoStray'
  BY AnsweredStep DEF WInv
<1>4. Watched'
  BY WatchedStep
<1> QED
  BY <1>1, <1>2, <1>3, <1>4 DEF WInv

\* The invariant about lost connections, whatever the gate sends.
THEOREM LostInvariance == Spec => []WInv
<1>1. Init => LoopInv /\ Answered /\ NoStray /\ Watched
  BY DEF Init, LoopInv, Answered, NoStray, Watched, Doomed, NoProof
<1>2. Init /\ IInv => WInv
  BY <1>1 DEF WInv
<1> QED
  BY <1>2, WStep, Invariance, PTL DEF Spec

\* A lane reopens only when nothing lives on it: what the proof loop of a lost
\* connection struck off one by one was all there was, whichever other
\* connections, workers and exits came between (cleanup and its timer).
THEOREM OpensEmpty == Spec => ReopensEmpty
<1>1. ASSUME WInv, [Next]_vars, NEW l \in Lanes, latches[l] # {}, latches'[l] = {},
             NEW t \in Tenants, lane[t] = l
      PROVE  tree'[t] # "live"
  <2>0. TypeOK /\ LoopInv /\ WorkOnAgent /\ ~Final(l)
    BY <1>1, FinalStays DEF WInv, IInv, Final
  <2>1. PICK c \in Conns : Lost(c) \in latches[l]
    BY <1>1, <2>0, LatchStep
  <2>2. PICK seen \in SUBSET proof[c][l].pending : ProofRetry(c, l, seen)
    BY <1>1, <2>0, <2>1, LoopMoves
  <2>3. /\ tree' = tree /\ proof[c][l].pending \subseteq seen
        /\ \A r \in seen : tree[r] = "gone"
    BY <1>1, <2>0, <2>1, <2>2, RetryLeaves
  <2>4. tree[t] = "live" => t \in proof[c][l].pending
    BY <1>1, <2>0, <2>1 DEF WInv, Watched
  <2> QED
    BY <2>3, <2>4
<1>2. WInv /\ [Next]_vars =>
        [\A l \in Lanes : latches[l] # {} /\ latches'[l] = {}
             => \A t \in Tenants : lane[t] = l => tree'[t] # "live"]_vars
  BY <1>1
<1> QED
  BY <1>2, LostInvariance, PTL DEF Spec, ReopensEmpty

-----------------------------------------------------------------------------
\* A run keeps to the lane of its engines, and only the assistant's runs enter
\* activeAssistRuns.
LEMMA OwnStep ==
    ASSUME TypeOK, OwnLane, OwnAssist, [Next]_vars
    PROVE  OwnLane' /\ OwnAssist'
<1>1. ASSUME NEW c \in Conns, NEW r \in Runs, NEW k \in Kinds, Frame(c, r, k)
      PROVE  OwnLane' /\ OwnAssist'
  <2>1. k \in KindsOf[r]
    BY <1>1 DEF Frame, DuplicateFrame, RefusedFrame, StartFrame, UnprovenLaunchFrame,
                Admitted
  <2>2. \/ UNCHANGED <<lane, home>>
        \/ /\ lane' = [lane EXCEPT ![r] = LaneOfKind(k)]
           /\ home' = [home EXCEPT ![r] = c]
    BY <1>1 DEF Frame, DuplicateFrame, RefusedFrame, StartFrame, UnprovenLaunchFrame,
                TakeLane
  <2>3. \/ UNCHANGED activeAssist
        \/ activeAssist' = [activeAssist EXCEPT ![c] = @ \ {r}]
        \/ k = "assist" /\ activeAssist' = [activeAssist EXCEPT ![c] = @ \cup {r}]
    BY <1>1 DEF Frame, DuplicateFrame, RefusedFrame, StartFrame, UnprovenLaunchFrame
  <2>4. OwnLane'
    BY <2>1, <2>2 DEF OwnLane, TypeOK
  <2>5. OwnAssist'
    BY <2>1, <2>3 DEF OwnAssist, TypeOK
  <2> QED
    BY <2>4, <2>5
<1>2. ASSUME UNCHANGED home, \A r \in Runs : lane'[r] = lane[r],
             \A c \in Conns : activeAssist'[c] \subseteq activeAssist[c]
      PROVE  OwnLane' /\ OwnAssist'
  BY <1>2 DEF OwnLane, OwnAssist
<1>3. ASSUME NEW c \in Conns,
             \/ Open(c)
             \/ \E reason \in {"gate_reported", "fatal_containment"} :
                    QuarantineFrame(c, reason)
             \/ \E m \in Lanes : \E seen \in SUBSET proof[c][m].pending :
                    ProofRetry(c, m, seen)
      PROVE  OwnLane' /\ OwnAssist'
  BY <1>2, <1>3 DEF Open, QuarantineFrame, ProofRetry
<1>4. ASSUME NEW r \in Runs, NEW seen \in BOOLEAN, RunClose(r, seen)
      PROVE  OwnLane' /\ OwnAssist'
  BY <1>2, <1>4 DEF RunClose
<1>5. ASSUME NEW c \in Conns, NEW dead \in SUBSET active[c],
             NEW seen \in SUBSET active[c], ConnClose(c, dead, seen)
      PROVE  OwnLane' /\ OwnAssist'
  BY <1>2, <1>5 DEF ConnClose, TypeOK
<1>6. ASSUME NEW w \in Workers,
             \/ WorkStart(w) \/ WorkStartUnproven(w)
             \/ \E seen, sinkFails \in BOOLEAN : WorkClose(w, seen, sinkFails)
      PROVE  OwnLane' /\ OwnAssist'
  <2>1. \A r \in Runs : r # w
    OBVIOUS
  <2>2. /\ UNCHANGED <<activeAssist, home>>
        /\ UNCHANGED lane \/ lane' = [lane EXCEPT ![w] = "agent"]
    BY <1>6 DEF WorkStart, WorkStartUnproven, TakeForWork, WorkClose, connVars
  <2> QED
    BY <2>1, <2>2, <1>2 DEF TypeOK
<1>7. ASSUME NEW t \in Tenants, ChildExit(t) PROVE OwnLane' /\ OwnAssist'
  BY <1>2, <1>7 DEF ChildExit, connVars
<1>8. ASSUME NEW w \in Workers, NEW seen \in BOOLEAN, NEW sinkFails \in BOOLEAN,
             WorkClose(w, seen, sinkFails)
      PROVE  OwnLane' /\ OwnAssist'
  BY <1>6, <1>8
<1>9. ASSUME NEW w \in Workers, WorkStart(w) \/ WorkStartUnproven(w)
      PROVE  OwnLane' /\ OwnAssist'
  BY <1>6, <1>9
<1>10. CASE GateLoss \/ UNCHANGED vars
  BY <1>2, <1>10 DEF GateLoss, connVars, vars
<1> QED
  BY <1>1, <1>3, <1>4, <1>5, <1>7, <1>8, <1>9, <1>10 DEF Next

\* A run keeps being answered for, by its connection, by that connection's
\* proof loop, or by the latch that names it.
LEMMA KnownStep ==
    ASSUME EngineKeepsLane, OInv, [Next]_vars,
           NEW r \in Runs, NEW c \in Conns, NEW l \in Lanes, tree'[r] = "live",
           home'[r] = c, lane'[r] = l, ~Final(l)'
    PROVE  AnswersFor(c, l, r)'
<1>0. TypeOK /\ WorkOnAgent /\ LoopInv /\ TypeOK'
  BY TypeStep DEF OInv, WInv, IInv
<1>a. ~Final(l)
  BY <1>0, FinalStays
<1>b. Unproven(c) \in latches[l] => Unproven(c) \in latches'[l]
  <2>1. \A d \in Conns : Unproven(c) # Lost(d)
    BY DEF Unproven, Lost
  <2> QED
    BY <1>0, <2>1, LatchStep
\* A run that was live where it is now was answered for, and its close event is
\* to come.
<1>c. tree[r] = "live" /\ lane[r] = l => r \in closing
  BY <1>a DEF OInv, WInv, IInv, Holds, Accounted
<1>d. tree[r] = "live" /\ lane[r] = l /\ home[r] = c => AnswersFor(c, l, r)
  BY <1>a, ConnAssumption DEF OInv, Known
\* Nothing happens to the run or to what answers for it.
<1>e. ASSUME tree[r] = "live", lane[r] = l, home[r] = c,
             conn[c] # "closed" => conn'[c] # "closed",
             r \in Doomed(c, l) => r \in Doomed(c, l)',
             \/ proof'[c][l] = proof[c][l]
             \/ \A seen \in SUBSET proof[c][l].pending : ~ProofRetry(c, l, seen)
      PROVE  AnswersFor(c, l, r)'
  <2>1. CASE Lost(c) \in latches[l] /\ r \in proof[c][l].pending
    <3>1. proof'[c][l] = proof[c][l] /\ Lost(c) \in latches'[l]
      BY <1>0, <1>e, <2>1, LoopMoves
    <3> QED
      BY <2>1, <3>1 DEF AnswersFor
  <2>2. CASE conn[c] # "closed" /\ r \in Doomed(c, l)
    BY <1>e, <2>2 DEF AnswersFor
  <2>3. CASE Unproven(c) \in latches[l]
    BY <1>b, <2>3 DEF AnswersFor
  <2> QED
    BY <1>d, <1>e, <2>1, <2>2, <2>3 DEF AnswersFor
\* The same, when the sets and the loops stay as they are.
<1>f. ASSUME tree'[r] = "live" => tree[r] = "live", lane'[r] = lane[r],
             UNCHANGED <<home, active, activeAssist, proof>>,
             conn[c] # "closed" => conn'[c] # "closed"
      PROVE  AnswersFor(c, l, r)'
  BY <1>e, <1>f DEF Doomed
<1>1. ASSUME NEW d \in Conns, NEW q \in Runs, NEW k \in Kinds, Frame(d, q, k)
      PROVE  AnswersFor(c, l, r)'
  <2>0. /\ LaneOfKind(k) \in Lanes /\ (LaneOfKind(k) = "assist" <=> k = "assist")
        /\ {"duplicate", "launch_unproven"} \subseteq Reasons
    BY DEF LaneOfKind, Reasons
  <2>1. conn[d] = "open" /\ k \in KindsOf[q] /\ UNCHANGED proof
    BY <1>1 DEF Frame, DuplicateFrame, RefusedFrame, StartFrame, UnprovenLaunchFrame,
                Admitted
  <2>2. CASE DuplicateFrame(d, q, k)
    <3>1. /\ UNCHANGED <<tree, lane, home, active>>
          /\ conn' = [conn EXCEPT ![d] = "doomed"]
          /\ \/ UNCHANGED activeAssist
             \/ activeAssist' = [activeAssist EXCEPT ![d] = @ \cup {q}]
          /\ Final(LaneOfKind(k))'
      BY <2>0, <2>2, <1>0 DEF DuplicateFrame, Trip, Final, TypeOK
    <3>2. tree[r] = "live" /\ lane[r] = l /\ home[r] = c
      BY <3>1
    <3>3. CASE q = r
      <4>1. PICK j \in KindsOf[r] : l = LaneOfKind(j)
        BY <3>2, ConnAssumption DEF OInv, OwnLane
      <4>2. l = LaneOfKind(k)
        BY <2>1, <3>3, <4>1 DEF EngineKeepsLane
      <4> QED
        BY <3>1, <4>2
    <3>4. CASE q # r
      <4>1. r \in Doomed(c, l) => r \in Doomed(c, l)'
        BY <3>1, <3>4, <1>0 DEF Doomed, TypeOK
      <4>2. conn[c] # "closed" => conn'[c] # "closed"
        BY <3>1, <1>0 DEF TypeOK
      <4> QED
        BY <2>1, <3>2, <4>1, <4>2, <1>e
    <3> QED
      BY <3>3, <3>4
  <2>3. CASE RefusedFrame(d, q, k)
    <3>1. /\ UNCHANGED <<tree, lane, home, conn>>
          /\ \A b \in Conns :
               /\ active'[b] = IF b = d THEN active[b] \ {q} ELSE active[b]
               /\ activeAssist'[b] = IF b = d THEN activeAssist[b] \ {q}
                                              ELSE activeAssist[b]
          /\ q \notin closing
      BY <2>3, <1>0 DEF RefusedFrame, Duplicate, TypeOK
    <3>2. q # r
      BY <3>1, <1>c
    <3>3. r \in Doomed(c, l) => r \in Doomed(c, l)'
      BY <3>1, <3>2 DEF Doomed
    <3> QED
      BY <2>1, <3>1, <3>3, <1>e
  <2>4. CASE UnprovenLaunchFrame(d, q, k)
    <3>1. PICK a \in {"live", "gone"} : TakeLane(d, q, LaneOfKind(k), a)
      BY <2>4 DEF UnprovenLaunchFrame
    <3>2. /\ Final(LaneOfKind(k))' /\ UNCHANGED conn
          /\ \A b \in Conns, p \in Runs : p # q =>
               /\ p \in active'[b] <=> p \in active[b]
               /\ p \in activeAssist'[b] <=> p \in activeAssist[b]
      BY <2>0, <2>4, <1>0 DEF UnprovenLaunchFrame, Trip, Final, TypeOK
    <3>3. /\ lane'[q] = LaneOfKind(k)
          /\ r # q => tree'[r] = tree[r] /\ lane'[r] = lane[r] /\ home'[r] = home[r]
      BY <3>1, <1>0 DEF TakeLane, TypeOK
    <3>4. r # q
      BY <3>2, <3>3, <2>0
    <3>5. r \in Doomed(c, l) => r \in Doomed(c, l)'
      BY <3>2, <3>4 DEF Doomed
    <3> QED
      BY <2>1, <3>2, <3>3, <3>4, <3>5, <1>e
  <2>5. CASE StartFrame(d, q, k)
    <3>1. /\ TakeLane(d, q, LaneOfKind(k), "live") /\ UNCHANGED conn
          /\ active' = [active EXCEPT ![d] = @ \cup {q}]
          /\ activeAssist' = IF k = "assist"
                               THEN [activeAssist EXCEPT ![d] = @ \cup {q}]
                               ELSE activeAssist
      BY <2>5 DEF StartFrame
    <3>2. /\ lane'[q] = LaneOfKind(k) /\ home'[q] = d
          /\ r # q => tree'[r] = tree[r] /\ lane'[r] = lane[r] /\ home'[r] = home[r]
      BY <3>1, <1>0 DEF TakeLane, TypeOK
    <3>3. CASE r # q
      <4>1. r \in Doomed(c, l) => r \in Doomed(c, l)'
        BY <3>1, <3>3, <1>0 DEF Doomed, TypeOK
      <4> QED
        BY <2>1, <3>1, <3>2, <3>3, <4>1, <1>e
    <3>4. CASE r = q
      <4>1. c = d /\ l = LaneOfKind(k) /\ conn'[c] # "closed"
        BY <2>1, <3>1, <3>2, <3>4
      <4>2. k # "assist" => r \notin activeAssist[d]
        <5>1. ASSUME r \in activeAssist[d] PROVE LaneOfKind(k) = LaneOfKind("assist")
          BY <2>1, <3>4, <5>1 DEF OInv, OwnAssist, EngineKeepsLane
        <5> QED
          BY <2>0, <5>1 DEF LaneOfKind
      <4>3. r \in active'[d] /\ (r \in activeAssist'[d] <=> k = "assist")
        BY <3>1, <3>4, <4>2, <1>0 DEF TypeOK
      <4>4. r \in Doomed(c, l)'
        BY <2>0, <4>1, <4>3 DEF Doomed
      <4> QED
        BY <4>1, <4>4 DEF AnswersFor
    <3> QED
      BY <3>3, <3>4
  <2> QED
    BY <1>1, <2>2, <2>3, <2>4, <2>5 DEF Frame
<1>2. ASSUME NEW q \in Runs, NEW seen \in BOOLEAN, RunClose(q, seen)
      PROVE  AnswersFor(c, l, r)'
  <2>1. /\ UNCHANGED <<tree, lane, home, conn, proof>>
        /\ seen => tree[q] = "gone"
        /\ ~seen => UNCHANGED <<active, activeAssist>>
    BY <1>2, <1>0 DEF RunClose, TypeOK
  <2>2. \A p \in Runs, b \in Conns : p # q =>
          /\ p \in active'[b] <=> p \in active[b]
          /\ p \in activeAssist'[b] <=> p \in activeAssist[b]
    BY <1>2 DEF RunClose
  <2>3. CASE ~seen
    BY <2>1, <2>3, <1>f
  <2>4. CASE seen
    <3>1. r # q
      BY <2>1, <2>4
    <3>2. r \in Doomed(c, l) => r \in Doomed(c, l)'
      BY <2>2, <3>1 DEF Doomed
    <3> QED
      BY <2>1, <3>2, <1>e
  <2> QED
    BY <2>3, <2>4
<1>3. ASSUME NEW d \in Conns, NEW dead \in SUBSET active[d],
             NEW seen \in SUBSET active[d], ConnClose(d, dead, seen)
      PROVE  AnswersFor(c, l, r)'
  <2>1. /\ UNCHANGED <<lane, home>>
        /\ \A t \in Tenants : tree'[t] = "live" => tree[t] = "live" /\ t \notin seen
        /\ conn[d] # "closed" /\ conn' = [conn EXCEPT ![d] = "closed"]
        /\ active' = [active EXCEPT ![d] = {}]
        /\ activeAssist' = [activeAssist EXCEPT ![d] = {}]
        /\ \A b \in Conns \ {d} : proof'[b] = proof[b]
    <3>1. /\ UNCHANGED <<lane, home>>
          /\ conn[d] # "closed" /\ conn' = [conn EXCEPT ![d] = "closed"]
          /\ active' = [active EXCEPT ![d] = {}]
          /\ activeAssist' = [activeAssist EXCEPT ![d] = {}]
      BY <1>3 DEF ConnClose
    <3>2. \A t \in Tenants : tree'[t] = "live" => tree[t] = "live" /\ t \notin seen
      BY <1>3 DEF ConnClose
    <3>3. \A b \in Conns \ {d} : proof'[b] = proof[b]
      <4>1. PICK after : proof' = [proof EXCEPT ![d] = after]
        BY <1>3 DEF ConnClose
      <4> QED
        BY <4>1, <1>0 DEF TypeOK
    <3> QED
      BY <3>1, <3>2, <3>3
  <2>2. tree[r] = "live" /\ lane[r] = l /\ home[r] = c /\ r \notin seen
    BY <2>1
  <2>3. CASE d # c
    <3>1. /\ conn'[c] = conn[c] /\ proof'[c] = proof[c]
          /\ active'[c] = active[c] /\ activeAssist'[c] = activeAssist[c]
      BY <2>1, <2>3, <1>0 DEF TypeOK
    <3> QED
      BY <2>2, <3>1, <1>e DEF Doomed
  <2>4. CASE d = c
    <3>1. Lost(c) \notin latches[l]
      BY <2>1, <2>4, <1>0 DEF LoopInv
    <3>2. CASE Unproven(c) \in latches[l]
      BY <3>2, <1>b DEF AnswersFor
    <3>3. CASE r \in Doomed(c, l)
      <4>1. /\ Lost(c) \in latches'[l] => proof'[c][l].pending = Doomed(c, l) \ seen
            /\ \/ Lost(c) \in latches'[l] \/ Unproven(c) \in latches'[l]
               \/ Doomed(c, l) \subseteq seen
        BY <1>0, <1>3, <2>4, <3>3, CloseLeaves
      <4> QED
        BY <2>2, <3>3, <4>1 DEF AnswersFor
    <3> QED
      BY <2>2, <3>1, <3>2, <3>3, <1>d DEF AnswersFor
  <2> QED
    BY <2>3, <2>4
<1>4. ASSUME NEW d \in Conns, NEW m \in Lanes,
             NEW seen \in SUBSET proof[d][m].pending, ProofRetry(d, m, seen)
      PROVE  AnswersFor(c, l, r)'
  <2>1. /\ UNCHANGED <<tree, lane, home, conn, active, activeAssist>>
        /\ \A t \in seen : tree[t] = "gone"
        /\ \E after : proof' = [proof EXCEPT ![d] = [proof[d] EXCEPT ![m] = after]]
    BY <1>4 DEF ProofRetry
  <2>2. tree[r] = "live" /\ lane[r] = l /\ home[r] = c /\ r \notin seen
    BY <2>1
  <2>3. CASE d # c \/ m # l
    <3>1. proof'[c][l] = proof[c][l]
      BY <2>1, <2>3, <1>0 DEF TypeOK
    <3> QED
      BY <2>1, <2>2, <3>1, <1>e DEF Doomed
  <2>4. CASE d = c /\ m = l
    <3>1. CASE Lost(c) \in latches[l] /\ r \in proof[c][l].pending
      <4>1. /\ Lost(c) \in latches'[l] => proof'[c][l].pending = proof[c][l].pending \ seen
            /\ \/ Lost(c) \in latches'[l] \/ Unproven(c) \in latches'[l]
               \/ proof[c][l].pending \subseteq seen
        BY <1>0, <1>4, <2>4, <3>1, RetryLeaves
      <4> QED
        BY <2>2, <3>1, <4>1 DEF AnswersFor
    <3>2. CASE conn[c] # "closed" /\ r \in Doomed(c, l)
      BY <2>1, <3>2 DEF AnswersFor, Doomed
    <3>3. CASE Unproven(c) \in latches[l]
      BY <3>3, <1>b DEF AnswersFor
    <3> QED
      BY <2>2, <3>1, <3>2, <3>3, <1>d DEF AnswersFor
  <2> QED
    BY <2>3, <2>4
<1>5. ASSUME NEW d \in Conns, Open(d) PROVE AnswersFor(c, l, r)'
  <2>1. /\ UNCHANGED <<tree, lane, home, active, activeAssist, proof>>
        /\ conn' = [conn EXCEPT ![d] = "open"]
    BY <1>5 DEF Open
  <2> QED
    BY <2>1, <1>0, <1>f DEF TypeOK
<1>6. ASSUME NEW w \in Workers,
             \/ WorkStart(w) \/ WorkStartUnproven(w)
             \/ \E seen, sinkFails \in BOOLEAN : WorkClose(w, seen, sinkFails)
      PROVE  AnswersFor(c, l, r)'
  <2>1. r # w
    OBVIOUS
  <2>2. /\ UNCHANGED <<home, conn, active, activeAssist, proof>>
        /\ UNCHANGED lane \/ lane' = [lane EXCEPT ![w] = "agent"]
        /\ UNCHANGED tree \/ \E a : tree' = [tree EXCEPT ![w] = a]
    BY <1>6 DEF WorkStart, WorkStartUnproven, TakeForWork, WorkClose, connVars
  <2> QED
    BY <2>1, <2>2, <1>0, <1>f DEF TypeOK
<1>7. ASSUME NEW t \in Tenants, ChildExit(t) PROVE AnswersFor(c, l, r)'
  BY <1>0, <1>7, <1>f DEF ChildExit, connVars, TypeOK
<1>8. ASSUME NEW d \in Conns, NEW reason \in {"gate_reported", "fatal_containment"},
             QuarantineFrame(d, reason)
      PROVE  AnswersFor(c, l, r)'
  BY <1>8, <1>f DEF QuarantineFrame
<1>9. CASE GateLoss \/ UNCHANGED vars
  BY <1>9, <1>f DEF GateLoss, connVars, vars
<1>10. ASSUME NEW w \in Workers, NEW seen \in BOOLEAN, NEW sinkFails \in BOOLEAN,
              WorkClose(w, seen, sinkFails)
       PROVE  AnswersFor(c, l, r)'
  BY <1>6, <1>10
<1>11. ASSUME NEW w \in Workers, WorkStart(w) \/ WorkStartUnproven(w)
       PROVE  AnswersFor(c, l, r)'
  BY <1>6, <1>11
<1> QED
  BY <1>1, <1>2, <1>3, <1>4, <1>5, <1>7, <1>8, <1>9, <1>10, <1>11 DEF Next

\* As long as the gate keeps a run to the engines of one lane, a run that is
\* still alive after the connection that started it has gone keeps its lane
\* latched: cleanup latches the lane its kind points to before it signals
\* anything, and the latch goes only on proof or for one that names the run.
\* (A gate that mixes engines under one runId defeats this; see the run
\* orphan_any_engine.)
THEOREM OrphansLatched ==
    ASSUME EngineKeepsLane PROVE Spec => []OrphanQuarantined
<1>1. Init => OwnLane /\ OwnAssist /\ Known
  BY DEF Init, OwnLane, OwnAssist, Known
<1>2. Init /\ WInv => OInv
  BY <1>1 DEF OInv
<1>3. OInv /\ [Next]_vars => OInv'
  <2> SUFFICES ASSUME OInv, [Next]_vars PROVE OInv'
    OBVIOUS
  <2>1. WInv'
    BY WStep DEF OInv
  <2>2. OwnLane' /\ OwnAssist'
    BY OwnStep DEF OInv, WInv, IInv
  <2>3. ASSUME NEW r \in Runs, tree'[r] = "live", home'[r] # NoConn, ~Final(lane[r])'
        PROVE  AnswersFor(home[r], lane[r], r)'
    <3>1. PICK c \in Conns, l \in Lanes : home'[r] = c /\ lane'[r] = l
      BY <2>1, <2>3 DEF WInv, IInv, TypeOK
    <3>2. ~Final(l)'
      BY <2>3, <3>1
    <3>3. AnswersFor(c, l, r)'
      BY <2>3, <3>1, <3>2, KnownStep
    <3> QED
      BY <3>1, <3>3
  <2> QED
    BY <2>1, <2>2, <2>3 DEF OInv, Known
<1>4. OInv => OrphanQuarantined
  BY DEF OInv, Known, AnswersFor, OrphanQuarantined, Quarantined, Final
<1> QED
  BY <1>2, <1>3, <1>4, LostInvariance, PTL DEF Spec

=============================================================================
