------------------------- MODULE WorkJournal_proofs -------------------------
(***************************************************************************)
(* What the journal and the stores of the work authority hold, for every   *)
(* set of runs, claims and workers: the type of every record any prefix of *)
(* a handler's writes leaves, that what has ended stays ended, that a      *)
(* claim in flight is backed, and that nothing lives on for a claim the    *)
(* gate has released.                                                      *)
(***************************************************************************)
EXTENDS WorkAuthority_proofs, FiniteSums

-----------------------------------------------------------------------------
(* What a replay leaves of a key                                           *)

\* A finite set of numbers has a largest one.
LEMMA HasLast ==
    \A H : IsFiniteSet(H) => (H \subseteq Nat /\ H # {} => \E i \in H : \A j \in H : j <= i)
<1> SUFFICES ASSUME NEW H, IsFiniteSet(H)
             PROVE  H \subseteq Nat /\ H # {} => \E i \in H : \A j \in H : j <= i
  OBVIOUS
<1> DEFINE Lowest(B) == \E t \in B : \A u \in B : ~(u \subseteq t /\ u # t)
<1>1. \A B : B \subseteq SUBSET H /\ B # {} => Lowest(B)
  BY Smallest
<1> SUFFICES ASSUME H \subseteq Nat, H # {} PROVE \E i \in H : \A j \in H : j <= i
  OBVIOUS
<1> DEFINE after(i) == {j \in H : i < j}
           B == {u \in SUBSET H : \E i \in H : u = after(i)}
<1>2. B \subseteq SUBSET H
  OBVIOUS
<1>3. B # {}
  <2>1. PICK i \in H : TRUE
    OBVIOUS
  <2>2. after(i) \in B
    BY <2>1
  <2> QED
    BY <2>2
<1>4. Lowest(B)
  <2> HIDE DEF B, Lowest
  <2> QED
    BY <1>1, <1>2, <1>3
<1>5. PICK t \in B : \A u \in B : ~(u \subseteq t /\ u # t)
  BY <1>4
<1>6. PICK i \in H : t = after(i)
  OBVIOUS
<1>7. ASSUME NEW j \in H, i < j PROVE FALSE
  <2>1. j \in t /\ j \notin after(j) /\ after(j) \in B
    BY <1>6, <1>7
  <2>2. after(j) \subseteq t
    <3>1. \A m \in H : j < m => i < m
      BY <1>7
    <3> QED
      BY <1>6, <3>1
  <2> QED
    BY <1>5, <2>1, <2>2
<1> QED
  BY <1>7

\* The last write of a key is one of its writes.
LEMMA LatestIn ==
    ASSUME NEW ws, Len(ws) \in Nat, NEW kind, NEW key, NEW V, NEW before \in V,
           \A i \in 1..Len(ws) : ws[i].kind = kind /\ ws[i].key = key => ws[i].val \in V
    PROVE  Latest(ws, kind, key, before) \in V
<1> DEFINE hits == {i \in 1..Len(ws) : ws[i].kind = kind /\ ws[i].key = key}
           last == CHOOSE i \in hits : \A j \in hits : j <= i
<1>1. CASE hits = {}
  BY <1>1 DEF Latest
<1>2. CASE hits # {}
  <2>1. \E i \in hits : \A j \in hits : j <= i
    <3>1. IsFiniteSet(1..Len(ws))
      BY FS_Interval
    <3>2. hits \subseteq 1..Len(ws) /\ hits \subseteq Nat
      OBVIOUS
    <3>3. IsFiniteSet(hits)
      BY <3>1, <3>2, FS_Subset
    <3> HIDE DEF hits
    <3> QED
      BY <1>2, <3>2, <3>3, HasLast
  <2>2. last \in hits
    BY <2>1
  <2>3. Latest(ws, kind, key, before) = ws[last].val
    BY <1>2 DEF Latest
  <2> QED
    BY <2>2, <2>3
<1> QED
  BY <1>1, <1>2

-----------------------------------------------------------------------------
(* Types                                                                   *)

\* A journal record of the stores; what is written under a key they do not
\* have is never read.
TypedPut(p) ==
    /\ p.kind = "run" /\ p.key \in Runs => p.val \in RunStates
    /\ p.kind = "claim" /\ p.key \in Claims => p.val \in ClaimRecord
    /\ p.kind = "budget" /\ p.key \in Workers => p.val \in BudgetStates
    /\ p.kind = "recovery" /\ p.key \in Claims => p.val \in RecoveryStates
    /\ p.kind = "mark" /\ p.key \in Workers => p.val \in Mark
    /\ p.kind = "stop" => p.val \in BOOLEAN
WellTyped(ws) == Len(ws) \in Nat /\ \A i \in 1..Len(ws) : TypedPut(ws[i])

LEMMA TypedJoin ==
    ASSUME NEW s, NEW t, WellTyped(s), WellTyped(t)
    PROVE  WellTyped(s \o t)
<1>1. Len(s) \in Nat /\ Len(t) \in Nat
  BY DEF WellTyped
<1>2. Len(s \o t) \in Nat
  BY <1>1, Joined
<1>3. ASSUME NEW i \in 1..Len(s \o t) PROVE TypedPut((s \o t)[i])
  BY <1>1, Joined DEF WellTyped
<1> QED
  BY <1>2, <1>3 DEF WellTyped

LEMMA TypedShort ==
    /\ WellTyped(<<>>) /\ WellTyped(Audit)
    /\ \A p : TypedPut(p) => WellTyped(<<p>>)
    /\ \A p, q : TypedPut(p) /\ TypedPut(q) => WellTyped(<<p, q>>)
<1>1. TypedPut(Put("audit", NoRun, NoRun))
  BY DEF TypedPut, Put
<1>2. ASSUME NEW p, TypedPut(p) PROVE WellTyped(<<p>>)
  BY <1>2 DEF WellTyped
<1>3. ASSUME NEW p, NEW q, TypedPut(p), TypedPut(q) PROVE WellTyped(<<p, q>>)
  BY <1>3 DEF WellTyped
<1> QED
  BY <1>1, <1>2, <1>3 DEF WellTyped, Audit

\* One record of each kind.
LEMMA TypedPuts ==
    /\ \A r, s : s \in RunStates => TypedPut(Put("run", r, s))
    /\ \A c, record : (c \in Claims => record \in ClaimRecord) => TypedPut(Put("claim", c, record))
    /\ \A w, s : s \in BudgetStates => TypedPut(Put("budget", w, s))
    /\ \A c, s : s \in RecoveryStates => TypedPut(Put("recovery", c, s))
    /\ \A w, m : m \in Mark => TypedPut(Put("mark", w, m))
    /\ \A b \in BOOLEAN : TypedPut(Put("stop", NoRun, b))
  BY DEF TypedPut, Put

\* Any prefix of them leaves a store a store.
LEMMA TypedReplay ==
    ASSUME NEW S \in Store, NEW ws, WellTyped(ws), NEW k \in 0..Len(ws)
    PROVE  Replay(S, Kept(ws, k)) \in Store
<1> DEFINE ks == Kept(ws, k)
<1>1. Len(ks) = k /\ \A i \in 1..k : ks[i] = ws[i] /\ i \in 1..Len(ws)
  BY DEF Kept, WellTyped
<1>2. Len(ks) \in Nat /\ \A i \in 1..Len(ks) : TypedPut(ks[i])
  BY <1>1 DEF WellTyped
<1> HIDE DEF ks
<1>3. \A r \in Runs : Latest(ks, "run", r, S.run[r]) \in RunStates
  BY <1>2, LatestIn DEF Store, TypedPut
<1>4. \A c \in Claims : Latest(ks, "claim", c, S.claim[c]) \in ClaimRecord
  BY <1>2, LatestIn DEF Store, TypedPut
<1>5. \A w \in Workers : Latest(ks, "budget", w, S.budget[w]) \in BudgetStates
  BY <1>2, LatestIn DEF Store, TypedPut
<1>6. \A c \in Claims : Latest(ks, "recovery", c, S.recovery[c]) \in RecoveryStates
  BY <1>2, LatestIn DEF Store, TypedPut
<1>7. \A w \in Workers : Latest(ks, "mark", w, S.mark[w]) \in Mark
  BY <1>2, LatestIn DEF Store, TypedPut
<1>8. Latest(ks, "stop", NoRun, S.stop) \in BOOLEAN
  BY <1>2, LatestIn DEF Store, TypedPut
<1>9. Replay(S, ks) \in Store
  BY <1>3, <1>4, <1>5, <1>6, <1>7, <1>8 DEF Replay, Store
<1> QED
  BY <1>9 DEF ks

\* The stores and the phase after a handler's writes.
Stored == disk' \in Store /\ mem' \in Store /\ phase' \in {"down", "replaying", "ready", "lost"}

LEMMA TypedWrite ==
    ASSUME TypeOK, NEW ws, WellTyped(ws), NEW k \in Cuts(ws), Write(ws, k)
    PROVE  Stored
<1>1. k \in 0..Len(ws)
  BY DEF Cuts, WellTyped
<1>2. disk \in Store /\ mem \in Store
  BY DEF TypeOK
<1>3. disk' \in Store /\ mem' \in Store
  BY <1>1, <1>2, TypedReplay DEF Write
<1> QED
  BY <1>3 DEF Write, Stored, TypeOK

LEMMA TypedRequest ==
    ASSUME TypeOK, NEW ws, WellTyped(ws), Request(ws)
    PROVE  TypeOK'
<1>1. PICK k \in Cuts(ws) : Write(ws, k)
  BY DEF Request
<1>2. Stored
  BY <1>1, TypedWrite
<1> QED
  BY <1>2 DEF Request, Stored, TypeOK

\* The records a handler makes of those of a store.
LEMMA TypedRecords ==
    ASSUME NEW S \in Store, NEW c \in Claims
    PROVE  /\ S.claim[c] \in ClaimRecord /\ Detached(S.claim[c]) \in ClaimRecord
           /\ \A to \in ClaimStates : In(S.claim[c], to) \in ClaimRecord
                                      /\ In(Detached(S.claim[c]), to) \in ClaimRecord
<1>1. S.claim[c] \in ClaimRecord
  BY DEF Store
<1>2. \A record \in ClaimRecord : Detached(record) \in ClaimRecord
  BY DEF Detached, ClaimRecord
<1>3. \A record \in ClaimRecord, to \in ClaimStates : In(record, to) \in ClaimRecord
  BY DEF In, ClaimRecord
<1> QED
  BY <1>1, <1>2, <1>3

LEMMA TypedStates ==
    /\ {"active", "reviewing", "interrupted", "failed", "quarantined", "released"} \subseteq ClaimStates
    /\ {"queued", "parked", "running", "completed", "failed", "cancelled", "interrupted"}
         \subseteq RunStates
    /\ {"reserved", "settled", "refunded"} \subseteq BudgetStates
    /\ {"requested", "stopping", "cleaning", "complete", "quarantined"} \subseteq RecoveryStates
  BY DEF ClaimStates, ClaimLive, Releasable, RunStates, Prelaunch, RunTerminal, BudgetStates,
         RecoveryStates, RecoveryLive

LEMMA TypedMoved ==
    ASSUME TypeOK, NEW r \in Runs, NEW c \in Claims
    PROVE  /\ Moved(r, c) \in ClaimRecord
           /\ \A to \in ClaimStates : In(Moved(r, c), to) \in ClaimRecord
           /\ \A w \in Workers : [Moved(r, c) EXCEPT !.worker = w] \in ClaimRecord
<1>1. Moved(r, c) \in ClaimRecord
  <2>1. CASE ModeOf[r] = "new"
    BY <2>1, TypedStates DEF Moved, ClaimRecord
  <2>2. CASE ModeOf[r] # "new"
    BY <2>2, TypedRecords, TypedStates DEF Moved, TypeOK
  <2> QED
    BY <2>1, <2>2
<1>2. \A record \in ClaimRecord, to \in ClaimStates : In(record, to) \in ClaimRecord
  BY DEF In, ClaimRecord
<1>3. \A record \in ClaimRecord, w \in Workers : [record EXCEPT !.worker = w] \in ClaimRecord
  BY DEF ClaimRecord
<1> QED
  BY <1>1, <1>2, <1>3

LEMMA TypedRequests ==
    ASSUME TypeOK,
           \/ \E r \in Runs : \/ Accept(r) \/ \E to \in RunStates : GateTransition(r, to)
                              \/ \E c \in Claims : StartExhausted(r, c)
           \/ StopEngage \/ StopResume
           \/ \E c \in Claims : ClaimRelease(c) \/ \E to \in ClaimStates : ClaimTransition(c, to)
    PROVE  TypeOK'
<1>0. mem \in Store
  BY DEF TypeOK
<1>1. ASSUME NEW r \in Runs, Accept(r) PROVE TypeOK'
  BY <1>1, TypedRequest, TypedShort, TypedPuts, TypedStates DEF Accept
<1>2. ASSUME NEW r \in Runs, NEW to \in RunStates, GateTransition(r, to) PROVE TypeOK'
  BY <1>2, TypedRequest, TypedShort, TypedPuts DEF GateTransition
<1>3. ASSUME NEW r \in Runs, NEW c \in Claims, StartExhausted(r, c) PROVE TypeOK'
  <2>1. Moved(r, c) \in ClaimRecord /\ In(Moved(r, c), "interrupted") \in ClaimRecord
    BY TypedMoved, TypedStates
  <2>2. WellTyped(<<Put("claim", c, Moved(r, c)), Put("claim", c, In(Moved(r, c), "interrupted"))>>)
    BY <2>1, TypedShort, TypedPuts
  <2> QED
    BY <1>3, <2>2, TypedRequest DEF StartExhausted
<1>4. CASE StopEngage \/ StopResume
  BY <1>4, TypedRequest, TypedShort, TypedPuts DEF StopEngage, StopResume
<1>5. ASSUME NEW c \in Claims, ClaimRelease(c) PROVE TypeOK'
  <2>1. WellTyped(<<Put("claim", c, In(mem.claim[c], "released"))>>)
    BY <1>0, TypedRecords, TypedShort, TypedPuts, TypedStates
  <2> QED
    BY <1>5, <2>1, TypedRequest DEF ClaimRelease
<1>6. ASSUME NEW c \in Claims, NEW to \in ClaimStates, ClaimTransition(c, to) PROVE TypeOK'
  <2>1. WellTyped(<<Put("claim", c, In(mem.claim[c], to))>>)
    BY <1>0, TypedRecords, TypedShort, TypedPuts
  <2> QED
    BY <1>6, <2>1, TypedRequest DEF ClaimTransition
<1> QED
  BY <1>1, <1>2, <1>3, <1>4, <1>5, <1>6

\* The lane of a launch.
LEMMA TypedLane ==
    ASSUME NEW r \in Runs, NEW c \in Claims, NEW w \in Workers, NEW k
    PROVE  LaneTaken(k, r, c, w) \in Binding /\ Nothing \in Binding
  BY DEF LaneTaken, Binding, Nothing

LEMMA TypedOpening ==
    ASSUME TypeOK, NEW r \in Runs, NEW c \in Claims, NEW w \in Workers
    PROVE  WellTyped(Opening(r, c, w))
<1>1. WellTyped(<<Put("claim", c, Moved(r, c)), Put("budget", w, "reserved")>>)
  BY TypedMoved, TypedShort, TypedPuts, TypedStates
<1>2. [claim |-> c, run |-> r] \in Mark
  BY DEF Mark
<1>3. WellTyped(<<Put("mark", w, [claim |-> c, run |-> r])>>)
  BY <1>2, TypedShort, TypedPuts
<1> QED
  BY <1>1, <1>3, TypedShort, TypedJoin DEF Opening

LEMMA TypedLaunch ==
    ASSUME TypeOK, NEW r \in Runs, NEW c \in Claims, NEW w \in Workers,
           StartConclusive(r, c, w) \/ StartAmbiguous(r, c, w) \/ StartObserved(r, c, w)
    PROVE  TypeOK'
<1>0. /\ WellTyped(Opening(r, c, w)) /\ LaneTaken(1, r, c, w) \in Binding
      /\ \A k : LaneTaken(k, r, c, w) \in Binding /\ Nothing \in Binding
  BY TypedOpening, TypedLane
<1>1. CASE StartConclusive(r, c, w)
  <2> DEFINE end == <<Put("budget", w, "refunded"), Put("claim", c, In(Moved(r, c), "failed")),
                      Put("run", r, "failed")>>
             ws == Opening(r, c, w) \o end \o Audit
  <2>1. WellTyped(end)
    <3>1. /\ TypedPut(Put("budget", w, "refunded")) /\ TypedPut(Put("run", r, "failed"))
          /\ TypedPut(Put("claim", c, In(Moved(r, c), "failed")))
      BY TypedMoved, TypedPuts, TypedStates
    <3> QED
      BY <3>1 DEF WellTyped
  <2> HIDE DEF end
  <2>2. WellTyped(ws)
    BY <1>0, <2>1, TypedShort, TypedJoin
  <2> USE DEF end
  <2>3. PICK k \in Cuts(ws) : /\ Write(ws, k)
                              /\ lane' = IF k = Len(ws) THEN Nothing ELSE LaneTaken(k, r, c, w)
    BY <1>1 DEF StartConclusive
  <2> HIDE DEF ws
  <2>4. Stored
    BY <2>2, <2>3, TypedWrite
  <2> QED
    BY <1>0, <1>1, <2>3, <2>4 DEF StartConclusive, Stored, TypeOK
<1>2. CASE StartAmbiguous(r, c, w)
  <2> DEFINE ws == Opening(r, c, w) \o AmbiguousWrites(r, c, w)
  <2>1. WellTyped(AmbiguousWrites(r, c, w))
    <3>1. /\ TypedPut(Put("budget", w, "settled")) /\ TypedPut(Put("run", r, "interrupted"))
          /\ TypedPut(Put("claim", c, In(Moved(r, c), "quarantined")))
      BY TypedMoved, TypedPuts, TypedStates
    <3> QED
      BY <3>1 DEF WellTyped, AmbiguousWrites
  <2>2. WellTyped(ws)
    BY <1>0, <2>1, TypedJoin
  <2>3. PICK k \in Cuts(ws), fate \in {"live", "gone"} :
            /\ Write(ws, k)
            /\ lane' = IF k = Len(ws) THEN Nothing ELSE LaneTaken(k, r, c, w)
            /\ IF Spawned(k)
                 THEN child' = [child EXCEPT ![w] = fate] /\ KeepRootLane(w)
                 ELSE UNCHANGED <<child, lease, latched>>
    BY <1>2 DEF StartAmbiguous
  <2> HIDE DEF ws
  <2>4. Stored
    BY <2>2, <2>3, TypedWrite
  <2> QED
    BY <1>0, <1>2, <2>3, <2>4 DEF StartAmbiguous, KeepRootLane, Stored, TypeOK
<1>3. CASE StartObserved(r, c, w)
  <2> DEFINE attached == [Moved(r, c) EXCEPT !.worker = w]
             end == <<Put("run", r, "running"), Put("claim", c, attached)>>
             ws == Opening(r, c, w) \o Audit \o end
  <2>1. WellTyped(end)
    BY TypedMoved, TypedPuts, TypedStates, TypedShort
  <2> HIDE DEF end
  <2>2. WellTyped(ws)
    BY <1>0, <2>1, TypedShort, TypedJoin
  <2> USE DEF end
  <2>3. PICK k \in Cuts(ws) :
            /\ Write(ws, k)
            /\ lane' = LaneTaken(k, r, c, w)
            /\ IF Spawned(k)
                 THEN /\ child' = [child EXCEPT ![w] = "live"]
                      /\ lease' = w
                      /\ closing' = closing \cup {w}
                 ELSE UNCHANGED <<child, lease, closing>>
            /\ view' = IF k = Len(ws) THEN [view EXCEPT ![w] = "running"] ELSE view
            /\ handles' = IF k = Len(ws) /\ attached.run = r THEN handles \cup {c, w} ELSE handles
    BY <1>3 DEF StartObserved
  <2> HIDE DEF ws, attached
  <2>4. Stored
    BY <2>2, <2>3, TypedWrite
  <2>5. view' \in [Workers -> ViewStates] /\ handles' \subseteq Claims \cup Workers
    BY <2>3 DEF TypeOK, ViewStates
  <2>6. /\ child' \in [Workers -> {"none", "live", "gone"}] /\ closing' \subseteq Workers
        /\ lease' \in Workers \cup {NoWorker}
    BY <2>3 DEF TypeOK
  <2> QED
    BY <1>0, <1>3, <2>3, <2>4, <2>5, <2>6 DEF StartObserved, Stored, TypeOK
<1> QED
  BY <1>1, <1>2, <1>3

LEMMA TypedClose ==
    ASSUME TypeOK, NEW w \in Workers, NEW exit \in Exits, OuterClose(w, exit)
    PROVE  TypeOK'
<1>1. CASE ~Completes(w)
  BY <1>1 DEF OuterClose, TypeOK
<1>2. CASE Completes(w)
  <2> DEFINE outcome == IF view[w] = "stopping" THEN "cancelled" ELSE exit
             ws == CompletionWrites(w, outcome)
             detach == <<Put("claim", lane.claim, Detached(mem.claim[lane.claim]))>>
             runs == IF mem.run[lane.run] = "running"
                       THEN <<Put("run", lane.run, RunOutcome(outcome))>> ELSE <<>>
             settle == <<Put("budget", w, "settled")>>
  <2>1. outcome \in ViewStates /\ RunOutcome(outcome) \in RunStates
    BY TypedStates DEF Exits, ViewStates, RunOutcome
  <2>2. lane.claim \in Claims => Detached(mem.claim[lane.claim]) \in ClaimRecord
    BY TypedRecords DEF TypeOK
  <2>3. WellTyped(detach) /\ WellTyped(runs) /\ WellTyped(settle)
    BY <2>1, <2>2, TypedShort, TypedPuts, TypedStates
  <2>4. ws = settle \o Audit \o detach \o runs
    BY DEF CompletionWrites
  <2>5. PICK k \in Cuts(ws) : /\ Write(ws, k)
                              /\ lane' = IF k = Len(ws) THEN Nothing ELSE lane
                              /\ view' = IF k = Len(ws) THEN [view EXCEPT ![w] = outcome] ELSE view
    BY <1>2 DEF OuterClose
  <2> HIDE DEF detach, runs, settle, ws, outcome
  <2>6. WellTyped(ws)
    BY <2>3, <2>4, TypedShort, TypedJoin
  <2>7. Stored
    BY <2>5, <2>6, TypedWrite
  <2>8. lane' \in Binding /\ view' \in [Workers -> ViewStates]
    BY <2>1, <2>5 DEF TypeOK, Binding, Nothing
  <2> QED
    BY <2>7, <2>8 DEF OuterClose, Stored, TypeOK
<1> QED
  BY <1>1, <1>2

LEMMA TypedRecovery ==
    ASSUME NEW S \in Store, NEW j, NEW gone \in BOOLEAN
    PROVE  WellTyped(RecoveryWrites(S, j, gone))
<1> DEFINE record == S.claim[j.claim]
           last == In(Detached(record), IF gone THEN "interrupted" ELSE "quarantined")
           mark == Put("recovery", j.claim, IF gone THEN "cleaning" ELSE "quarantined")
           first == IF S.budget[j.worker] = "reserved" THEN <<Put("budget", j.worker, "settled")>>
                    ELSE <<>>
           detach == IF Attached(S, j.claim) THEN <<Put("claim", j.claim, Detached(record))>> ELSE <<>>
           middle == <<mark, Put("claim", j.claim, last)>>
           runs == IF S.run[j.run] = "running" THEN <<Put("run", j.run, "interrupted")>> ELSE <<>>
           done == IF gone THEN <<Put("recovery", j.claim, "complete")>> ELSE <<>>
<1>1. j.claim \in Claims => Detached(record) \in ClaimRecord /\ last \in ClaimRecord
  BY TypedRecords, TypedStates
<1>2. WellTyped(first) /\ WellTyped(runs) /\ WellTyped(done)
  BY TypedShort, TypedPuts, TypedStates
<1>3. WellTyped(detach)
  BY <1>1, TypedShort, TypedPuts
<1>4. WellTyped(middle)
  <2>1. TypedPut(mark) /\ TypedPut(Put("claim", j.claim, last))
    BY <1>1, TypedPuts, TypedStates
  <2> QED
    BY <2>1, TypedShort
<1>5. RecoveryWrites(S, j, gone) = first \o detach \o middle \o runs \o done \o Audit
  BY DEF RecoveryWrites
<1> HIDE DEF first, detach, middle, runs, done
<1> QED
  BY <1>2, <1>3, <1>4, <1>5, TypedShort, TypedJoin

LEMMA FreshTyped == FreshStore \in Store
<1>1. [state |-> "none", worker |-> NoWorker, run |-> NoRun] \in ClaimRecord
  BY DEF ClaimRecord, ClaimStates
<1> QED
  BY <1>1 DEF FreshStore, Store, RunStates, BudgetStates, RecoveryStates, Mark, NoMark

LEMMA TypedRecover ==
    ASSUME TypeOK,
           \/ \E gone \in BOOLEAN : RecoverEnd(gone) \/ StaleRecoverEnd(gone)
           \/ RecoverUnread \/ StaleRecoverUnread
           \/ \E c \in Claims : RecoverBegin(c)
    PROVE  TypeOK'
<1>0. Nothing \in Binding
  BY DEF Nothing, Binding
<1>1. ASSUME NEW gone \in BOOLEAN, RecoverEnd(gone) PROVE TypeOK'
  <2> DEFINE ws == RecoveryWrites(mem, job, gone)
  <2>1. WellTyped(ws)
    BY TypedRecovery DEF TypeOK
  <2>2. PICK k \in Cuts(ws) : Write(ws, k)
    BY <1>1 DEF RecoverEnd
  <2> HIDE DEF ws
  <2>3. Stored
    BY <2>1, <2>2, TypedWrite
  <2> QED
    BY <1>0, <1>1, <2>3 DEF RecoverEnd, Stored, TypeOK
<1>2. ASSUME NEW gone \in BOOLEAN, StaleRecoverEnd(gone) PROVE TypeOK'
  <2> DEFINE ws == RecoveryWrites(old, oldJob, gone)
  <2>1. WellTyped(ws)
    BY TypedRecovery DEF TypeOK
  <2>2. PICK k \in Cuts(ws) :
            /\ disk' = Replay(disk, Kept(ws, k))
            /\ phase' \in {phase, "down"}
    BY <1>2 DEF StaleRecoverEnd
  <2>3. k \in 0..Len(ws)
    BY <2>1, <2>2 DEF Cuts, WellTyped
  <2> HIDE DEF ws
  <2>4. disk' \in Store
    BY <2>1, <2>2, <2>3, TypedReplay DEF TypeOK
  <2> QED
    BY <1>0, <1>2, <2>2, <2>4, FreshTyped DEF StaleRecoverEnd, TypeOK
<1>3. ASSUME NEW c \in Claims, RecoverBegin(c) PROVE TypeOK'
  <2> DEFINE ws == <<Put("recovery", c, "requested"), Put("recovery", c, "stopping")>>
             begun == [worker |-> mem.claim[c].worker, claim |-> c, run |-> mem.claim[c].run]
  <2>1. WellTyped(ws)
    BY TypedShort, TypedPuts, TypedStates
  <2>2. PICK k \in Cuts(ws) : Write(ws, k) /\ job' \in {begun, Nothing}
    BY <1>3 DEF RecoverBegin
  <2>3. mem.claim[c] \in ClaimRecord
    BY DEF TypeOK, Store
  <2>4. begun \in Binding
    BY <2>3 DEF ClaimRecord, Binding
  <2> HIDE DEF ws, begun
  <2>5. Stored
    BY <2>1, <2>2, TypedWrite
  <2> QED
    BY <1>0, <1>3, <2>2, <2>4, <2>5 DEF RecoverBegin, Stored, TypeOK
<1>4. CASE RecoverUnread \/ StaleRecoverUnread
  BY <1>0, <1>4, FreshTyped DEF RecoverUnread, StaleRecoverUnread, TypeOK
<1> QED
  BY <1>1, <1>2, <1>3, <1>4

LEMMA TypedReconcile ==
    ASSUME TypeOK, NEW c \in Claims, Reconcile(c)
    PROVE  TypeOK'
<1> DEFINE record == mem.claim[c]
           ws == ReconcileWrites(c, record)
           first == IF mem.budget[record.worker] = "reserved"
                      THEN <<Put("budget", record.worker, "settled")>> ELSE <<>>
           runs == IF mem.run[record.run] \notin RunTerminal
                     THEN <<Put("run", record.run, "interrupted")>> ELSE <<>>
           last == <<Put("claim", c, Detached(record)),
                     Put("claim", c, In(Detached(record), "interrupted"))>>
<1>1. WellTyped(first) /\ WellTyped(runs)
  BY TypedShort, TypedPuts, TypedStates
<1>2. WellTyped(last)
  <2>1. Detached(record) \in ClaimRecord /\ In(Detached(record), "interrupted") \in ClaimRecord
    BY TypedRecords, TypedStates DEF TypeOK
  <2> QED
    BY <2>1, TypedShort, TypedPuts
<1>3. ws = first \o runs \o last
  BY DEF ReconcileWrites
<1>4. PICK k \in Cuts(ws) : /\ disk' = Replay(disk, Kept(ws, k)) /\ mem' = Replay(mem, Kept(ws, k))
                            /\ phase' \in {phase, "down"}
  BY DEF Reconcile
<1> HIDE DEF first, runs, last, ws
<1>5. WellTyped(ws)
  BY <1>1, <1>2, <1>3, TypedJoin
<1>6. k \in 0..Len(ws)
  BY <1>4, <1>5 DEF Cuts, WellTyped
<1>7. disk' \in Store /\ mem' \in Store
  BY <1>4, <1>5, <1>6, TypedReplay DEF TypeOK
<1> QED
  BY <1>4, <1>7 DEF Reconcile, TypeOK

LEMMA TypedOther ==
    ASSUME TypeOK,
           \/ \E w \in Workers : Cancel(w) \/ ChildDies(w) \/ OuterCloseUnproven(w)
           \/ GateLoss \/ Connect \/ Crash \/ Boot \/ Serve \/ UNCHANGED vars
    PROVE  TypeOK'
<1>1. ASSUME NEW w \in Workers, Cancel(w) \/ ChildDies(w) \/ OuterCloseUnproven(w) PROVE TypeOK'
  BY <1>1 DEF Cancel, ChildDies, OuterCloseUnproven, TypeOK, ViewStates
<1>2. CASE GateLoss \/ Crash \/ Serve \/ UNCHANGED vars
  BY <1>2 DEF GateLoss, Crash, Serve, vars, volatile, TypeOK
<1>3. CASE Connect
  BY <1>3 DEF Connect, TypeOK, ViewStates, Binding, Nothing
<1>4. CASE Boot
  BY <1>4, FreshTyped DEF Boot, TypeOK, ViewStates, Binding, Nothing
<1> QED
  BY <1>1, <1>2, <1>3, <1>4

LEMMA TypedStep == TypeOK /\ [Next]_vars => TypeOK'
<1> SUFFICES ASSUME TypeOK, [Next]_vars PROVE TypeOK'
  OBVIOUS
<1> QED
  BY TypedRequests, TypedLaunch, TypedClose, TypedRecover, TypedReconcile, TypedOther DEF Next

LEMMA TypedInit == Init => TypeOK
<1> SUFFICES ASSUME Init PROVE TypeOK
  OBVIOUS
<1>1. disk \in Store /\ mem \in Store /\ old \in Store
  BY FreshTyped DEF Init
<1>2. job \in Binding /\ oldJob \in Binding /\ lane \in Binding
  BY DEF Init, Binding, Nothing
<1> QED
  BY <1>1, <1>2 DEF Init, TypeOK, ViewStates

\* The type invariant, in the journal and in every image of it, whatever
\* prefix of a handler's writes reaches the disk.
THEOREM Typed == Spec => []TypeOK
  BY TypedInit, TypedStep, PTL DEF Spec

-----------------------------------------------------------------------------
(* Final records                                                           *)

\* The states only a release may follow, and the part of FinalStaysFinal a
\* step must keep.
Ended == ClaimStates \ (ClaimLive \cup {"none"})
AfterEnd(state) == {state} \cup Transitions[state]
FinalKept ==
    /\ \A r \in Runs : disk.run[r] \in RunTerminal => disk'.run[r] = disk.run[r]
    /\ \A c \in Claims : disk.claim[c].state \in Ended =>
            disk'.claim[c].state \in AfterEnd(disk.claim[c].state)

\* Writes that keep to it: about no final run, and about a final claim only
\* what may follow.
LawfulPut(p) ==
    /\ p.kind = "run" /\ p.key \in Runs => disk.run[p.key] \notin RunTerminal
    /\ p.kind = "claim" /\ p.key \in Claims /\ disk.claim[p.key].state \in Ended =>
            p.val.state \in AfterEnd(disk.claim[p.key].state)
Lawful(ws) == Len(ws) \in Nat /\ \A i \in 1..Len(ws) : LawfulPut(ws[i])

LEMMA LawfulJoin ==
    ASSUME NEW s, NEW t, Lawful(s), Lawful(t)
    PROVE  Lawful(s \o t)
<1>1. Len(s) \in Nat /\ Len(t) \in Nat
  BY DEF Lawful
<1>2. Len(s \o t) \in Nat
  BY <1>1, Joined
<1>3. ASSUME NEW i \in 1..Len(s \o t) PROVE LawfulPut((s \o t)[i])
  BY <1>1, Joined DEF Lawful
<1> QED
  BY <1>2, <1>3 DEF Lawful

LEMMA LawfulShort ==
    /\ Lawful(<<>>) /\ Lawful(Audit)
    /\ \A p : LawfulPut(p) => Lawful(<<p>>)
    /\ \A p, q : LawfulPut(p) /\ LawfulPut(q) => Lawful(<<p, q>>)
    /\ \A p, q, r : LawfulPut(p) /\ LawfulPut(q) /\ LawfulPut(r) => Lawful(<<p, q, r>>)
<1>1. LawfulPut(Put("audit", NoRun, NoRun))
  BY DEF LawfulPut, Put
<1>2. ASSUME NEW p, LawfulPut(p) PROVE Lawful(<<p>>)
  BY <1>2 DEF Lawful
<1>3. ASSUME NEW p, NEW q, LawfulPut(p), LawfulPut(q) PROVE Lawful(<<p, q>>)
  BY <1>3 DEF Lawful
<1>4. ASSUME NEW p, NEW q, NEW r, LawfulPut(p), LawfulPut(q), LawfulPut(r)
      PROVE  Lawful(<<p, q, r>>)
  BY <1>4 DEF Lawful
<1> QED
  BY <1>1, <1>2, <1>3, <1>4 DEF Lawful, Audit

LEMMA LawfulPuts ==
    /\ \A r, s : (r \in Runs => disk.run[r] \notin RunTerminal) => LawfulPut(Put("run", r, s))
    /\ \A c, record : (c \in Claims => disk.claim[c].state \notin Ended) =>
            LawfulPut(Put("claim", c, record))
    /\ \A c, record : (c \in Claims => record.state \in AfterEnd(disk.claim[c].state)) =>
            LawfulPut(Put("claim", c, record))
    /\ \A kind, key, val : kind \notin {"run", "claim"} => LawfulPut(Put(kind, key, val))
  BY DEF LawfulPut, Put

\* Any prefix of them does.
LEMMA LawfulReplay ==
    ASSUME NEW ws, Lawful(ws), NEW k \in 0..Len(ws), disk' = Replay(disk, Kept(ws, k))
    PROVE  FinalKept
<1> DEFINE ks == Kept(ws, k)
<1>1. Len(ks) = k /\ \A i \in 1..k : ks[i] = ws[i] /\ i \in 1..Len(ws)
  BY DEF Kept, Lawful
<1>2. Len(ks) \in Nat /\ \A i \in 1..Len(ks) : LawfulPut(ks[i])
  BY <1>1 DEF Lawful
<1> HIDE DEF ks
<1>3. ASSUME NEW r \in Runs, disk.run[r] \in RunTerminal PROVE disk'.run[r] = disk.run[r]
  <2>1. \A i \in 1..Len(ks) : ~(ks[i].kind = "run" /\ ks[i].key = r)
    BY <1>2, <1>3 DEF LawfulPut
  <2>2. Latest(ks, "run", r, disk.run[r]) = disk.run[r]
    BY <2>1 DEF Latest
  <2>3. Replay(disk, ks).run[r] = Latest(ks, "run", r, disk.run[r])
    BY DEF Replay
  <2> QED
    BY <2>2, <2>3 DEF ks
<1>4. ASSUME NEW c \in Claims, disk.claim[c].state \in Ended
      PROVE  disk'.claim[c].state \in AfterEnd(disk.claim[c].state)
  <2> DEFINE V == {disk.claim[c]} \cup {ks[i].val : i \in {n \in 1..Len(ks) : ks[n].kind = "claim"
                                                                              /\ ks[n].key = c}}
  <2>1. \A v \in V : v.state \in AfterEnd(disk.claim[c].state)
    BY <1>2, <1>4 DEF LawfulPut, AfterEnd
  <2>2. /\ disk.claim[c] \in V
        /\ \A i \in 1..Len(ks) : ks[i].kind = "claim" /\ ks[i].key = c => ks[i].val \in V
    OBVIOUS
  <2> HIDE DEF V
  <2>3. Latest(ks, "claim", c, disk.claim[c]) \in V
    BY <1>2, <2>2, LatestIn
  <2>4. Replay(disk, ks).claim[c] = Latest(ks, "claim", c, disk.claim[c])
    BY DEF Replay
  <2> QED
    BY <2>1, <2>3, <2>4 DEF ks
<1> QED
  BY <1>3, <1>4 DEF FinalKept

LEMMA LawfulWrite ==
    ASSUME NEW ws, Lawful(ws), NEW k \in Cuts(ws), disk' = Replay(disk, Kept(ws, k))
    PROVE  FinalKept
<1>1. k \in 0..Len(ws)
  BY DEF Cuts, Lawful
<1> QED
  BY <1>1, LawfulReplay

LEMMA LawfulRequest ==
    ASSUME NEW ws, Lawful(ws), Request(ws)
    PROVE  FinalKept
  BY LawfulWrite DEF Request, Write

LEMMA LiveNotEnded ==
    /\ \A s \in ClaimLive \cup {"none"} : s \notin Ended
    /\ \A s \in Prelaunch \cup {"none", "running"} : s \notin RunTerminal
  BY DEF Ended, Prelaunch, RunTerminal

LEMMA FinalRequests ==
    ASSUME CInv,
           \/ \E r \in Runs : Accept(r) \/ \E to \in RunStates : GateTransition(r, to)
           \/ StopEngage \/ StopResume
           \/ \E c \in Claims : ClaimRelease(c) \/ \E to \in ClaimStates : ClaimTransition(c, to)
    PROVE  FinalKept
<1>0. mem = disk /\ \A c \in Claims : ClaimShape(disk.claim[c])
  BY DEF CInv, Coherent, Held
<1>1. ASSUME NEW r \in Runs, NEW to, mem.run[r] \in Prelaunch \cup {"none"}
      PROVE  Lawful(<<Put("run", r, to)>>)
  <2>1. LawfulPut(Put("run", r, to))
    BY <1>0, <1>1, LawfulPuts, LiveNotEnded
  <2> QED
    BY <2>1, LawfulShort
<1>2. ASSUME NEW r \in Runs, Accept(r) PROVE FinalKept
  BY <1>1, <1>2, LawfulRequest DEF Accept
<1>3. ASSUME NEW r \in Runs, NEW to, GateTransition(r, to) PROVE FinalKept
  BY <1>1, <1>3, LawfulRequest DEF GateTransition, Prelaunch
<1>4. ASSUME StopEngage \/ StopResume PROVE FinalKept
  BY <1>4, LawfulShort, LawfulPuts, LawfulRequest DEF StopEngage, StopResume
<1>5. ASSUME NEW c \in Claims, NEW to \in ClaimStates, to \in Transitions[mem.claim[c].state]
      PROVE  Lawful(<<Put("claim", c, In(mem.claim[c], to))>>)
  <2>1. In(mem.claim[c], to).state \in AfterEnd(disk.claim[c].state)
    BY <1>0, <1>5, Shapes DEF AfterEnd
  <2>2. LawfulPut(Put("claim", c, In(mem.claim[c], to)))
    BY <2>1, LawfulPuts
  <2> QED
    BY <2>2, LawfulShort
<1>6. ASSUME NEW c \in Claims, ClaimRelease(c) PROVE FinalKept
  <2>1. "released" \in ClaimStates
    BY DEF ClaimStates
  <2> QED
    BY <1>5, <1>6, <2>1, LawfulRequest DEF ClaimRelease
<1>7. ASSUME NEW c \in Claims, NEW to \in ClaimStates, ClaimTransition(c, to) PROVE FinalKept
  BY <1>5, <1>7, LawfulRequest DEF ClaimTransition
<1> QED
  BY <1>2, <1>3, <1>4, <1>6, <1>7

\* A launch writes about a claim in flight or new and a run not yet launched.
LEMMA FinalLaunch ==
    ASSUME CInv, NEW r \in Runs, NEW c \in Claims, NEW w,
           \/ StartExhausted(r, c) \/ StartConclusive(r, c, w)
           \/ StartAmbiguous(r, c, w) \/ StartObserved(r, c, w)
    PROVE  FinalKept
<1>1. Startable(r, c)
  BY DEF StartExhausted, StartConclusive, StartAmbiguous, StartObserved
<1>2. mem = disk /\ mem.claim[c].state \notin Ended /\ mem.run[r] \notin RunTerminal
  <2>1. mem.claim[c].state \in ClaimLive \cup {"none"}
    BY <1>1, MovedShape DEF ClaimLive
  <2> QED
    BY <1>1, <2>1, LiveNotEnded DEF CInv, Coherent, Startable
<1>3. /\ \A record : LawfulPut(Put("claim", c, record))
      /\ \A s : LawfulPut(Put("run", r, s)) /\ LawfulPut(Put("budget", w, s))
                /\ LawfulPut(Put("mark", w, s))
  BY <1>2, LawfulPuts
<1>4. Lawful(Opening(r, c, w))
  <2>1. /\ Lawful(<<Put("claim", c, Moved(r, c)), Put("budget", w, "reserved")>>)
        /\ Lawful(<<Put("mark", w, [claim |-> c, run |-> r])>>)
    BY <1>3, LawfulShort
  <2> QED
    BY <2>1, LawfulShort, LawfulJoin DEF Opening
<1>5. CASE StartExhausted(r, c)
  <2>1. Lawful(<<Put("claim", c, Moved(r, c)), Put("claim", c, In(Moved(r, c), "interrupted"))>>)
    BY <1>3, LawfulShort
  <2> QED
    BY <1>5, <2>1, LawfulRequest DEF StartExhausted
<1>6. CASE StartConclusive(r, c, w)
  <2> DEFINE end == <<Put("budget", w, "refunded"), Put("claim", c, In(Moved(r, c), "failed")),
                      Put("run", r, "failed")>>
             ws == Opening(r, c, w) \o end \o Audit
  <2>1. Lawful(end)
    BY <1>3, LawfulShort
  <2>2. \E k \in Cuts(ws) : disk' = Replay(disk, Kept(ws, k))
    BY <1>6 DEF StartConclusive, Write
  <2> HIDE DEF end
  <2>3. Lawful(ws)
    BY <1>4, <2>1, LawfulShort, LawfulJoin
  <2> HIDE DEF ws
  <2> QED
    BY <2>2, <2>3, LawfulWrite
<1>7. CASE StartAmbiguous(r, c, w)
  <2> DEFINE ws == Opening(r, c, w) \o AmbiguousWrites(r, c, w)
  <2>1. Lawful(AmbiguousWrites(r, c, w))
    BY <1>3, LawfulShort DEF AmbiguousWrites
  <2>2. \E k \in Cuts(ws) : disk' = Replay(disk, Kept(ws, k))
    BY <1>7 DEF StartAmbiguous, Write
  <2>3. Lawful(ws)
    BY <1>4, <2>1, LawfulJoin
  <2> HIDE DEF ws
  <2> QED
    BY <2>2, <2>3, LawfulWrite
<1>8. CASE StartObserved(r, c, w)
  <2> DEFINE end == <<Put("run", r, "running"), Put("claim", c, [Moved(r, c) EXCEPT !.worker = w])>>
             ws == Opening(r, c, w) \o Audit \o end
  <2>1. Lawful(end)
    BY <1>3, LawfulShort
  <2>2. \E k \in Cuts(ws) : disk' = Replay(disk, Kept(ws, k))
    BY <1>8 DEF StartObserved, Write
  <2> HIDE DEF end
  <2>3. Lawful(ws)
    BY <1>4, <2>1, LawfulShort, LawfulJoin
  <2> HIDE DEF ws
  <2> QED
    BY <2>2, <2>3, LawfulWrite
<1> QED
  BY <1>5, <1>6, <1>7, <1>8

\* An exit detaches a claim as it is, and finishes only a running run.
LEMMA FinalClose ==
    ASSUME CInv, NEW w \in Workers, NEW exit, OuterClose(w, exit)
    PROVE  FinalKept
<1>1. CASE ~Completes(w)
  <2>1. UNCHANGED disk
    BY <1>1 DEF OuterClose
  <2> QED
    BY <2>1 DEF FinalKept, AfterEnd
<1>2. CASE Completes(w)
  <2> DEFINE outcome == IF view[w] = "stopping" THEN "cancelled" ELSE exit
             ws == CompletionWrites(w, outcome)
             claim == Put("claim", lane.claim, Detached(mem.claim[lane.claim]))
             runs == IF mem.run[lane.run] = "running"
                       THEN <<Put("run", lane.run, RunOutcome(outcome))>> ELSE <<>>
             settle == <<Put("budget", w, "settled")>>
  <2>1. LawfulPut(claim)
    <3>1. lane.claim \in Claims => ClaimShape(mem.claim[lane.claim]) /\ mem = disk
      BY DEF CInv, Held, Coherent
    <3>2. lane.claim \in Claims =>
              Detached(mem.claim[lane.claim]).state \in AfterEnd(disk.claim[lane.claim].state)
      BY <3>1, Shapes DEF AfterEnd
    <3> QED
      BY <3>2, LawfulPuts
  <2>2. Lawful(runs)
    <3>1. CASE mem.run[lane.run] = "running"
      <4>1. LawfulPut(Put("run", lane.run, RunOutcome(outcome)))
        BY <3>1, LawfulPuts, LiveNotEnded DEF CInv, Coherent
      <4> QED
        BY <3>1, <4>1, LawfulShort
    <3>2. CASE mem.run[lane.run] # "running"
      BY <3>2, LawfulShort
    <3> QED
      BY <3>1, <3>2
  <2>3. Lawful(settle) /\ Lawful(<<claim>>)
    BY <2>1, LawfulShort, LawfulPuts
  <2>4. ws = settle \o Audit \o <<claim>> \o runs
    BY DEF CompletionWrites
  <2>5. \E k \in Cuts(ws) : disk' = Replay(disk, Kept(ws, k))
    BY <1>2 DEF OuterClose, Write
  <2> HIDE DEF claim, runs, settle, ws
  <2>6. Lawful(ws)
    BY <2>2, <2>3, <2>4, LawfulShort, LawfulJoin
  <2> QED
    BY <2>5, <2>6, LawfulWrite
<1> QED
  BY <1>1, <1>2

\* A recovery writes about the claim in flight it is for.
LEMMA FinalRecovery ==
    ASSUME CInv, NEW gone \in BOOLEAN, RecoverEnd(gone)
    PROVE  FinalKept
<1> DEFINE record == mem.claim[job.claim]
           last == In(Detached(record), IF gone THEN "interrupted" ELSE "quarantined")
           mark == Put("recovery", job.claim, IF gone THEN "cleaning" ELSE "quarantined")
           first == IF mem.budget[job.worker] = "reserved"
                      THEN <<Put("budget", job.worker, "settled")>> ELSE <<>>
           detach == IF Attached(mem, job.claim)
                       THEN <<Put("claim", job.claim, Detached(record))>> ELSE <<>>
           middle == <<mark, Put("claim", job.claim, last)>>
           runs == IF mem.run[job.run] = "running"
                     THEN <<Put("run", job.run, "interrupted")>> ELSE <<>>
           done == IF gone THEN <<Put("recovery", job.claim, "complete")>> ELSE <<>>
           ws == RecoveryWrites(mem, job, gone)
<1>1. mem = disk /\ phase = "ready" /\ job # Nothing
  BY DEF RecoverEnd, Up, CInv, Coherent
<1>2. disk.claim[job.claim].state \notin Ended
  BY <1>1, LiveNotEnded DEF CInv, Held, Backed
<1>3. \A v : LawfulPut(Put("claim", job.claim, v))
  BY <1>2, LawfulPuts
<1>4. Lawful(first) /\ Lawful(done)
  BY LawfulShort, LawfulPuts
<1>5. Lawful(detach)
  BY <1>3, LawfulShort
<1>6. Lawful(middle)
  BY <1>3, LawfulShort, LawfulPuts
<1>7. Lawful(runs)
  <2>1. CASE mem.run[job.run] = "running"
    <3>1. LawfulPut(Put("run", job.run, "interrupted"))
      BY <1>1, <2>1, LawfulPuts, LiveNotEnded
    <3> QED
      BY <2>1, <3>1, LawfulShort
  <2>2. CASE mem.run[job.run] # "running"
    BY <2>2, LawfulShort
  <2> QED
    BY <2>1, <2>2
<1>8. ws = first \o detach \o middle \o runs \o done \o Audit
  BY DEF RecoveryWrites
<1>9. \E k \in Cuts(ws) : disk' = Replay(disk, Kept(ws, k))
  BY DEF RecoverEnd, Write
<1> HIDE DEF first, detach, middle, runs, done, ws
<1>10. Lawful(ws)
  BY <1>4, <1>5, <1>6, <1>7, <1>8, LawfulShort, LawfulJoin
<1> QED
  BY <1>9, <1>10, LawfulWrite

\* The reconciliation writes about a claim in flight and a run not finished.
LEMMA FinalReconcile ==
    ASSUME CInv, NEW c \in Claims, Reconcile(c)
    PROVE  FinalKept
<1> DEFINE record == mem.claim[c]
           ws == ReconcileWrites(c, record)
           first == IF mem.budget[record.worker] = "reserved"
                      THEN <<Put("budget", record.worker, "settled")>> ELSE <<>>
           runs == IF mem.run[record.run] \notin RunTerminal
                     THEN <<Put("run", record.run, "interrupted")>> ELSE <<>>
           last == <<Put("claim", c, Detached(record)),
                     Put("claim", c, In(Detached(record), "interrupted"))>>
<1>1. mem = disk /\ disk.claim[c].state \notin Ended
  BY LiveNotEnded DEF CInv, Coherent, Reconcile, InFlight
<1>2. Lawful(last)
  <2>1. \A v : LawfulPut(Put("claim", c, v))
    BY <1>1, LawfulPuts
  <2> QED
    BY <2>1, LawfulShort
<1>3. Lawful(first)
  BY LawfulShort, LawfulPuts
<1>4. Lawful(runs)
  <2>1. CASE mem.run[record.run] \notin RunTerminal
    <3>1. LawfulPut(Put("run", record.run, "interrupted"))
      BY <1>1, <2>1, LawfulPuts
    <3> QED
      BY <2>1, <3>1, LawfulShort
  <2>2. CASE mem.run[record.run] \in RunTerminal
    BY <2>2, LawfulShort
  <2> QED
    BY <2>1, <2>2
<1>5. ws = first \o runs \o last
  BY DEF ReconcileWrites
<1>6. \E k \in Cuts(ws) : disk' = Replay(disk, Kept(ws, k))
  BY DEF Reconcile
<1> HIDE DEF first, runs, last, ws
<1>7. Lawful(ws)
  BY <1>2, <1>3, <1>4, <1>5, LawfulJoin
<1> QED
  BY <1>6, <1>7, LawfulWrite

LEMMA FinalStep ==
    ASSUME CInv, NeverLost, [Next]_vars
    PROVE  FinalKept
<1>1. ASSUME UNCHANGED disk PROVE FinalKept
  BY <1>1 DEF FinalKept, AfterEnd
<1>2. ASSUME NEW c \in Claims, RecoverBegin(c) PROVE FinalKept
  <2> DEFINE ws == <<Put("recovery", c, "requested"), Put("recovery", c, "stopping")>>
  <2>1. Lawful(ws)
    BY LawfulShort, LawfulPuts
  <2>2. \E k \in Cuts(ws) : disk' = Replay(disk, Kept(ws, k))
    BY <1>2 DEF RecoverBegin, Write
  <2> QED
    BY <2>1, <2>2, LawfulWrite
<1>3. ASSUME \/ \E w \in Workers : Cancel(w) \/ ChildDies(w) \/ OuterCloseUnproven(w)
             \/ Crash \/ Boot \/ Serve \/ RecoverUnread \/ UNCHANGED vars
      PROVE  FinalKept
  BY <1>1, <1>3 DEF Cancel, ChildDies, OuterCloseUnproven, Crash, Boot, Serve, RecoverUnread, vars
<1>4. ~GateLoss /\ ~Connect /\ ~StaleRecoverUnread /\ \A gone : ~StaleRecoverEnd(gone)
  BY DEF GateLoss, Connect, StaleRecoverUnread, StaleRecoverEnd, NeverLost, CInv, Coherent
<1>5. ASSUME NEW r \in Runs, NEW c \in Claims, StartExhausted(r, c) PROVE FinalKept
  BY <1>5, FinalLaunch
<1> QED
  BY <1>2, <1>3, <1>4, <1>5, FinalRequests, FinalLaunch, FinalClose, FinalRecovery, FinalReconcile
     DEF Next

\* On disk, a finished run and a claim that has ended stay as they are but for
\* a release, through crashes inside a handler, refused writes, recoveries and
\* reconciliations (claims-store.js: "confined to the legal matrix").  A lost
\* gate is what breaks it: the superseded recovery writes over the ending.
THEOREM EndingsKept == ASSUME NeverLost PROVE Spec => FinalStaysFinal
<1>1. CInv /\ [Next]_vars => CInv'
  BY CInvStep
<1>2. CInv /\ [Next]_vars =>
        [/\ \A r \in Runs : disk.run[r] \in RunTerminal => disk'.run[r] = disk.run[r]
         /\ \A c \in Claims : disk.claim[c].state \in ClaimStates \ (ClaimLive \cup {"none"}) =>
              disk'.claim[c].state \in {disk.claim[c].state} \cup Transitions[disk.claim[c].state]]_vars
  BY FinalStep DEF FinalKept, Ended, AfterEnd
<1> QED
  BY <1>1, <1>2, CInvInit, PTL DEF Spec, FinalStaysFinal

-----------------------------------------------------------------------------
(* Claims in flight, as long as no write is refused                        *)

NeverRefused == "refusal" \notin Faults

\* A service replays with no recovery of its own; once it serves, a claim in
\* flight has its reservation and the lane, and so has the claim a recovery
\* awaits the proof for, unless its worker's exit came first.
Supported(S, c) ==
    /\ S.budget[S.claim[c].worker] = "reserved"
    /\ lane.worker = S.claim[c].worker /\ lane.claim = c
InHand(record) == record.state \in ClaimLive /\ record.worker # NoWorker
Backs ==
    /\ phase = "replaying" => job = Nothing
    /\ phase = "ready" =>
        /\ \A c \in Claims : InHand(mem.claim[c]) => Supported(mem, c)
        /\ job # Nothing => lane = Nothing \/ lane.claim = job.claim
BInv == TypeOK /\ Backs

\* A handler that is neither cut short nor refused writes all it has.
LEMMA Whole ==
    ASSUME NeverRefused, NEW ws, NEW k, Write(ws, k), phase' # "down"
    PROVE  k = Len(ws) /\ phase' = phase
  BY DEF NeverRefused, Write

\* Writes whose claims are all c's, with values in V.
ClaimOnly(ws, c, V) ==
    /\ Len(ws) \in Nat
    /\ \A n \in 1..Len(ws) : ws[n].kind = "claim" => ws[n].key = c /\ ws[n].val \in V
Written(ws, c) == \E n \in 1..Len(ws) : ws[n].kind = "claim" /\ ws[n].key = c

LEMMA ClaimOnlyJoin ==
    ASSUME NEW s, NEW t, NEW c, NEW V, ClaimOnly(s, c, V), ClaimOnly(t, c, V)
    PROVE  /\ ClaimOnly(s \o t, c, V)
           /\ Written(s, c) \/ Written(t, c) => Written(s \o t, c)
<1>1. Len(s) \in Nat /\ Len(t) \in Nat
  BY DEF ClaimOnly
<1>2. Len(s \o t) \in Nat
  BY <1>1, Joined
<1>3. ClaimOnly(s \o t, c, V)
  BY <1>1, <1>2, Joined DEF ClaimOnly
<1>4. ASSUME NEW n \in 1..Len(s) PROVE n \in 1..Len(s \o t) /\ (s \o t)[n] = s[n]
  BY <1>1, <1>4
<1>5. ASSUME NEW n \in 1..Len(t)
      PROVE  n + Len(s) \in 1..Len(s \o t) /\ (s \o t)[n + Len(s)] = t[n]
  BY <1>1, <1>5
<1>6. Written(s, c) => Written(s \o t, c)
  BY <1>4 DEF Written
<1>7. Written(t, c) => Written(s \o t, c)
  BY <1>5 DEF Written
<1> QED
  BY <1>3, <1>6, <1>7

LEMMA ClaimOnlyShort ==
    ASSUME NEW c, NEW V
    PROVE  /\ ClaimOnly(<<>>, c, V) /\ ClaimOnly(Audit, c, V)
           /\ \A kind, key, val : kind # "claim" => ClaimOnly(<<Put(kind, key, val)>>, c, V)
           /\ \A val \in V : /\ ClaimOnly(<<Put("claim", c, val)>>, c, V)
                             /\ Written(<<Put("claim", c, val)>>, c)
  BY DEF ClaimOnly, Written, Put, Audit

\* What a prefix of them leaves of a claim, and what all of them do.
LEMMA ClaimOnlyReplayed ==
    ASSUME NEW ws, NEW c, NEW V, ClaimOnly(ws, c, V), NEW k \in 0..Len(ws), NEW S
    PROVE  /\ \A d \in Claims : \/ Replay(S, Kept(ws, k)).claim[d] = S.claim[d]
                                \/ d = c /\ Replay(S, Kept(ws, k)).claim[d] \in V
           /\ c \in Claims /\ k = Len(ws) /\ Written(ws, c) => Replay(S, Kept(ws, k)).claim[c] \in V
<1> DEFINE ks == Kept(ws, k)
<1>1. Len(ks) = k /\ Len(ks) \in Nat /\ \A i \in 1..k : ks[i] = ws[i] /\ i \in 1..Len(ws)
  BY DEF Kept, ClaimOnly
<1> HIDE DEF ks
<1>2. \A d \in Claims : Replay(S, ks).claim[d] = Latest(ks, "claim", d, S.claim[d])
  BY DEF Replay
<1>3. ASSUME NEW d \in Claims, d # c PROVE Replay(S, ks).claim[d] = S.claim[d]
  <2>1. \A i \in 1..Len(ks) : ~(ks[i].kind = "claim" /\ ks[i].key = d)
    BY <1>1, <1>3 DEF ClaimOnly
  <2>2. Latest(ks, "claim", d, S.claim[d]) = S.claim[d]
    BY <2>1 DEF Latest
  <2> QED
    BY <1>2, <2>2
<1>4. \A before \in V : Latest(ks, "claim", c, before) \in V
  BY <1>1, LatestIn DEF ClaimOnly
<1>5. ASSUME NEW n \in 1..k, ws[n].kind = "claim", ws[n].key = c, c \in Claims
      PROVE  Replay(S, ks).claim[c] \in V
  <2>1. ws[n].val \in V /\ n \in 1..Len(ks) /\ ks[n].kind = "claim" /\ ks[n].key = c
    BY <1>1, <1>5 DEF ClaimOnly
  <2>2. Latest(ks, "claim", c, S.claim[c]) = Latest(ks, "claim", c, ws[n].val)
    BY <2>1 DEF Latest
  <2> QED
    BY <1>2, <1>4, <1>5, <2>1, <2>2
<1>6. ASSUME c \in Claims PROVE Replay(S, ks).claim[c] \in V \cup {S.claim[c]}
  <2> DEFINE U == V \cup {S.claim[c]}
  <2>1. /\ S.claim[c] \in U
        /\ \A i \in 1..Len(ks) : ks[i].kind = "claim" /\ ks[i].key = c => ks[i].val \in U
    BY <1>1 DEF ClaimOnly
  <2> HIDE DEF U
  <2>2. Latest(ks, "claim", c, S.claim[c]) \in U
    BY <1>1, <2>1, LatestIn
  <2> QED
    BY <1>2, <1>6, <2>2 DEF U
<1>7. c \in Claims /\ k = Len(ws) /\ Written(ws, c) => Replay(S, ks).claim[c] \in V
  BY <1>5 DEF Written
<1> QED
  BY <1>3, <1>6, <1>7 DEF ks

\* After the step no claim is in flight.
LEMMA BacksIdle ==
    ASSUME phase' = "replaying" => job' = Nothing,
           phase' = "ready" =>
                /\ \A c \in Claims : ~InHand(mem'.claim[c])
                /\ job' # Nothing => lane' = Nothing \/ lane'.claim = job'.claim
    PROVE  Backs'
  BY DEF Backs

\* A step that puts no claim in flight and touches neither budgets nor lane.
LEMMA BacksSame ==
    ASSUME BInv, phase' \in {phase, "down"}, UNCHANGED <<job, lane>>,
           \A w \in Workers : mem'.budget[w] = mem.budget[w],
           \A c \in Claims : InHand(mem'.claim[c]) =>
                InHand(mem.claim[c]) /\ mem'.claim[c].worker = mem.claim[c].worker
    PROVE  Backs'
<1>1. \A c \in Claims : mem.claim[c] \in ClaimRecord
  BY DEF BInv, TypeOK, Store
<1>2. ASSUME NEW c \in Claims, phase' = "ready", InHand(mem'.claim[c]) PROVE Supported(mem, c)'
  <2>1. Supported(mem, c) /\ mem.claim[c].worker \in Workers
    BY <1>1, <1>2 DEF BInv, Backs, InHand, ClaimRecord
  <2> QED
    BY <1>2, <2>1 DEF Supported
<1> QED
  BY <1>2 DEF BInv, Backs

\* Writes about no claim and no budget.
LEMMA BacksWrites ==
    ASSUME BInv, NEW ws, Silent(ws), Claimless(ws), NEW k \in Cuts(ws), Write(ws, k)
    PROVE  /\ \A w \in Workers : mem'.budget[w] = mem.budget[w]
           /\ \A c \in Claims : mem'.claim[c] = mem.claim[c]
           /\ phase' \in {phase, "down"}
<1>1. k \in 0..Len(ws)
  BY DEF Cuts, Silent
<1>2. \A c \in Claims : mem'.claim[c] = mem.claim[c]
  BY <1>1, ClaimlessReplayed DEF Write
<1>3. Settles(ws, NoWorker)
  BY SilentSettles
<1>4. BudgetAfter(mem, mem', NoWorker, FALSE, "settled")
  BY <1>1, <1>3, SettlesReplayed DEF Write
<1> QED
  BY <1>2, <1>4 DEF BudgetAfter, Write

\* Writes of one claim and of no budget.
LEMMA BacksClaim ==
    ASSUME BInv, NEW ws, Silent(ws), NEW c, NEW V, ClaimOnly(ws, c, V), NEW k \in Cuts(ws), Write(ws, k)
    PROVE  /\ \A w \in Workers : mem'.budget[w] = mem.budget[w]
           /\ \A d \in Claims : mem'.claim[d] = mem.claim[d] \/ (d = c /\ mem'.claim[d] \in V)
           /\ phase' \in {phase, "down"}
<1>1. k \in 0..Len(ws)
  BY DEF Cuts, Silent
<1>2. \A d \in Claims : mem'.claim[d] = mem.claim[d] \/ (d = c /\ mem'.claim[d] \in V)
  BY <1>1, ClaimOnlyReplayed DEF Write
<1>3. Settles(ws, NoWorker)
  BY SilentSettles
<1>4. BudgetAfter(mem, mem', NoWorker, FALSE, "settled")
  BY <1>1, <1>3, SettlesReplayed DEF Write
<1> QED
  BY <1>2, <1>4 DEF BudgetAfter, Write

\* A verdict leads from one claim in flight to another, or out of flight.
LEMMA LiveSources ==
    ASSUME NEW s \in ClaimStates, NEW to \in Transitions[s], to \in ClaimLive
    PROVE  s \in ClaimLive
<1>1. \A x \in {"quarantined", "none", "released"} : x \in ClaimStates /\ x \notin Releasable
  BY DEF ClaimStates, Releasable
<1>2. \A x \in {"quarantined", "none", "released"} : Transitions[x] = {}
  BY <1>1 DEF Transitions
<1>3. \A x \in Releasable :
          x \in ClaimStates /\ x \notin {"active", "awaiting_review", "reviewing", "correction_required"}
  BY DEF ClaimStates, Releasable
<1>4. \A x \in Releasable : Transitions[x] = {"released"}
  BY <1>3 DEF Transitions
<1>5. s \in Releasable \cup {"quarantined", "none", "released"} \cup ClaimLive
  BY DEF ClaimStates
<1>6. "released" \notin ClaimLive
  BY DEF ClaimLive
<1> QED
  BY <1>2, <1>4, <1>5, <1>6

LEMMA BacksRequests ==
    ASSUME BInv,
           \/ \E r \in Runs : Accept(r) \/ \E to \in RunStates : GateTransition(r, to)
           \/ StopEngage \/ StopResume
           \/ \E c \in Claims : ClaimRelease(c) \/ \E to \in ClaimStates : ClaimTransition(c, to)
    PROVE  Backs'
<1>1. ASSUME NEW kind \in {"run", "stop"}, NEW key, NEW val, Request(<<Put(kind, key, val)>>)
      PROVE  Backs'
  <2> DEFINE ws == <<Put(kind, key, val)>>
  <2>1. Silent(ws) /\ Claimless(ws)
    BY DEF Silent, Claimless, Put
  <2>2. PICK k \in Cuts(ws) : Write(ws, k)
    BY <1>1 DEF Request
  <2>3. UNCHANGED <<job, lane>>
    BY <1>1 DEF Request
  <2> HIDE DEF ws
  <2> QED
    BY <2>1, <2>2, <2>3, BacksWrites, BacksSame
<1>2. ASSUME NEW c \in Claims, NEW to \in Transitions[mem.claim[c].state], to \in ClaimStates,
             Request(<<Put("claim", c, In(mem.claim[c], to))>>)
      PROVE  Backs'
  <2> DEFINE val == In(mem.claim[c], to)
             ws == <<Put("claim", c, val)>>
  <2>1. mem.claim[c] \in ClaimRecord
    BY DEF BInv, TypeOK, Store
  <2>2. val.state = to /\ val.worker = mem.claim[c].worker
    BY <2>1 DEF In, ClaimRecord
  <2>3. InHand(val) => InHand(mem.claim[c])
    BY <1>2, <2>1, <2>2, LiveSources DEF InHand, ClaimRecord
  <2>4. ClaimOnly(ws, c, {val}) /\ Silent(ws)
    BY ClaimOnlyShort, Short
  <2>5. PICK k \in Cuts(ws) : Write(ws, k)
    BY <1>2 DEF Request
  <2>6. UNCHANGED <<job, lane>>
    BY <1>2 DEF Request
  <2> HIDE DEF ws, val
  <2>7. /\ \A w \in Workers : mem'.budget[w] = mem.budget[w]
        /\ \A d \in Claims : mem'.claim[d] = mem.claim[d] \/ (d = c /\ mem'.claim[d] \in {val})
        /\ phase' \in {phase, "down"}
    BY <2>4, <2>5, BacksClaim
  <2> QED
    BY <2>2, <2>3, <2>6, <2>7, BacksSame
<1>3. ASSUME NEW r \in Runs, NEW to, Accept(r) \/ GateTransition(r, to) PROVE Backs'
  BY <1>1, <1>3 DEF Accept, GateTransition
<1>4. ASSUME StopEngage \/ StopResume PROVE Backs'
  BY <1>1, <1>4 DEF StopEngage, StopResume
<1>5. ASSUME NEW c \in Claims, ClaimRelease(c) PROVE Backs'
  BY <1>2, <1>5 DEF ClaimRelease, ClaimStates
<1>6. ASSUME NEW c \in Claims, NEW to \in ClaimStates, ClaimTransition(c, to) PROVE Backs'
  BY <1>2, <1>6 DEF ClaimTransition
<1> QED
  BY <1>3, <1>4, <1>5, <1>6

\* Where a launch starts from, and the claim as it moves it.
LEMMA LaunchPoint ==
    ASSUME BInv, NEW r \in Runs, NEW c \in Claims, Startable(r, c)
    PROVE  /\ phase = "ready" /\ job = Nothing /\ lane = Nothing
           /\ \A d \in Claims : ~InHand(mem.claim[d])
           /\ Moved(r, c) \in ClaimRecord /\ Moved(r, c).worker = NoWorker
           /\ Moved(r, c).state \in {"active", "reviewing"}
<1>1. phase = "ready" /\ job = Nothing /\ lane = Nothing /\ lane.worker = NoWorker
  BY DEF Startable, Authorized, Serving, Nothing
<1>2. \A d \in Claims : ~InHand(mem.claim[d])
  BY <1>1 DEF BInv, Backs, Supported, InHand
<1>3. Moved(r, c) \in ClaimRecord
  BY TypedMoved DEF BInv
<1>4. mem.claim[c] \in ClaimRecord
  BY DEF BInv, TypeOK, Store
<1>5. CASE ModeOf[r] = "new"
  BY <1>1, <1>2, <1>3, <1>5 DEF Moved
<1>6. CASE ModeOf[r] # "new"
  <2>1. mem.claim[c].state \in ClaimLive
    BY <1>6 DEF Startable, ClaimLive
  <2>2. mem.claim[c].worker = NoWorker
    BY <1>2, <2>1 DEF InHand
  <2>3. Moved(r, c).state \in {"active", "reviewing"} /\ Moved(r, c).worker = NoWorker
    BY <1>4, <1>6, <2>2 DEF Moved, In, ClaimRecord
  <2> QED
    BY <1>1, <1>2, <1>3, <2>3
<1> QED
  BY <1>5, <1>6

\* A launch that leaves nothing behind, or a quarantine.
LEMMA BacksFailed ==
    ASSUME BInv, NEW r \in Runs, NEW c \in Claims, NEW w,
           StartExhausted(r, c) \/ StartConclusive(r, c, w) \/ StartAmbiguous(r, c, w)
    PROVE  Backs'
<1>1. Startable(r, c)
  BY DEF StartExhausted, StartConclusive, StartAmbiguous
<1>2. /\ phase = "ready" /\ job = Nothing /\ \A d \in Claims : ~InHand(mem.claim[d])
      /\ Moved(r, c) \in ClaimRecord /\ Moved(r, c).worker = NoWorker
  BY <1>1, LaunchPoint
<1> DEFINE V == {v \in ClaimRecord : v.worker = NoWorker}
<1>3. Moved(r, c) \in V /\ \A to \in {"interrupted", "failed", "quarantined"} : In(Moved(r, c), to) \in V
  <2>1. \A to \in {"interrupted", "failed", "quarantined"} : to \in ClaimStates
    BY TypedStates
  <2>2. \A to \in ClaimStates : In(Moved(r, c), to) \in ClaimRecord
                                /\ In(Moved(r, c), to).worker = NoWorker
    BY <1>2 DEF In, ClaimRecord
  <2> QED
    BY <1>2, <2>1, <2>2
<1>4. job' = Nothing
  BY <1>2 DEF StartExhausted, StartConclusive, StartAmbiguous, Request
<1>a. \A v \in V : ~InHand(v)
  BY DEF InHand
<1> HIDE DEF V
<1>5. ASSUME NEW ws, ClaimOnly(ws, c, V), NEW k \in Cuts(ws), Write(ws, k) PROVE Backs'
  <2>1. k \in 0..Len(ws)
    BY <1>5 DEF Cuts, ClaimOnly
  <2>2. \A d \in Claims : mem'.claim[d] = mem.claim[d] \/ mem'.claim[d] \in V
    BY <1>5, <2>1, ClaimOnlyReplayed DEF Write
  <2> QED
    BY <1>2, <1>4, <1>a, <2>2, BacksIdle
<1>6. ClaimOnly(Opening(r, c, w), c, V)
  <2> DEFINE ws == Opening(r, c, w)
  <2>1. /\ Len(ws) = 4 /\ ws[1] = Put("claim", c, Moved(r, c))
        /\ \A i \in 1..4 : ws[i].kind = "claim" => i = 1
    BY DEF Opening, Audit, Put
  <2> HIDE DEF ws
  <2> QED
    BY <1>3, <2>1 DEF ClaimOnly, Put, ws
<1>7. CASE StartExhausted(r, c)
  <2> DEFINE ws == <<Put("claim", c, Moved(r, c)), Put("claim", c, In(Moved(r, c), "interrupted"))>>
  <2>1. ClaimOnly(ws, c, V)
    BY <1>3 DEF ClaimOnly, Put
  <2>2. PICK k \in Cuts(ws) : Write(ws, k)
    BY <1>7 DEF StartExhausted, Request
  <2> HIDE DEF ws
  <2> QED
    BY <1>5, <2>1, <2>2
<1>8. CASE StartConclusive(r, c, w)
  <2> DEFINE end == <<Put("budget", w, "refunded"), Put("claim", c, In(Moved(r, c), "failed")),
                      Put("run", r, "failed")>>
             ws == Opening(r, c, w) \o end \o Audit
  <2>1. ClaimOnly(end, c, V)
    BY <1>3 DEF ClaimOnly, Put
  <2>2. PICK k \in Cuts(ws) : Write(ws, k)
    BY <1>8 DEF StartConclusive
  <2> HIDE DEF end
  <2>3. ClaimOnly(ws, c, V)
    BY <1>6, <2>1, ClaimOnlyShort, ClaimOnlyJoin
  <2> HIDE DEF ws
  <2> QED
    BY <1>5, <2>2, <2>3
<1>9. CASE StartAmbiguous(r, c, w)
  <2> DEFINE ws == Opening(r, c, w) \o AmbiguousWrites(r, c, w)
  <2>1. ClaimOnly(AmbiguousWrites(r, c, w), c, V)
    BY <1>3 DEF ClaimOnly, AmbiguousWrites, Put
  <2>2. PICK k \in Cuts(ws) : Write(ws, k)
    BY <1>9 DEF StartAmbiguous
  <2>3. ClaimOnly(ws, c, V)
    BY <1>6, <2>1, ClaimOnlyJoin
  <2> HIDE DEF ws
  <2> QED
    BY <1>5, <2>2, <2>3
<1> QED
  BY <1>7, <1>8, <1>9

\* An observed launch attaches its claim to a reserved worker and holds the lane.
LEMMA ObservedAfter ==
    ASSUME BInv, NeverRefused, NEW r \in Runs, NEW c \in Claims, NEW w \in Workers,
           StartObserved(r, c, w), phase' # "down"
    PROVE  /\ phase' = "ready" /\ job' = Nothing
           /\ lane'.worker = w /\ lane'.claim = c
           /\ mem'.budget[w] = "reserved"
           /\ mem'.claim[c].worker = w
           /\ mem'.claim[c].state \in {"active", "reviewing"}
           /\ \A d \in Claims : d # c => mem'.claim[d] = mem.claim[d]
<1> DEFINE attached == [Moved(r, c) EXCEPT !.worker = w]
           ws == Opening(r, c, w) \o Audit \o
                   <<Put("run", r, "running"), Put("claim", c, attached)>>
           V == {Moved(r, c), attached}
<1>1. /\ Len(ws) = 7 /\ ws[1] = Put("claim", c, Moved(r, c))
      /\ ws[2] = Put("budget", w, "reserved") /\ ws[7] = Put("claim", c, attached)
      /\ \A i \in 1..7 : ws[i].kind = "claim" => i \in {1, 7}
      /\ \A i \in 1..7 : ws[i].kind = "budget" => i = 2
  BY DEF Opening, Audit, Put
<1>2. Startable(r, c) /\ UNCHANGED job
  BY DEF StartObserved
<1>3. PICK k \in Cuts(ws) : Write(ws, k) /\ lane' = LaneTaken(k, r, c, w)
  BY DEF StartObserved
<1>4. phase = "ready" /\ job = Nothing
      /\ Moved(r, c) \in ClaimRecord /\ Moved(r, c).state \in {"active", "reviewing"}
  BY <1>2, LaunchPoint
<1>5. attached.worker = w /\ attached.state \in {"active", "reviewing"}
  BY <1>4 DEF ClaimRecord
<1> HIDE DEF ws, attached
<1>6. k = Len(ws) /\ phase' = phase
  BY <1>3, Whole
<1>7. k = 7 /\ k \in 0..Len(ws) /\ Len(ws) \in Nat /\ Len(ws) >= 2
  BY <1>1, <1>6
<1>8. lane'.worker = w /\ lane'.claim = c
  BY <1>3, <1>7 DEF LaneTaken
<1>9. mem'.budget[w] = "reserved"
  <2>1. \A i \in 1..Len(ws) : ws[i].kind = "budget" =>
            i = 2 \/ (i = 5 /\ ws[i] = Put("budget", w, "reserved"))
    BY <1>1
  <2>2. PICK end : /\ k >= 2 => end \in {"reserved", "reserved"}
                   /\ \A S : BudgetAfter(S, Replay(S, Kept(ws, k)), w, k >= 2, end)
    BY <1>1, <1>7, <2>1, OpeningReplayed
  <2>3. end = "reserved"
    BY <1>7, <2>2
  <2>4. mem' = Replay(mem, Kept(ws, k))
    BY <1>3 DEF Write
  <2>5. BudgetAfter(mem, Replay(mem, Kept(ws, k)), w, k >= 2, end)
    BY <2>2
  <2>6. mem'.budget = [v \in Workers |-> IF k >= 2 /\ v = w THEN end ELSE mem.budget[v]]
    BY <2>4, <2>5 DEF BudgetAfter
  <2> QED
    BY <1>7, <2>3, <2>6
<1>10. mem'.claim[c] = attached
  <2>1. /\ 7 \in 1..Len(ws) /\ ws[7].kind = "claim" /\ ws[7].key = c /\ ws[7].val = attached
        /\ \A m \in 1..Len(ws) : ws[m].kind = "claim" => m <= 7
    BY <1>1 DEF Put
  <2>2. Replay(mem, Kept(ws, Len(ws))).claim[ws[7].key] = ws[7].val
    BY <1>7, <2>1, ClaimLast
  <2> QED
    BY <1>3, <1>6, <2>1, <2>2 DEF Write
<1>11. \A d \in Claims : d # c => mem'.claim[d] = mem.claim[d]
  <2>1. ClaimOnly(ws, c, V)
    BY <1>1 DEF ClaimOnly, Put
  <2> HIDE DEF V
  <2> QED
    BY <1>3, <1>7, <2>1, ClaimOnlyReplayed DEF Write
<1> QED
  BY <1>2, <1>4, <1>5, <1>6, <1>8, <1>9, <1>10, <1>11

LEMMA BacksObserved ==
    ASSUME BInv, NeverRefused, NEW r \in Runs, NEW c \in Claims, NEW w \in Workers,
           StartObserved(r, c, w)
    PROVE  Backs'
<1>1. CASE phase' = "down"
  BY <1>1 DEF Backs
<1>2. CASE phase' # "down"
  <2>1. \A d \in Claims : ~InHand(mem.claim[d])
    BY LaunchPoint DEF StartObserved
  <2>2. /\ phase' = "ready" /\ job' = Nothing
        /\ lane'.worker = w /\ lane'.claim = c
        /\ mem'.budget[w] = "reserved"
        /\ mem'.claim[c].worker = w
        /\ \A d \in Claims : d # c => mem'.claim[d] = mem.claim[d]
    BY <1>2, ObservedAfter
  <2> QED
    BY <2>1, <2>2 DEF Backs, Supported, InHand
<1> QED
  BY <1>1, <1>2

LEMMA BacksBegin ==
    ASSUME BInv, NEW c \in Claims, RecoverBegin(c)
    PROVE  Backs'
<1> DEFINE ws == <<Put("recovery", c, "requested"), Put("recovery", c, "stopping")>>
           begun == [worker |-> mem.claim[c].worker, claim |-> c, run |-> mem.claim[c].run]
<1>1. Silent(ws) /\ Claimless(ws)
  BY DEF Silent, Claimless, Put
<1>2. PICK k \in Cuts(ws) : Write(ws, k) /\ job' \in {begun, Nothing}
  BY DEF RecoverBegin
<1>3. phase = "ready" /\ InHand(mem.claim[c]) /\ UNCHANGED lane
  BY DEF RecoverBegin, Serving, InHand, Attached
<1>4. lane.claim = c /\ begun.claim = c
  BY <1>3 DEF BInv, Backs, Supported
<1> HIDE DEF ws, begun
<1>5. /\ \A w \in Workers : mem'.budget[w] = mem.budget[w]
      /\ \A d \in Claims : mem'.claim[d] = mem.claim[d]
      /\ phase' \in {phase, "down"}
  BY <1>1, <1>2, BacksWrites
<1>6. \A d \in Claims : mem.claim[d] \in ClaimRecord
  BY DEF BInv, TypeOK, Store
<1>7. ASSUME NEW d \in Claims, InHand(mem'.claim[d]) PROVE Supported(mem, d)'
  <2>1. Supported(mem, d) /\ mem.claim[d].worker \in Workers
    BY <1>3, <1>5, <1>6, <1>7 DEF BInv, Backs, InHand, ClaimRecord
  <2> QED
    BY <1>3, <1>5, <2>1 DEF Supported
<1> QED
  BY <1>2, <1>3, <1>4, <1>5, <1>7 DEF Backs

\* What the completion writes about the claim of the lane.
LEMMA CompletionClaims ==
    ASSUME NEW w, NEW outcome, NEW V, Detached(mem.claim[lane.claim]) \in V
    PROVE  /\ ClaimOnly(CompletionWrites(w, outcome), lane.claim, V)
           /\ Written(CompletionWrites(w, outcome), lane.claim)
<1> DEFINE settle == <<Put("budget", w, "settled")>>
           detach == <<Put("claim", lane.claim, Detached(mem.claim[lane.claim]))>>
           runs == IF mem.run[lane.run] = "running"
                     THEN <<Put("run", lane.run, RunOutcome(outcome))>> ELSE <<>>
<1>1. /\ ClaimOnly(settle, lane.claim, V) /\ ClaimOnly(runs, lane.claim, V)
      /\ ClaimOnly(Audit, lane.claim, V)
      /\ ClaimOnly(detach, lane.claim, V) /\ Written(detach, lane.claim)
  BY ClaimOnlyShort
<1>2. CompletionWrites(w, outcome) = ((settle \o Audit) \o detach) \o runs
  BY DEF CompletionWrites
<1> HIDE DEF settle, detach, runs
<1>3. ClaimOnly(settle \o Audit, lane.claim, V)
  BY <1>1, ClaimOnlyJoin
<1>4. /\ ClaimOnly((settle \o Audit) \o detach, lane.claim, V)
      /\ Written((settle \o Audit) \o detach, lane.claim)
  BY <1>1, <1>3, ClaimOnlyJoin
<1> QED
  BY <1>1, <1>2, <1>4, ClaimOnlyJoin

\* The exit detaches the lane's claim, the only one in flight, or changes
\* nothing of it.
LEMMA BacksClose ==
    ASSUME BInv, NeverRefused, NEW w \in Workers, NEW exit, OuterClose(w, exit)
    PROVE  Backs'
<1>0. UNCHANGED job /\ Up
  BY DEF OuterClose
<1>1. CASE ~Completes(w)
  <2>1. UNCHANGED <<mem, phase, lane>>
    BY <1>1 DEF OuterClose
  <2> QED
    BY <1>0, <2>1, BacksSame
<1>2. CASE Completes(w)
  <2> DEFINE outcome == IF view[w] = "stopping" THEN "cancelled" ELSE exit
             ws == CompletionWrites(w, outcome)
             V == {Detached(mem.claim[lane.claim])}
  <2>1. PICK k \in Cuts(ws) : Write(ws, k) /\ lane' = IF k = Len(ws) THEN Nothing ELSE lane
    BY <1>2 DEF OuterClose
  <2>2. ClaimOnly(ws, lane.claim, V) /\ Written(ws, lane.claim)
    BY CompletionClaims
  <2>3. lane.claim \in Claims => \A v \in V : ~InHand(v)
    <3>1. lane.claim \in Claims => mem.claim[lane.claim] \in ClaimRecord
      BY DEF BInv, TypeOK, Store
    <3> QED
      BY <3>1 DEF Detached, ClaimRecord, InHand
  <2> HIDE DEF ws, V, outcome
  <2>4. CASE phase' = "ready"
    <3>1. k = Len(ws) /\ phase = "ready" /\ k \in 0..Len(ws)
      BY <2>1, <2>2, <2>4, Whole DEF ClaimOnly
    <3>2. /\ \A d \in Claims : d # lane.claim => mem'.claim[d] = mem.claim[d]
          /\ lane.claim \in Claims => mem'.claim[lane.claim] \in V
      BY <2>1, <2>2, <3>1, ClaimOnlyReplayed DEF Write
    <3>3. \A d \in Claims : d # lane.claim => ~InHand(mem.claim[d])
      BY <3>1 DEF BInv, Backs, Supported
    <3>4. \A d \in Claims : ~InHand(mem'.claim[d])
      BY <2>3, <3>2, <3>3
    <3>5. lane' = Nothing
      BY <2>1, <3>1
    <3> QED
      BY <2>4, <3>4, <3>5, BacksIdle
  <2>5. CASE phase' # "ready"
    <3>1. phase' # "replaying"
      BY <1>0, <2>1 DEF Write, Up
    <3> QED
      BY <2>5, <3>1 DEF Backs
  <2> QED
    BY <2>4, <2>5
<1> QED
  BY <1>1, <1>2

\* The same of a recovery, whose last write about its claim ends the flight.
LEMMA RecoveryOnly ==
    ASSUME NEW S, NEW j, NEW gone, NEW V, Detached(S.claim[j.claim]) \in V,
           In(Detached(S.claim[j.claim]), IF gone THEN "interrupted" ELSE "quarantined") \in V
    PROVE  /\ ClaimOnly(RecoveryWrites(S, j, gone), j.claim, V)
           /\ Written(RecoveryWrites(S, j, gone), j.claim)
<1> DEFINE record == S.claim[j.claim]
           last == In(Detached(record), IF gone THEN "interrupted" ELSE "quarantined")
           mark == Put("recovery", j.claim, IF gone THEN "cleaning" ELSE "quarantined")
           first == IF S.budget[j.worker] = "reserved" THEN <<Put("budget", j.worker, "settled")>>
                    ELSE <<>>
           detach == IF Attached(S, j.claim) THEN <<Put("claim", j.claim, Detached(record))>> ELSE <<>>
           middle == <<mark, Put("claim", j.claim, last)>>
           runs == IF S.run[j.run] = "running" THEN <<Put("run", j.run, "interrupted")>> ELSE <<>>
           done == IF gone THEN <<Put("recovery", j.claim, "complete")>> ELSE <<>>
<1>1. /\ ClaimOnly(first, j.claim, V) /\ ClaimOnly(detach, j.claim, V)
      /\ ClaimOnly(runs, j.claim, V) /\ ClaimOnly(done, j.claim, V) /\ ClaimOnly(Audit, j.claim, V)
  BY ClaimOnlyShort
<1>2. ClaimOnly(middle, j.claim, V) /\ Written(middle, j.claim)
  BY DEF ClaimOnly, Written, Put
<1>3. RecoveryWrites(S, j, gone) = ((((first \o detach) \o middle) \o runs) \o done) \o Audit
  BY DEF RecoveryWrites
<1> HIDE DEF first, detach, middle, runs, done
<1>4. ClaimOnly(first \o detach, j.claim, V)
  BY <1>1, ClaimOnlyJoin
<1>5. /\ ClaimOnly((first \o detach) \o middle, j.claim, V)
      /\ Written((first \o detach) \o middle, j.claim)
  BY <1>2, <1>4, ClaimOnlyJoin
<1>6. /\ ClaimOnly(((first \o detach) \o middle) \o runs, j.claim, V)
      /\ Written(((first \o detach) \o middle) \o runs, j.claim)
  BY <1>1, <1>5, ClaimOnlyJoin
<1>7. /\ ClaimOnly((((first \o detach) \o middle) \o runs) \o done, j.claim, V)
      /\ Written((((first \o detach) \o middle) \o runs) \o done, j.claim)
  BY <1>1, <1>6, ClaimOnlyJoin
<1> QED
  BY <1>1, <1>3, <1>7, ClaimOnlyJoin

LEMMA BacksEnd ==
    ASSUME BInv, NeverRefused, NEW gone \in BOOLEAN, RecoverEnd(gone)
    PROVE  Backs'
<1> DEFINE ws == RecoveryWrites(mem, job, gone)
           record == mem.claim[job.claim]
           V == {Detached(record), In(Detached(record), IF gone THEN "interrupted" ELSE "quarantined")}
<1>1. PICK k \in Cuts(ws) : Write(ws, k)
  BY DEF RecoverEnd
<1>2. Up /\ job # Nothing /\ job' = Nothing /\ UNCHANGED lane
  BY DEF RecoverEnd
<1>3. ClaimOnly(ws, job.claim, V) /\ Written(ws, job.claim)
  BY RecoveryOnly
<1>4. job.claim \in Claims => \A v \in V : ~InHand(v)
  <2>1. job.claim \in Claims => record \in ClaimRecord
    BY DEF BInv, TypeOK, Store
  <2> QED
    BY <2>1 DEF Detached, In, ClaimRecord, InHand
<1> HIDE DEF ws, V
<1>5. CASE phase' = "ready"
  <2>1. k = Len(ws) /\ phase = "ready" /\ k \in 0..Len(ws)
    BY <1>1, <1>3, <1>5, Whole DEF ClaimOnly
  <2>2. /\ \A d \in Claims : d # job.claim => mem'.claim[d] = mem.claim[d]
        /\ job.claim \in Claims => mem'.claim[job.claim] \in V
    BY <1>1, <1>3, <2>1, ClaimOnlyReplayed DEF Write
  <2>3. \A d \in Claims : d # job.claim => ~InHand(mem.claim[d])
    BY <1>2, <2>1 DEF BInv, Backs, Supported, InHand, Nothing
  <2>4. \A d \in Claims : ~InHand(mem'.claim[d])
    BY <1>4, <2>2, <2>3
  <2> QED
    BY <1>2, <1>5, <2>4, BacksIdle
<1>6. CASE phase' # "ready"
  <2>1. phase' # "replaying"
    BY <1>1, <1>2 DEF Write, Up
  <2> QED
    BY <1>6, <2>1 DEF Backs
<1> QED
  BY <1>5, <1>6

LEMMA BacksOther ==
    ASSUME BInv,
           \/ \E gone \in BOOLEAN : StaleRecoverEnd(gone)
           \/ RecoverUnread \/ StaleRecoverUnread
           \/ \E c \in Claims : Reconcile(c)
           \/ \E w \in Workers : Cancel(w) \/ ChildDies(w) \/ OuterCloseUnproven(w)
           \/ GateLoss \/ Connect \/ Crash \/ Boot \/ Serve \/ UNCHANGED vars
    PROVE  Backs'
<1>1. ASSUME NEW gone \in BOOLEAN, StaleRecoverEnd(gone) PROVE Backs'
  <2>1. phase' \in {phase, "down"} /\ UNCHANGED <<mem, job, lane>>
    BY <1>1 DEF StaleRecoverEnd
  <2> QED
    BY <2>1, BacksSame
<1>2. ASSUME NEW c \in Claims, Reconcile(c) PROVE Backs'
  <2>1. phase = "replaying" /\ phase' \in {phase, "down"} /\ UNCHANGED job
    BY <1>2 DEF Reconcile
  <2> QED
    BY <2>1 DEF BInv, Backs
<1>3. ASSUME NEW w \in Workers, Cancel(w) \/ ChildDies(w) \/ OuterCloseUnproven(w) PROVE Backs'
  <2>1. UNCHANGED <<mem, phase, job, lane>>
    BY <1>3 DEF Cancel, ChildDies, OuterCloseUnproven
  <2> QED
    BY <2>1, BacksSame
<1>4. CASE GateLoss
  BY <1>4 DEF GateLoss, Backs
<1>5. CASE Connect \/ Boot
  BY <1>5 DEF Connect, Boot, Backs
<1>6. CASE Crash
  BY <1>6 DEF Crash, Backs
<1>7. CASE Serve
  <2>1. UNCHANGED <<mem, job>> /\ job = Nothing
    BY <1>7 DEF Serve, volatile, BInv, Backs
  <2>2. \A c \in Claims : ~InHand(mem.claim[c])
    BY <1>7 DEF Serve, InFlight, Attached, InHand
  <2> QED
    BY <2>1, <2>2, BacksIdle
<1>8. CASE UNCHANGED vars
  BY <1>8, BacksSame DEF vars, volatile
<1>9. CASE RecoverUnread \/ StaleRecoverUnread
  BY <1>9 DEF RecoverUnread, StaleRecoverUnread, BInv, Backs, Supported
<1> QED
  BY <1>1, <1>2, <1>3, <1>4, <1>5, <1>6, <1>7, <1>8, <1>9

LEMMA BInvStep ==
    ASSUME BInv, NeverRefused, [Next]_vars
    PROVE  BInv'
<1>1. TypeOK'
  BY TypedStep DEF BInv
<1>2. ASSUME NEW r \in Runs, NEW c \in Claims, StartExhausted(r, c) PROVE Backs'
  BY <1>2, BacksFailed
<1>3. ASSUME NEW r \in Runs, NEW c \in Claims, NEW w \in Workers,
             StartConclusive(r, c, w) \/ StartAmbiguous(r, c, w) \/ StartObserved(r, c, w)
      PROVE  Backs'
  BY <1>3, BacksFailed, BacksObserved
<1>4. Backs'
  BY <1>2, <1>3, BacksRequests, BacksBegin, BacksClose, BacksEnd, BacksOther DEF Next
<1> QED
  BY <1>1, <1>4 DEF BInv

LEMMA BInvInit == Init => BInv
<1> SUFFICES ASSUME Init PROVE BInv
  OBVIOUS
<1>1. TypeOK
  BY TypedInit
<1>2. \A c \in Claims : ~InHand(mem.claim[c])
  BY DEF Init, FreshStore, InHand
<1> QED
  BY <1>1, <1>2 DEF BInv, Backs, Init

\* Unless a write is refused, a claim in flight between requests has an open
\* reservation and holds the lane, through every crash, lost gate, ambiguous
\* launch, recovery and exit: a settlement is still to come, and no second
\* worker can start (work-launch.js steps 5 to 9).
THEOREM FlightBacked == ASSUME NeverRefused PROVE Spec => []AttachedIsBacked
<1>1. BInv => AttachedIsBacked
  BY DEF BInv, Backs, AttachedIsBacked, Serving, Attached, InHand, Supported
<1>2. BInv /\ [Next]_vars => BInv'
  BY BInvStep
<1> QED
  BY <1>1, <1>2, BInvInit, PTL DEF Spec

-----------------------------------------------------------------------------
(* Released claims                                                         *)

\* A recovery, of this service or of a superseded one, is of a claim its
\* stores have in flight.
Awaited ==
    /\ job # Nothing => job.claim \in Claims /\ mem.claim[job.claim].state \in ClaimLive
    /\ oldJob # Nothing => oldJob.claim \in Claims /\ old.claim[oldJob.claim].state \in ClaimLive

\* A live process is its claim's worker, or its claim can never be released;
\* the worker a recovery awaits the proof for is its claim's.
Kin(v, c) == mem.claim[c].worker = v \/ mem.claim[c].state = "quarantined"
Kinship == \A v \in LiveWorkers, c \in Claims : mem.mark[v].claim = c => Kin(v, c)
JobsOwn == job # Nothing => mem.claim[job.claim].worker \in {job.worker, NoWorker}

\* Until the root lane is latched the stores are the journal's, no superseded
\* recovery is left, and a boot starts with nothing alive.
Clean ==
    ~latched =>
        /\ mem = disk /\ oldJob = Nothing
        /\ phase = "replaying" => LiveWorkers = {}
        /\ phase = "ready" => Kinship /\ JobsOwn
RInv == BInv /\ FInv /\ Awaited /\ Clean /\ ReleasedMeansGone
Shut == Awaited' /\ Clean' /\ ReleasedMeansGone'

LEMMA StillGone ==
    ASSUME ReleasedMeansGone, NoneRevived, \A w \in Workers : disk'.mark[w] = disk.mark[w],
           \A c \in Claims : disk'.claim[c].state = "released" => disk.claim[c].state = "released"
    PROVE  ReleasedMeansGone'
  BY DEF ReleasedMeansGone, NoneRevived, WorkersOf, LiveWorkers

LEMMA KinshipKept ==
    ASSUME Kinship, NoneRevived, \A w \in Workers : mem'.mark[w] = mem.mark[w],
           \A v \in LiveWorkers, c \in Claims : mem.mark[v].claim = c /\ Kin(v, c) => Kin(v, c)'
    PROVE  Kinship'
  BY DEF Kinship, NoneRevived, LiveWorkers

\* While nothing is alive, a step of a ready service with no recovery of its
\* own that starts nothing.
LEMMA ShutIdle ==
    ASSUME RInv, LiveWorkers' = {}, UNCHANGED <<latched, old, oldJob>>, job' = Nothing,
           mem = disk => mem' = disk', phase' # "replaying"
    PROVE  Shut
<1>1. Awaited'
  BY DEF RInv, Awaited
<1>2. Clean'
  BY DEF RInv, Clean, Kinship, JobsOwn
<1>3. ReleasedMeansGone'
  BY DEF ReleasedMeansGone
<1> QED
  BY <1>1, <1>2, <1>3 DEF Shut

\* A prefix of writes of a serving service, about one claim at most, none of
\* them a mark.
LEMMA ClaimWrites ==
    ASSUME NEW ws, NoneMarked(ws), NEW c, NEW V, ClaimOnly(ws, c, V), NEW k \in Cuts(ws), Write(ws, k)
    PROVE  /\ mem = disk => mem' = disk'
           /\ phase' \in {phase, "down"}
           /\ \A w \in Workers : disk'.mark[w] = disk.mark[w] /\ mem'.mark[w] = mem.mark[w]
           /\ \A d \in Claims : mem'.claim[d] = mem.claim[d] \/ (d = c /\ mem'.claim[d] \in V)
           /\ \A d \in Claims : disk'.claim[d] = disk.claim[d] \/ (d = c /\ disk'.claim[d] \in V)
<1>1. k \in 0..Len(ws)
  BY DEF Cuts, NoneMarked
<1>2. disk' = Replay(disk, Kept(ws, k)) /\ mem' = Replay(mem, Kept(ws, k)) /\ phase' \in {phase, "down"}
  BY DEF Write
<1>3. \A w \in Workers : disk'.mark[w] = disk.mark[w] /\ mem'.mark[w] = mem.mark[w]
  BY <1>1, <1>2, FinishReplayed
<1>4. \A d \in Claims : mem'.claim[d] = mem.claim[d] \/ (d = c /\ mem'.claim[d] \in V)
  BY <1>1, <1>2, ClaimOnlyReplayed
<1>5. \A d \in Claims : disk'.claim[d] = disk.claim[d] \/ (d = c /\ disk'.claim[d] \in V)
  BY <1>1, <1>2, ClaimOnlyReplayed
<1> QED
  BY <1>2, <1>3, <1>4, <1>5

\* Writes about no claim: requests about runs and STOP, and the beginning of a
\* recovery.
LEMMA ShutQuiet ==
    ASSUME RInv, NEW ws, NoneMarked(ws), Claimless(ws), NEW k \in Cuts(ws), Write(ws, k),
           phase = "ready", job = Nothing, UNCHANGED <<child, latched, old, oldJob>>,
           \/ job' = Nothing
           \/ /\ job'.claim \in Claims /\ job'.worker = mem.claim[job'.claim].worker
              /\ mem.claim[job'.claim].state \in ClaimLive
    PROVE  Shut
<1>1. ClaimOnly(ws, NoClaim, {})
  BY DEF Claimless, ClaimOnly
<1>2. /\ mem = disk => mem' = disk'
      /\ phase' \in {phase, "down"}
      /\ \A w \in Workers : disk'.mark[w] = disk.mark[w] /\ mem'.mark[w] = mem.mark[w]
      /\ \A d \in Claims : mem'.claim[d] = mem.claim[d] /\ disk'.claim[d] = disk.claim[d]
  BY <1>1, ClaimWrites
<1>3. NoneRevived
  BY DEF NoneRevived
<1>4. ReleasedMeansGone'
  BY <1>2, <1>3, StillGone DEF RInv
<1>5. Awaited'
  BY <1>2 DEF RInv, Awaited
<1>6. Clean'
  <2>1. ASSUME Kinship PROVE Kinship'
    BY <1>2, <1>3, <2>1, KinshipKept DEF Kin
  <2>2. JobsOwn'
    BY <1>2 DEF JobsOwn
  <2> QED
    BY <1>2, <2>1, <2>2 DEF RInv, Clean
<1> QED
  BY <1>4, <1>5, <1>6 DEF Shut

\* Nothing leads out of a quarantine, and only an end leads to a release.
LEMMA ReleaseSources ==
    /\ Transitions["quarantined"] = {}
    /\ \A s \in ClaimLive : s # "quarantined" /\ s # "released"
  BY DEF Transitions, ClaimStates, Releasable, ClaimLive

\* A verdict of the gate moves no claim to "released"; a release waits for the
\* claim's worker.
LEMMA ShutRequests ==
    ASSUME RInv,
           \/ \E r \in Runs : Accept(r) \/ \E to \in RunStates : GateTransition(r, to)
           \/ StopEngage \/ StopResume
           \/ \E c \in Claims : ClaimRelease(c) \/ \E to \in ClaimStates : ClaimTransition(c, to)
    PROVE  Shut
<1>1. ASSUME NEW kind \in {"run", "stop"}, NEW key, NEW val, Request(<<Put(kind, key, val)>>), Serving
      PROVE  Shut
  <2> DEFINE ws == <<Put(kind, key, val)>>
  <2>1. NoneMarked(ws) /\ Claimless(ws)
    BY DEF NoneMarked, Claimless, Put
  <2>2. PICK k \in Cuts(ws) : Write(ws, k)
    BY <1>1 DEF Request
  <2>3. UNCHANGED <<old, job, oldJob, child, latched>> /\ phase = "ready" /\ job = Nothing
    BY <1>1 DEF Request, Serving
  <2> HIDE DEF ws
  <2> QED
    BY <2>1, <2>2, <2>3, ShutQuiet
<1>2. ASSUME NEW c \in Claims, NEW to \in Transitions[mem.claim[c].state], Authorized,
             Request(<<Put("claim", c, In(mem.claim[c], to))>>),
             to = "released" => mem.claim[c].worker = NoWorker
      PROVE  Shut
  <2> DEFINE val == In(mem.claim[c], to)
             ws == <<Put("claim", c, val)>>
  <2>1. mem.claim[c] \in ClaimRecord
    BY DEF RInv, BInv, TypeOK, Store
  <2>2. val.state = to /\ val.worker = mem.claim[c].worker
    BY <2>1 DEF In, ClaimRecord
  <2>3. ClaimOnly(ws, c, {val}) /\ NoneMarked(ws)
    <3>1. ClaimOnly(ws, c, {val})
      BY ClaimOnlyShort
    <3>2. NoneMarked(ws)
      BY DEF NoneMarked, Put
    <3> QED
      BY <3>1, <3>2
  <2>4. PICK k \in Cuts(ws) : Write(ws, k)
    BY <1>2 DEF Request
  <2>5. UNCHANGED <<old, job, oldJob, child, latched>> /\ phase = "ready" /\ job = Nothing /\ ~latched
    BY <1>2 DEF Request, Serving, Authorized
  <2> HIDE DEF ws, val
  <2>6. /\ mem = disk => mem' = disk'
        /\ phase' \in {phase, "down"}
        /\ \A w \in Workers : disk'.mark[w] = disk.mark[w] /\ mem'.mark[w] = mem.mark[w]
        /\ \A d \in Claims : mem'.claim[d] = mem.claim[d] \/ (d = c /\ mem'.claim[d] = val)
        /\ \A d \in Claims : disk'.claim[d] = disk.claim[d] \/ (d = c /\ disk'.claim[d] = val)
    BY <2>3, <2>4, ClaimWrites
  <2>7. NoneRevived
    BY <2>5 DEF NoneRevived
  <2>8. mem = disk /\ oldJob = Nothing /\ Kinship
    BY <2>5 DEF RInv, Clean
  <2>9. mem.claim[c].state # "quarantined"
    BY <1>2, ReleaseSources
  <2>10. Kinship'
    <3>1. ASSUME NEW v \in LiveWorkers, NEW d \in Claims, Kin(v, d) PROVE Kin(v, d)'
      BY <2>2, <2>6, <2>9, <3>1 DEF Kin
    <3> QED
      BY <2>6, <2>7, <2>8, <3>1, KinshipKept
  <2>11. Clean'
    BY <2>5, <2>6, <2>8, <2>10 DEF Clean, JobsOwn
  <2>12. Awaited'
    BY <2>5, <2>8 DEF Awaited
  <2>13. ReleasedMeansGone'
    <3>1. CASE to # "released"
      BY <2>2, <2>6, <2>7, <3>1, StillGone DEF RInv
    <3>2. CASE to = "released"
      <4>1. \A v \in LiveWorkers : mem.mark[v].claim # c
        BY <1>2, <2>8, <2>9, <3>2, WorkerAssumption DEF Kinship, Kin, LiveWorkers
      <4>2. \A v \in LiveWorkers' : v \in LiveWorkers /\ v \in Workers
        BY <2>7 DEF NoneRevived, LiveWorkers
      <4>3. \A d \in Claims : d # c /\ disk'.claim[d].state = "released" =>
                                disk.claim[d].state = "released"
        BY <2>6
      <4> QED
        BY <2>6, <2>8, <4>1, <4>2, <4>3 DEF RInv, ReleasedMeansGone, WorkersOf
    <3> QED
      BY <3>1, <3>2
  <2> QED
    BY <2>11, <2>12, <2>13 DEF Shut
<1>3. ASSUME NEW r \in Runs, NEW to, Accept(r) \/ GateTransition(r, to) PROVE Shut
  BY <1>1, <1>3 DEF Accept, GateTransition, Authorized
<1>4. ASSUME StopEngage \/ StopResume PROVE Shut
  BY <1>1, <1>4 DEF StopEngage, StopResume, Authorized
<1>5. ASSUME NEW c \in Claims, ClaimRelease(c) PROVE Shut
  BY <1>2, <1>5 DEF ClaimRelease
<1>6. ASSUME NEW c \in Claims, NEW to \in ClaimStates, ClaimTransition(c, to) PROVE Shut
  BY <1>2, <1>6 DEF ClaimTransition
<1> QED
  BY <1>3, <1>4, <1>5, <1>6

\* The first k writes of a launch of c on w: whatever lives afterwards is w,
\* spawned for c, and c is not released.
LEMMA ShutLaunch ==
    ASSUME RInv, NEW r \in Runs, NEW c \in Claims, NEW w \in Workers, Startable(r, c),
           NEW ws, NEW V, ClaimOnly(ws, c, V), \A v \in V : v.state # "released",
           Len(ws) >= 4, ws[4] = Put("mark", w, [claim |-> c, run |-> r]),
           \A i \in 1..Len(ws) : ws[i].kind = "mark" => i = 4,
           NEW k \in Cuts(ws), Write(ws, k),
           \A v \in Workers \ {w} : child'[v] = child[v], ~Spawned(k) => child'[w] = child[w]
    PROVE  /\ mem' = disk' /\ oldJob = Nothing /\ job = Nothing /\ phase' # "replaying"
           /\ ~Spawned(k) => LiveWorkers' = {}
           /\ \A v \in LiveWorkers' : v = w /\ mem'.mark[v].claim = c
           /\ ReleasedMeansGone'
<1>1. k \in 0..Len(ws) /\ Len(ws) \in Nat
  BY DEF Cuts, ClaimOnly
<1>2. LiveWorkers = {}
  BY NothingRuns DEF RInv
<1>3. phase = "ready" /\ job = Nothing /\ ~latched
  BY DEF Startable, Authorized, Serving
<1>4. mem = disk /\ oldJob = Nothing
  BY <1>3 DEF RInv, Clean
<1>5. disk' = Replay(disk, Kept(ws, k)) /\ mem' = Replay(mem, Kept(ws, k)) /\ phase' \in {phase, "down"}
  BY DEF Write
<1>6. \A d \in Claims : disk'.claim[d] = disk.claim[d] \/ (d = c /\ disk'.claim[d] \in V)
  BY <1>1, <1>5, ClaimOnlyReplayed
<1>7. LiveWorkers' \subseteq {w} /\ (~Spawned(k) => LiveWorkers' = {})
  BY <1>2 DEF LiveWorkers
<1>8. Spawned(k) => disk'.mark[w] = [claim |-> c, run |-> r]
  <2> SUFFICES ASSUME Spawned(k) PROVE disk'.mark[w] = [claim |-> c, run |-> r]
    OBVIOUS
  <2>1. k \in 4..Len(ws)
    BY <1>1 DEF Spawned
  <2> QED
    BY <1>1, <1>5, <2>1, MarkReplayed
<1>9. \A v \in LiveWorkers' : v = w /\ disk'.mark[v].claim = c
  BY <1>7, <1>8
<1>10. LiveWorkers' # {} => disk'.claim[c].state # "released"
  <2> SUFFICES ASSUME Spawned(k) PROVE disk'.claim[c].state # "released"
    BY <1>7
  <2>1. disk.claim[c].state # "released"
    <3>1. mem.claim[c].state \in {"none", "awaiting_review", "correction_required"}
      BY DEF Startable
    <3> QED
      BY <1>4, <3>1
  <2> QED
    BY <1>6, <2>1
<1>11. ReleasedMeansGone'
  BY <1>9, <1>10 DEF ReleasedMeansGone, WorkersOf
<1> QED
  BY <1>3, <1>4, <1>5, <1>7, <1>9, <1>11

\* A launch that is refused or proven empty.
LEMMA ShutFailed ==
    ASSUME RInv, NEW r \in Runs, NEW c \in Claims, NEW w,
           StartExhausted(r, c) \/ StartConclusive(r, c, w)
    PROVE  Shut
<1>1. Startable(r, c) /\ UNCHANGED <<old, job, oldJob, child, latched>>
  BY DEF StartExhausted, StartConclusive, Request
<1>2. LiveWorkers = {}
  BY <1>1, NothingRuns DEF RInv
<1>3. LiveWorkers' = {}
  BY <1>1, <1>2 DEF LiveWorkers
<1>4. phase = "ready" /\ job = Nothing
  BY <1>1 DEF Startable, Authorized, Serving
<1>5. \E ws, k : Write(ws, k)
  BY DEF StartExhausted, StartConclusive, Request
<1>6. phase' # "replaying" /\ (mem = disk => mem' = disk')
  BY <1>4, <1>5 DEF Write
<1> QED
  BY <1>1, <1>3, <1>4, <1>6, ShutIdle

\* An ambiguous launch latches the root lane as soon as it may have spawned.
LEMMA ShutAmbiguous ==
    ASSUME RInv, NEW r \in Runs, NEW c \in Claims, NEW w \in Workers, StartAmbiguous(r, c, w)
    PROVE  Shut
<1> DEFINE ws == Opening(r, c, w) \o AmbiguousWrites(r, c, w)
           held == In(Moved(r, c), "quarantined")
           V == {Moved(r, c), held}
<1>0. DOMAIN child = Workers
  BY DEF RInv, FInv, HoldsRoot
<1>1. /\ Len(ws) = 7 /\ ws[4] = Put("mark", w, [claim |-> c, run |-> r])
      /\ \A i \in 1..Len(ws) : ws[i].kind = "mark" => i = 4
      /\ \A i \in 1..Len(ws) : ws[i].kind = "claim" => ws[i].key = c /\ ws[i].val \in V
  BY DEF Opening, AmbiguousWrites, Audit, Put
<1>2. Startable(r, c) /\ UNCHANGED <<old, job, oldJob>>
  BY DEF StartAmbiguous
<1>3. PICK k \in Cuts(ws) :
          /\ Write(ws, k)
          /\ IF Spawned(k)
               THEN /\ \E fate \in {"live", "gone"} : child' = [child EXCEPT ![w] = fate]
                    /\ latched' = TRUE
               ELSE UNCHANGED <<child, latched>>
  BY DEF StartAmbiguous, KeepRootLane
<1>4. \A v \in V : v.state # "released"
  <2>1. Moved(r, c) \in ClaimRecord /\ Moved(r, c).state \in {"active", "reviewing"}
    BY <1>2, LaunchPoint DEF RInv
  <2> QED
    BY <2>1 DEF In, ClaimRecord
<1> HIDE DEF ws, V
<1>5. ClaimOnly(ws, c, V) /\ Len(ws) >= 4
  BY <1>1 DEF ClaimOnly
<1>6. /\ \A v \in Workers \ {w} : child'[v] = child[v]
      /\ ~Spawned(k) => child'[w] = child[w]
  BY <1>0, <1>3
<1>7. /\ mem' = disk' /\ oldJob = Nothing /\ job = Nothing /\ phase' # "replaying"
      /\ ~Spawned(k) => LiveWorkers' = {}
      /\ ReleasedMeansGone'
  BY <1>1, <1>2, <1>3, <1>4, <1>5, <1>6, ShutLaunch
<1>8. CASE Spawned(k)
  BY <1>2, <1>3, <1>7, <1>8 DEF Shut, Awaited, Clean
<1>9. CASE ~Spawned(k)
  BY <1>2, <1>3, <1>7, <1>9, ShutIdle
<1> QED
  BY <1>8, <1>9

\* An observed launch attaches the claim to the process it spawned.
LEMMA ShutObserved ==
    ASSUME RInv, NeverRefused, NEW r \in Runs, NEW c \in Claims, NEW w \in Workers,
           StartObserved(r, c, w)
    PROVE  Shut
<1> DEFINE attached == [Moved(r, c) EXCEPT !.worker = w]
           ws == Opening(r, c, w) \o Audit \o
                   <<Put("run", r, "running"), Put("claim", c, attached)>>
           V == {Moved(r, c), attached}
<1>0. DOMAIN child = Workers
  BY DEF RInv, FInv, HoldsRoot
<1>1. /\ Len(ws) = 7 /\ ws[4] = Put("mark", w, [claim |-> c, run |-> r])
      /\ \A i \in 1..Len(ws) : ws[i].kind = "mark" => i = 4
      /\ \A i \in 1..Len(ws) : ws[i].kind = "claim" => ws[i].key = c /\ ws[i].val \in V
  BY DEF Opening, Audit, Put
<1>2. Startable(r, c) /\ UNCHANGED <<old, job, oldJob>>
  BY DEF StartObserved
<1>3. PICK k \in Cuts(ws) :
          /\ Write(ws, k)
          /\ IF Spawned(k) THEN child' = [child EXCEPT ![w] = "live"] ELSE UNCHANGED child
  BY DEF StartObserved
<1>4. \A v \in V : v.state # "released"
  <2>1. Moved(r, c) \in ClaimRecord /\ Moved(r, c).state \in {"active", "reviewing"}
    BY <1>2, LaunchPoint DEF RInv
  <2> QED
    BY <2>1 DEF ClaimRecord
<1> HIDE DEF ws, V, attached
<1>5. ClaimOnly(ws, c, V) /\ Len(ws) >= 4
  BY <1>1 DEF ClaimOnly
<1>6. /\ \A v \in Workers \ {w} : child'[v] = child[v]
      /\ ~Spawned(k) => child'[w] = child[w]
  BY <1>0, <1>3
<1>7. /\ mem' = disk' /\ oldJob = Nothing /\ job = Nothing /\ phase' # "replaying"
      /\ \A v \in LiveWorkers' : v = w /\ mem'.mark[v].claim = c
      /\ ReleasedMeansGone'
  BY <1>1, <1>2, <1>3, <1>4, <1>5, <1>6, ShutLaunch
<1>8. Awaited'
  BY <1>2, <1>7 DEF Awaited
<1>9. phase' = "ready" => Kinship'
  <2>1. phase' = "ready" => mem'.claim[c].worker = w
    BY ObservedAfter DEF RInv
  <2> QED
    BY <1>7, <2>1 DEF Kinship, Kin
<1>10. Clean'
  BY <1>2, <1>7, <1>9 DEF Clean, JobsOwn
<1> QED
  BY <1>7, <1>8, <1>10 DEF Shut

LEMMA ShutBegin ==
    ASSUME RInv, NEW c \in Claims, RecoverBegin(c)
    PROVE  Shut
<1> DEFINE ws == <<Put("recovery", c, "requested"), Put("recovery", c, "stopping")>>
           begun == [worker |-> mem.claim[c].worker, claim |-> c, run |-> mem.claim[c].run]
<1>1. NoneMarked(ws) /\ Claimless(ws)
  BY DEF NoneMarked, Claimless, Put
<1>2. PICK k \in Cuts(ws) : Write(ws, k) /\ job' \in {begun, Nothing}
  BY DEF RecoverBegin
<1>3. /\ phase = "ready" /\ job = Nothing /\ mem.claim[c].state \in ClaimLive
      /\ UNCHANGED <<child, latched, old, oldJob>>
  BY DEF RecoverBegin, Serving
<1>4. begun.claim = c /\ begun.worker = mem.claim[c].worker
  OBVIOUS
<1> HIDE DEF ws, begun
<1>5. \/ job' = Nothing
      \/ /\ job'.claim \in Claims /\ job'.worker = mem.claim[job'.claim].worker
         /\ mem.claim[job'.claim].state \in ClaimLive
  BY <1>2, <1>3, <1>4
<1> QED
  BY <1>1, <1>2, <1>3, <1>5, ShutQuiet

\* The writes of which the last about a claim is c's and leaves it val.
EndsOn(ws, c, val) ==
    /\ Len(ws) \in Nat
    /\ \E n \in 1..Len(ws) : /\ ws[n] = Put("claim", c, val)
                             /\ \A m \in 1..Len(ws) : ws[m].kind = "claim" => m <= n

LEMMA EndsJoin ==
    ASSUME NEW s, NEW t, NEW c, NEW val, Len(s) \in Nat
    PROVE  /\ EndsOn(t, c, val) => EndsOn(s \o t, c, val)
           /\ EndsOn(s, c, val) /\ Claimless(t) => EndsOn(s \o t, c, val)
<1>1. ASSUME EndsOn(t, c, val) PROVE EndsOn(s \o t, c, val)
  <2>1. Len(t) \in Nat
    BY <1>1 DEF EndsOn
  <2>2. PICK n \in 1..Len(t) : /\ t[n] = Put("claim", c, val)
                               /\ \A m \in 1..Len(t) : t[m].kind = "claim" => m <= n
    BY <1>1 DEF EndsOn
  <2>3. /\ Len(s \o t) = Len(s) + Len(t)
        /\ \A i \in 1..Len(s \o t) : (s \o t)[i] = IF i <= Len(s) THEN s[i] ELSE t[i - Len(s)]
    BY <2>1
  <2>4. n + Len(s) \in 1..Len(s \o t) /\ (s \o t)[n + Len(s)] = t[n]
    BY <2>1, <2>3
  <2>5. ASSUME NEW m \in 1..Len(s \o t), (s \o t)[m].kind = "claim" PROVE m <= n + Len(s)
    <3>1. CASE m <= Len(s)
      BY <2>1, <2>3, <3>1
    <3>2. CASE ~(m <= Len(s))
      <4>1. m - Len(s) \in 1..Len(t) /\ (s \o t)[m] = t[m - Len(s)]
        BY <2>1, <2>3, <3>2
      <4>2. m - Len(s) <= n
        BY <2>2, <2>5, <4>1
      <4> QED
        BY <2>1, <2>3, <4>2
    <3> QED
      BY <3>1, <3>2
  <2> QED
    BY <2>1, <2>2, <2>3, <2>4, <2>5 DEF EndsOn
<1>2. ASSUME EndsOn(s, c, val), Claimless(t) PROVE EndsOn(s \o t, c, val)
  <2>1. Len(t) \in Nat /\ \A m \in 1..Len(t) : t[m].kind # "claim"
    BY <1>2 DEF Claimless
  <2>2. PICK n \in 1..Len(s) : /\ s[n] = Put("claim", c, val)
                               /\ \A m \in 1..Len(s) : s[m].kind = "claim" => m <= n
    BY <1>2 DEF EndsOn
  <2>3. /\ Len(s \o t) = Len(s) + Len(t)
        /\ \A i \in 1..Len(s \o t) : (s \o t)[i] = IF i <= Len(s) THEN s[i] ELSE t[i - Len(s)]
    BY <2>1
  <2>4. n \in 1..Len(s \o t) /\ (s \o t)[n] = s[n]
    BY <2>1, <2>3
  <2>5. ASSUME NEW m \in 1..Len(s \o t), (s \o t)[m].kind = "claim" PROVE m <= n
    BY <2>1, <2>2, <2>5, Joined
  <2> QED
    BY <2>1, <2>2, <2>3, <2>4, <2>5 DEF EndsOn
<1> QED
  BY <1>1, <1>2

\* The last a recovery writes about its claim is its end.
LEMMA RecoveryEndsOn ==
    ASSUME NEW S, NEW j, NEW gone
    PROVE  EndsOn(RecoveryWrites(S, j, gone), j.claim,
                  In(Detached(S.claim[j.claim]), IF gone THEN "interrupted" ELSE "quarantined"))
<1> DEFINE record == S.claim[j.claim]
           last == In(Detached(record), IF gone THEN "interrupted" ELSE "quarantined")
           mark == Put("recovery", j.claim, IF gone THEN "cleaning" ELSE "quarantined")
           first == IF S.budget[j.worker] = "reserved" THEN <<Put("budget", j.worker, "settled")>>
                    ELSE <<>>
           detach == IF Attached(S, j.claim) THEN <<Put("claim", j.claim, Detached(record))>> ELSE <<>>
           middle == <<mark, Put("claim", j.claim, last)>>
           runs == IF S.run[j.run] = "running" THEN <<Put("run", j.run, "interrupted")>> ELSE <<>>
           done == IF gone THEN <<Put("recovery", j.claim, "complete")>> ELSE <<>>
<1>1. Len(first) \in Nat /\ Len(detach) \in Nat
  OBVIOUS
<1>2. EndsOn(middle, j.claim, last)
  BY DEF EndsOn, Put
<1>3. Claimless(runs) /\ Claimless(done) /\ Claimless(Audit)
  BY DEF Claimless, Put, Audit
<1>4. RecoveryWrites(S, j, gone) = ((((first \o detach) \o middle) \o runs) \o done) \o Audit
  BY DEF RecoveryWrites
<1> HIDE DEF first, detach, middle, runs, done, last
<1>5. Len(first \o detach) \in Nat
  BY <1>1, Joined
<1>6. EndsOn((first \o detach) \o middle, j.claim, last)
  BY <1>2, <1>5, EndsJoin
<1>7. EndsOn(((first \o detach) \o middle) \o runs, j.claim, last)
  BY <1>3, <1>6, EndsJoin DEF EndsOn
<1>8. EndsOn((((first \o detach) \o middle) \o runs) \o done, j.claim, last)
  BY <1>3, <1>7, EndsJoin DEF EndsOn
<1>9. EndsOn(RecoveryWrites(S, j, gone), j.claim, last)
  <2>1. Len((((first \o detach) \o middle) \o runs) \o done) \in Nat
    BY <1>8 DEF EndsOn
  <2> QED
    BY <1>3, <1>4, <1>8, <2>1, EndsJoin
<1> QED
  BY <1>9 DEF last

\* All of such writes leave the claim so.
LEMMA EndsReplayed ==
    ASSUME NEW ws, NEW c \in Claims, NEW val, EndsOn(ws, c, val), NEW S
    PROVE  Replay(S, Kept(ws, Len(ws))).claim[c] = val
<1>1. PICK n \in 1..Len(ws) : /\ ws[n] = Put("claim", c, val)
                              /\ \A m \in 1..Len(ws) : ws[m].kind = "claim" => m <= n
  BY DEF EndsOn
<1>2. ws[n].kind = "claim" /\ ws[n].key = c /\ ws[n].val = val /\ Len(ws) \in Nat
  BY <1>1 DEF Put, EndsOn
<1>3. Replay(S, Kept(ws, Len(ws))).claim[ws[n].key] = ws[n].val
  BY <1>1, <1>2, ClaimLast
<1> QED
  BY <1>2, <1>3

\* A recovery leaves its claim quarantined, or interrupted once its worker is
\* proven gone: nothing alive is kin to it then.
LEMMA ShutEnd ==
    ASSUME RInv, NeverRefused, NEW gone \in BOOLEAN, RecoverEnd(gone)
    PROVE  Shut
<1> DEFINE ws == RecoveryWrites(mem, job, gone)
           c == job.claim
           record == mem.claim[c]
           last == In(Detached(record), IF gone THEN "interrupted" ELSE "quarantined")
           V == {Detached(record), last}
<1>1. PICK k \in Cuts(ws) : Write(ws, k)
  BY DEF RecoverEnd
<1>2. /\ Up /\ job # Nothing /\ job' = Nothing /\ (gone => child[job.worker] = "gone")
      /\ UNCHANGED <<child, latched, old, oldJob>>
  BY DEF RecoverEnd
<1>3. c \in Claims /\ record.state \in ClaimLive
  BY <1>2 DEF RInv, Awaited
<1>4. record \in ClaimRecord
  BY <1>3 DEF RInv, BInv, TypeOK, Store
<1>5. (\A v \in V : v.state # "released") /\ (~gone => last.state = "quarantined")
  BY <1>3, <1>4, ReleaseSources DEF Detached, In, ClaimRecord
<1>6. ClaimOnly(ws, c, V)
  BY RecoveryOnly
<1>7. NoneMarked(ws) /\ EndsOn(ws, c, last)
  <2>1. "interrupted" \notin {}
    OBVIOUS
  <2> QED
    BY <2>1, RecoveryCalm, RecoveryEndsOn
<1> HIDE DEF ws, V, last, c, record
<1>8. /\ mem = disk => mem' = disk'
      /\ phase' \in {phase, "down"}
      /\ \A w \in Workers : disk'.mark[w] = disk.mark[w] /\ mem'.mark[w] = mem.mark[w]
      /\ \A d \in Claims : mem'.claim[d] = mem.claim[d] \/ (d = c /\ mem'.claim[d] \in V)
      /\ \A d \in Claims : disk'.claim[d] = disk.claim[d] \/ (d = c /\ disk'.claim[d] \in V)
  BY <1>1, <1>6, <1>7, ClaimWrites
<1>9. NoneRevived
  BY <1>2 DEF NoneRevived
<1>10. ReleasedMeansGone'
  BY <1>5, <1>8, <1>9, StillGone DEF RInv
<1>11. Awaited'
  BY <1>2 DEF RInv, Awaited
<1>12. ASSUME phase' = "ready", ~latched PROVE Kinship'
  <2>1. Kinship /\ JobsOwn
    BY <1>2, <1>8, <1>12 DEF RInv, Clean, Up
  <2>2. mem'.claim[c] = last
    <3>1. k = Len(ws)
      BY <1>1, <1>12, Whole
    <3> QED
      BY <1>1, <1>3, <1>7, <3>1, EndsReplayed DEF Write
  <2>3. ASSUME gone, NEW v \in LiveWorkers PROVE mem.mark[v].claim # c
    <3>1. v # job.worker /\ v # NoWorker
      BY <1>2, <2>3, WorkerAssumption DEF LiveWorkers
    <3>2. record.worker \in {job.worker, NoWorker} /\ record.state # "quarantined"
      BY <1>2, <1>3, <2>1, ReleaseSources DEF JobsOwn, c, record
    <3> QED
      BY <1>3, <2>1, <3>1, <3>2 DEF Kinship, Kin, record
  <2>4. ASSUME NEW v \in LiveWorkers, NEW d \in Claims, mem.mark[v].claim = d, Kin(v, d)
        PROVE  Kin(v, d)'
    <3>1. CASE d = c
      BY <1>5, <2>2, <2>3, <2>4, <3>1 DEF Kin
    <3>2. CASE d # c
      BY <1>8, <2>4, <3>2 DEF Kin
    <3> QED
      BY <3>1, <3>2
  <2> QED
    BY <1>8, <1>9, <2>1, <2>4, KinshipKept
<1>13. Clean'
  BY <1>2, <1>8, <1>12 DEF RInv, Clean, JobsOwn, Up
<1> QED
  BY <1>10, <1>11, <1>13 DEF Shut

\* A superseded recovery writes under the latch, and no release.
LEMMA ShutStale ==
    ASSUME RInv, NEW gone \in BOOLEAN, StaleRecoverEnd(gone)
    PROVE  Shut
<1> DEFINE ws == RecoveryWrites(old, oldJob, gone)
           c == oldJob.claim
           record == old.claim[c]
           last == In(Detached(record), IF gone THEN "interrupted" ELSE "quarantined")
           V == {Detached(record), last}
<1>1. PICK k \in Cuts(ws) : disk' = Replay(disk, Kept(ws, k))
  BY DEF StaleRecoverEnd
<1>2. /\ oldJob # Nothing /\ oldJob' = Nothing
      /\ UNCHANGED <<mem, job, child, latched>>
  BY DEF StaleRecoverEnd
<1>3. c \in Claims /\ record.state \in ClaimLive /\ latched
  BY <1>2 DEF RInv, Awaited, Clean
<1>4. record \in ClaimRecord
  BY <1>3 DEF RInv, BInv, TypeOK, Store
<1>5. \A v \in V : v.state # "released"
  BY <1>3, <1>4, ReleaseSources DEF Detached, In, ClaimRecord
<1>6. ClaimOnly(ws, c, V)
  BY RecoveryOnly
<1>7. NoneMarked(ws)
  <2>1. "interrupted" \notin {}
    OBVIOUS
  <2> QED
    BY <2>1, RecoveryCalm
<1> HIDE DEF ws, V, last, c, record
<1>8. k \in 0..Len(ws)
  BY <1>7 DEF Cuts, NoneMarked
<1>9. \A w \in Workers : disk'.mark[w] = disk.mark[w]
  BY <1>1, <1>7, <1>8, FinishReplayed
<1>10. \A d \in Claims : disk'.claim[d] = disk.claim[d] \/ (d = c /\ disk'.claim[d] \in V)
  BY <1>1, <1>6, <1>8, ClaimOnlyReplayed
<1>11. ReleasedMeansGone'
  BY <1>2, <1>5, <1>9, <1>10, StillGone DEF RInv, NoneRevived
<1> QED
  BY <1>2, <1>3, <1>11 DEF Shut, RInv, Awaited, Clean

\* What a reconciliation writes about its claim, and that it marks nothing.
LEMMA ReconcileOnly ==
    ASSUME NEW c, NEW record, NEW V, Detached(record) \in V, In(Detached(record), "interrupted") \in V
    PROVE  ClaimOnly(ReconcileWrites(c, record), c, V) /\ NoneMarked(ReconcileWrites(c, record))
<1> DEFINE first == IF mem.budget[record.worker] = "reserved"
                      THEN <<Put("budget", record.worker, "settled")>> ELSE <<>>
           runs == IF mem.run[record.run] \notin RunTerminal
                     THEN <<Put("run", record.run, "interrupted")>> ELSE <<>>
           last == <<Put("claim", c, Detached(record)),
                     Put("claim", c, In(Detached(record), "interrupted"))>>
<1>1. ClaimOnly(first, c, V) /\ ClaimOnly(runs, c, V) /\ ClaimOnly(last, c, V)
  BY DEF ClaimOnly, Put
<1>2. NoneMarked(first) /\ NoneMarked(runs) /\ NoneMarked(last)
  BY DEF NoneMarked, Put
<1>3. ReconcileWrites(c, record) = (first \o runs) \o last
  BY DEF ReconcileWrites
<1> HIDE DEF first, runs, last
<1>4. ClaimOnly(first \o runs, c, V) /\ NoneMarked(first \o runs)
  BY <1>1, <1>2, ClaimOnlyJoin, FinishJoin
<1> QED
  BY <1>1, <1>2, <1>3, <1>4, ClaimOnlyJoin, FinishJoin

LEMMA ShutReconcile ==
    ASSUME RInv, NEW c \in Claims, Reconcile(c)
    PROVE  Shut
<1> DEFINE record == mem.claim[c]
           ws == ReconcileWrites(c, record)
           V == {Detached(record), In(Detached(record), "interrupted")}
<1>1. PICK k \in Cuts(ws) : /\ disk' = Replay(disk, Kept(ws, k)) /\ mem' = Replay(mem, Kept(ws, k))
                            /\ phase' \in {phase, "down"}
  BY DEF Reconcile
<1>2. /\ phase = "replaying" /\ record.state \in ClaimLive
      /\ UNCHANGED <<old, job, oldJob, child, latched>>
  BY DEF Reconcile, InFlight
<1>3. record \in ClaimRecord /\ job = Nothing
  BY <1>2 DEF RInv, BInv, Backs, TypeOK, Store
<1>4. \A v \in V : v.state # "released"
  BY <1>2, <1>3, ReleaseSources DEF Detached, In, ClaimRecord
<1>5. ClaimOnly(ws, c, V) /\ NoneMarked(ws)
  BY ReconcileOnly
<1> HIDE DEF ws, V, record
<1>6. k \in 0..Len(ws)
  BY <1>5 DEF Cuts, NoneMarked
<1>7. \A w \in Workers : disk'.mark[w] = disk.mark[w]
  BY <1>1, <1>5, <1>6, FinishReplayed
<1>8. \A d \in Claims : disk'.claim[d] = disk.claim[d] \/ (d = c /\ disk'.claim[d] \in V)
  BY <1>1, <1>5, <1>6, ClaimOnlyReplayed
<1>9. ReleasedMeansGone'
  BY <1>2, <1>4, <1>7, <1>8, StillGone DEF RInv, NoneRevived
<1>10. Awaited'
  BY <1>2, <1>3 DEF RInv, Awaited
<1>11. Clean'
  BY <1>1, <1>2 DEF RInv, Clean, LiveWorkers
<1> QED
  BY <1>9, <1>10, <1>11 DEF Shut

\* A closing worker is the last one alive, and its claim stays where it is.
LEMMA ShutClose ==
    ASSUME RInv, NEW w \in Workers, NEW exit, OuterClose(w, exit)
    PROVE  Shut
<1>1. /\ UNCHANGED <<old, job, oldJob, child, latched>> /\ Up
      /\ w \in closing /\ child[w] = "gone"
  BY DEF OuterClose, NamespaceGone
<1>2. LiveWorkers = {} /\ LiveWorkers' = {}
  BY <1>1, NothingRuns DEF RInv, LiveWorkers
<1>3. ReleasedMeansGone'
  BY <1>2 DEF ReleasedMeansGone
<1>4. CASE ~Completes(w)
  <2>1. UNCHANGED <<disk, mem, phase>>
    BY <1>4 DEF OuterClose
  <2> QED
    BY <1>1, <1>2, <1>3, <2>1 DEF Shut, RInv, Awaited, Clean, Kinship, JobsOwn
<1>5. CASE Completes(w)
  <2> DEFINE outcome == IF view[w] = "stopping" THEN "cancelled" ELSE exit
             ws == CompletionWrites(w, outcome)
             c == lane.claim
             V == {Detached(mem.claim[c])}
  <2>1. PICK k \in Cuts(ws) : Write(ws, k)
    BY <1>5 DEF OuterClose
  <2>2. ClaimOnly(ws, c, V)
    BY CompletionClaims
  <2>3. c \in Claims => \A v \in V : v.worker = NoWorker /\ v.state = mem.claim[c].state
    <3>1. c \in Claims => mem.claim[c] \in ClaimRecord
      BY DEF RInv, BInv, TypeOK, Store
    <3> QED
      BY <3>1 DEF Detached, ClaimRecord
  <2> HIDE DEF ws, V, outcome, c
  <2>4. k \in 0..Len(ws)
    BY <2>1, <2>2 DEF Cuts, ClaimOnly
  <2>5. /\ disk' = Replay(disk, Kept(ws, k)) /\ mem' = Replay(mem, Kept(ws, k))
        /\ phase' \in {phase, "down"}
    BY <2>1 DEF Write
  <2>6. \A d \in Claims : mem'.claim[d] = mem.claim[d] \/ (d = c /\ mem'.claim[d] \in V)
    BY <2>2, <2>4, <2>5, ClaimOnlyReplayed
  <2>7. \A d \in Claims : /\ mem'.claim[d].state = mem.claim[d].state
                          /\ mem'.claim[d].worker \in {mem.claim[d].worker, NoWorker}
    BY <2>3, <2>6
  <2>8. Awaited'
    BY <1>1, <2>7 DEF RInv, Awaited
  <2>9. phase = "ready" /\ ~latched /\ job # Nothing => JobsOwn'
    BY <1>1, <2>7 DEF RInv, Awaited, Clean, JobsOwn
  <2>10. Clean'
    BY <1>1, <1>2, <2>5, <2>9 DEF RInv, Clean, Kinship, JobsOwn, Up
  <2> QED
    BY <1>3, <2>8, <2>10 DEF Shut
<1> QED
  BY <1>4, <1>5

\* A proof that throws ends the wait and touches no store.
LEMMA ShutUnread ==
    ASSUME RInv, RecoverUnread \/ StaleRecoverUnread
    PROVE  Shut
<1>1. UNCHANGED <<disk, mem, child, latched, phase>> /\ NoneRevived
  BY DEF RecoverUnread, StaleRecoverUnread, NoneRevived
<1>2. /\ job' = job \/ job' = Nothing
      /\ oldJob' = Nothing \/ UNCHANGED <<old, oldJob>>
  BY DEF RecoverUnread, StaleRecoverUnread
<1>3. Awaited'
  BY <1>1, <1>2 DEF RInv, Awaited
<1>4. Clean'
  <2>1. Kinship => Kinship'
    BY <1>1 DEF Kinship, Kin, LiveWorkers
  <2>2. JobsOwn => JobsOwn'
    BY <1>1, <1>2 DEF JobsOwn
  <2> QED
    BY <1>1, <1>2, <2>1, <2>2 DEF RInv, Clean, LiveWorkers
<1>5. ReleasedMeansGone'
  BY <1>1, StillGone DEF RInv
<1> QED
  BY <1>3, <1>4, <1>5 DEF Shut

\* The steps that write nothing.
LEMMA ShutOther ==
    ASSUME RInv,
           \/ \E w \in Workers : Cancel(w) \/ ChildDies(w) \/ OuterCloseUnproven(w)
           \/ GateLoss \/ Connect \/ Crash \/ Boot \/ Serve \/ UNCHANGED vars
    PROVE  Shut
<1>1. UNCHANGED disk
  BY DEF Cancel, ChildDies, OuterCloseUnproven, GateLoss, Connect, Crash, Boot, Serve, vars, volatile
<1>2. NoneRevived
  BY DEF Cancel, ChildDies, OuterCloseUnproven, GateLoss, Connect, Crash, Boot, Serve, vars, volatile,
         NoneRevived, RInv, FInv, HoldsRoot
<1>3. ReleasedMeansGone'
  BY <1>1, <1>2, StillGone DEF RInv
<1>4. ASSUME UNCHANGED <<mem, old, job, oldJob>> PROVE Awaited'
  BY <1>4 DEF RInv, Awaited
<1>5. ASSUME UNCHANGED <<mem, job, oldJob, latched, phase>> PROVE Clean'
  <2>1. Kinship => Kinship'
    BY <1>2, <1>5, KinshipKept DEF Kin
  <2>2. LiveWorkers = {} => LiveWorkers' = {}
    BY <1>2 DEF NoneRevived, LiveWorkers
  <2> QED
    BY <1>1, <1>5, <2>1, <2>2 DEF RInv, Clean, JobsOwn
<1>6. ASSUME NEW w \in Workers, Cancel(w) \/ ChildDies(w) PROVE Awaited' /\ Clean'
  BY <1>4, <1>5, <1>6 DEF Cancel, ChildDies
<1>7. ASSUME NEW w \in Workers, OuterCloseUnproven(w) PROVE Awaited' /\ Clean'
  BY <1>4, <1>7 DEF OuterCloseUnproven, Clean
<1>8. ASSUME GateLoss PROVE Awaited' /\ Clean'
  BY <1>4, <1>8 DEF GateLoss, Clean
<1>9. ASSUME Connect PROVE Awaited' /\ Clean'
  <2>1. latched
    BY <1>9 DEF Connect, RInv, FInv, LaneOrLatch
  <2> QED
    BY <1>9, <2>1 DEF Connect, RInv, Awaited, Clean
<1>10. ASSUME Crash PROVE Awaited' /\ Clean'
  <2>1. UNCHANGED <<mem, old, job, oldJob, latched>> /\ phase' = "down"
    BY <1>10 DEF Crash, volatile
  <2> QED
    BY <1>1, <1>4, <2>1 DEF RInv, Clean
<1>11. ASSUME Boot PROVE Awaited' /\ Clean'
  <2>1. DOMAIN child = Workers
    BY DEF RInv, FInv, HoldsRoot
  <2>2. LiveWorkers' = {}
    BY <1>11, <2>1 DEF Boot, LiveWorkers
  <2> QED
    BY <1>11, <2>2 DEF Boot, Awaited, Clean
<1>12. ASSUME Serve PROVE Awaited' /\ Clean'
  <2>1. phase = "replaying" /\ UNCHANGED <<mem, old, job, oldJob, child, latched>>
    BY <1>12 DEF Serve, volatile
  <2>2. job = Nothing
    BY <2>1 DEF RInv, BInv, Backs
  <2>3. ~latched => LiveWorkers' = {} /\ mem = disk /\ oldJob = Nothing
    BY <2>1 DEF RInv, Clean, LiveWorkers
  <2>4. phase' = "ready"
    BY <1>12 DEF Serve
  <2> QED
    BY <1>1, <1>4, <2>1, <2>2, <2>3, <2>4 DEF Clean, Kinship, JobsOwn
<1>13. ASSUME UNCHANGED vars PROVE Awaited' /\ Clean'
  BY <1>4, <1>5, <1>13 DEF vars, volatile
<1> QED
  BY <1>3, <1>6, <1>7, <1>8, <1>9, <1>10, <1>11, <1>12, <1>13 DEF Shut

LEMMA RInvStep ==
    ASSUME RInv, NeverRefused, [Next]_vars
    PROVE  RInv'
<1>1. BInv' /\ FInv'
  BY BInvStep, FInvStep DEF RInv
<1>2. ASSUME NEW r \in Runs, NEW c \in Claims, StartExhausted(r, c) PROVE Shut
  BY <1>2, ShutFailed
<1>3. ASSUME NEW r \in Runs, NEW c \in Claims, NEW w \in Workers,
             StartConclusive(r, c, w) \/ StartAmbiguous(r, c, w) \/ StartObserved(r, c, w)
      PROVE  Shut
  BY <1>3, ShutFailed, ShutAmbiguous, ShutObserved
<1>4. Shut
  BY <1>2, <1>3, ShutRequests, ShutBegin, ShutEnd, ShutStale, ShutReconcile, ShutClose,
     ShutUnread, ShutOther
     DEF Next
<1> QED
  BY <1>1, <1>4 DEF RInv, Shut

LEMMA RInvInit == Init => RInv
<1> SUFFICES ASSUME Init PROVE RInv
  OBVIOUS
<1>1. BInv /\ FInv
  BY BInvInit, FInvInit
<1>2. LiveWorkers = {}
  BY DEF Init, LiveWorkers
<1>3. job = Nothing /\ oldJob = Nothing /\ mem = disk /\ phase = "ready"
  BY DEF Init
<1> QED
  BY <1>1, <1>2, <1>3 DEF RInv, Awaited, Clean, Kinship, JobsOwn, ReleasedMeansGone

\* Unless a write is refused, no process lives on for a claim the gate has
\* released, whichever of exit, recovery, reconciliation and crash came before
\* the release (claims-store.js, CLEANUP_UNPROVEN).
THEOREM ReleasedGone == ASSUME NeverRefused PROVE Spec => []ReleasedMeansGone
<1>1. RInv => ReleasedMeansGone
  BY DEF RInv
<1>2. RInv /\ [Next]_vars => RInv'
  BY RInvStep
<1> QED
  BY <1>1, <1>2, RInvInit, PTL DEF Spec
=============================================================================
