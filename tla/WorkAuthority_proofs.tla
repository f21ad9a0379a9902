------------------------ MODULE WorkAuthority_proofs ------------------------
(***************************************************************************)
(* What the work authority guarantees for every set of runs, claims and    *)
(* workers, under every set of faults: one governed process at a time, and *)
(* a budget that keeps its promise.                                        *)
(***************************************************************************)
EXTENDS WorkAuthority, FiniteSetTheorems, TLAPS

USE WorkerAssumption

-----------------------------------------------------------------------------
(* One process at a time                                                   *)

\* Whoever is alive, or about to be reported closed, holds the root lane.
HoldsRoot ==
    /\ DOMAIN child = Workers
    /\ \A w \in Workers : child[w] = "live" \/ w \in closing => lease = w

LEMMA HoldsRootInit == Init => HoldsRoot
  BY DEF Init, HoldsRoot

LEMMA HoldsRootStep == HoldsRoot /\ [Next]_vars => HoldsRoot'
<1> SUFFICES ASSUME HoldsRoot, [Next]_vars PROVE HoldsRoot'
  OBVIOUS
<1>1. ASSUME UNCHANGED <<child, closing, lease>> PROVE HoldsRoot'
  BY <1>1 DEF HoldsRoot
<1>2. ASSUME NEW r \in Runs, NEW c \in Claims, NEW w \in Workers,
             StartAmbiguous(r, c, w) \/ StartObserved(r, c, w)
      PROVE  HoldsRoot'
  <2>1. \A v \in Workers : child[v] # "live" /\ v \notin closing
    BY <1>2 DEF StartAmbiguous, StartObserved, RootLaneFree, HoldsRoot
  <2>2. CASE UNCHANGED <<child, closing, lease>>
    BY <1>1, <2>2
  <2>3. CASE /\ \E fate \in {"live", "gone"} : child' = [child EXCEPT ![w] = fate]
             /\ closing' \in {closing, closing \cup {w}} /\ lease' = w
    BY <2>1, <2>3 DEF HoldsRoot
  <2>4. UNCHANGED closing \/ closing' = closing \cup {w}
    BY <1>2 DEF StartAmbiguous, StartObserved
  <2> QED
    BY <1>2, <2>2, <2>3 DEF StartAmbiguous, StartObserved, KeepRootLane
<1>3. ASSUME NEW w \in Workers, ChildDies(w) PROVE HoldsRoot'
  BY <1>3 DEF ChildDies, HoldsRoot
<1>4. ASSUME NEW w \in Workers, NEW exit, OuterClose(w, exit) PROVE HoldsRoot'
  BY <1>4 DEF OuterClose, NamespaceGone, HoldsRoot
<1>5. ASSUME NEW w \in Workers, OuterCloseUnproven(w) PROVE HoldsRoot'
  BY <1>5 DEF OuterCloseUnproven, HoldsRoot
<1>6. CASE Boot
  BY <1>6 DEF Boot, HoldsRoot
<1>7. ASSUME NEW r \in Runs, \/ Accept(r) \/ \E to : GateTransition(r, to)
                             \/ \E c \in Claims : \/ StartExhausted(r, c)
                                                  \/ \E w \in Workers : StartConclusive(r, c, w)
      PROVE  HoldsRoot'
  BY <1>1, <1>7 DEF Accept, GateTransition, StartExhausted, StartConclusive, Request
<1>8. ASSUME NEW c \in Claims, \/ \E to : ClaimTransition(c, to)
                               \/ ClaimRelease(c) \/ RecoverBegin(c) \/ Reconcile(c)
      PROVE  HoldsRoot'
  BY <1>1, <1>8 DEF ClaimTransition, ClaimRelease, RecoverBegin, Reconcile, Request
<1>9. ASSUME NEW w \in Workers, Cancel(w) PROVE HoldsRoot'
  BY <1>1, <1>9 DEF Cancel
<1>10. ASSUME NEW gone \in BOOLEAN, RecoverEnd(gone) \/ StaleRecoverEnd(gone) PROVE HoldsRoot'
  BY <1>1, <1>10 DEF RecoverEnd, StaleRecoverEnd
<1>11. CASE StopEngage \/ StopResume \/ GateLoss \/ Connect \/ Crash \/ Serve \/ UNCHANGED vars
  BY <1>1, <1>11
     DEF StopEngage, StopResume, GateLoss, Connect, Crash, Serve, Request, vars, volatile
<1>12. CASE RecoverUnread \/ StaleRecoverUnread
  BY <1>1, <1>12 DEF RecoverUnread, StaleRecoverUnread
<1> QED
  BY <1>2, <1>3, <1>4, <1>5, <1>6, <1>7, <1>8, <1>9, <1>10, <1>11, <1>12 DEF Next

\* At most one governed process is alive, whatever recoveries, lost gates and
\* ambiguous launches happen.
THEOREM Alone == Spec => []OneChild
<1>1. HoldsRoot => OneChild
  BY DEF HoldsRoot, OneChild, LiveWorkers
<1> QED
  BY <1>1, HoldsRootInit, HoldsRootStep, PTL DEF Spec

-----------------------------------------------------------------------------
(* What writes do to the budget of a store                                 *)


\* The budget of T is that of S, with val for w if there was a hit.
BudgetAfter(S, T, w, hit, val) ==
    T.budget = [v \in Workers |-> IF hit /\ v = w THEN val ELSE S.budget[v]]

\* Writes that leave the budget alone, and writes that settle w first or
\* leave the budget alone.
Silent(ws) == Len(ws) \in Nat /\ \A i \in 1..Len(ws) : ws[i].kind # "budget"
Settles(ws, w) ==
    /\ Len(ws) \in Nat
    /\ \A i \in 1..Len(ws) :
        ws[i].kind = "budget" => i = 1 /\ ws[i].key = w /\ ws[i].val = "settled"

LEMMA Joined ==
    ASSUME NEW s, NEW t, Len(s) \in Nat, Len(t) \in Nat
    PROVE  /\ Len(s \o t) = Len(s) + Len(t)
           /\ \A i \in 1..Len(s \o t) : \/ i \in 1..Len(s) /\ (s \o t)[i] = s[i]
                                        \/ i - Len(s) \in 1..Len(t) /\ (s \o t)[i] = t[i - Len(s)]
<1>1. /\ Len(s \o t) = Len(s) + Len(t)
      /\ \A i \in 1..Len(s \o t) : (s \o t)[i] = IF i <= Len(s) THEN s[i] ELSE t[i - Len(s)]
  OBVIOUS
<1>2. ASSUME NEW i \in 1..Len(s \o t)
      PROVE  i \in 1..Len(s) \/ (~(i <= Len(s)) /\ i - Len(s) \in 1..Len(t))
  BY <1>1
<1> QED
  BY <1>1, <1>2

LEMMA SilentJoin ==
    ASSUME NEW s, NEW t, Silent(t)
    PROVE  /\ Silent(s) => Silent(s \o t)
           /\ \A w : Settles(s, w) => Settles(s \o t, w)
<1>1. Len(t) \in Nat
  BY DEF Silent
<1>2. ASSUME Len(s) \in Nat PROVE Len(s \o t) \in Nat
  BY <1>1, <1>2, Joined
<1>3. ASSUME Silent(s) PROVE Silent(s \o t)
  BY <1>1, <1>2, <1>3, Joined DEF Silent
<1>4. ASSUME NEW w, Settles(s, w) PROVE Settles(s \o t, w)
  BY <1>1, <1>2, <1>4, Joined DEF Silent, Settles
<1> QED
  BY <1>3, <1>4

\* The short sequences the others are joined from.
LEMMA Short ==
    /\ Silent(<<>>) /\ Silent(Audit)
    /\ \A kind, key, val : kind # "budget" => Silent(<<Put(kind, key, val)>>)
    /\ \A w : Settles(<<>>, w) /\ Settles(<<Put("budget", w, "settled")>>, w)
  BY DEF Silent, Settles, Audit, Put

LEMMA SilentSettles ==
    ASSUME NEW ws, NEW w, Silent(ws)
    PROVE  Settles(ws, w)
  BY DEF Silent, Settles

\* The first k of such writes settle w in every store, or change no budget.
LEMMA SettlesReplayed ==
    ASSUME NEW ws, NEW w, Settles(ws, w), NEW k \in 0..Len(ws)
    PROVE  \E hit \in BOOLEAN :
            /\ Silent(ws) => ~hit
            /\ \A S : BudgetAfter(S, Replay(S, Kept(ws, k)), w, hit, "settled")
<1> DEFINE hits(v) == {i \in 1..Len(Kept(ws, k)) : Kept(ws, k)[i].kind = "budget"
                                                   /\ Kept(ws, k)[i].key = v}
           hit == hits(w) # {}
<1>1. /\ Len(ws) \in Nat /\ Len(Kept(ws, k)) = k
      /\ \A i \in 1..k : Kept(ws, k)[i] = ws[i]
  BY DEF Settles, Kept
<1>2. \A v : v # w => hits(v) = {}
  BY <1>1 DEF Settles
<1>3. Silent(ws) => ~hit
  BY <1>1 DEF Silent
<1>4. ASSUME hit
      PROVE hits(w) = {1} /\ Kept(ws, k)[1].val = "settled"
  BY <1>1, <1>4 DEF Settles
<1>5. \A v, before : v # w \/ ~hit => Latest(Kept(ws, k), "budget", v, before) = before
  BY <1>2 DEF Latest
<1>6. ASSUME NEW before, hit PROVE Latest(Kept(ws, k), "budget", w, before) = "settled"
  <2>1. (CHOOSE i \in hits(w) : \A j \in hits(w) : j <= i) = 1
    BY <1>4, <1>6
  <2> QED
    BY <1>4, <1>6, <2>1 DEF Latest
<1>7. \A S : Replay(S, Kept(ws, k)).budget =
                [v \in Workers |-> Latest(Kept(ws, k), "budget", v, S.budget[v])]
  BY DEF Replay
<1>8. \A S : BudgetAfter(S, Replay(S, Kept(ws, k)), w, hit, "settled")
  BY <1>5, <1>6, <1>7 DEF BudgetAfter
<1>9. hit \in BOOLEAN
  OBVIOUS
<1> HIDE DEF hit
<1> WITNESS hit \in BOOLEAN
<1> QED
  BY <1>3, <1>8

\* The first k writes of a launch of w reserve, and after that there may be
\* one more outcome.
LEMMA OpeningReplayed ==
    ASSUME NEW ws, NEW w \in Workers, NEW outcome, NEW k \in 0..Len(ws), Len(ws) \in Nat,
           Len(ws) >= 2, ws[2] = Put("budget", w, "reserved"),
           \A i \in 1..Len(ws) : ws[i].kind = "budget" =>
                i = 2 \/ (i = 5 /\ ws[i] = Put("budget", w, outcome))
    PROVE  \E end :
            /\ k >= 2 => end \in {"reserved", outcome}
            /\ \A S : BudgetAfter(S, Replay(S, Kept(ws, k)), w, k >= 2, end)
<1> DEFINE hits(v) == {i \in 1..Len(Kept(ws, k)) : Kept(ws, k)[i].kind = "budget"
                                                   /\ Kept(ws, k)[i].key = v}
           last == IF 5 \in hits(w) THEN 5 ELSE 2
           val == ws[last].val
<1>1. /\ Len(Kept(ws, k)) = k /\ k \in Nat
      /\ \A i \in 1..k : Kept(ws, k)[i] = ws[i]
  BY DEF Kept
<1>2. \A v : v # w => hits(v) = {}
  BY <1>1 DEF Put
<1>3. k < 2 => hits(w) = {}
  BY <1>1
<1>4. k >= 2 => 2 \in hits(w) /\ hits(w) \subseteq {2, 5}
  BY <1>1 DEF Put
<1>5. k >= 2 => /\ last \in hits(w) /\ \A j \in hits(w) : j <= last
                /\ Kept(ws, k)[last] = ws[last]
  BY <1>1, <1>4
<1>6. k >= 2 => val \in {"reserved", outcome}
  BY <1>1, <1>4 DEF Put
<1>7. \A v, before : v # w \/ k < 2 => Latest(Kept(ws, k), "budget", v, before) = before
  BY <1>2, <1>3 DEF Latest
<1>8. ASSUME NEW before, k >= 2 PROVE Latest(Kept(ws, k), "budget", w, before) = val
  <2>1. (CHOOSE i \in hits(w) : \A j \in hits(w) : j <= i) = last
    <3> DEFINE top == CHOOSE i \in hits(w) : \A j \in hits(w) : j <= i
    <3>1. top \in hits(w) /\ \A j \in hits(w) : j <= top
      BY <1>5, <1>8
    <3>2. top \in Nat /\ last \in Nat
      BY <1>4, <1>8, <3>1
    <3> QED
      BY <1>5, <1>8, <3>1, <3>2
  <2> QED
    BY <1>5, <1>8, <2>1 DEF Latest
<1>9. \A S : Replay(S, Kept(ws, k)).budget =
                [v \in Workers |-> Latest(Kept(ws, k), "budget", v, S.budget[v])]
  BY DEF Replay
<1>10. \A S : BudgetAfter(S, Replay(S, Kept(ws, k)), w, k >= 2, val)
  <2>1. k < 2 \/ k >= 2
    BY <1>1
  <2> QED
    BY <1>7, <1>8, <1>9, <2>1 DEF BudgetAfter
<1> HIDE DEF val
<1> WITNESS val
<1> QED
  BY <1>6, <1>10

-----------------------------------------------------------------------------
(* The accounts                                                            *)

\* The stores of a service lag behind the journal at most in what a superseded
\* recovery settled.
AInv ==
    /\ DOMAIN child = Workers
    /\ disk.budget \in [Workers -> BudgetStates]
    /\ \A w \in Workers : \/ mem.budget[w] = disk.budget[w]
                          \/ mem.budget[w] = "reserved" /\ disk.budget[w] = "settled"
    /\ \A w \in Workers : old.budget[w] = "reserved" => disk.budget[w] \in {"reserved", "settled"}

Launches == \A w \in Workers : child'[w] = "none" <=> child[w] = "none"

\* A step that settles w, in the journal and perhaps in the stores, or that
\* leaves every budget alone.
LEMMA SettleStep ==
    ASSUME AInv, NEW w, NEW hit \in BOOLEAN,
           BudgetAfter(disk, disk', w, hit, "settled"),
           BudgetAfter(mem, mem', w, hit, "settled") \/ UNCHANGED mem,
           UNCHANGED old \/ old' = FreshStore,
           hit /\ w \in Workers => disk.budget[w] \in {"reserved", "settled"},
           DOMAIN child' = Workers, Launches
    PROVE  AInv' /\ [Promise!Next]_<<Account, Launched>>
<1>1. /\ disk'.budget \in [Workers -> BudgetStates]
      /\ \A v \in Workers : disk'.budget[v] = IF hit /\ v = w THEN "settled" ELSE disk.budget[v]
  BY DEF BudgetAfter, AInv, BudgetStates
<1>2. \A v \in Workers : \/ mem'.budget[v] = disk'.budget[v]
                         \/ mem'.budget[v] = "reserved" /\ disk'.budget[v] = "settled"
  BY <1>1 DEF BudgetAfter, AInv
<1>3. \A v \in Workers : old'.budget[v] = "reserved" => disk'.budget[v] \in {"reserved", "settled"}
  BY <1>1 DEF AInv, FreshStore
<1>4. UNCHANGED Launched
  BY DEF Launches, Launched
<1>5. CASE hit /\ w \in Workers /\ disk.budget[w] = "reserved"
  <2>1. Account' = [Account EXCEPT ![w] = "settled"]
    BY <1>5 DEF BudgetAfter, AInv, Account
  <2> QED
    BY <1>1, <1>2, <1>3, <1>4, <1>5, <2>1 DEF AInv, Account, Promise!Next, Promise!Settle
<1>6. CASE ~(hit /\ w \in Workers /\ disk.budget[w] = "reserved")
  <2>1. UNCHANGED Account
    BY <1>6 DEF BudgetAfter, AInv, Account
  <2> QED
    BY <1>1, <1>2, <1>3, <1>4, <2>1 DEF AInv
<1> QED
  BY <1>5, <1>6

\* A step that leaves the budgets alone.
LEMMA QuietStep ==
    ASSUME AInv, UNCHANGED <<disk, mem, old>>, DOMAIN child' = Workers, Launches
    PROVE  AInv' /\ [Promise!Next]_<<Account, Launched>>
  BY DEF AInv, Launches, Account, Launched

\* A step that reserves for w, which may launch something.
LEMMA AttemptStep ==
    ASSUME AInv, NEW w \in Workers, Fresh(w), CanReserve,
           NEW val \in {"reserved", "settled", "refunded"},
           BudgetAfter(disk, disk', w, TRUE, val), BudgetAfter(mem, mem', w, TRUE, val),
           UNCHANGED old, DOMAIN child' = Workers,
           \A v \in Workers \ {w} : child'[v] = child[v],
           val = "refunded" => child'[w] = "none"
    PROVE  AInv' /\ [Promise!Next]_<<Account, Launched>>
<1>1. disk.budget[w] = "none" /\ child[w] = "none"
  BY DEF Fresh, AInv
<1>2. AInv'
  BY <1>1 DEF BudgetAfter, AInv, BudgetStates
<1>3. Account' = [Account EXCEPT ![w] = val]
  BY DEF BudgetAfter, AInv, Account
<1>4. Promise!Cardinality(Promise!Execs) < MaxExecs
  <2>1. Promise!Execs = Execs(mem)
    BY DEF Promise!Execs, Execs, Account, AInv
  <2>2. Cardinality(Execs(mem)) \in Nat
    <3>1. Execs(mem) \subseteq Workers
      BY DEF Execs
    <3> QED
      BY <3>1, FS_Subset, FS_CardinalityType
  <2>3. Promise!Cardinality(Execs(mem)) = Cardinality(Execs(mem))
    BY DEF Promise!Cardinality, Cardinality
  <2> QED
    BY <2>1, <2>2, <2>3, ExecsAssumption DEF CanReserve
<1>5. Launched' = IF child'[w] # "none" THEN Launched \cup {w} ELSE Launched
  BY <1>1 DEF Launched
<1>6. Promise!Attempt(w)
  <2> DEFINE began == child'[w] # "none"
  <2>1. /\ began \in BOOLEAN /\ val = "refunded" => ~began
        /\ Launched' = IF began THEN Launched \cup {w} ELSE Launched
    BY <1>5
  <2>2. Account[w] = "none"
    BY <1>1 DEF Account
  <2> HIDE DEF began
  <2> QED
    BY <1>3, <1>4, <2>1, <2>2 DEF Promise!Attempt
<1> QED
  BY <1>2, <1>6 DEF Promise!Next

-----------------------------------------------------------------------------
(* The steps                                                               *)

Promised == AInv' /\ [Promise!Next]_<<Account, Launched>>

\* Any prefix of writes that settle w, in a journal where w is charged.
LEMMA SettleWrites ==
    ASSUME AInv, NEW ws, NEW w, Settles(ws, w), NEW k \in Cuts(ws),
           Silent(ws) \/ (w \in Workers => disk.budget[w] \in {"reserved", "settled"}),
           disk' = Replay(disk, Kept(ws, k)),
           mem' = Replay(mem, Kept(ws, k)) \/ UNCHANGED mem,
           UNCHANGED old \/ old' = FreshStore, DOMAIN child' = Workers, Launches
    PROVE  Promised
<1>1. k \in 0..Len(ws)
  BY DEF Cuts, Settles
<1>2. PICK hit \in BOOLEAN :
        /\ Silent(ws) => ~hit
        /\ \A S : BudgetAfter(S, Replay(S, Kept(ws, k)), w, hit, "settled")
  BY <1>1, SettlesReplayed
<1> QED
  BY <1>2, SettleStep DEF Promised

\* A prefix of writes that leave the budget alone.
LEMMA SilentWrites ==
    ASSUME AInv, NEW ws, Silent(ws), NEW k \in Cuts(ws), Write(ws, k), UNCHANGED <<old, child>>
    PROVE  Promised
  BY SettleWrites, SilentSettles DEF Write, AInv, Launches

LEMMA SilentRequest ==
    ASSUME AInv, NEW ws, Silent(ws), Request(ws)
    PROVE  Promised
  BY SilentWrites DEF Request

\* A prefix of the writes of a launch: a reservation and what becomes of it.
LEMMA OpeningWrites ==
    ASSUME AInv, NEW w \in Workers, Fresh(w), CanReserve,
           NEW ws, NEW outcome \in {"reserved", "settled", "refunded"}, NEW k \in Cuts(ws),
           Len(ws) \in Nat, Len(ws) >= 2, ws[2] = Put("budget", w, "reserved"),
           \A i \in 1..Len(ws) : ws[i].kind = "budget" =>
                i = 2 \/ (i = 5 /\ ws[i] = Put("budget", w, outcome)),
           Write(ws, k), UNCHANGED old, DOMAIN child' = Workers,
           \A v \in Workers \ {w} : child'[v] = child[v],
           outcome = "refunded" \/ k < 2 => child'[w] = "none"
    PROVE  Promised
<1>1. k \in 0..Len(ws)
  BY DEF Cuts
<1>2. PICK end :
        /\ k >= 2 => end \in {"reserved", outcome}
        /\ \A S : BudgetAfter(S, Replay(S, Kept(ws, k)), w, k >= 2, end)
  BY <1>1, OpeningReplayed
<1>3. /\ disk' = Replay(disk, Kept(ws, k)) /\ mem' = Replay(mem, Kept(ws, k))
      /\ BudgetAfter(disk, disk', w, k >= 2, end) /\ BudgetAfter(mem, mem', w, k >= 2, end)
  BY <1>2 DEF Write
<1>4. CASE k >= 2
  <2>1. BudgetAfter(disk, disk', w, TRUE, end) /\ BudgetAfter(mem, mem', w, TRUE, end)
    BY <1>3, <1>4
  <2>2. end \in {"reserved", "settled", "refunded"} /\ (end = "refunded" => child'[w] = "none")
    BY <1>2, <1>4
  <2> QED
    BY <2>1, <2>2, AttemptStep DEF Promised
<1>5. CASE k < 2
  <2>1. BudgetAfter(disk, disk', w, FALSE, "settled") /\ BudgetAfter(mem, mem', w, FALSE, "settled")
    BY <1>1, <1>3, <1>5 DEF BudgetAfter
  <2>2. Launches
    BY <1>5 DEF Launches, Fresh
  <2> QED
    BY <2>1, <2>2, SettleStep DEF Promised
<1> QED
  BY <1>1, <1>4, <1>5

\* A launch that made no child, or may have made one, or was observed.
LEMMA LaunchStep ==
    ASSUME AInv, NEW r, NEW c, NEW w \in Workers,
           StartConclusive(r, c, w) \/ StartAmbiguous(r, c, w) \/ StartObserved(r, c, w)
    PROVE  Promised
<1>1. DOMAIN child = Workers
  BY DEF AInv
<1>2. CASE StartConclusive(r, c, w)
  <2> DEFINE ws == Opening(r, c, w)
                     \o <<Put("budget", w, "refunded"), Put("claim", c, In(Moved(r, c), "failed")),
                          Put("run", r, "failed")>> \o Audit
  <2>1. /\ Len(ws) = 8 /\ ws[2] = Put("budget", w, "reserved")
        /\ \A i \in 1..Len(ws) : ws[i].kind = "budget" =>
                i = 2 \/ (i = 5 /\ ws[i] = Put("budget", w, "refunded"))
    BY DEF Opening, Audit, Put
  <2>2. PICK k \in Cuts(ws) : Write(ws, k)
    BY <1>2 DEF StartConclusive
  <2>3. Fresh(w) /\ CanReserve /\ UNCHANGED <<old, child>>
    BY <1>2 DEF StartConclusive
  <2>4. child'[w] = "none" /\ DOMAIN child' = Workers
    BY <1>1, <2>3 DEF Fresh
  <2>5. Len(ws) \in Nat /\ Len(ws) >= 2
    BY <2>1
  <2> HIDE DEF ws
  <2> QED
    BY <2>1, <2>2, <2>3, <2>4, <2>5, OpeningWrites
<1>3. CASE StartAmbiguous(r, c, w)
  <2> DEFINE ws == Opening(r, c, w) \o AmbiguousWrites(r, c, w)
  <2>1. /\ Len(ws) = 7 /\ ws[2] = Put("budget", w, "reserved")
        /\ \A i \in 1..Len(ws) : ws[i].kind = "budget" =>
                i = 2 \/ (i = 5 /\ ws[i] = Put("budget", w, "settled"))
    BY DEF Opening, AmbiguousWrites, Audit, Put
  <2>2. PICK k \in Cuts(ws) :
            /\ Fresh(w) /\ CanReserve /\ UNCHANGED old /\ Write(ws, k)
            /\ IF Spawned(k) THEN \E fate \in {"live", "gone"} : child' = [child EXCEPT ![w] = fate]
                             ELSE UNCHANGED child
    BY <1>3 DEF StartAmbiguous
  <2>3. /\ DOMAIN child' = Workers /\ \A v \in Workers \ {w} : child'[v] = child[v]
        /\ ~Spawned(k) => child'[w] = "none"
    BY <1>1, <2>2 DEF Fresh
  <2>4. k \in Nat /\ (k < 2 => ~Spawned(k))
    BY <2>1 DEF Cuts, Spawned
  <2>5. k < 2 => child'[w] = "none"
    BY <2>3, <2>4
  <2>6. Len(ws) \in Nat /\ Len(ws) >= 2
    BY <2>1
  <2> HIDE DEF ws
  <2> QED
    BY <2>1, <2>2, <2>3, <2>5, <2>6, OpeningWrites
<1>4. CASE StartObserved(r, c, w)
  <2> DEFINE attached == [Moved(r, c) EXCEPT !.worker = w]
             ws == Opening(r, c, w) \o Audit
                     \o <<Put("run", r, "running"), Put("claim", c, attached)>>
  <2>1. /\ Len(ws) = 7 /\ ws[2] = Put("budget", w, "reserved")
        /\ \A i \in 1..Len(ws) : ws[i].kind = "budget" =>
                i = 2 \/ (i = 5 /\ ws[i] = Put("budget", w, "reserved"))
    BY DEF Opening, Audit, Put
  <2>2. PICK k \in Cuts(ws) :
            /\ Fresh(w) /\ CanReserve /\ UNCHANGED old /\ Write(ws, k)
            /\ IF Spawned(k) THEN child' = [child EXCEPT ![w] = "live"] ELSE UNCHANGED child
    BY <1>4 DEF StartObserved
  <2>3. /\ DOMAIN child' = Workers /\ \A v \in Workers \ {w} : child'[v] = child[v]
        /\ ~Spawned(k) => child'[w] = "none"
    BY <1>1, <2>2 DEF Fresh
  <2>4. k \in Nat /\ (k < 2 => ~Spawned(k))
    BY <2>1 DEF Cuts, Spawned
  <2>5. k < 2 => child'[w] = "none"
    BY <2>3, <2>4
  <2>6. Len(ws) \in Nat /\ Len(ws) >= 2
    BY <2>1
  <2> HIDE DEF ws
  <2> QED
    BY <2>1, <2>2, <2>3, <2>5, <2>6, OpeningWrites
<1> QED
  BY <1>2, <1>3, <1>4

\* Requests that only write the journal, and a recovery's first half.
LEMMA RequestStep ==
    ASSUME AInv,
           \/ \E r, to : Accept(r) \/ GateTransition(r, to)
           \/ StopEngage \/ StopResume
           \/ \E c, to : ClaimTransition(c, to)
           \/ \E c : ClaimRelease(c) \/ RecoverBegin(c)
           \/ \E r, c : StartExhausted(r, c)
    PROVE  Promised
<1>1. ASSUME NEW r, NEW to, Accept(r) \/ GateTransition(r, to) PROVE Promised
  BY <1>1, Short, SilentRequest DEF Accept, GateTransition
<1>2. CASE StopEngage \/ StopResume
  BY <1>2, Short, SilentRequest DEF StopEngage, StopResume
<1>3. ASSUME NEW c, NEW to, ClaimTransition(c, to) \/ ClaimRelease(c) PROVE Promised
  BY <1>3, Short, SilentRequest DEF ClaimTransition, ClaimRelease
<1>4. ASSUME NEW c, RecoverBegin(c) PROVE Promised
  <2>1. Silent(<<Put("recovery", c, "requested"), Put("recovery", c, "stopping")>>)
    BY DEF Silent, Put
  <2> QED
    BY <1>4, <2>1, SilentWrites DEF RecoverBegin
<1>5. ASSUME NEW r, NEW c, StartExhausted(r, c) PROVE Promised
  <2>1. Silent(<<Put("claim", c, Moved(r, c)), Put("claim", c, In(Moved(r, c), "interrupted"))>>)
    BY DEF Silent, Put
  <2> QED
    BY <1>5, <2>1, SilentRequest DEF StartExhausted
<1> QED
  BY <1>1, <1>2, <1>3, <1>4, <1>5

\* An exit that settles.
LEMMA CloseStep ==
    ASSUME AInv, NEW w \in Workers, NEW exit, OuterClose(w, exit)
    PROVE  Promised
<1>1. CASE ~Completes(w)
  BY <1>1, QuietStep DEF OuterClose, Promised, AInv, Launches
<1>2. CASE Completes(w)
  <2> DEFINE outcome == IF view[w] = "stopping" THEN "cancelled" ELSE exit
  <2>1. PICK k \in Cuts(CompletionWrites(w, outcome)) : Write(CompletionWrites(w, outcome), k)
    BY <1>2 DEF OuterClose
  <2>2. /\ Silent(<<Put("claim", lane.claim, Detached(mem.claim[lane.claim]))>>)
        /\ Silent(<<Put("run", lane.run, RunOutcome(outcome))>>)
    BY Short
  <2>3. Settles(CompletionWrites(w, outcome), w)
    BY <2>2, Short, SilentJoin DEF CompletionWrites
  <2>4. disk.budget[w] \in {"reserved", "settled"} /\ UNCHANGED <<old, child>>
    BY <1>2 DEF Completes, OuterClose, AInv
  <2> QED
    BY <2>1, <2>3, <2>4, SettleWrites DEF Write, AInv, Launches
<1> QED
  BY <1>1, <1>2

\* The second half of a recovery settles the worker of its stores.
LEMMA RecoveryWritten ==
    ASSUME NEW S, NEW j, NEW gone
    PROVE  /\ Settles(RecoveryWrites(S, j, gone), j.worker)
           /\ S.budget[j.worker] # "reserved" => Silent(RecoveryWrites(S, j, gone))
<1> DEFINE first == IF S.budget[j.worker] = "reserved" THEN <<Put("budget", j.worker, "settled")>>
                    ELSE <<>>
           record == S.claim[j.claim]
           detach == IF Attached(S, j.claim) THEN <<Put("claim", j.claim, Detached(record))>> ELSE <<>>
           middle == <<Put("recovery", j.claim, IF gone THEN "cleaning" ELSE "quarantined"),
                       Put("claim", j.claim, In(Detached(record),
                                                IF gone THEN "interrupted" ELSE "quarantined"))>>
           runs == IF S.run[j.run] = "running" THEN <<Put("run", j.run, "interrupted")>> ELSE <<>>
           last == IF gone THEN <<Put("recovery", j.claim, "complete")>> ELSE <<>>
<1>1. Silent(detach) /\ Silent(middle) /\ Silent(runs) /\ Silent(last) /\ Silent(Audit)
  BY Short DEF Silent, Put
<1>2. Settles(first, j.worker) /\ (S.budget[j.worker] # "reserved" => Silent(first))
  BY Short
<1>3. RecoveryWrites(S, j, gone) = first \o detach \o middle \o runs \o last \o Audit
  BY DEF RecoveryWrites
<1> HIDE DEF first, detach, middle, runs, last
<1> QED
  BY <1>1, <1>2, <1>3, SilentJoin

LEMMA RecoverStep ==
    ASSUME AInv, NEW gone, RecoverEnd(gone) \/ StaleRecoverEnd(gone)
    PROVE  Promised
<1>1. CASE RecoverEnd(gone)
  <2>1. PICK k \in Cuts(RecoveryWrites(mem, job, gone)) : Write(RecoveryWrites(mem, job, gone), k)
    BY <1>1 DEF RecoverEnd
  <2>2. job.worker \in Workers /\ mem.budget[job.worker] = "reserved" =>
            disk.budget[job.worker] \in {"reserved", "settled"}
    BY DEF AInv
  <2>3. UNCHANGED <<old, child>>
    BY <1>1 DEF RecoverEnd
  <2> QED
    BY <2>1, <2>2, <2>3, RecoveryWritten, SettleWrites DEF Write, AInv, Launches
<1>2. CASE StaleRecoverEnd(gone)
  <2>1. PICK k \in Cuts(RecoveryWrites(old, oldJob, gone)) :
            disk' = Replay(disk, Kept(RecoveryWrites(old, oldJob, gone), k))
    BY <1>2 DEF StaleRecoverEnd
  <2>2. oldJob.worker \in Workers /\ old.budget[oldJob.worker] = "reserved" =>
            disk.budget[oldJob.worker] \in {"reserved", "settled"}
    BY DEF AInv
  <2>3. UNCHANGED <<mem, child>> /\ old' = FreshStore
    BY <1>2 DEF StaleRecoverEnd
  <2> QED
    BY <2>1, <2>2, <2>3, RecoveryWritten, SettleWrites DEF AInv, Launches
<1> QED
  BY <1>1, <1>2

\* The reconciliation settles the worker its own image has attached.
LEMMA ReconcileStep ==
    ASSUME AInv, NEW c, Reconcile(c)
    PROVE  Promised
<1> DEFINE record == mem.claim[c]
           ws == ReconcileWrites(c, record)
           first == IF mem.budget[record.worker] = "reserved"
                      THEN <<Put("budget", record.worker, "settled")>> ELSE <<>>
           runs == IF mem.run[record.run] \notin RunTerminal
                     THEN <<Put("run", record.run, "interrupted")>> ELSE <<>>
           last == <<Put("claim", c, Detached(record)),
                     Put("claim", c, In(Detached(record), "interrupted"))>>
<1>1. Silent(runs) /\ Silent(last)
  BY Short DEF Silent, Put
<1>2. Settles(first, record.worker) /\ (mem.budget[record.worker] # "reserved" => Silent(first))
  BY Short
<1>3. ws = first \o runs \o last
  BY DEF ReconcileWrites
<1>4. PICK k \in Cuts(ws) : disk' = Replay(disk, Kept(ws, k)) /\ mem' = Replay(mem, Kept(ws, k))
  BY DEF Reconcile
<1>5. record.worker \in Workers /\ mem.budget[record.worker] = "reserved" =>
            disk.budget[record.worker] \in {"reserved", "settled"}
  BY DEF AInv
<1>6. UNCHANGED <<old, child>>
  BY DEF Reconcile
<1> HIDE DEF first, runs, last, ws
<1>7. Settles(ws, record.worker) /\ (mem.budget[record.worker] # "reserved" => Silent(ws))
  BY <1>1, <1>2, <1>3, SilentJoin
<1> QED
  BY <1>4, <1>5, <1>6, <1>7, SettleWrites DEF AInv, Launches

\* A new service reads the journal; the old one's stores go with its recovery.
LEMMA ServiceStep ==
    ASSUME AInv, Boot \/ Connect
    PROVE  Promised
<1>1. UNCHANGED disk /\ mem' = disk /\ (old' = FreshStore \/ old' = mem \/ UNCHANGED old)
  BY DEF Boot, Connect
<1>2. DOMAIN child' = Workers /\ Launches
  BY DEF Boot, Connect, AInv, Launches
<1>3. AInv'
  BY <1>1, <1>2 DEF AInv, FreshStore
<1>4. UNCHANGED <<Account, Launched>>
  BY <1>1, <1>2 DEF Account, Launched, Launches
<1> QED
  BY <1>3, <1>4 DEF Promised

\* A proof that throws ends the turn of its recovery, and nothing else.
LEMMA UnreadStep ==
    ASSUME AInv, RecoverUnread \/ StaleRecoverUnread
    PROVE  Promised
<1>1. UNCHANGED <<disk, mem, child>> /\ (UNCHANGED old \/ old' = FreshStore)
  BY DEF RecoverUnread, StaleRecoverUnread
<1>2. AInv'
  BY <1>1 DEF AInv, FreshStore, Launches
<1> QED
  BY <1>1, <1>2 DEF Promised, Account, Launched

\* Steps that write nothing.
LEMMA OtherStep ==
    ASSUME AInv,
           \/ \E w \in Workers : Cancel(w) \/ ChildDies(w) \/ OuterCloseUnproven(w)
           \/ GateLoss \/ Crash \/ Serve \/ UNCHANGED vars
    PROVE  Promised
<1>1. UNCHANGED <<disk, mem, old>>
  BY DEF Cancel, ChildDies, OuterCloseUnproven, GateLoss, Crash, Serve, vars, volatile
<1>2. DOMAIN child' = Workers /\ Launches
  BY DEF Cancel, ChildDies, OuterCloseUnproven, GateLoss, Crash, Serve, vars, volatile,
         AInv, Launches
<1> QED
  BY <1>1, <1>2, QuietStep DEF Promised

LEMMA PromisedStep == AInv /\ [Next]_vars => Promised
<1> SUFFICES ASSUME AInv, [Next]_vars PROVE Promised
  OBVIOUS
<1> QED
  BY LaunchStep, RequestStep, CloseStep, RecoverStep, UnreadStep, ReconcileStep, ServiceStep, OtherStep
     DEF Next

LEMMA AccountsInit == Init => AInv /\ Promise!Init
  BY DEF Init, AInv, FreshStore, BudgetStates, Promise!Init, Account, Launched

\* The budget keeps its promise: a work identity is reserved before anything
\* is launched for it, charged once, given back only if nothing was launched,
\* and the executions charged never exceed the cap.
THEOREM Implements == Spec => KeepsAccounts
<1>1. AInv /\ [Next]_vars => AInv' /\ [Promise!Next]_<<Account, Launched>>
  BY PromisedStep DEF Promised
<1> QED
  BY <1>1, AccountsInit, PTL DEF Spec, KeepsAccounts, Promise!Spec

-----------------------------------------------------------------------------
(* Finished runs                                                           *)

Finished == {"completed", "failed"}

\* A live worker is the one of the launcher's lane, or the root lane is latched.
LaneOrLatch ==
    /\ phase = "lost" => latched
    /\ \A w \in Workers : child[w] = "live" => latched \/ lane.worker = w

\* A run the service may still launch is not finished in the journal.
Launchable == \A r \in Runs : mem.run[r] \in Prelaunch => disk.run[r] \notin Finished

FInv == HoldsRoot /\ LaneOrLatch /\ Launchable /\ FinishedMeansGone

\* Nothing runs while a launch may be tried, nor when an outer process closes.
LEMMA NothingRuns ==
    ASSUME FInv
    PROVE  /\ \A r, c : Startable(r, c) => LiveWorkers = {}
           /\ \A w \in Workers : w \in closing /\ child[w] = "gone" => LiveWorkers = {}
<1>1. ASSUME NEW r, NEW c, Startable(r, c) PROVE LiveWorkers = {}
  <2>1. ~latched /\ lane.worker = NoWorker
    BY <1>1 DEF Startable, Authorized, Nothing
  <2> QED
    BY <2>1 DEF FInv, LaneOrLatch, LiveWorkers
<1>2. ASSUME NEW w \in Workers, w \in closing, child[w] = "gone" PROVE LiveWorkers = {}
  BY <1>2 DEF FInv, HoldsRoot, LiveWorkers
<1> QED
  BY <1>1, <1>2

LEMMA LaneOrLatchStep == FInv /\ [Next]_vars => LaneOrLatch'
<1> SUFFICES ASSUME FInv, [Next]_vars PROVE LaneOrLatch'
  OBVIOUS
<1>0. LaneOrLatch /\ DOMAIN child = Workers
  BY DEF FInv, HoldsRoot
<1>1. ASSUME UNCHANGED <<child, lane, latched>>, phase' = "lost" => phase = "lost"
      PROVE  LaneOrLatch'
  BY <1>0, <1>1 DEF LaneOrLatch
<1>2. ASSUME NEW ws, NEW k, Write(ws, k), UNCHANGED <<child, lane, latched>> PROVE LaneOrLatch'
  BY <1>1, <1>2 DEF Write
<1>3. ASSUME NEW r, NEW c, NEW w \in Workers,
             StartConclusive(r, c, w) \/ StartAmbiguous(r, c, w) \/ StartObserved(r, c, w)
      PROVE  LaneOrLatch'
  <2>1. LiveWorkers = {} /\ phase = "ready"
    BY <1>3, NothingRuns
       DEF StartConclusive, StartAmbiguous, StartObserved, Startable, Authorized, Serving
  <2>2. phase' # "lost"
    BY <1>3, <2>1 DEF StartConclusive, StartAmbiguous, StartObserved, Write
  <2>3. CASE StartConclusive(r, c, w)
    BY <2>1, <2>2, <2>3 DEF StartConclusive, LaneOrLatch, LiveWorkers
  <2>4. CASE StartAmbiguous(r, c, w)
    BY <1>0, <2>1, <2>2, <2>4 DEF StartAmbiguous, KeepRootLane, LaneOrLatch, LiveWorkers
  <2>5. CASE StartObserved(r, c, w)
    <3>1. PICK k : /\ lane' = LaneTaken(k, r, c, w)
                   /\ k \in Nat
                   /\ IF Spawned(k) THEN child' = [child EXCEPT ![w] = "live"] ELSE UNCHANGED child
      <4>1. Len(Opening(r, c, w) \o Audit \o
                <<Put("run", r, "running"), Put("claim", c, [Moved(r, c) EXCEPT !.worker = w])>>) = 7
        BY DEF Opening, Audit
      <4> QED
        BY <2>5, <4>1 DEF StartObserved, Cuts
    <3>2. Spawned(k) => lane'.worker = w
      BY <3>1 DEF Spawned, LaneTaken
    <3> QED
      BY <1>0, <2>1, <2>2, <3>1, <3>2 DEF LaneOrLatch, LiveWorkers
  <2> QED
    BY <1>3, <2>3, <2>4, <2>5
<1>4. ASSUME NEW w \in Workers, NEW exit, OuterClose(w, exit) PROVE LaneOrLatch'
  <2>1. LiveWorkers = {} /\ UNCHANGED <<child, latched>> /\ (phase' = "lost" => phase = "lost")
    BY <1>4, NothingRuns DEF OuterClose, NamespaceGone, Write
  <2> QED
    BY <1>0, <2>1 DEF LaneOrLatch, LiveWorkers
<1>5. ASSUME NEW w \in Workers, ChildDies(w) \/ OuterCloseUnproven(w) PROVE LaneOrLatch'
  BY <1>0, <1>5 DEF ChildDies, OuterCloseUnproven, LaneOrLatch
<1>6. CASE GateLoss \/ Connect \/ Boot
  BY <1>0, <1>6 DEF GateLoss, Connect, Boot, LaneOrLatch
<1>7. ASSUME NEW r, \/ Accept(r) \/ \E to : GateTransition(r, to)
                    \/ \E c : StartExhausted(r, c)
      PROVE  LaneOrLatch'
  BY <1>2, <1>7 DEF Accept, GateTransition, StartExhausted, Request
<1>8. ASSUME NEW c, \/ \E to : ClaimTransition(c, to)
                    \/ ClaimRelease(c) \/ RecoverBegin(c)
      PROVE  LaneOrLatch'
  BY <1>2, <1>8 DEF ClaimTransition, ClaimRelease, RecoverBegin, Request
<1>9. ASSUME NEW c, NEW gone, \/ Reconcile(c) \/ RecoverEnd(gone) \/ StaleRecoverEnd(gone)
      PROVE  LaneOrLatch'
  BY <1>1, <1>2, <1>9 DEF Reconcile, RecoverEnd, StaleRecoverEnd
<1>10. CASE \/ \E w \in Workers : Cancel(w)
            \/ StopEngage \/ StopResume \/ Crash \/ Serve \/ UNCHANGED vars
            \/ RecoverUnread \/ StaleRecoverUnread
  <2>1. CASE StopEngage \/ StopResume
    BY <1>2, <2>1 DEF StopEngage, StopResume, Request
  <2> QED
    BY <1>1, <1>10, <2>1 DEF Cancel, Crash, Serve, vars, volatile, RecoverUnread, StaleRecoverUnread
<1> QED
  BY <1>3, <1>4, <1>5, <1>6, <1>7, <1>8, <1>9, <1>10 DEF Next

\* Writes that move no run into V, at most one of them about a run; writes
\* about no run; and writes that mark no launch.
NoneTo(ws, V) ==
    /\ Len(ws) \in Nat
    /\ \A i \in 1..Len(ws) : ws[i].kind = "run" => ws[i].val \notin V
    /\ \A i, j \in 1..Len(ws) : ws[i].kind = "run" /\ ws[j].kind = "run" => i = j
Runless(ws) == Len(ws) \in Nat /\ \A i \in 1..Len(ws) : ws[i].kind # "run"
NoneMarked(ws) == Len(ws) \in Nat /\ \A i \in 1..Len(ws) : ws[i].kind # "mark"

LEMMA FinishJoin ==
    ASSUME NEW s, NEW t
    PROVE  /\ NoneMarked(s) /\ NoneMarked(t) => NoneMarked(s \o t)
           /\ Runless(s) /\ Runless(t) => Runless(s \o t)
           /\ \A V : Runless(s) /\ NoneTo(t, V) => NoneTo(s \o t, V)
           /\ \A V : NoneTo(s, V) /\ Runless(t) => NoneTo(s \o t, V)
<1>1. ASSUME NoneMarked(s), NoneMarked(t) PROVE NoneMarked(s \o t)
  BY <1>1, Joined DEF NoneMarked
<1>2. ASSUME Runless(s), Runless(t) PROVE Runless(s \o t)
  BY <1>2, Joined DEF Runless
<1>3. ASSUME NEW V, Runless(s), NoneTo(t, V) PROVE NoneTo(s \o t, V)
  <2>1. Len(s) \in Nat /\ Len(t) \in Nat /\ Len(s \o t) \in Nat
    BY <1>3, Joined DEF Runless, NoneTo
  <2>2. \A i \in 1..Len(s \o t) : (s \o t)[i].kind = "run" =>
            i - Len(s) \in 1..Len(t) /\ (s \o t)[i] = t[i - Len(s)]
    BY <1>3, <2>1, Joined DEF Runless
  <2>3. \A i, j \in 1..Len(s \o t) : (s \o t)[i].kind = "run" /\ (s \o t)[j].kind = "run" =>
            i - Len(s) = j - Len(s)
    BY <1>3, <2>2 DEF NoneTo
  <2>4. \A i, j \in 1..Len(s \o t) : i - Len(s) = j - Len(s) => i = j
    BY <2>1
  <2> QED
    BY <1>3, <2>1, <2>2, <2>3, <2>4 DEF NoneTo
<1>4. ASSUME NEW V, NoneTo(s, V), Runless(t) PROVE NoneTo(s \o t, V)
  <2>1. Len(s) \in Nat /\ Len(t) \in Nat /\ Len(s \o t) \in Nat
    BY <1>4, Joined DEF Runless, NoneTo
  <2>2. \A i \in 1..Len(s \o t) : (s \o t)[i].kind = "run" =>
            i \in 1..Len(s) /\ (s \o t)[i] = s[i]
    BY <1>4, <2>1, Joined DEF Runless
  <2> QED
    BY <1>4, <2>1, <2>2 DEF NoneTo
<1> QED
  BY <1>1, <1>2, <1>3, <1>4

\* The first k of such writes move no run into V, and no mark.
LEMMA FinishReplayed ==
    ASSUME NEW ws, NEW k \in 0..Len(ws), NEW V
    PROVE  /\ NoneTo(ws, V) => \A S : \A r \in Runs :
                Replay(S, Kept(ws, k)).run[r] \in V => S.run[r] \in V
           /\ NoneMarked(ws) => \A S : \A w \in Workers :
                Replay(S, Kept(ws, k)).mark[w] = S.mark[w]
<1>1. ASSUME Len(ws) \in Nat
      PROVE Len(Kept(ws, k)) = k /\ \A i \in 1..k : Kept(ws, k)[i] = ws[i] /\ i \in 1..Len(ws)
  BY <1>1 DEF Kept
<1>2. ASSUME NoneTo(ws, V), NEW r \in Runs, NEW before
      PROVE  Latest(Kept(ws, k), "run", r, before) \in V => before \in V
  <2> DEFINE hits == {i \in 1..Len(Kept(ws, k)) : Kept(ws, k)[i].kind = "run" /\ Kept(ws, k)[i].key = r}
  <2>1. CASE hits = {}
    BY <2>1 DEF Latest
  <2>2. ASSUME NEW i \in hits PROVE Latest(Kept(ws, k), "run", r, before) \notin V
    <3>1. hits = {i} /\ Kept(ws, k)[i].val \notin V /\ i \in Nat
      BY <1>1, <1>2, <2>2 DEF NoneTo
    <3>2. (CHOOSE n \in hits : \A j \in hits : j <= n) = i
      BY <3>1
    <3> QED
      BY <3>1, <3>2 DEF Latest
  <2> QED
    BY <2>1, <2>2
<1>3. ASSUME NoneMarked(ws), NEW w, NEW before
      PROVE  Latest(Kept(ws, k), "mark", w, before) = before
  BY <1>1, <1>3 DEF NoneMarked, Latest
<1> QED
  BY <1>2, <1>3 DEF Replay

NoneRevived == \A w \in Workers : child'[w] = "live" => child[w] = "live"
Fine == Launchable' /\ FinishedMeansGone'

\* What the journal and the stores take alike is launchable in both or neither.
LEMMA LaunchableWrites ==
    ASSUME Launchable, NEW ws, disk' = Replay(disk, ws), mem' = Replay(mem, ws)
    PROVE  Launchable'
<1> SUFFICES ASSUME NEW r \in Runs, mem'.run[r] \in Prelaunch PROVE disk'.run[r] \notin Finished
  BY DEF Launchable
<1>1. /\ mem'.run[r] = Latest(ws, "run", r, mem.run[r])
      /\ disk'.run[r] = Latest(ws, "run", r, disk.run[r])
  BY DEF Replay
<1> QED
  BY <1>1 DEF Latest, Launchable, Prelaunch, Finished

\* A prefix of writes that finish nothing and mark nothing.
LEMMA CalmWrites ==
    ASSUME FInv, NEW ws, NoneTo(ws, Finished), NoneMarked(ws), NEW k \in Cuts(ws),
           disk' = Replay(disk, Kept(ws, k)),
           mem' = Replay(mem, Kept(ws, k)) \/ UNCHANGED mem, NoneRevived
    PROVE  Fine
<1>1. k \in 0..Len(ws)
  BY DEF Cuts, NoneTo
<1>2. /\ \A r \in Runs : disk'.run[r] \in Finished => disk.run[r] \in Finished
      /\ \A w \in Workers : disk'.mark[w] = disk.mark[w]
  BY <1>1, FinishReplayed
<1>3. Launchable'
  <2>1. CASE UNCHANGED mem
    BY <1>2, <2>1 DEF FInv, Launchable
  <2> QED
    BY <2>1, LaunchableWrites DEF FInv
<1>4. FinishedMeansGone'
  BY <1>2 DEF FInv, FinishedMeansGone, LaunchesOf, LiveWorkers, NoneRevived, Finished
<1> QED
  BY <1>3, <1>4 DEF Fine

\* A prefix of any writes while nothing runs.
LEMMA IdleWrites ==
    ASSUME FInv, NEW ws, disk' = Replay(disk, ws), mem' = Replay(mem, ws),
           LiveWorkers = {}, NoneRevived
    PROVE  Fine
<1>1. LiveWorkers' = {}
  BY DEF LiveWorkers, NoneRevived
<1> QED
  BY <1>1, LaunchableWrites DEF FInv, Fine, FinishedMeansGone

\* A step that writes nothing.
LEMMA IdleStep ==
    ASSUME FInv, UNCHANGED disk, mem' = mem \/ mem' = disk, NoneRevived
    PROVE  Fine
  BY DEF FInv, Fine, Launchable, FinishedMeansGone, LaunchesOf, LiveWorkers, NoneRevived,
         Finished, Prelaunch

\* A prefix of the writes of a launch, whose mark is the fourth.
LEMMA MarkedWrites ==
    ASSUME FInv, NEW r \in Runs, NEW c, NEW w \in Workers, Startable(r, c),
           NEW ws, NoneTo(ws, Finished), Len(ws) >= 4, NEW k \in Cuts(ws),
           ws[4] = Put("mark", w, [claim |-> c, run |-> r]),
           \A i \in 1..Len(ws) : ws[i].kind = "mark" => i = 4,
           disk' = Replay(disk, Kept(ws, k)), mem' = Replay(mem, Kept(ws, k)),
           \A v \in Workers \ {w} : child'[v] = child[v], ~Spawned(k) => child'[w] = child[w]
    PROVE  Fine
<1>1. k \in 0..Len(ws) /\ Len(ws) \in Nat
  BY DEF Cuts, NoneTo
<1>2. LiveWorkers = {} /\ disk.run[r] \notin Finished
  BY NothingRuns DEF FInv, Launchable, Startable
<1>3. \A s \in Runs : disk'.run[s] \in Finished => disk.run[s] \in Finished
  BY <1>1, FinishReplayed
<1>4. LiveWorkers' \subseteq {w} /\ (LiveWorkers' # {} => k >= 4)
  BY <1>1, <1>2 DEF LiveWorkers, Spawned
<1>5. k >= 4 => disk'.mark[w].run = r
  <2> SUFFICES ASSUME k >= 4 PROVE disk'.mark[w].run = r
    OBVIOUS
  <2> DEFINE hits == {i \in 1..Len(Kept(ws, k)) : Kept(ws, k)[i].kind = "mark"
                                                  /\ Kept(ws, k)[i].key = w}
  <2>1. Len(Kept(ws, k)) = k /\ \A i \in 1..k : Kept(ws, k)[i] = ws[i]
    BY <1>1 DEF Kept
  <2>2. hits = {4} /\ Kept(ws, k)[4].val.run = r
    BY <1>1, <2>1 DEF Put
  <2>3. (CHOOSE i \in hits : \A j \in hits : j <= i) = 4
    BY <2>2
  <2>4. Latest(Kept(ws, k), "mark", w, disk.mark[w]).run = r
    BY <2>2, <2>3 DEF Latest
  <2> QED
    BY <2>4 DEF Replay
<1>6. FinishedMeansGone'
  BY <1>2, <1>3, <1>4, <1>5 DEF FinishedMeansGone, LaunchesOf, Finished
<1> QED
  BY <1>6, LaunchableWrites DEF FInv, Fine

LEMMA LaunchFine ==
    ASSUME FInv, NEW r \in Runs, NEW c, NEW w \in Workers,
           StartConclusive(r, c, w) \/ StartAmbiguous(r, c, w) \/ StartObserved(r, c, w)
    PROVE  Fine
<1>0. DOMAIN child = Workers
  BY DEF FInv, HoldsRoot
<1>1. CASE StartConclusive(r, c, w)
  <2>1. LiveWorkers = {} /\ NoneRevived
    BY <1>1, NothingRuns DEF StartConclusive, NoneRevived
  <2>2. \E ws : disk' = Replay(disk, ws) /\ mem' = Replay(mem, ws)
    BY <1>1 DEF StartConclusive, Write
  <2> QED
    BY <2>1, <2>2, IdleWrites
<1>2. CASE StartAmbiguous(r, c, w)
  <2> DEFINE ws == Opening(r, c, w) \o AmbiguousWrites(r, c, w)
  <2>1. /\ NoneTo(ws, Finished) /\ Len(ws) = 7 /\ ws[4] = Put("mark", w, [claim |-> c, run |-> r])
        /\ \A i \in 1..Len(ws) : ws[i].kind = "mark" => i = 4
    BY DEF Opening, AmbiguousWrites, Audit, Put, NoneTo, Finished
  <2>2. PICK k \in Cuts(ws) :
            /\ Startable(r, c) /\ Write(ws, k)
            /\ IF Spawned(k) THEN \E fate \in {"live", "gone"} : child' = [child EXCEPT ![w] = fate]
                             ELSE UNCHANGED child
    BY <1>2 DEF StartAmbiguous
  <2>3. \A v \in Workers \ {w} : child'[v] = child[v]
    BY <1>0, <2>2
  <2>4. disk' = Replay(disk, Kept(ws, k)) /\ mem' = Replay(mem, Kept(ws, k)) /\ Len(ws) >= 4
    BY <2>1, <2>2 DEF Write
  <2> HIDE DEF ws
  <2> QED
    BY <2>1, <2>2, <2>3, <2>4, MarkedWrites
<1>3. CASE StartObserved(r, c, w)
  <2> DEFINE ws == Opening(r, c, w) \o Audit \o
                    <<Put("run", r, "running"), Put("claim", c, [Moved(r, c) EXCEPT !.worker = w])>>
  <2>1. /\ NoneTo(ws, Finished) /\ Len(ws) = 7 /\ ws[4] = Put("mark", w, [claim |-> c, run |-> r])
        /\ \A i \in 1..Len(ws) : ws[i].kind = "mark" => i = 4
    BY DEF Opening, Audit, Put, NoneTo, Finished
  <2>2. PICK k \in Cuts(ws) :
            /\ Startable(r, c) /\ Write(ws, k)
            /\ IF Spawned(k) THEN child' = [child EXCEPT ![w] = "live"] ELSE UNCHANGED child
    BY <1>3 DEF StartObserved
  <2>3. \A v \in Workers \ {w} : child'[v] = child[v]
    BY <1>0, <2>2
  <2>4. disk' = Replay(disk, Kept(ws, k)) /\ mem' = Replay(mem, Kept(ws, k)) /\ Len(ws) >= 4
    BY <2>1, <2>2 DEF Write
  <2> HIDE DEF ws
  <2> QED
    BY <2>1, <2>2, <2>3, <2>4, MarkedWrites
<1> QED
  BY <1>1, <1>2, <1>3

\* A request that only writes the journal finishes nothing.
LEMMA CalmRequest ==
    ASSUME FInv, NEW ws, NoneTo(ws, Finished), NoneMarked(ws),
           \/ Request(ws)
           \/ \E k \in Cuts(ws) : Write(ws, k) /\ UNCHANGED child
    PROVE  Fine
  BY CalmWrites DEF Request, Write, NoneRevived

LEMMA RequestFine ==
    ASSUME FInv,
           \/ \E r, to : Accept(r) \/ GateTransition(r, to)
           \/ StopEngage \/ StopResume
           \/ \E c, to : ClaimTransition(c, to)
           \/ \E c : ClaimRelease(c) \/ RecoverBegin(c)
           \/ \E r, c : StartExhausted(r, c)
    PROVE  Fine
<1>1. \A kind, key, val : kind # "mark" /\ (kind = "run" => val \notin Finished) =>
            NoneTo(<<Put(kind, key, val)>>, Finished) /\ NoneMarked(<<Put(kind, key, val)>>)
  BY DEF NoneTo, NoneMarked, Put
<1>2. ASSUME NEW r, NEW to, Accept(r) \/ GateTransition(r, to) PROVE Fine
  <2>1. PICK val \in {"queued", "parked", "cancelled"} : Request(<<Put("run", r, val)>>)
    BY <1>2 DEF Accept, GateTransition
  <2> QED
    BY <1>1, <2>1, CalmRequest DEF Finished
<1>3. CASE StopEngage \/ StopResume
  BY <1>1, <1>3, CalmRequest DEF StopEngage, StopResume
<1>4. ASSUME NEW c, NEW to, ClaimTransition(c, to) \/ ClaimRelease(c) PROVE Fine
  BY <1>1, <1>4, CalmRequest DEF ClaimTransition, ClaimRelease
<1>5. ASSUME NEW c, RecoverBegin(c) PROVE Fine
  <2> DEFINE ws == <<Put("recovery", c, "requested"), Put("recovery", c, "stopping")>>
  <2>1. NoneTo(ws, Finished) /\ NoneMarked(ws)
    BY DEF NoneTo, NoneMarked, Put
  <2>2. \E k \in Cuts(ws) : Write(ws, k) /\ UNCHANGED child
    BY <1>5 DEF RecoverBegin
  <2> QED
    BY <2>1, <2>2, CalmRequest
<1>6. ASSUME NEW r, NEW c, StartExhausted(r, c) PROVE Fine
  <2> DEFINE ws == <<Put("claim", c, Moved(r, c)), Put("claim", c, In(Moved(r, c), "interrupted"))>>
  <2>1. NoneTo(ws, Finished) /\ NoneMarked(ws)
    BY DEF NoneTo, NoneMarked, Put
  <2> QED
    BY <1>6, <2>1, CalmRequest DEF StartExhausted
<1> QED
  BY <1>2, <1>3, <1>4, <1>5, <1>6

\* Recoveries and reconciliations interrupt; they finish nothing.
LEMMA RecoveryCalm ==
    ASSUME NEW S, NEW j, NEW gone, NEW V, "interrupted" \notin V
    PROVE  NoneTo(RecoveryWrites(S, j, gone), V) /\ NoneMarked(RecoveryWrites(S, j, gone))
<1> DEFINE first == IF S.budget[j.worker] = "reserved" THEN <<Put("budget", j.worker, "settled")>>
                    ELSE <<>>
           record == S.claim[j.claim]
           detach == IF Attached(S, j.claim) THEN <<Put("claim", j.claim, Detached(record))>> ELSE <<>>
           middle == <<Put("recovery", j.claim, IF gone THEN "cleaning" ELSE "quarantined"),
                       Put("claim", j.claim, In(Detached(record),
                                                IF gone THEN "interrupted" ELSE "quarantined"))>>
           runs == IF S.run[j.run] = "running" THEN <<Put("run", j.run, "interrupted")>> ELSE <<>>
           last == IF gone THEN <<Put("recovery", j.claim, "complete")>> ELSE <<>>
<1>1. Runless(first) /\ Runless(detach) /\ Runless(middle) /\ Runless(last) /\ Runless(Audit)
  BY DEF Runless, Put, Audit
<1>2. NoneTo(runs, V)
  BY DEF NoneTo, Put
<1>3. /\ NoneMarked(first) /\ NoneMarked(detach) /\ NoneMarked(middle) /\ NoneMarked(runs)
      /\ NoneMarked(last) /\ NoneMarked(Audit)
  BY DEF NoneMarked, Put, Audit
<1>4. RecoveryWrites(S, j, gone) = first \o detach \o middle \o runs \o last \o Audit
  BY DEF RecoveryWrites
<1> HIDE DEF first, detach, middle, runs, last
<1> QED
  BY <1>1, <1>2, <1>3, <1>4, FinishJoin

LEMMA RecoverFine ==
    ASSUME FInv, NEW gone, RecoverEnd(gone) \/ StaleRecoverEnd(gone)
    PROVE  Fine
<1>1. "interrupted" \notin Finished
  BY DEF Finished
<1> QED
  BY <1>1, RecoveryCalm, CalmWrites DEF RecoverEnd, StaleRecoverEnd, Write, NoneRevived

LEMMA ReconcileFine ==
    ASSUME FInv, NEW c, Reconcile(c)
    PROVE  Fine
<1> DEFINE record == mem.claim[c]
           ws == ReconcileWrites(c, record)
           first == IF mem.budget[record.worker] = "reserved"
                      THEN <<Put("budget", record.worker, "settled")>> ELSE <<>>
           runs == IF mem.run[record.run] \notin RunTerminal
                     THEN <<Put("run", record.run, "interrupted")>> ELSE <<>>
           last == <<Put("claim", c, Detached(record)),
                     Put("claim", c, In(Detached(record), "interrupted"))>>
<1>1. Runless(first) /\ Runless(last) /\ NoneTo(runs, Finished)
  BY DEF Runless, NoneTo, Finished, Put
<1>2. NoneMarked(first) /\ NoneMarked(runs) /\ NoneMarked(last)
  BY DEF NoneMarked, Put
<1>3. ws = first \o runs \o last
  BY DEF ReconcileWrites
<1>4. PICK k \in Cuts(ws) : disk' = Replay(disk, Kept(ws, k)) /\ mem' = Replay(mem, Kept(ws, k))
  BY DEF Reconcile
<1>5. NoneRevived
  BY DEF Reconcile, NoneRevived
<1> HIDE DEF first, runs, last, ws
<1>6. NoneTo(ws, Finished) /\ NoneMarked(ws)
  BY <1>1, <1>2, <1>3, FinishJoin
<1> QED
  BY <1>4, <1>5, <1>6, CalmWrites

LEMMA CloseFine ==
    ASSUME FInv, NEW w \in Workers, NEW exit, OuterClose(w, exit)
    PROVE  Fine
<1>1. LiveWorkers = {} /\ NoneRevived
  BY NothingRuns DEF OuterClose, NamespaceGone, NoneRevived
<1>2. CASE ~Completes(w)
  BY <1>1, <1>2, IdleStep DEF OuterClose
<1>3. CASE Completes(w)
  <2>1. \E ws : disk' = Replay(disk, ws) /\ mem' = Replay(mem, ws)
    BY <1>3 DEF OuterClose, Write
  <2> QED
    BY <1>1, <2>1, IdleWrites
<1> QED
  BY <1>2, <1>3

LEMMA OtherFine ==
    ASSUME FInv,
           \/ \E w \in Workers : Cancel(w) \/ ChildDies(w) \/ OuterCloseUnproven(w)
           \/ GateLoss \/ Connect \/ Crash \/ Boot \/ Serve \/ UNCHANGED vars
           \/ RecoverUnread \/ StaleRecoverUnread
    PROVE  Fine
<1>1. UNCHANGED disk /\ (mem' = mem \/ mem' = disk)
  BY DEF Cancel, ChildDies, OuterCloseUnproven, GateLoss, Connect, Crash, Boot, Serve, vars, volatile,
         RecoverUnread, StaleRecoverUnread
<1>2. NoneRevived
  BY DEF Cancel, ChildDies, OuterCloseUnproven, GateLoss, Connect, Crash, Boot, Serve, vars, volatile,
         RecoverUnread, StaleRecoverUnread, NoneRevived, FInv, HoldsRoot
<1> QED
  BY <1>1, <1>2, IdleStep

LEMMA FInvStep == FInv /\ [Next]_vars => FInv'
<1> SUFFICES ASSUME FInv, [Next]_vars PROVE FInv'
  OBVIOUS
<1>1. Fine
  BY LaunchFine, RequestFine, RecoverFine, ReconcileFine, CloseFine, OtherFine DEF Next
<1>2. HoldsRoot' /\ LaneOrLatch'
  BY HoldsRootStep, LaneOrLatchStep DEF FInv
<1> QED
  BY <1>1, <1>2 DEF FInv, Fine

LEMMA FInvInit == Init => FInv
<1> SUFFICES ASSUME Init PROVE FInv
  OBVIOUS
<1>1. \A w \in Workers : child[w] = "none"
  BY DEF Init
<1>2. \A r \in Runs : disk.run[r] = "none"
  BY DEF Init, FreshStore
<1> QED
  BY <1>1, <1>2, HoldsRootInit
     DEF Init, FInv, LaneOrLatch, Launchable, Finished, FinishedMeansGone, LiveWorkers

\* A run the journal calls completed or failed has no live process left,
\* whichever of exit, recovery and reconciliation wrote it, across crashes,
\* refused appends and lost gates.
THEOREM Gone == Spec => []FinishedMeansGone
<1>1. FInv => FinishedMeansGone
  BY DEF FInv
<1> QED
  BY <1>1, FInvInit, FInvStep, PTL DEF Spec

-----------------------------------------------------------------------------
(* No launch is repeated while PID 1 lives                                 *)

\* PID 1 does not die: a refused append ends it only when a replacement gate
\* makes it reconcile.
NeverDown == "crash" \notin Faults /\ ~({"refusal", "gate_loss"} \subseteq Faults)

\* What a run may be before its launch is recorded.
Early == Prelaunch \cup {"none"}

\* The run w was spawned for is never started again: nothing starts in this
\* boot, the run has moved on, or the launcher's lane stays with w.
Spent(w) ==
    /\ disk.mark[w].run \in Runs
    /\ \/ latched
       \/ mem.run[disk.mark[w].run] \notin Early
       \/ lane.worker = w /\ view[w] = "none"

SameBoot == phase # "down" /\ (phase = "ready" \/ (latched /\ "gate_loss" \in Faults))

NInv ==
    /\ DOMAIN child = Workers /\ DOMAIN view = Workers
    /\ SameBoot
    /\ \A w \in Workers : IF child[w] = "none" THEN view[w] = "none" ELSE Spent(w)
    /\ NoReplay

Unreturned == \A r \in Runs : mem'.run[r] \in Early => mem.run[r] \in Early

\* A step that spawns nothing and gives no launched run or lane back.
LEMMA Steady ==
    ASSUME NInv, SameBoot', DOMAIN child' = Workers, DOMAIN view' = Workers,
           \A w \in Workers : child'[w] = "none" <=> child[w] = "none",
           \A w \in Workers : child[w] # "none" => disk'.mark[w] = disk.mark[w],
           \A w \in Workers : child[w] = "none" => view'[w] = "none",
           \/ latched'
           \/ /\ latched => latched'
              /\ Unreturned
              /\ \A w \in Workers : lane.worker = w /\ view[w] = "none" =>
                                        lane'.worker = w /\ view'[w] = "none"
    PROVE  NInv'
<1>1. ASSUME NEW w \in Workers, child'[w] # "none" PROVE Spent(w)'
  <2>1. Spent(w) /\ disk'.mark[w] = disk.mark[w]
    BY <1>1 DEF NInv
  <2> QED
    BY <2>1 DEF Spent, Unreturned
<1>2. NoReplay'
  BY DEF NInv, NoReplay, LaunchesOf
<1> QED
  BY <1>1, <1>2 DEF NInv

\* Writes of which a run's own are no way back.
LEMMA SteadyWrites ==
    ASSUME NInv, NeverDown, NEW ws, NoneMarked(ws),
           NoneTo(ws, Early) \/ \E r, val : ws = <<Put("run", r, val)>> /\ mem.run[r] \in Early,
           NEW k \in Cuts(ws), Write(ws, k), UNCHANGED <<child, latched>>
    PROVE  /\ SameBoot' /\ Unreturned
           /\ \A w \in Workers : disk'.mark[w] = disk.mark[w]
           /\ UNCHANGED <<lane, view>> => NInv'
<1>1. k \in 0..Len(ws)
  BY DEF Cuts, NoneMarked
<1>2. \A w \in Workers : disk'.mark[w] = disk.mark[w]
  BY <1>1, FinishReplayed DEF Write
<1>3. Unreturned
  <2>1. CASE NoneTo(ws, Early)
    BY <1>1, <2>1, FinishReplayed DEF Write, Unreturned
  <2>2. ASSUME NEW r, NEW val, ws = <<Put("run", r, val)>>, mem.run[r] \in Early
        PROVE  Unreturned
    <3>1. \A i \in 1..Len(Kept(ws, k)) : Kept(ws, k)[i].key = r
      BY <1>1, <2>2 DEF Kept, Put
    <3>2. \A s \in Runs : mem'.run[s] = mem.run[s] \/ s = r
      BY <3>1 DEF Write, Replay, Latest
    <3> QED
      BY <2>2, <3>2 DEF Unreturned
  <2> QED
    BY <2>1, <2>2
<1>4. SameBoot'
  BY DEF Write, NeverDown, SameBoot, NInv
<1> QED
  BY <1>2, <1>3, <1>4, Steady DEF NInv

\* The first k writes of a launch of r on w, whose mark is the fourth.
LEMMA LaunchWrites ==
    ASSUME NInv, NeverDown, NEW r \in Runs, NEW c, NEW w \in Workers, Startable(r, c), Fresh(w),
           NEW ws, NoneTo(ws, Early), Len(ws) >= 4, NEW k \in Cuts(ws),
           ws[4] = Put("mark", w, [claim |-> c, run |-> r]),
           \A i \in 1..Len(ws) : ws[i].kind = "mark" => i = 4,
           Write(ws, k)
    PROVE  /\ SameBoot' /\ k \in 0..Len(ws) /\ ~latched /\ view[w] = "none"
           /\ lane.worker \notin Workers
           /\ \A v \in Workers \ {w} : disk'.mark[v] = disk.mark[v]
           /\ \A v \in Workers \ {w} : child[v] # "none" =>
                    /\ disk.mark[v].run \in Runs \ {r}
                    /\ mem'.run[disk.mark[v].run] \notin Early
           /\ Unreturned
           /\ Spawned(k) => disk'.mark[w].run = r
<1>1. k \in 0..Len(ws) /\ Len(ws) \in Nat
  BY DEF Cuts, NoneTo
<1>2. SameBoot'
  <2>1. phase = "ready" /\ (UNCHANGED phase \/ "crash" \in Faults)
    BY DEF Startable, Authorized, Serving, Write
  <2> QED
    BY <2>1 DEF NeverDown, SameBoot
<1>3. ~latched /\ lane.worker = NoWorker /\ view[w] = "none" /\ mem.run[r] \in Early
  BY DEF Startable, Authorized, Nothing, Fresh, NInv, Early
<1>4. Unreturned
  BY <1>1, FinishReplayed DEF Write, Unreturned
<1>5. Len(Kept(ws, k)) = k /\ \A i \in 1..k : Kept(ws, k)[i] = ws[i]
  BY <1>1 DEF Kept
<1>6. ASSUME NEW v \in Workers \ {w} PROVE disk'.mark[v] = disk.mark[v]
  <2>1. {i \in 1..Len(Kept(ws, k)) : Kept(ws, k)[i].kind = "mark" /\ Kept(ws, k)[i].key = v} = {}
    BY <1>1, <1>5 DEF Put
  <2> QED
    BY <2>1 DEF Write, Replay, Latest
<1>7. ASSUME Spawned(k) PROVE disk'.mark[w].run = r
  <2> DEFINE hits == {i \in 1..Len(Kept(ws, k)) : Kept(ws, k)[i].kind = "mark"
                                                  /\ Kept(ws, k)[i].key = w}
  <2>1. hits = {4} /\ Kept(ws, k)[4].val.run = r
    BY <1>1, <1>5, <1>7 DEF Put, Spawned
  <2>2. (CHOOSE i \in hits : \A j \in hits : j <= i) = 4
    BY <2>1
  <2>3. Latest(Kept(ws, k), "mark", w, disk.mark[w]).run = r
    BY <2>1, <2>2 DEF Latest
  <2> QED
    BY <2>3 DEF Write, Replay
<1>8. ASSUME NEW v \in Workers \ {w}, child[v] # "none"
      PROVE  disk.mark[v].run \in Runs \ {r} /\ mem'.run[disk.mark[v].run] \notin Early
  BY <1>3, <1>4, <1>8 DEF NInv, Spent, Unreturned
<1> QED
  BY <1>1, <1>2, <1>3, <1>4, <1>6, <1>7, <1>8

\* A worker w is spawned for r.
LEMMA SpawnStep ==
    ASSUME NInv, NEW r \in Runs, NEW w \in Workers, SameBoot',
           \A v \in Workers \ {w} : disk'.mark[v] = disk.mark[v] /\ child'[v] = child[v]
                                    /\ view'[v] = view[v],
           \A v \in Workers \ {w} : child[v] # "none" =>
                    /\ disk.mark[v].run \in Runs \ {r}
                    /\ mem'.run[disk.mark[v].run] \notin Early,
           disk'.mark[w].run = r, child'[w] # "none",
           DOMAIN child' = Workers, DOMAIN view' = Workers,
           latched' \/ mem'.run[r] \notin Early \/ (lane'.worker = w /\ view'[w] = "none")
    PROVE  NInv'
<1>1. \A v \in Workers : IF child'[v] = "none" THEN view'[v] = "none" ELSE Spent(v)'
  BY DEF NInv, Spent
<1>2. \A v \in Workers \ {w} : child'[v] # "none" => disk'.mark[v].run # r
  OBVIOUS
<1>3. NoReplay'
  BY <1>2 DEF NInv, NoReplay, LaunchesOf
<1> QED
  BY <1>1, <1>3 DEF NInv

LEMMA LaunchOnce ==
    ASSUME NInv, NeverDown, NEW r \in Runs, NEW c, NEW w \in Workers,
           StartConclusive(r, c, w) \/ StartAmbiguous(r, c, w) \/ StartObserved(r, c, w)
    PROVE  NInv'
<1>0. DOMAIN child = Workers /\ DOMAIN view = Workers
  BY DEF NInv
<1>1. CASE StartConclusive(r, c, w)
  <2> DEFINE ws == Opening(r, c, w)
                     \o <<Put("budget", w, "refunded"), Put("claim", c, In(Moved(r, c), "failed")),
                          Put("run", r, "failed")>> \o Audit
  <2>1. /\ NoneTo(ws, Early) /\ Len(ws) >= 4 /\ ws[4] = Put("mark", w, [claim |-> c, run |-> r])
        /\ \A i \in 1..Len(ws) : ws[i].kind = "mark" => i = 4
    BY DEF Opening, Audit, Put, NoneTo, Early, Prelaunch
  <2>2. PICK k \in Cuts(ws) : Write(ws, k)
    BY <1>1 DEF StartConclusive
  <2>3. Startable(r, c) /\ Fresh(w) /\ UNCHANGED <<view, child, latched>>
    BY <1>1 DEF StartConclusive
  <2> HIDE DEF ws
  <2>4. /\ SameBoot' /\ Unreturned /\ lane.worker \notin Workers
        /\ \A v \in Workers \ {w} : disk'.mark[v] = disk.mark[v]
    BY <2>1, <2>2, <2>3, LaunchWrites
  <2>5. child[w] = "none"
    BY <2>3 DEF Fresh
  <2> QED
    BY <1>0, <2>3, <2>4, <2>5, Steady DEF NInv
<1>2. CASE StartAmbiguous(r, c, w)
  <2> DEFINE ws == Opening(r, c, w) \o AmbiguousWrites(r, c, w)
  <2>1. /\ NoneTo(ws, Early) /\ Len(ws) >= 4 /\ ws[4] = Put("mark", w, [claim |-> c, run |-> r])
        /\ \A i \in 1..Len(ws) : ws[i].kind = "mark" => i = 4
    BY DEF Opening, AmbiguousWrites, Audit, Put, NoneTo, Early, Prelaunch
  <2>2. PICK k \in Cuts(ws), fate \in {"live", "gone"} :
            /\ Write(ws, k)
            /\ IF Spawned(k) THEN child' = [child EXCEPT ![w] = fate] /\ KeepRootLane(w)
                             ELSE UNCHANGED <<child, lease, latched>>
    BY <1>2 DEF StartAmbiguous
  <2>3. Startable(r, c) /\ Fresh(w) /\ UNCHANGED view
    BY <1>2 DEF StartAmbiguous
  <2> HIDE DEF ws
  <2>4. /\ SameBoot' /\ Unreturned /\ lane.worker \notin Workers
        /\ \A v \in Workers \ {w} : disk'.mark[v] = disk.mark[v]
        /\ \A v \in Workers \ {w} : child[v] # "none" =>
                 /\ disk.mark[v].run \in Runs \ {r}
                 /\ mem'.run[disk.mark[v].run] \notin Early
        /\ Spawned(k) => disk'.mark[w].run = r
    BY <2>1, <2>2, <2>3, LaunchWrites
  <2>5. CASE Spawned(k)
    <3>1. /\ child'[w] # "none" /\ latched' /\ DOMAIN child' = Workers
          /\ \A v \in Workers \ {w} : child'[v] = child[v]
      BY <1>0, <2>2, <2>5 DEF KeepRootLane
    <3> QED
      BY <1>0, <2>3, <2>4, <2>5, <3>1, SpawnStep
  <2>6. CASE ~Spawned(k)
    <3>1. child[w] = "none" /\ UNCHANGED <<child, latched>>
      BY <2>2, <2>3, <2>6 DEF Fresh
    <3> QED
      BY <1>0, <2>3, <2>4, <3>1, Steady DEF NInv
  <2> QED
    BY <2>5, <2>6
<1>3. CASE StartObserved(r, c, w)
  <2> DEFINE ws == Opening(r, c, w) \o Audit \o
                    <<Put("run", r, "running"), Put("claim", c, [Moved(r, c) EXCEPT !.worker = w])>>
  <2>1. /\ NoneTo(ws, Early) /\ Len(ws) = 7 /\ Len(ws) >= 4
        /\ ws[4] = Put("mark", w, [claim |-> c, run |-> r])
        /\ \A i \in 1..Len(ws) : ws[i].kind = "mark" => i = 4
        /\ ws[6] = Put("run", r, "running")
    BY DEF Opening, Audit, Put, NoneTo, Early, Prelaunch
  <2>2. PICK k \in Cuts(ws) :
            /\ Write(ws, k)
            /\ lane' = LaneTaken(k, r, c, w)
            /\ IF Spawned(k) THEN child' = [child EXCEPT ![w] = "live"] ELSE UNCHANGED child
            /\ view' = IF k = Len(ws) THEN [view EXCEPT ![w] = "running"] ELSE view
    BY <1>3 DEF StartObserved
  <2>3. Startable(r, c) /\ Fresh(w) /\ UNCHANGED latched
    BY <1>3 DEF StartObserved
  <2> HIDE DEF ws
  <2>7. /\ k \in Cuts(ws) /\ Write(ws, k)
        /\ NoneTo(ws, Early) /\ Len(ws) >= 4 /\ ws[4] = Put("mark", w, [claim |-> c, run |-> r])
        /\ \A i \in 1..Len(ws) : ws[i].kind = "mark" => i = 4
    BY <2>1, <2>2
  <2>4. /\ SameBoot' /\ Unreturned /\ lane.worker \notin Workers
        /\ k \in 0..Len(ws) /\ view[w] = "none"
        /\ \A v \in Workers \ {w} : disk'.mark[v] = disk.mark[v]
        /\ \A v \in Workers \ {w} : child[v] # "none" =>
                 /\ disk.mark[v].run \in Runs \ {r}
                 /\ mem'.run[disk.mark[v].run] \notin Early
        /\ Spawned(k) => disk'.mark[w].run = r
    BY <2>3, <2>7, LaunchWrites
  <2>5. CASE Spawned(k)
    <3>1. /\ child'[w] # "none" /\ DOMAIN child' = Workers /\ DOMAIN view' = Workers
          /\ \A v \in Workers \ {w} : child'[v] = child[v] /\ view'[v] = view[v]
      BY <1>0, <2>2, <2>5
    <3>2. CASE k >= 6
      <4> DEFINE hits == {i \in 1..Len(Kept(ws, k)) : Kept(ws, k)[i].kind = "run"
                                                      /\ Kept(ws, k)[i].key = r}
      <4>1. Len(Kept(ws, k)) = k /\ \A i \in 1..k : Kept(ws, k)[i] = ws[i]
        BY <2>1, <2>4 DEF Kept
      <4>2. \A i \in 1..7 : ws[i].kind = "run" => i = 6
        BY <2>1 DEF NoneTo, Put
      <4>3. hits = {6} /\ Kept(ws, k)[6].val = "running"
        BY <2>1, <2>4, <3>2, <4>1, <4>2 DEF Put
      <4>4. (CHOOSE i \in hits : \A j \in hits : j <= i) = 6
        BY <4>3
      <4>5. Latest(Kept(ws, k), "run", r, mem.run[r]) = "running"
        BY <4>3, <4>4 DEF Latest
      <4>6. mem'.run[r] = "running"
        BY <2>2, <4>5 DEF Write, Replay
      <4> QED
        BY <2>4, <2>5, <3>1, <4>6, SpawnStep DEF Early, Prelaunch
    <3>3. CASE k < 6
      <4>1. lane'.worker = w /\ view'[w] = "none"
        BY <2>1, <2>2, <2>4, <2>5, <3>3 DEF Spawned, LaneTaken
      <4> QED
        BY <2>4, <2>5, <3>1, <4>1, SpawnStep
    <3> QED
      BY <2>1, <2>4, <3>2, <3>3
  <2>6. CASE ~Spawned(k)
    <3>1. child[w] = "none" /\ UNCHANGED <<child, view>>
      BY <2>1, <2>2, <2>3, <2>4, <2>6 DEF Fresh, Spawned
    <3> QED
      BY <1>0, <2>3, <2>4, <3>1, Steady DEF NInv
  <2> QED
    BY <2>5, <2>6
<1> QED
  BY <1>1, <1>2, <1>3

LEMMA RequestOnce ==
    ASSUME NInv, NeverDown,
           \/ \E r, to : Accept(r) \/ GateTransition(r, to)
           \/ StopEngage \/ StopResume
           \/ \E c, to : ClaimTransition(c, to)
           \/ \E c : ClaimRelease(c) \/ RecoverBegin(c)
           \/ \E r, c : StartExhausted(r, c)
    PROVE  NInv'
<1>1. ASSUME NEW ws, NoneMarked(ws), Request(ws),
             NoneTo(ws, Early) \/ \E r, val : ws = <<Put("run", r, val)>> /\ mem.run[r] \in Early
      PROVE  NInv'
  BY <1>1, SteadyWrites DEF Request
<1>2. \A kind, key, val : kind # "mark" => NoneMarked(<<Put(kind, key, val)>>)
  BY DEF NoneMarked, Put
<1>3. \A kind, key, val : kind # "run" => NoneTo(<<Put(kind, key, val)>>, Early)
  BY DEF NoneTo, Put
<1>4. ASSUME NEW r, NEW to, Accept(r) \/ GateTransition(r, to) PROVE NInv'
  <2>1. PICK val : Request(<<Put("run", r, val)>>) /\ mem.run[r] \in Early
    BY <1>4 DEF Accept, GateTransition, Early, Prelaunch
  <2> QED
    BY <1>1, <1>2, <2>1
<1>5. CASE StopEngage \/ StopResume
  BY <1>1, <1>2, <1>3, <1>5 DEF StopEngage, StopResume
<1>6. ASSUME NEW c, NEW to, ClaimTransition(c, to) \/ ClaimRelease(c) PROVE NInv'
  BY <1>1, <1>2, <1>3, <1>6 DEF ClaimTransition, ClaimRelease
<1>7. ASSUME NEW c, RecoverBegin(c) PROVE NInv'
  <2> DEFINE ws == <<Put("recovery", c, "requested"), Put("recovery", c, "stopping")>>
  <2>1. NoneTo(ws, Early) /\ NoneMarked(ws)
    BY DEF NoneTo, NoneMarked, Put
  <2>2. (\E k \in Cuts(ws) : Write(ws, k)) /\ UNCHANGED <<child, latched, lane, view>>
    BY <1>7 DEF RecoverBegin
  <2> QED
    BY <2>1, <2>2, SteadyWrites
<1>8. ASSUME NEW r, NEW c, StartExhausted(r, c) PROVE NInv'
  <2> DEFINE ws == <<Put("claim", c, Moved(r, c)), Put("claim", c, In(Moved(r, c), "interrupted"))>>
  <2>1. NoneTo(ws, Early) /\ NoneMarked(ws)
    BY DEF NoneTo, NoneMarked, Put
  <2> QED
    BY <1>1, <1>8, <2>1 DEF StartExhausted
<1> QED
  BY <1>4, <1>5, <1>6, <1>7, <1>8

\* A step that changes no mark, child, lane or view, and whose runs, if it
\* moves any, do not come back.
LEMMA StillStep ==
    ASSUME NInv, SameBoot', UNCHANGED <<child, lane, view, latched>>, Unreturned,
           \A w \in Workers : disk'.mark[w] = disk.mark[w]
    PROVE  NInv'
  BY Steady DEF NInv

LEMMA RecoverOnce ==
    ASSUME NInv, NeverDown, NEW gone, RecoverEnd(gone) \/ StaleRecoverEnd(gone)
    PROVE  NInv'
<1>1. "interrupted" \notin Early
  BY DEF Early, Prelaunch
<1>2. CASE RecoverEnd(gone)
  BY <1>1, <1>2, RecoveryCalm, SteadyWrites DEF RecoverEnd
<1>3. CASE StaleRecoverEnd(gone)
  <2> DEFINE ws == RecoveryWrites(old, oldJob, gone)
  <2>1. NoneMarked(ws)
    BY <1>1, RecoveryCalm
  <2>2. PICK k \in Cuts(ws) :
            /\ disk' = Replay(disk, Kept(ws, k))
            /\ UNCHANGED phase \/ "crash" \in Faults
    BY <1>3 DEF StaleRecoverEnd
  <2>3. UNCHANGED <<mem, child, lane, view, latched>>
    BY <1>3 DEF StaleRecoverEnd
  <2> HIDE DEF ws
  <2>4. k \in 0..Len(ws)
    BY <2>1 DEF Cuts, NoneMarked
  <2>5. \A w \in Workers : disk'.mark[w] = disk.mark[w]
    BY <2>1, <2>2, <2>4, FinishReplayed
  <2>6. SameBoot' /\ Unreturned
    BY <2>2, <2>3 DEF SameBoot, NInv, NeverDown, Unreturned
  <2> QED
    BY <2>3, <2>5, <2>6, StillStep
<1> QED
  BY <1>2, <1>3

\* The lane is latched while a replacement gate's service reconciles, and no
\* append is refused then.
LEMMA ReconcileOnce ==
    ASSUME NInv, NeverDown, NEW c, Reconcile(c)
    PROVE  NInv'
<1> DEFINE record == mem.claim[c]
           ws == ReconcileWrites(c, record)
           first == IF mem.budget[record.worker] = "reserved"
                      THEN <<Put("budget", record.worker, "settled")>> ELSE <<>>
           runs == IF mem.run[record.run] \notin RunTerminal
                     THEN <<Put("run", record.run, "interrupted")>> ELSE <<>>
           last == <<Put("claim", c, Detached(record)),
                     Put("claim", c, In(Detached(record), "interrupted"))>>
<1>1. NoneMarked(first) /\ NoneMarked(runs) /\ NoneMarked(last)
  BY DEF NoneMarked, Put
<1>2. ws = first \o runs \o last
  BY DEF ReconcileWrites
<1>3. PICK k \in Cuts(ws) : /\ disk' = Replay(disk, Kept(ws, k))
                            /\ phase' = IF k = Len(ws) THEN phase ELSE "down"
  BY DEF Reconcile
<1>4. phase = "replaying" /\ UNCHANGED <<child, lane, view, latched>>
  BY DEF Reconcile
<1> HIDE DEF first, runs, last, ws
<1>5. NoneMarked(ws)
  BY <1>1, <1>2, FinishJoin
<1>6. latched /\ "gate_loss" \in Faults
  BY <1>4 DEF NInv, SameBoot
<1>7. k = Len(ws) /\ k \in 0..Len(ws)
  BY <1>5, <1>6 DEF Cuts, NeverDown, NoneMarked
<1>8. \A w \in Workers : disk'.mark[w] = disk.mark[w]
  BY <1>3, <1>5, <1>7, FinishReplayed
<1>9. SameBoot'
  BY <1>3, <1>4, <1>6, <1>7 DEF SameBoot
<1> QED
  BY <1>4, <1>6, <1>8, <1>9, Steady DEF NInv

\* A settled exit frees a lane whose worker the registry held.
LEMMA CloseOnce ==
    ASSUME NInv, NeverDown, NEW w \in Workers, NEW exit, OuterClose(w, exit)
    PROVE  NInv'
<1>1. UNCHANGED <<child, latched>>
  BY DEF OuterClose
<1>2. CASE ~Completes(w)
  <2>1. UNCHANGED <<disk, mem, phase, lane, view>>
    BY <1>2 DEF OuterClose
  <2> QED
    BY <1>1, <2>1, StillStep DEF NInv, SameBoot, Unreturned
<1>3. CASE Completes(w)
  <2> DEFINE outcome == IF view[w] = "stopping" THEN "cancelled" ELSE exit
             ws == CompletionWrites(w, outcome)
             front == <<Put("budget", w, "settled")>> \o Audit
                        \o <<Put("claim", lane.claim, Detached(mem.claim[lane.claim]))>>
             runs == IF mem.run[lane.run] = "running"
                       THEN <<Put("run", lane.run, RunOutcome(outcome))>> ELSE <<>>
  <2>1. PICK k \in Cuts(ws) :
            /\ Write(ws, k)
            /\ lane' = IF k = Len(ws) THEN Nothing ELSE lane
            /\ view' = IF k = Len(ws) THEN [view EXCEPT ![w] = outcome] ELSE view
    BY <1>3 DEF OuterClose
  <2>2. Runless(front) /\ NoneMarked(front) /\ NoneMarked(runs)
    BY DEF Runless, NoneMarked, Audit, Put
  <2>3. NoneTo(runs, Early)
    BY DEF NoneTo, Put, RunOutcome, Early, Prelaunch
  <2>4. ws = front \o runs
    BY DEF CompletionWrites
  <2> HIDE DEF front, runs, ws
  <2>5. NoneTo(ws, Early) /\ NoneMarked(ws)
    BY <2>2, <2>3, <2>4, FinishJoin
  <2>6. SameBoot' /\ Unreturned /\ \A v \in Workers : disk'.mark[v] = disk.mark[v]
    BY <1>1, <2>1, <2>5, SteadyWrites
  <2>7. view[w] # "none" /\ lane.worker = w /\ child[w] # "none"
    BY <1>3 DEF Completes, NInv
  <2>8. DOMAIN view' = Workers /\ \A v \in Workers \ {w} : view'[v] = view[v]
    BY <2>1 DEF NInv
  <2> HIDE DEF outcome
  <2> QED
    BY <1>1, <2>6, <2>7, <2>8, Steady DEF NInv
<1> QED
  BY <1>2, <1>3

LEMMA OtherOnce ==
    ASSUME NInv, NeverDown,
           \/ \E w \in Workers : Cancel(w) \/ ChildDies(w) \/ OuterCloseUnproven(w)
           \/ GateLoss \/ Connect \/ Crash \/ Boot \/ Serve \/ UNCHANGED vars
           \/ RecoverUnread \/ StaleRecoverUnread
    PROVE  NInv'
<1>1. ASSUME NEW w \in Workers, Cancel(w) PROVE NInv'
  <2>1. child[w] # "none" /\ view[w] # "none" /\ SameBoot'
    BY <1>1 DEF Cancel, NInv, SameBoot
  <2> QED
    BY <1>1, <2>1, Steady DEF Cancel, NInv, Unreturned
<1>2. ASSUME NEW w \in Workers, ChildDies(w) PROVE NInv'
  <2>1. SameBoot'
    BY <1>2 DEF ChildDies, NInv, SameBoot
  <2> QED
    BY <1>2, <2>1, Steady DEF ChildDies, NInv, Unreturned
<1>3. ASSUME NEW w \in Workers, OuterCloseUnproven(w) PROVE NInv'
  <2>1. SameBoot'
    BY <1>3 DEF OuterCloseUnproven, NInv, SameBoot
  <2> QED
    BY <1>3, <2>1, Steady DEF OuterCloseUnproven, NInv
<1>4. CASE GateLoss
  BY <1>4, Steady DEF GateLoss, NInv, SameBoot
<1>5. CASE Connect
  <2>1. SameBoot' /\ latched'
    BY <1>5 DEF Connect, NInv, SameBoot
  <2> QED
    BY <1>5, <2>1, Steady DEF Connect, NInv
<1>6. CASE Serve
  BY <1>6, StillStep DEF Serve, volatile, NInv, SameBoot, Unreturned
<1>7. CASE UNCHANGED vars
  BY <1>7, StillStep DEF vars, volatile, NInv, SameBoot, Unreturned
<1>8. ~Crash /\ ~Boot
  BY DEF Crash, Boot, NeverDown, NInv, SameBoot
<1>9. CASE RecoverUnread \/ StaleRecoverUnread
  BY <1>9, StillStep DEF RecoverUnread, StaleRecoverUnread, NInv, SameBoot, Unreturned
<1> QED
  BY <1>1, <1>2, <1>3, <1>4, <1>5, <1>6, <1>7, <1>8, <1>9

LEMMA NInvStep == ASSUME NInv, NeverDown, [Next]_vars PROVE NInv'
  BY LaunchOnce, RequestOnce, RecoverOnce, ReconcileOnce, CloseOnce, OtherOnce DEF Next

LEMMA NInvInit == Init => NInv
<1> SUFFICES ASSUME Init PROVE NInv
  OBVIOUS
<1>1. /\ \A w \in Workers : child[w] = "none" /\ view[w] = "none"
      /\ DOMAIN child = Workers /\ DOMAIN view = Workers /\ phase = "ready"
  BY DEF Init
<1> QED
  BY <1>1 DEF NInv, SameBoot, NoReplay, LaunchesOf

\* As long as PID 1 does not die, work that once had a process is never
\* launched again, whatever appends are refused or gates are lost.
THEOREM LaunchedOnce == ASSUME NeverDown PROVE Spec => []NoReplay
<1>1. NInv => NoReplay
  BY DEF NInv
<1>2. NInv /\ [Next]_vars => NInv'
  BY NInvStep
<1> QED
  BY <1>1, <1>2, NInvInit, PTL DEF Spec

-----------------------------------------------------------------------------
(* Interruptions are proven, as long as no gate is lost                    *)

NeverLost == "gate_loss" \notin Faults

ClaimShape(record) == DOMAIN record = {"state", "worker", "run"} /\ record.state \in ClaimStates

\* A claim in flight is the one of the launcher's lane, with its worker, and
\* so is the claim under recovery while anything runs.
Backed ==
    /\ \A c \in Claims : mem.claim[c].state \in ClaimLive /\ Attached(mem, c) =>
            lane.worker = mem.claim[c].worker /\ lane.claim = c
    /\ job # Nothing =>
            /\ job.claim \in Claims /\ mem.claim[job.claim].state \in ClaimLive
            /\ LiveWorkers = {} \/ (lane.worker = job.worker /\ lane.claim = job.claim)

\* The claim of a live worker is not interrupted: it is the lane's, with its
\* worker, or it is quarantined.
Guarded(v, c) ==
    /\ mem.claim[c].state # "interrupted"
    /\ phase = "ready" => \/ lane.worker = v /\ lane.claim = c
                          \/ mem.claim[c].state = "quarantined"

\* No service is superseded, and none replays while a worker lives.
Coherent ==
    /\ mem = disk /\ oldJob = Nothing
    /\ phase \in {"ready", "down", "replaying"}
    /\ phase = "replaying" => LiveWorkers = {} /\ job = Nothing

Held ==
    /\ \A c \in Claims : ClaimShape(mem.claim[c])
    /\ phase = "ready" => Backed
    /\ \A v \in LiveWorkers, c \in Claims : mem.mark[v].claim = c => Guarded(v, c)

CInv == FInv /\ Coherent /\ Held

LEMMA CoherentStep ==
    ASSUME CInv, NeverLost, [Next]_vars
    PROVE  Coherent'
<1> USE DEF CInv, Coherent
<1>1. ASSUME NEW ws, NEW k, Write(ws, k), UNCHANGED oldJob, phase = "ready" PROVE Coherent'
  BY <1>1 DEF Write
<1>2. ASSUME NEW r, NEW c, NEW w,
             StartConclusive(r, c, w) \/ StartAmbiguous(r, c, w) \/ StartObserved(r, c, w)
      PROVE  Coherent'
  BY <1>1, <1>2 DEF StartConclusive, StartAmbiguous, StartObserved, Startable, Authorized, Serving
<1>3. ASSUME NEW ws, Serving, Request(ws) PROVE Coherent'
  BY <1>1, <1>3 DEF Request, Serving
<1>4. ASSUME NEW r, \/ Accept(r) \/ \E to : GateTransition(r, to)
                    \/ \E c : StartExhausted(r, c)
      PROVE  Coherent'
  BY <1>3, <1>4 DEF Accept, GateTransition, StartExhausted, Startable, Authorized
<1>5. ASSUME NEW c, (\E to : ClaimTransition(c, to)) \/ ClaimRelease(c) PROVE Coherent'
  BY <1>3, <1>5 DEF ClaimTransition, ClaimRelease, Authorized
<1>6. CASE StopEngage \/ StopResume
  BY <1>3, <1>6 DEF StopEngage, StopResume, Authorized
<1>7. ASSUME NEW c, RecoverBegin(c) PROVE Coherent'
  BY <1>1, <1>7 DEF RecoverBegin, Serving
<1>8. ASSUME NEW gone, RecoverEnd(gone) PROVE Coherent'
  BY <1>1, <1>8 DEF RecoverEnd, Up
<1>9. ASSUME NEW c, Reconcile(c) PROVE Coherent'
  BY <1>9 DEF Reconcile, LiveWorkers
<1>10. ASSUME NEW w, NEW exit, OuterClose(w, exit) PROVE Coherent'
  BY <1>1, <1>10 DEF OuterClose, Up
<1>11. ASSUME NEW w \in Workers, Cancel(w) \/ ChildDies(w) \/ OuterCloseUnproven(w) PROVE Coherent'
  BY <1>11 DEF Cancel, ChildDies, OuterCloseUnproven, LiveWorkers, FInv, HoldsRoot
<1>12. CASE Boot
  BY <1>12 DEF Boot, LiveWorkers
<1>13. CASE Serve \/ Crash \/ UNCHANGED vars
  BY <1>13 DEF Serve, Crash, volatile, vars, LiveWorkers
<1>14. ~GateLoss /\ ~Connect /\ ~StaleRecoverUnread /\ \A gone : ~StaleRecoverEnd(gone)
  BY DEF GateLoss, Connect, StaleRecoverUnread, StaleRecoverEnd, NeverLost
<1>15. CASE RecoverUnread
  BY <1>15 DEF RecoverUnread, LiveWorkers
<1> QED
  BY <1>2, <1>4, <1>5, <1>6, <1>7, <1>8, <1>9, <1>10, <1>11, <1>12, <1>13, <1>14, <1>15 DEF Next

\* At most two writes about a claim, all of c, with values in V; at most one;
\* and none.
ClaimTo(ws, c, V) ==
    /\ Len(ws) \in Nat
    /\ \E i, j \in Nat : \A n \in 1..Len(ws) : ws[n].kind = "claim" => n \in {i, j}
    /\ \A n \in 1..Len(ws) : ws[n].kind = "claim" => ws[n].key = c /\ ws[n].val \in V
OnceTo(ws, c, V) ==
    /\ Len(ws) \in Nat
    /\ \E i \in Nat : \A n \in 1..Len(ws) : ws[n].kind = "claim" => n = i
    /\ \A n \in 1..Len(ws) : ws[n].kind = "claim" => ws[n].key = c /\ ws[n].val \in V
Claimless(ws) == Len(ws) \in Nat /\ \A n \in 1..Len(ws) : ws[n].kind # "claim"

LEMMA ClaimJoin ==
    ASSUME NEW s, NEW t, NEW c, NEW V
    PROVE  /\ ClaimTo(s, c, V) /\ Claimless(t) => ClaimTo(s \o t, c, V)
           /\ OnceTo(s, c, V) /\ OnceTo(t, c, V) => ClaimTo(s \o t, c, V)
           /\ Claimless(s) /\ OnceTo(t, c, V) => OnceTo(s \o t, c, V)
           /\ Claimless(s) /\ ClaimTo(t, c, V) => ClaimTo(s \o t, c, V)
           /\ Claimless(s) /\ Claimless(t) => Claimless(s \o t)
<1>1. ASSUME ClaimTo(s, c, V), Claimless(t) PROVE ClaimTo(s \o t, c, V)
  <2>1. Len(s) \in Nat /\ Len(t) \in Nat /\ Len(s \o t) \in Nat
    BY <1>1, Joined DEF ClaimTo, Claimless
  <2>2. \A n \in 1..Len(s \o t) : (s \o t)[n].kind = "claim" =>
            n \in 1..Len(s) /\ (s \o t)[n] = s[n]
    BY <1>1, <2>1, Joined DEF Claimless
  <2> QED
    BY <1>1, <2>1, <2>2 DEF ClaimTo
<1> DEFINE u == s \o t
<1>2. ASSUME Len(s) \in Nat, Len(t) \in Nat
      PROVE  /\ Len(u) \in Nat
             /\ \A n \in 1..Len(u) :
                    \/ n \in 1..Len(s) /\ u[n] = s[n]
                    \/ \E m \in 1..Len(t) : n = m + Len(s) /\ u[n] = t[m]
  <2>1. Len(u) \in Nat
    BY <1>2, Joined
  <2>2. \A n \in 1..Len(u) :
            \/ n \in 1..Len(s) /\ u[n] = s[n]
            \/ n - Len(s) \in 1..Len(t) /\ u[n] = t[n - Len(s)]
    BY <1>2, Joined
  <2> HIDE DEF u
  <2>3. \A n \in 1..Len(u) : n = (n - Len(s)) + Len(s)
    BY <1>2, <2>1
  <2> QED
    BY <2>1, <2>2, <2>3
<1> HIDE DEF u
<1>3. ASSUME OnceTo(s, c, V), OnceTo(t, c, V) PROVE ClaimTo(u, c, V)
  <2>1. PICK i \in Nat : \A n \in 1..Len(t) : t[n].kind = "claim" => n = i
    BY <1>3 DEF OnceTo
  <2>2. PICK j \in Nat : \A n \in 1..Len(s) : s[n].kind = "claim" => n = j
    BY <1>3 DEF OnceTo
  <2>3. Len(s) \in Nat /\ Len(t) \in Nat
    BY <1>3 DEF OnceTo
  <2>4. i + Len(s) \in Nat /\ Len(u) \in Nat
    BY <1>2, <2>3
  <2>5. \A n \in 1..Len(u) :
            \/ n \in 1..Len(s) /\ u[n] = s[n]
            \/ \E m \in 1..Len(t) : n = m + Len(s) /\ u[n] = t[m]
    BY <1>2, <2>3
  <2>6. /\ \A n \in 1..Len(s) : s[n].kind = "claim" => n = j /\ s[n].key = c /\ s[n].val \in V
        /\ \A m \in 1..Len(t) : t[m].kind = "claim" => m = i /\ t[m].key = c /\ t[m].val \in V
    BY <1>3, <2>1, <2>2 DEF OnceTo
  <2>7. \A n \in 1..Len(u) : u[n].kind = "claim" =>
            n \in {j, i + Len(s)} /\ u[n].key = c /\ u[n].val \in V
    BY <2>5, <2>6
  <2> QED
    BY <2>4, <2>7 DEF ClaimTo
<1>4. ASSUME Claimless(s), ClaimTo(t, c, V) PROVE ClaimTo(u, c, V)
  <2>1. PICK i \in Nat, j \in Nat : \A n \in 1..Len(t) : t[n].kind = "claim" => n \in {i, j}
    BY <1>4 DEF ClaimTo
  <2>2. Len(s) \in Nat /\ Len(t) \in Nat
    BY <1>4 DEF ClaimTo, Claimless
  <2>3. \A n \in 1..Len(u) : u[n].kind = "claim" =>
            \E m \in 1..Len(t) : n = m + Len(s) /\ u[n] = t[m]
    BY <1>2, <1>4, <2>2 DEF Claimless
  <2>4. i + Len(s) \in Nat /\ j + Len(s) \in Nat /\ Len(u) \in Nat
    BY <1>2, <2>2
  <2>5. \A n \in 1..Len(u) : u[n].kind = "claim" =>
            n \in {i + Len(s), j + Len(s)} /\ u[n].key = c /\ u[n].val \in V
    BY <1>4, <2>1, <2>3 DEF ClaimTo
  <2> QED
    BY <2>4, <2>5 DEF ClaimTo
<1>5. ASSUME Claimless(s), OnceTo(t, c, V) PROVE OnceTo(u, c, V)
  <2>1. PICK i \in Nat : \A n \in 1..Len(t) : t[n].kind = "claim" => n = i
    BY <1>5 DEF OnceTo
  <2>2. Len(s) \in Nat /\ Len(t) \in Nat
    BY <1>5 DEF OnceTo, Claimless
  <2>3. \A n \in 1..Len(u) : u[n].kind = "claim" =>
            \E m \in 1..Len(t) : n = m + Len(s) /\ u[n] = t[m]
    BY <1>2, <1>5, <2>2 DEF Claimless
  <2>4. i + Len(s) \in Nat /\ Len(u) \in Nat
    BY <1>2, <2>2
  <2>5. \A n \in 1..Len(u) : u[n].kind = "claim" =>
            n = i + Len(s) /\ u[n].key = c /\ u[n].val \in V
    BY <1>5, <2>1, <2>3 DEF OnceTo
  <2> QED
    BY <2>4, <2>5 DEF OnceTo
<1>6. ASSUME Claimless(s), Claimless(t) PROVE Claimless(s \o t)
  BY <1>6, Joined DEF Claimless
<1> QED
  BY <1>1, <1>3, <1>4, <1>5, <1>6 DEF u

\* What the first k of such writes leave of a claim.
LEMMA ClaimReplayed ==
    ASSUME NEW ws, NEW k \in 0..Len(ws), NEW c, NEW V, ClaimTo(ws, c, V), NEW S, NEW d \in Claims
    PROVE  \/ Replay(S, Kept(ws, k)).claim[d] = S.claim[d]
           \/ /\ d = c /\ Replay(S, Kept(ws, k)).claim[d] \in V
              /\ \E n \in 1..k : /\ ws[n].kind = "claim"
                                /\ Replay(S, Kept(ws, k)).claim[d] = ws[n].val
<1> DEFINE hits == {n \in 1..Len(Kept(ws, k)) : Kept(ws, k)[n].kind = "claim"
                                                /\ Kept(ws, k)[n].key = d}
           last == CHOOSE n \in hits : \A m \in hits : m <= n
<1>1. Len(Kept(ws, k)) = k /\ \A n \in 1..k : Kept(ws, k)[n] = ws[n] /\ n \in 1..Len(ws)
  BY DEF Kept, ClaimTo
<1>2. Replay(S, Kept(ws, k)).claim[d] = IF hits = {} THEN S.claim[d] ELSE Kept(ws, k)[last].val
  BY DEF Replay, Latest
<1>3. CASE hits = {}
  BY <1>2, <1>3
<1>4. CASE hits # {}
  <2>1. PICK i \in Nat, j \in Nat : \A n \in hits : n \in {i, j}
    BY <1>1 DEF ClaimTo
  <2>2. PICK n \in hits : \A m \in hits : m <= n
    BY <1>4, <2>1
  <2>3. last \in hits
    BY <2>2
  <2>4. ws[last].kind = "claim" /\ ws[last].key = d /\ ws[last] = Kept(ws, k)[last]
        /\ last \in 1..Len(ws) /\ last \in 1..k
    BY <1>1, <2>3
  <2> QED
    BY <1>2, <1>4, <2>4 DEF ClaimTo
<1> QED
  BY <1>3, <1>4

\* The last write about a claim is what all of them leave of it.
LEMMA ClaimLast ==
    ASSUME NEW ws, Len(ws) \in Nat, NEW n \in 1..Len(ws), ws[n].kind = "claim",
           \A m \in 1..Len(ws) : ws[m].kind = "claim" => m <= n,
           NEW S, ws[n].key \in Claims
    PROVE  Replay(S, Kept(ws, Len(ws))).claim[ws[n].key] = ws[n].val
<1> DEFINE hits == {m \in 1..Len(Kept(ws, Len(ws))) : Kept(ws, Len(ws))[m].kind = "claim"
                                                      /\ Kept(ws, Len(ws))[m].key = ws[n].key}
<1>1. Len(Kept(ws, Len(ws))) = Len(ws) /\ \A m \in 1..Len(ws) : Kept(ws, Len(ws))[m] = ws[m]
  BY DEF Kept
<1>2. n \in hits /\ \A m \in hits : m <= n /\ m \in Nat
  BY <1>1
<1>3. (CHOOSE m \in hits : \A l \in hits : l <= m) = n
  BY <1>2
<1> QED
  BY <1>1, <1>2, <1>3 DEF Replay, Latest

LEMMA Shapes ==
    ASSUME NEW record, ClaimShape(record)
    PROVE  /\ \A s \in ClaimStates : /\ ClaimShape(In(record, s)) /\ In(record, s).state = s
                                     /\ In(record, s).worker = record.worker
           /\ ClaimShape(Detached(record)) /\ Detached(record).state = record.state
           /\ Detached(record).worker = NoWorker
  BY DEF ClaimShape, In, Detached

\* The claim a launch moves was not attached, and is not now.
LEMMA MovedShape ==
    ASSUME CInv, NEW r \in Runs, NEW c \in Claims, Startable(r, c)
    PROVE  /\ phase = "ready" /\ job = Nothing /\ LiveWorkers = {} /\ lane.worker = NoWorker
           /\ \A d \in Claims : mem.claim[d].state \in ClaimLive => ~Attached(mem, d)
           /\ mem.claim[c].state \in {"none", "awaiting_review", "correction_required"}
           /\ ClaimShape(Moved(r, c)) /\ Moved(r, c).worker = NoWorker
           /\ Moved(r, c).state \in {"active", "reviewing"}
<1>1. phase = "ready" /\ job = Nothing /\ LiveWorkers = {} /\ lane.worker = NoWorker
  BY NothingRuns DEF CInv, Startable, Authorized, Serving, Nothing
<1>2. ClaimShape(mem.claim[c]) /\ {"active", "reviewing"} \subseteq ClaimStates
  BY DEF CInv, Held, ClaimStates, ClaimLive
<1>3. \/ ModeOf[r] = "new" /\ mem.claim[c].state = "none"
      \/ ModeOf[r] \in {"review", "correction"}
         /\ mem.claim[c].state \in {"awaiting_review", "correction_required"}
  BY DEF Startable
<1>6. \A d \in Claims : mem.claim[d].state \in ClaimLive => ~Attached(mem, d)
  BY <1>1 DEF CInv, Held, Backed, Attached
<1>4. CASE ModeOf[r] = "new"
  BY <1>1, <1>2, <1>3, <1>4, <1>6 DEF Moved, ClaimShape
<1>5. CASE ModeOf[r] # "new"
  <2>1. mem.claim[c].worker = NoWorker
    BY <1>1, <1>3, <1>5 DEF CInv, Held, Backed, ClaimLive, Attached
  <2>2. Moved(r, c) \in {In(mem.claim[c], "reviewing"), In(mem.claim[c], "active")}
    BY <1>5 DEF Moved
  <2>3. \A s \in {"reviewing", "active"} :
            /\ ClaimShape(In(mem.claim[c], s)) /\ In(mem.claim[c], s).state = s
            /\ In(mem.claim[c], s).worker = mem.claim[c].worker
    BY <1>2, Shapes
  <2> QED
    BY <1>1, <1>3, <1>5, <1>6, <2>1, <2>2, <2>3
<1> QED
  BY <1>4, <1>5

\* A step that moves claims by no interruption, attaches none, and leaves the
\* lane and the job.
Minor(before, after) ==
    /\ ClaimShape(after) /\ after.state # "interrupted" /\ before.state # "quarantined"
    /\ after.state \in ClaimLive /\ after.worker # NoWorker =>
            before.state \in ClaimLive /\ after.worker = before.worker

LEMMA MinorStep ==
    ASSUME CInv, Coherent', phase' \in {phase, "down"},
           \A d \in Claims : mem'.claim[d] = mem.claim[d] \/ Minor(mem.claim[d], mem'.claim[d]),
           \A w \in Workers : mem'.mark[w] = mem.mark[w], NoneRevived,
           UNCHANGED lane,
           \/ job' = Nothing
           \/ UNCHANGED job /\ \A d \in Claims : mem'.claim[d].state = mem.claim[d].state
    PROVE  Held'
<1>1. LiveWorkers' \subseteq LiveWorkers
  BY DEF LiveWorkers, NoneRevived
<1>2. \A c \in Claims : ClaimShape(mem'.claim[c])
  BY DEF CInv, Held, Minor
<1>3. ASSUME phase' = "ready" PROVE Backed'
  <2>1. Backed
    BY <1>3 DEF CInv, Held
  <2>2. ASSUME NEW c \in Claims, mem'.claim[c].state \in ClaimLive, Attached(mem, c)'
        PROVE  lane'.worker = mem'.claim[c].worker /\ lane'.claim = c
    BY <2>1, <2>2 DEF Backed, Attached, Minor
  <2>3. ASSUME job' # Nothing
        PROVE  /\ job'.claim \in Claims /\ mem'.claim[job'.claim].state \in ClaimLive
               /\ LiveWorkers' = {} \/ (lane'.worker = job'.worker /\ lane'.claim = job'.claim)
    BY <1>1, <2>1, <2>3 DEF Backed
  <2> QED
    BY <2>2, <2>3 DEF Backed
<1>4. ASSUME NEW v \in LiveWorkers', NEW c \in Claims, mem'.mark[v].claim = c
      PROVE  Guarded(v, c)'
  <2>1. Guarded(v, c) /\ v \in Workers
    BY <1>1, <1>4 DEF CInv, Held, LiveWorkers
  <2> QED
    BY <2>1 DEF Guarded, Minor
<1> QED
  BY <1>2, <1>3, <1>4 DEF Held

\* A step after which nothing runs.
LEMMA EmptyStep ==
    ASSUME LiveWorkers' = {}, \A c \in Claims : ClaimShape(mem'.claim[c]),
           phase' = "ready" => /\ job' # Nothing => /\ job'.claim \in Claims
                                                    /\ mem'.claim[job'.claim].state \in ClaimLive
                               /\ \A c \in Claims : mem'.claim[c].state \in ClaimLive
                                    /\ mem'.claim[c].worker # NoWorker =>
                                         lane'.worker = mem'.claim[c].worker /\ lane'.claim = c
    PROVE  Held'
  BY DEF Held, Backed, Attached

\* The first k writes of a launch, whose mark is the fourth.
LEMMA MarkReplayed ==
    ASSUME NEW ws, Len(ws) \in Nat, NEW k \in 4..Len(ws), NEW w \in Workers, NEW mark, NEW S,
           ws[4] = Put("mark", w, mark), \A i \in 1..Len(ws) : ws[i].kind = "mark" => i = 4
    PROVE  Replay(S, Kept(ws, k)).mark[w] = mark
<1> DEFINE hits == {i \in 1..Len(Kept(ws, k)) : Kept(ws, k)[i].kind = "mark"
                                                /\ Kept(ws, k)[i].key = w}
<1>1. Len(Kept(ws, k)) = k /\ \A i \in 1..k : Kept(ws, k)[i] = ws[i]
  BY DEF Kept
<1>2. hits = {4} /\ Kept(ws, k)[4].val = mark
  BY <1>1 DEF Put
<1>3. (CHOOSE i \in hits : \A j \in hits : j <= i) = 4
  BY <1>2
<1> QED
  BY <1>2, <1>3 DEF Replay, Latest

LEMMA ClaimlessReplayed ==
    ASSUME NEW ws, Claimless(ws), NEW k \in 0..Len(ws), NEW S, NEW d \in Claims
    PROVE  Replay(S, Kept(ws, k)).claim[d] = S.claim[d]
<1>1. ClaimTo(ws, d, {})
  BY DEF Claimless, ClaimTo
<1> QED
  BY <1>1, ClaimReplayed

\* Writes of a claim to values that attach nothing, while nothing runs.
LEMMA UnattachedWrites ==
    ASSUME CInv, NEW c \in Claims, NEW V, NEW ws, ClaimTo(ws, c, V), NEW k \in Cuts(ws), Write(ws, k),
           \A val \in V : ClaimShape(val) /\ val.worker = NoWorker,
           LiveWorkers' = {}, job' = Nothing,
           \A d \in Claims : mem.claim[d].state \in ClaimLive => ~Attached(mem, d)
    PROVE  Held'
<1>1. k \in 0..Len(ws)
  BY DEF Cuts, ClaimTo
<1>2. \A d \in Claims : mem'.claim[d] = mem.claim[d] \/ mem'.claim[d] \in V
  BY <1>1, ClaimReplayed DEF Write
<1>3. \A d \in Claims : ClaimShape(mem'.claim[d])
  BY <1>2 DEF CInv, Held
<1>4. \A d \in Claims : mem'.claim[d].state \in ClaimLive => mem'.claim[d].worker = NoWorker
  BY <1>2 DEF Attached
<1> QED
  BY <1>3, <1>4, EmptyStep

LEMMA FailedStartHeld ==
    ASSUME CInv, NEW r \in Runs, NEW c \in Claims,
           StartExhausted(r, c) \/ \E w \in Workers : StartConclusive(r, c, w)
    PROVE  Held'
<1>1. Startable(r, c)
  BY DEF StartExhausted, StartConclusive
<1>2. /\ job = Nothing /\ LiveWorkers = {}
      /\ \A d \in Claims : mem.claim[d].state \in ClaimLive => ~Attached(mem, d)
      /\ ClaimShape(Moved(r, c)) /\ Moved(r, c).worker = NoWorker
  BY <1>1, MovedShape
<1>3. LiveWorkers' = {} /\ job' = Nothing
  BY <1>2 DEF StartExhausted, StartConclusive, Request, LiveWorkers
<1> DEFINE V == {Moved(r, c), In(Moved(r, c), "interrupted"), In(Moved(r, c), "failed")}
<1>4. \A val \in V : ClaimShape(val) /\ val.worker = NoWorker
  <2>1. {"interrupted", "failed"} \subseteq ClaimStates
    BY DEF ClaimStates, Releasable
  <2>2. \A s \in {"interrupted", "failed"} : /\ ClaimShape(In(Moved(r, c), s))
                                            /\ In(Moved(r, c), s).worker = NoWorker
    BY <1>2, <2>1, Shapes
  <2> QED
    BY <1>2, <2>2
<1>5. CASE StartExhausted(r, c)
  <2> DEFINE ws == <<Put("claim", c, Moved(r, c)), Put("claim", c, In(Moved(r, c), "interrupted"))>>
  <2>1. ClaimTo(ws, c, V)
    <3>1. \A n \in 1..2 : ws[n].kind = "claim" => n \in {1, 2}
      OBVIOUS
    <3>2. Len(ws) = 2 /\ \A n \in 1..2 : ws[n].key = c /\ ws[n].val \in V
      BY DEF Put
    <3> QED
      BY <3>1, <3>2 DEF ClaimTo
  <2>2. PICK k \in Cuts(ws) : Write(ws, k)
    BY <1>5 DEF StartExhausted, Request
  <2> HIDE DEF ws, V
  <2> QED
    BY <1>2, <1>3, <1>4, <2>1, <2>2, UnattachedWrites
<1>6. ASSUME NEW w \in Workers, StartConclusive(r, c, w) PROVE Held'
  <2> DEFINE ws == Opening(r, c, w)
                     \o <<Put("budget", w, "refunded"), Put("claim", c, In(Moved(r, c), "failed")),
                          Put("run", r, "failed")>> \o Audit
  <2>1. ClaimTo(ws, c, V)
    <3>1. Len(ws) = 8 /\ \A n \in 1..8 : ws[n].kind = "claim" => n \in {1, 6}
      BY DEF Opening, Audit, Put
    <3>2. /\ ws[1] = Put("claim", c, Moved(r, c))
          /\ ws[6] = Put("claim", c, In(Moved(r, c), "failed"))
      BY DEF Opening, Audit
    <3> HIDE DEF ws
    <3>3. \A n \in 1..8 : ws[n].kind = "claim" => ws[n].key = c /\ ws[n].val \in V
      BY <3>1, <3>2 DEF Put
    <3> QED
      BY <3>1, <3>3 DEF ClaimTo
  <2>2. PICK k \in Cuts(ws) : Write(ws, k)
    BY <1>6 DEF StartConclusive
  <2> HIDE DEF ws, V
  <2> QED
    BY <1>2, <1>3, <1>4, <2>1, <2>2, UnattachedWrites
<1> QED
  BY <1>5, <1>6

\* A process may exist: its claim is the lane's or quarantined.
LEMMA SpawnHeld ==
    ASSUME CInv, Coherent', NEW r \in Runs, NEW c \in Claims, NEW w \in Workers,
           Startable(r, c),
           NEW ws, NEW V, ClaimTo(ws, c, V), NEW k \in Cuts(ws), Write(ws, k),
           Len(ws) >= 4, ws[4] = Put("mark", w, [claim |-> c, run |-> r]),
           \A i \in 1..Len(ws) : ws[i].kind = "mark" => i = 4,
           \A val \in V : ClaimShape(val) /\ val.state # "interrupted",
           \A v \in Workers \ {w} : child'[v] = child[v],
           ~Spawned(k) => child'[w] = child[w],
           UNCHANGED job,
           Spawned(k) => \/ lane'.worker = w /\ lane'.claim = c
                         \/ mem'.claim[c].state = "quarantined",
           mem'.claim[c].state \in ClaimLive /\ mem'.claim[c].worker # NoWorker =>
                \/ mem'.claim[c] = mem.claim[c]
                \/ lane'.worker = mem'.claim[c].worker /\ lane'.claim = c
    PROVE  Held'
<1>1. /\ job = Nothing /\ LiveWorkers = {}
      /\ \A d \in Claims : mem.claim[d].state \in ClaimLive => ~Attached(mem, d)
      /\ mem.claim[c].state # "interrupted"
  BY MovedShape
<1>2. k \in 0..Len(ws) /\ Len(ws) \in Nat
  BY DEF Cuts, ClaimTo
<1>3. \A d \in Claims : mem'.claim[d] = mem.claim[d] \/ (d = c /\ mem'.claim[d] \in V)
  BY <1>2, ClaimReplayed DEF Write
<1>4. \A d \in Claims : ClaimShape(mem'.claim[d])
  BY <1>3 DEF CInv, Held
<1>5. Backed'
  <2>1. ASSUME NEW d \in Claims, mem'.claim[d].state \in ClaimLive, Attached(mem, d)'
        PROVE  lane'.worker = mem'.claim[d].worker /\ lane'.claim = d
    <3>1. mem'.claim[d] # mem.claim[d]
      BY <1>1, <2>1 DEF Attached
    <3> QED
      BY <1>3, <2>1, <3>1 DEF Attached
  <2> QED
    BY <1>1, <2>1 DEF Backed
<1>6. ASSUME NEW v \in LiveWorkers', NEW d \in Claims, mem'.mark[v].claim = d
      PROVE  Guarded(v, d)'
  <2>1. v = w /\ Spawned(k)
    BY <1>1 DEF LiveWorkers
  <2>2. mem'.mark[w] = [claim |-> c, run |-> r]
    BY <1>2, <2>1, MarkReplayed DEF Write, Spawned
  <2>3. d = c
    BY <1>6, <2>1, <2>2
  <2>4. mem'.claim[c].state # "interrupted"
    BY <1>1, <1>3
  <2> QED
    BY <2>1, <2>3, <2>4 DEF Guarded
<1> QED
  BY <1>4, <1>5, <1>6 DEF Held

LEMMA AmbiguousHeld ==
    ASSUME CInv, Coherent', NEW r \in Runs, NEW c \in Claims, NEW w \in Workers,
           StartAmbiguous(r, c, w)
    PROVE  Held'
<1> DEFINE ws == Opening(r, c, w) \o AmbiguousWrites(r, c, w)
           V == {Moved(r, c), In(Moved(r, c), "quarantined")}
<1>0. DOMAIN child = Workers
  BY DEF CInv, FInv, HoldsRoot
<1>1. /\ Len(ws) = 7 /\ ws[1] = Put("claim", c, Moved(r, c))
      /\ ws[4] = Put("mark", w, [claim |-> c, run |-> r])
      /\ ws[6] = Put("claim", c, In(Moved(r, c), "quarantined"))
      /\ \A i \in 1..7 : ws[i].kind = "mark" => i = 4
      /\ \A i \in 1..7 : ws[i].kind = "claim" => i \in {1, 6}
  BY DEF Opening, AmbiguousWrites, Audit, Put
<1>2. Startable(r, c) /\ UNCHANGED job
  BY DEF StartAmbiguous
<1>3. PICK k \in Cuts(ws) :
        /\ Write(ws, k)
        /\ lane' = IF k = Len(ws) THEN Nothing ELSE LaneTaken(k, r, c, w)
        /\ IF Spawned(k) THEN \E fate \in {"live", "gone"} : child' = [child EXCEPT ![w] = fate]
                         ELSE UNCHANGED child
  BY DEF StartAmbiguous
<1>4. ClaimShape(Moved(r, c)) /\ Moved(r, c).worker = NoWorker /\ Moved(r, c).state # "interrupted"
  BY <1>2, MovedShape
<1>5. /\ ClaimShape(In(Moved(r, c), "quarantined"))
      /\ In(Moved(r, c), "quarantined").state = "quarantined"
      /\ In(Moved(r, c), "quarantined").worker = NoWorker
  BY <1>4, Shapes DEF ClaimStates
<1>6. \A val \in V : ClaimShape(val) /\ val.state # "interrupted" /\ val.worker = NoWorker
  BY <1>4, <1>5
<1> HIDE DEF ws
<1>7. ClaimTo(ws, c, V)
  BY <1>1 DEF ClaimTo, Put
<1>8. k \in 0..Len(ws)
  BY <1>1, <1>3 DEF Cuts
<1>9. Spawned(k) => \/ lane'.worker = w /\ lane'.claim = c
                    \/ mem'.claim[c].state = "quarantined"
  <2>1. CASE k = Len(ws)
    <3>1. mem'.claim[c] = In(Moved(r, c), "quarantined")
      <4>1. Len(ws) \in Nat /\ 6 \in 1..Len(ws) /\ ws[6].kind = "claim" /\ ws[6].key = c
            /\ ws[6].val = In(Moved(r, c), "quarantined")
            /\ \A m \in 1..Len(ws) : ws[m].kind = "claim" => m <= 6
        BY <1>1 DEF Put
      <4>2. Replay(mem, Kept(ws, Len(ws))).claim[c] = In(Moved(r, c), "quarantined")
        BY <4>1, ClaimLast
      <4> QED
        BY <1>3, <2>1, <4>2 DEF Write
    <3> QED
      BY <1>5, <3>1
  <2>2. CASE k # Len(ws)
    BY <1>3, <1>8, <2>2 DEF LaneTaken, Spawned
  <2> QED
    BY <2>1, <2>2
<1>10. mem'.claim[c].worker # NoWorker => mem'.claim[c] = mem.claim[c]
  BY <1>3, <1>6, <1>7, <1>8, ClaimReplayed DEF Write
<1>11. /\ \A v \in Workers \ {w} : child'[v] = child[v]
       /\ ~Spawned(k) => child'[w] = child[w]
  BY <1>0, <1>3
<1>12. Len(ws) >= 4 /\ (\A i \in 1..Len(ws) : ws[i].kind = "mark" => i = 4)
       /\ ws[4] = Put("mark", w, [claim |-> c, run |-> r]) /\ k \in Cuts(ws) /\ Write(ws, k)
  BY <1>1, <1>3
<1>13. \A val \in V : ClaimShape(val) /\ val.state # "interrupted"
  BY <1>6
<1> HIDE DEF V
<1> QED
  BY <1>2, <1>7, <1>9, <1>10, <1>11, <1>12, <1>13, SpawnHeld

LEMMA ObservedHeld ==
    ASSUME CInv, Coherent', NEW r \in Runs, NEW c \in Claims, NEW w \in Workers,
           StartObserved(r, c, w)
    PROVE  Held'
<1> DEFINE attached == [Moved(r, c) EXCEPT !.worker = w]
           ws == Opening(r, c, w) \o Audit \o
                   <<Put("run", r, "running"), Put("claim", c, attached)>>
           V == {Moved(r, c), attached}
<1>0. DOMAIN child = Workers
  BY DEF CInv, FInv, HoldsRoot
<1>1. /\ Len(ws) = 7 /\ ws[1] = Put("claim", c, Moved(r, c))
      /\ ws[4] = Put("mark", w, [claim |-> c, run |-> r])
      /\ ws[7] = Put("claim", c, attached)
      /\ \A i \in 1..7 : ws[i].kind = "mark" => i = 4
      /\ \A i \in 1..7 : ws[i].kind = "claim" => i \in {1, 7}
  BY DEF Opening, Audit, Put
<1>2. Startable(r, c) /\ UNCHANGED job
  BY DEF StartObserved
<1>3. PICK k \in Cuts(ws) :
        /\ Write(ws, k) /\ lane' = LaneTaken(k, r, c, w)
        /\ IF Spawned(k) THEN child' = [child EXCEPT ![w] = "live"] ELSE UNCHANGED child
  BY DEF StartObserved
<1>4. ClaimShape(Moved(r, c)) /\ Moved(r, c).worker = NoWorker /\ Moved(r, c).state # "interrupted"
  BY <1>2, MovedShape
<1>5. ClaimShape(attached) /\ attached.state # "interrupted" /\ attached.worker = w
  BY <1>4 DEF ClaimShape
<1>6. \A val \in V : ClaimShape(val) /\ val.state # "interrupted"
  BY <1>4, <1>5
<1> HIDE DEF ws, attached
<1>7. ClaimTo(ws, c, V)
  BY <1>1 DEF ClaimTo, Put
<1>8. k \in 0..Len(ws)
  BY <1>1, <1>3 DEF Cuts
<1>9. Spawned(k) => lane'.worker = w /\ lane'.claim = c
  BY <1>3, <1>8 DEF LaneTaken, Spawned
<1>10. mem'.claim[c].worker # NoWorker =>
            \/ mem'.claim[c] = mem.claim[c]
            \/ lane'.worker = mem'.claim[c].worker /\ lane'.claim = c
  <2>1. \/ mem'.claim[c] = mem.claim[c]
        \/ \E n \in 1..k : ws[n].kind = "claim" /\ mem'.claim[c] = ws[n].val
    BY <1>3, <1>7, <1>8, ClaimReplayed DEF Write
  <2>2. ASSUME NEW n \in 1..k, ws[n].kind = "claim", mem'.claim[c] = ws[n].val,
               mem'.claim[c].worker # NoWorker
        PROVE  lane'.worker = mem'.claim[c].worker /\ lane'.claim = c
    <3>1. n \in {1, 7}
      BY <1>1, <1>8, <2>2
    <3>2. n = 7 /\ mem'.claim[c] = attached
      BY <1>1, <1>4, <2>2, <3>1 DEF Put
    <3>3. Spawned(k)
      BY <1>1, <1>8, <3>2 DEF Spawned
    <3> QED
      BY <1>5, <1>9, <3>2, <3>3
  <2> QED
    BY <2>1, <2>2
<1>11. /\ \A v \in Workers \ {w} : child'[v] = child[v]
       /\ ~Spawned(k) => child'[w] = child[w]
  BY <1>0, <1>3
<1>12. Len(ws) >= 4 /\ (\A i \in 1..Len(ws) : ws[i].kind = "mark" => i = 4)
       /\ ws[4] = Put("mark", w, [claim |-> c, run |-> r]) /\ k \in Cuts(ws) /\ Write(ws, k)
  BY <1>1, <1>3
<1> HIDE DEF V
<1> QED
  BY <1>2, <1>6, <1>7, <1>9, <1>10, <1>11, <1>12, SpawnHeld

\* Writes about no claim, while nothing is spawned.
LEMMA ClaimlessHeld ==
    ASSUME CInv, Coherent', NEW ws, Claimless(ws), NoneMarked(ws), NEW k \in Cuts(ws), Write(ws, k),
           phase = "ready", UNCHANGED <<child, lane>>, UNCHANGED job \/ job' = Nothing
    PROVE  Held'
<1>1. k \in 0..Len(ws)
  BY DEF Cuts, Claimless
<1>2. \A d \in Claims : mem'.claim[d] = mem.claim[d]
  BY <1>1, ClaimlessReplayed DEF Write
<1>3. \A w \in Workers : mem'.mark[w] = mem.mark[w]
  BY <1>1, FinishReplayed DEF Write
<1>4. NoneRevived /\ phase' \in {phase, "down"}
  BY DEF NoneRevived, Write
<1> QED
  BY <1>2, <1>3, <1>4, MinorStep

LEMMA RunRequestHeld ==
    ASSUME CInv, Coherent',
           \/ \E r, to : Accept(r) \/ GateTransition(r, to)
           \/ StopEngage \/ StopResume
    PROVE  Held'
<1>1. PICK kind, key, val : /\ Request(<<Put(kind, key, val)>>)
                            /\ phase = "ready" /\ kind \in {"run", "stop"}
  BY DEF Accept, GateTransition, StopEngage, StopResume, Authorized, Serving
<1>2. Claimless(<<Put(kind, key, val)>>) /\ NoneMarked(<<Put(kind, key, val)>>)
  BY <1>1 DEF Claimless, NoneMarked, Put
<1> QED
  BY <1>1, <1>2, ClaimlessHeld DEF Request

LEMMA VerdictHeld ==
    ASSUME CInv, Coherent', NEW c \in Claims, NEW to, ClaimTransition(c, to) \/ ClaimRelease(c)
    PROVE  Held'
<1>1. ClaimShape(mem.claim[c]) /\ phase = "ready" /\ job = Nothing
  BY DEF CInv, Held, ClaimTransition, ClaimRelease, Authorized, Serving
<1>2. PICK next \in {"awaiting_review", "completed", "correction_required", "released"} :
            /\ next \in Transitions[mem.claim[c].state]
            /\ Request(<<Put("claim", c, In(mem.claim[c], next))>>)
  BY DEF ClaimTransition, ClaimRelease
<1>3. mem.claim[c].state # "quarantined" /\ (next \in ClaimLive => mem.claim[c].state \in ClaimLive)
  <2>1. \A s \in {"quarantined", "none", "released"} :
            s \in ClaimStates /\ s \notin Releasable
    BY DEF ClaimStates, Releasable
  <2>2. \A s \in {"quarantined", "none", "released"} : Transitions[s] = {}
    BY <2>1 DEF Transitions
  <2>3. \A s \in Releasable :
            s \in ClaimStates /\ s \notin {"active", "awaiting_review", "reviewing", "correction_required"}
    BY DEF ClaimStates, Releasable
  <2>4. \A s \in Releasable : Transitions[s] = {"released"}
    BY <2>3 DEF Transitions
  <2>5. mem.claim[c].state \in Releasable \cup {"quarantined", "none", "released"} \cup ClaimLive
    BY <1>1 DEF ClaimShape, ClaimStates
  <2>6. "released" \notin ClaimLive
    BY DEF ClaimLive
  <2>7. "quarantined" \notin Releasable
    BY DEF Releasable
  <2> QED
    BY <1>2, <2>2, <2>4, <2>5, <2>6
<1>4. /\ ClaimShape(In(mem.claim[c], next)) /\ In(mem.claim[c], next).state = next
      /\ In(mem.claim[c], next).worker = mem.claim[c].worker
  BY <1>1, Shapes DEF ClaimStates, ClaimLive, Releasable
<1>5. Minor(mem.claim[c], In(mem.claim[c], next))
  BY <1>3, <1>4 DEF Minor
<1> DEFINE val == In(mem.claim[c], next)
           ws == <<Put("claim", c, val)>>
<1>6. ClaimTo(ws, c, {val}) /\ NoneMarked(ws)
  BY DEF ClaimTo, NoneMarked, Put
<1>7. PICK k \in Cuts(ws) : Write(ws, k)
  BY <1>2 DEF Request
<1>8. UNCHANGED <<child, lane, job>>
  BY <1>2 DEF Request
<1> HIDE DEF ws, val
<1>9. k \in 0..Len(ws)
  BY <1>6, <1>7 DEF Cuts, ClaimTo
<1>10. \A d \in Claims : mem'.claim[d] = mem.claim[d] \/ (d = c /\ mem'.claim[d] = val)
  BY <1>6, <1>7, <1>9, ClaimReplayed DEF Write
<1>11. \A w \in Workers : mem'.mark[w] = mem.mark[w]
  BY <1>6, <1>7, <1>9, FinishReplayed DEF Write
<1>12. \A d \in Claims : mem'.claim[d] = mem.claim[d] \/ Minor(mem.claim[d], mem'.claim[d])
  BY <1>5, <1>10 DEF val
<1>13. NoneRevived /\ phase' \in {phase, "down"}
  BY <1>7, <1>8 DEF NoneRevived, Write
<1> QED
  BY <1>1, <1>8, <1>11, <1>12, <1>13, MinorStep

LEMMA RecoverBeginHeld ==
    ASSUME CInv, Coherent', NEW c \in Claims, RecoverBegin(c)
    PROVE  Held'
<1> DEFINE ws == <<Put("recovery", c, "requested"), Put("recovery", c, "stopping")>>
<1>1. Claimless(ws) /\ NoneMarked(ws)
  BY DEF Claimless, NoneMarked, Put
<1>2. PICK k \in Cuts(ws) :
        /\ Write(ws, k)
        /\ job' = IF k = Len(ws)
                    THEN [worker |-> mem.claim[c].worker, claim |-> c, run |-> mem.claim[c].run]
                    ELSE Nothing
  BY DEF RecoverBegin
<1>3. UNCHANGED <<child, lane>> /\ phase = "ready"
  BY DEF RecoverBegin, Serving
<1>4. mem.claim[c].state \in ClaimLive /\ lane.worker = mem.claim[c].worker /\ lane.claim = c
  BY <1>3 DEF RecoverBegin, CInv, Held, Backed
<1> HIDE DEF ws
<1>5. CASE k # Len(ws)
  BY <1>1, <1>2, <1>3, <1>5, ClaimlessHeld
<1>6. CASE k = Len(ws)
  <2>1. k \in 0..Len(ws)
    BY <1>1, <1>2 DEF Cuts, Claimless
  <2>2. \A d \in Claims : mem'.claim[d] = mem.claim[d]
    BY <1>1, <1>2, <2>1, ClaimlessReplayed DEF Write
  <2>3. \A w \in Workers : mem'.mark[w] = mem.mark[w]
    BY <1>1, <1>2, <2>1, FinishReplayed DEF Write
  <2>4. LiveWorkers' = LiveWorkers
    BY <1>3 DEF LiveWorkers
  <2>5. Backed'
    <3>1. job'.claim = c /\ job'.worker = mem.claim[c].worker
      BY <1>2, <1>6
    <3> QED
      BY <1>3, <1>4, <2>2, <3>1 DEF CInv, Held, Backed, Attached
  <2>6. ASSUME NEW v \in LiveWorkers', NEW d \in Claims, mem'.mark[v].claim = d
        PROVE  Guarded(v, d)'
    <3>1. Guarded(v, d)
      BY <2>3, <2>4, <2>6 DEF CInv, Held, LiveWorkers
    <3> QED
      BY <1>3, <2>2, <3>1 DEF Guarded
  <2> QED
    BY <2>2, <2>5, <2>6 DEF Held, CInv
<1> QED
  BY <1>5, <1>6

\* What a recovery writes about the claim it is for.
LEMMA RecoveryClaims ==
    ASSUME NEW S, NEW j, NEW gone, NEW V, Detached(S.claim[j.claim]) \in V,
           In(Detached(S.claim[j.claim]), IF gone THEN "interrupted" ELSE "quarantined") \in V
    PROVE  ClaimTo(RecoveryWrites(S, j, gone), j.claim, V)
<1> DEFINE record == S.claim[j.claim]
           last == In(Detached(record), IF gone THEN "interrupted" ELSE "quarantined")
           mark == Put("recovery", j.claim, IF gone THEN "cleaning" ELSE "quarantined")
           first == IF S.budget[j.worker] = "reserved" THEN <<Put("budget", j.worker, "settled")>>
                    ELSE <<>>
           detach == IF Attached(S, j.claim) THEN <<Put("claim", j.claim, Detached(record))>> ELSE <<>>
           middle == <<mark, Put("claim", j.claim, last)>>
           runs == IF S.run[j.run] = "running" THEN <<Put("run", j.run, "interrupted")>> ELSE <<>>
           done == IF gone THEN <<Put("recovery", j.claim, "complete")>> ELSE <<>>
<1>1. Claimless(first) /\ Claimless(runs) /\ Claimless(done) /\ Claimless(Audit)
  BY DEF Claimless, Put, Audit
<1>2. OnceTo(detach, j.claim, V)
  <2> DEFINE one == <<Put("claim", j.claim, Detached(record))>>
  <2>1. Len(one) = 1 /\ one[1].key = j.claim /\ one[1].val \in V
    BY DEF Put
  <2>2. detach = one \/ detach = <<>>
    OBVIOUS
  <2> HIDE DEF one, detach
  <2>3. Len(detach) \in Nat
    BY <2>1, <2>2
  <2>4. \A n \in 1..Len(detach) : n = 1 /\ detach[n].key = j.claim /\ detach[n].val \in V
    <3>1. CASE detach = one
      <4>1. Len(detach) = 1 /\ detach[1].key = j.claim /\ detach[1].val \in V
        BY <2>1, <3>1
      <4>2. \A n \in 1..Len(detach) : n = 1
        BY <4>1
      <4> QED
        BY <4>1, <4>2
    <3>2. CASE detach = <<>>
      BY <3>2
    <3> QED
      BY <2>2, <3>1, <3>2
  <2> QED
    BY <2>3, <2>4 DEF OnceTo
<1>3. OnceTo(middle, j.claim, V)
  <2>1. Len(middle) = 2 /\ middle[1].kind # "claim" /\ middle[2].key = j.claim
        /\ middle[2].val \in V
    BY DEF Put
  <2> HIDE DEF middle
  <2> QED
    BY <2>1 DEF OnceTo
<1>4. RecoveryWrites(S, j, gone) = first \o detach \o middle \o runs \o done \o Audit
  BY DEF RecoveryWrites
<1> HIDE DEF first, detach, middle, runs, done
<1>5. ClaimTo(first \o detach \o middle, j.claim, V)
  BY <1>1, <1>2, <1>3, ClaimJoin
<1> QED
  BY <1>1, <1>4, <1>5, ClaimJoin

LEMMA RecoverEndHeld ==
    ASSUME CInv, Coherent', NEW gone \in BOOLEAN, RecoverEnd(gone)
    PROVE  Held'
<1> DEFINE c == job.claim
           record == mem.claim[c]
           last == In(Detached(record), IF gone THEN "interrupted" ELSE "quarantined")
           ws == RecoveryWrites(mem, job, gone)
<1>1. phase = "ready" /\ job # Nothing /\ job' = Nothing /\ UNCHANGED <<child, lane>>
  BY DEF RecoverEnd, Up, CInv, Coherent
<1>2. /\ c \in Claims /\ record.state \in ClaimLive /\ ClaimShape(record)
      /\ LiveWorkers = {} \/ (lane.worker = job.worker /\ lane.claim = c)
  BY <1>1 DEF CInv, Held, Backed
<1>3. PICK k \in Cuts(ws) : Write(ws, k)
  BY DEF RecoverEnd
<1>4. ClaimTo(ws, c, {Detached(record), last}) /\ NoneMarked(ws)
  <2>1. "interrupted" \notin {}
    OBVIOUS
  <2>2. NoneMarked(ws)
    BY <2>1, RecoveryCalm
  <2> QED
    BY <2>2, RecoveryClaims
<1>5. /\ ClaimShape(Detached(record)) /\ ClaimShape(last)
      /\ Detached(record).worker = NoWorker /\ last.worker = NoWorker
      /\ Detached(record).state = record.state
      /\ last.state = IF gone THEN "interrupted" ELSE "quarantined"
  <2>1. ClaimShape(Detached(record)) /\ Detached(record).worker = NoWorker
        /\ Detached(record).state = record.state
    BY <1>2, Shapes
  <2>2. {"interrupted", "quarantined"} \subseteq ClaimStates
    BY DEF ClaimStates, Releasable
  <2> QED
    BY <2>1, <2>2, Shapes
<1> HIDE DEF ws, last
<1>6. k \in 0..Len(ws)
  BY <1>3, <1>4 DEF Cuts, ClaimTo
<1>7. \A d \in Claims : mem'.claim[d] = mem.claim[d]
                        \/ (d = c /\ mem'.claim[d] \in {Detached(record), last})
  BY <1>3, <1>4, <1>6, ClaimReplayed DEF Write
<1>8. \A w \in Workers : mem'.mark[w] = mem.mark[w]
  BY <1>3, <1>4, <1>6, FinishReplayed DEF Write
<1>9. NoneRevived /\ phase' \in {phase, "down"}
  BY <1>1, <1>3 DEF NoneRevived, Write
<1>10. record.state \notin {"interrupted", "quarantined"}
  BY <1>2 DEF ClaimLive
<1>11. CASE ~gone
  <2>1. \A d \in Claims : mem'.claim[d] = mem.claim[d] \/ Minor(mem.claim[d], mem'.claim[d])
    BY <1>5, <1>7, <1>10, <1>11 DEF Minor
  <2> QED
    BY <1>1, <1>8, <1>9, <2>1, MinorStep
<1>12. CASE gone
  <2>1. child[job.worker] = "gone"
    BY <1>12 DEF RecoverEnd
  <2>2. LiveWorkers' = LiveWorkers
    BY <1>1 DEF LiveWorkers
  <2>3. \A d \in Claims : ClaimShape(mem'.claim[d])
    BY <1>5, <1>7 DEF CInv, Held
  <2>4. Backed'
    <3>1. ASSUME NEW d \in Claims, mem'.claim[d].state \in ClaimLive, Attached(mem, d)'
          PROVE  lane'.worker = mem'.claim[d].worker /\ lane'.claim = d
      <4>1. mem'.claim[d] = mem.claim[d]
        BY <1>5, <1>7, <3>1 DEF Attached
      <4> QED
        BY <1>1, <3>1, <4>1 DEF CInv, Held, Backed, Attached
    <3> QED
      BY <1>1, <3>1 DEF Backed
  <2>5. ASSUME NEW v \in LiveWorkers', NEW d \in Claims, mem'.mark[v].claim = d
        PROVE  Guarded(v, d)'
    <3>1. Guarded(v, d) /\ child[v] = "live" /\ LiveWorkers # {}
      BY <1>8, <2>2, <2>5 DEF CInv, Held, LiveWorkers
    <3>2. d # c
      BY <1>1, <1>2, <1>10, <2>1, <3>1 DEF Guarded
    <3>3. mem'.claim[d] = mem.claim[d]
      BY <1>7, <3>2
    <3> QED
      BY <1>1, <3>1, <3>3 DEF Guarded
  <2> QED
    BY <2>3, <2>4, <2>5 DEF Held
<1> QED
  BY <1>11, <1>12

\* What the reconciliation of a new service writes about a claim.
LEMMA ReconcileHeld ==
    ASSUME CInv, Coherent', NEW c \in Claims, Reconcile(c)
    PROVE  Held'
<1> DEFINE record == mem.claim[c]
           last == In(Detached(record), "interrupted")
           V == {Detached(record), last}
           ws == ReconcileWrites(c, record)
           first == IF mem.budget[record.worker] = "reserved"
                      THEN <<Put("budget", record.worker, "settled")>> ELSE <<>>
           runs == IF mem.run[record.run] \notin RunTerminal
                     THEN <<Put("run", record.run, "interrupted")>> ELSE <<>>
           end == <<Put("claim", c, Detached(record)), Put("claim", c, last)>>
<1>1. PICK k \in Cuts(ws) :
        mem' = Replay(mem, Kept(ws, k)) /\ phase' = IF k = Len(ws) THEN phase ELSE "down"
  BY DEF Reconcile
<1>2. phase = "replaying" /\ UNCHANGED child
  BY DEF Reconcile
<1>3. LiveWorkers' = {} /\ phase' # "ready"
  BY <1>1, <1>2 DEF CInv, Coherent, LiveWorkers
<1>4. ClaimShape(Detached(record)) /\ ClaimShape(last)
  <2>1. "interrupted" \in ClaimStates
    BY DEF ClaimStates, Releasable
  <2> QED
    BY <2>1, Shapes DEF CInv, Held
<1>5. ClaimTo(ws, c, V)
  <2>1. Claimless(first) /\ Claimless(runs)
    BY DEF Claimless, Put
  <2>2. OnceTo(<<Put("claim", c, Detached(record))>>, c, V) /\ OnceTo(<<Put("claim", c, last)>>, c, V)
    BY DEF OnceTo, Put
  <2>3. end = <<Put("claim", c, Detached(record))>> \o <<Put("claim", c, last)>>
    OBVIOUS
  <2>4. ws = first \o runs \o end
    BY DEF ReconcileWrites
  <2> HIDE DEF first, runs, end, ws, V, last
  <2> QED
    BY <2>1, <2>2, <2>3, <2>4, ClaimJoin
<1> HIDE DEF ws
<1>6. k \in 0..Len(ws)
  BY <1>1, <1>5 DEF Cuts, ClaimTo
<1>7. \A d \in Claims : mem'.claim[d] = mem.claim[d] \/ mem'.claim[d] \in V
  BY <1>1, <1>5, <1>6, ClaimReplayed
<1>8. \A d \in Claims : ClaimShape(mem'.claim[d])
  BY <1>4, <1>7 DEF CInv, Held
<1> QED
  BY <1>3, <1>8, EmptyStep

LEMMA OtherHeld ==
    ASSUME CInv, Coherent',
           \/ \E w \in Workers : Cancel(w) \/ ChildDies(w) \/ OuterCloseUnproven(w)
           \/ Crash \/ Boot \/ Serve \/ RecoverUnread \/ UNCHANGED vars
    PROVE  Held'
<1>1. CASE \/ \E w \in Workers : Cancel(w) \/ ChildDies(w) \/ OuterCloseUnproven(w)
           \/ Crash \/ UNCHANGED vars
  <2>1. /\ UNCHANGED <<mem, lane, job>> /\ phase' \in {phase, "down"}
    BY <1>1 DEF Cancel, ChildDies, OuterCloseUnproven, Crash, volatile, vars
  <2>2. NoneRevived
    BY <1>1 DEF Cancel, ChildDies, OuterCloseUnproven, Crash, volatile, vars, NoneRevived,
                CInv, FInv, HoldsRoot
  <2> QED
    BY <2>1, <2>2, MinorStep
<1>2. CASE Boot
  <2>1. LiveWorkers' = {} /\ mem' = mem /\ phase' # "ready"
    BY <1>2 DEF Boot, LiveWorkers, CInv, Coherent
  <2> QED
    BY <2>1, EmptyStep DEF CInv, Held
<1>3. CASE Serve
  <2>1. LiveWorkers' = {} /\ UNCHANGED <<mem, lane, job>> /\ job = Nothing
    BY <1>3 DEF Serve, volatile, LiveWorkers, CInv, Coherent
  <2>2. \A c \in Claims : ~(mem'.claim[c].state \in ClaimLive /\ mem'.claim[c].worker # NoWorker)
    BY <1>3, <2>1 DEF Serve, InFlight, Attached
  <2> QED
    BY <2>1, <2>2, EmptyStep DEF CInv, Held
<1>4. CASE RecoverUnread
  <2>1. UNCHANGED <<mem, lane, phase, child>> /\ job' = Nothing
    BY <1>4 DEF RecoverUnread
  <2> QED
    BY <2>1 DEF Held, Backed, Guarded, LiveWorkers, ClaimShape, Attached, CInv
<1> QED
  BY <1>1, <1>2, <1>3, <1>4

\* The exit of a worker: nothing runs, and the lane is freed only once its
\* claim, the only one attached, is detached.
LEMMA CloseHeld ==
    ASSUME CInv, Coherent', NEW w \in Workers, NEW exit, OuterClose(w, exit)
    PROVE  Held'
<1>1. LiveWorkers = {} /\ LiveWorkers' = {}
  BY NothingRuns DEF OuterClose, NamespaceGone, CInv, LiveWorkers
<1>2. phase = "ready" /\ UNCHANGED job /\ Backed /\ \A d \in Claims : ClaimShape(mem.claim[d])
  BY DEF OuterClose, Up, CInv, Coherent, Held
<1>3. CASE ~Completes(w)
  <2>1. UNCHANGED <<mem, lane>>
    BY <1>3 DEF OuterClose
  <2> QED
    BY <1>1, <1>2, <2>1, EmptyStep DEF Backed, Attached
<1>4. CASE Completes(w)
  <2> DEFINE c == lane.claim
             outcome == IF view[w] = "stopping" THEN "cancelled" ELSE exit
             ws == CompletionWrites(w, outcome)
             after == Detached(mem.claim[c])
             tail == IF mem.run[lane.run] = "running"
                       THEN <<Put("run", lane.run, RunOutcome(outcome))>> ELSE <<>>
             front == <<Put("budget", w, "settled")>> \o Audit \o <<Put("claim", c, after)>>
  <2>1. PICK k \in Cuts(ws) : Write(ws, k) /\ lane' = IF k = Len(ws) THEN Nothing ELSE lane
    BY <1>4 DEF OuterClose
  <2>2. ws = front \o tail
    BY DEF CompletionWrites
  <2>3. Len(front) = 3 /\ front[1].kind = "budget" /\ front[2].kind = "audit"
        /\ front[3] = Put("claim", c, after)
    BY DEF Put, Audit
  <2>4. Claimless(tail)
    BY DEF Claimless, Put
  <2> HIDE DEF ws, front, tail, after
  <2>5. OnceTo(front, c, {after}) /\ ClaimTo(front, c, {after})
    BY <2>3 DEF OnceTo, ClaimTo, Put
  <2>6. ClaimTo(ws, c, {after})
    BY <2>2, <2>4, <2>5, ClaimJoin
  <2>7. /\ Len(ws) \in Nat /\ 3 \in 1..Len(ws) /\ ws[3] = Put("claim", c, after)
        /\ \A n \in 1..Len(ws) : ws[n].kind = "claim" => n <= 3
    <3>1. Len(tail) \in Nat /\ Len(front) \in Nat /\ Len(ws) \in Nat
      BY <2>3, <2>4, <2>6 DEF Claimless, ClaimTo
    <3>2. Len(ws) = 3 + Len(tail)
      BY <2>2, <2>3, <3>1, Joined
    <3>3. \A n \in 1..Len(ws) :
              \/ n \in 1..Len(front) /\ ws[n] = front[n]
              \/ n - Len(front) \in 1..Len(tail) /\ ws[n] = tail[n - Len(front)]
      BY <2>2, <3>1, Joined
    <3>4. \A n \in 1..Len(ws) : ws[n].kind = "claim" => n \in 1..3
      BY <2>3, <2>4, <3>3 DEF Claimless
    <3>5. 3 \in 1..Len(ws) /\ \A m \in 1..Len(tail) : 3 # m + 3
      BY <3>1, <3>2
    <3>6. ws[3] = front[3]
      BY <2>3, <3>3, <3>5
    <3> QED
      BY <2>3, <3>1, <3>4, <3>5, <3>6
  <2>8. k \in 0..Len(ws)
    BY <2>1, <2>6 DEF Cuts, ClaimTo
  <2>9. \A d \in Claims : mem'.claim[d] = mem.claim[d] \/ (d = c /\ mem'.claim[d] = after)
    BY <2>1, <2>6, <2>8, ClaimReplayed DEF Write
  <2>10. c \in Claims => ClaimShape(after) /\ after.worker = NoWorker
                          /\ after.state = mem.claim[c].state
    BY <1>2, Shapes DEF after
  <2>11. k = Len(ws) /\ c \in Claims => mem'.claim[c] = after
    <3> SUFFICES ASSUME k = Len(ws), c \in Claims PROVE mem'.claim[c] = after
      OBVIOUS
    <3>1. ws[3].kind = "claim" /\ ws[3].key = c /\ ws[3].val = after
      BY <2>7 DEF Put
    <3>2. Replay(mem, Kept(ws, Len(ws))).claim[ws[3].key] = ws[3].val
      BY <2>7, <3>1, ClaimLast
    <3> QED
      BY <2>1, <3>1, <3>2 DEF Write
  <2>12. \A d \in Claims : /\ ClaimShape(mem'.claim[d])
                          /\ mem'.claim[d].state = mem.claim[d].state
                          /\ mem'.claim[d].worker \in {mem.claim[d].worker, NoWorker}
    BY <1>2, <2>9, <2>10
  <2>13. ASSUME NEW d \in Claims, mem'.claim[d].state \in ClaimLive, mem'.claim[d].worker # NoWorker
         PROVE  lane'.worker = mem'.claim[d].worker /\ lane'.claim = d
    <3>1. lane.worker = mem'.claim[d].worker /\ d = c
      BY <1>2, <2>12, <2>13 DEF Backed, Attached
    <3>2. k # Len(ws)
      BY <2>10, <2>11, <2>13, <3>1
    <3> QED
      BY <2>1, <3>1, <3>2
  <2>14. job' # Nothing => job'.claim \in Claims /\ mem'.claim[job'.claim].state \in ClaimLive
    BY <1>2, <2>12 DEF Backed
  <2> QED
    BY <1>1, <2>12, <2>13, <2>14, EmptyStep
<1> QED
  BY <1>3, <1>4

LEMMA CInvStep ==
    ASSUME CInv, NeverLost, [Next]_vars
    PROVE  CInv'
<1>1. FInv'
  BY FInvStep DEF CInv
<1>2. Coherent'
  BY CoherentStep
<1>3. ASSUME NEW r \in Runs,
             \/ Accept(r) \/ \E to \in RunStates : GateTransition(r, to)
             \/ \E c \in Claims :
                  \/ StartExhausted(r, c)
                  \/ \E w \in Workers :
                      StartConclusive(r, c, w) \/ StartAmbiguous(r, c, w) \/ StartObserved(r, c, w)
      PROVE  Held'
  BY <1>2, <1>3, RunRequestHeld, FailedStartHeld, AmbiguousHeld, ObservedHeld
<1>4. ASSUME NEW c \in Claims,
             \/ \E to \in ClaimStates : ClaimTransition(c, to)
             \/ ClaimRelease(c) \/ RecoverBegin(c) \/ Reconcile(c)
      PROVE  Held'
  BY <1>2, <1>4, VerdictHeld, RecoverBeginHeld, ReconcileHeld
<1>5. ASSUME NEW w \in Workers, NEW exit \in Exits, OuterClose(w, exit) PROVE Held'
  BY <1>2, <1>5, CloseHeld
<1>6. ASSUME NEW gone \in BOOLEAN, RecoverEnd(gone) PROVE Held'
  BY <1>2, <1>6, RecoverEndHeld
<1>7. ASSUME StopEngage \/ StopResume PROVE Held'
  BY <1>2, <1>7, RunRequestHeld
<1>8. ASSUME \/ \E w \in Workers : Cancel(w) \/ ChildDies(w) \/ OuterCloseUnproven(w)
             \/ Crash \/ Boot \/ Serve \/ RecoverUnread \/ UNCHANGED vars
      PROVE  Held'
  BY <1>2, <1>8, OtherHeld
<1>9. ~GateLoss /\ ~Connect /\ ~StaleRecoverUnread /\ \A gone : ~StaleRecoverEnd(gone)
  BY DEF GateLoss, Connect, StaleRecoverUnread, StaleRecoverEnd, NeverLost, CInv, Coherent
<1>10. Held'
  BY <1>3, <1>4, <1>5, <1>6, <1>7, <1>8, <1>9 DEF Next
<1> QED
  BY <1>1, <1>2, <1>10 DEF CInv

LEMMA CInvInit == Init => CInv
<1> SUFFICES ASSUME Init PROVE CInv
  OBVIOUS
<1>1. FInv
  BY FInvInit
<1>2. LiveWorkers = {}
  BY DEF Init, LiveWorkers
<1>3. Coherent
  BY <1>2 DEF Init, Coherent
<1>4. \A c \in Claims : mem.claim[c].state = "none" /\ ClaimShape(mem.claim[c])
  BY DEF Init, FreshStore, ClaimShape, ClaimStates
<1>5. "none" \notin ClaimLive /\ job = Nothing
  BY DEF Init, ClaimLive
<1> QED
  BY <1>1, <1>2, <1>3, <1>4, <1>5 DEF CInv, Held, Backed

\* Unless a gate is lost, a claim is interrupted only once every worker spawned
\* for it is gone: recovery proves it, the reconciliation of a rebooted PID 1
\* finds nothing alive, and an ambiguous launch is quarantined instead
\* (recovery-driver.js header).
THEOREM InterruptedProven == ASSUME NeverLost PROVE Spec => []InterruptedMeansGone
<1>1. CInv => InterruptedMeansGone
  <2>1. ASSUME CInv, NEW c \in Claims, disk.claim[c].state = "interrupted",
               NEW v \in WorkersOf(c) \cap LiveWorkers
        PROVE  FALSE
    <3>1. mem.mark[v].claim = c /\ mem.claim[c].state = "interrupted"
      BY <2>1 DEF CInv, Coherent, WorkersOf
    <3> QED
      BY <2>1, <3>1 DEF CInv, Held, Guarded
  <2> QED
    BY <2>1 DEF InterruptedMeansGone
<1>2. CInv /\ [Next]_vars => CInv'
  BY CInvStep
<1> QED
  BY <1>1, <1>2, CInvInit, PTL DEF Spec
=============================================================================
