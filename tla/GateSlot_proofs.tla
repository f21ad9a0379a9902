-------------------------- MODULE GateSlot_proofs --------------------------
(***************************************************************************)
(* Proofs about the gate's agent slot, for any number of chats, turns and  *)
(* Loops and any bounds: the types and the caps of the lines, at most one  *)
(* agent process, no caller told twice and an exact count of turns in      *)
(* flight, humans before background work, nothing started and nobody left  *)
(* waiting in a quarantine.                                                *)
(*                                                                         *)
(* The state is one record that operators pass on, so the invariant GInv   *)
(* is of a record g and of the run x that the code has in hand between two *)
(* of its statements: out of its line, not yet the holder, not yet told.   *)
(* A lemma per operator takes a run in hand to its place, and the lemma of *)
(* a step composes them.  Steady is what all steps but a quarantine have   *)
(* in common; it composes with them.                                       *)
(***************************************************************************)
EXTENDS GateSlot, FiniteSums, SequenceTheorems

-----------------------------------------------------------------------------
(* Lines                                                                   *)

\* A line holds nobody twice.
Queue(s, S) == s \in Seq(S) /\ \A i, j \in 1..Len(s) : s[i] = s[j] => i = j

\* A bounded set of numbers has a least one.
LEMMA Least ==
    ASSUME NEW n \in Nat, NEW B \in SUBSET (0..n), B # {}
    PROVE  \E k \in B : \A j \in B : k <= j
<1> DEFINE N == 0..n
           C == {0..k : k \in B}
<1>0. IsFiniteSet(N)
  BY FS_Interval
<1>1. C \subseteq SUBSET N
  <2>1. ASSUME NEW k \in B PROVE 0..k \subseteq 0..n
    OBVIOUS
  <2> QED
    BY <2>1
<1>a. C # {}
  <2>1. PICK k \in B : TRUE
    OBVIOUS
  <2>2. 0..k \in C
    OBVIOUS
  <2> QED
    BY <2>2
<1>2. PICK t \in C : \A u \in C : ~(u \subseteq t /\ u # t)
  <2> HIDE DEF C, N
  <2> QED
    BY <1>0, <1>1, <1>a, Smallest
<1>3. PICK k \in B : t = 0..k
  OBVIOUS
<1>4. ASSUME NEW j \in B, ~(k <= j) PROVE FALSE
  <2>1. 0..j \in C /\ 0..j \subseteq 0..k /\ k \in 0..k /\ k \notin 0..j
    BY <1>4
  <2> QED
    BY <1>2, <1>3, <2>1
<1> QED
  BY <1>4

\* The line that is left after the first n of it were looked at.
IsKept(f, s, gone, n) ==
    f = [i \in 0..n |-> IF i = 0 THEN <<>> ELSE IF s[i] \in gone THEN f[i - 1] ELSE Append(f[i - 1], s[i])]

\* The function by which Without filters a line exists for every line.
LEMMA KeptExists ==
    ASSUME NEW s, NEW gone, NEW n \in Nat
    PROVE  \E f : IsKept(f, s, gone, n)
<1> DEFINE B == {k \in 0..n : ~\E f : IsKept(f, s, gone, k)}
<1>1. CASE B = {}
  BY <1>1
<1>2. CASE B # {}
  <2>1. PICK k \in B : \A j \in B : k <= j
    <3>1. B \in SUBSET (0..n)
      OBVIOUS
    <3> HIDE DEF B
    <3> QED
      BY <1>2, <3>1, Least
  <2>2. CASE k = 0
    <3>1. IsKept([i \in 0..0 |-> <<>>], s, gone, 0)
      BY DEF IsKept
    <3> QED
      BY <2>2, <3>1
  <2>3. CASE k # 0
    <3>1. k - 1 \in 0..n /\ k - 1 \notin B /\ k \in Nat
      BY <2>1, <2>3
    <3>2. PICK f : IsKept(f, s, gone, k - 1)
      BY <3>1
    <3> DEFINE g == [i \in 0..k |-> IF i = 0 THEN <<>>
                                    ELSE IF s[i] \in gone THEN f[i - 1] ELSE Append(f[i - 1], s[i])]
    <3>3. \A i \in 0..(k - 1) : g[i] = f[i]
      <4>1. \A i \in 0..(k - 1) : i \in 0..k /\ g[i] = IF i = 0 THEN <<>> ELSE IF s[i] \in gone THEN f[i - 1] ELSE Append(f[i - 1], s[i])
        BY <3>1
      <4>2. \A i \in 0..(k - 1) : f[i] = IF i = 0 THEN <<>> ELSE IF s[i] \in gone THEN f[i - 1] ELSE Append(f[i - 1], s[i])
        <5> HIDE DEF g
        <5> QED
          BY <3>2 DEF IsKept
      <4> HIDE DEF g
      <4> QED
        BY <4>1, <4>2
    <3>4. \A i \in 0..k : i # 0 => g[i - 1] = f[i - 1]
      <4> HIDE DEF g
      <4> QED
        BY <3>1, <3>3
    <3>5. g = [i \in 0..k |-> IF i = 0 THEN <<>> ELSE IF s[i] \in gone THEN g[i - 1] ELSE Append(g[i - 1], s[i])]
      BY <3>4
    <3> QED
      BY <2>1, <3>5 DEF IsKept
  <2> QED
    BY <2>2, <2>3
<1> QED
  BY <1>1, <1>2

\* Who leaves a line: the others stay, once each.
LEMMA WithoutQueue ==
    ASSUME NEW S, NEW s, Queue(s, S), NEW gone
    PROVE  /\ Queue(Without(s, gone), S) /\ Len(Without(s, gone)) <= Len(s)
           /\ ToSet(Without(s, gone)) = ToSet(s) \ gone
<1> DEFINE n == Len(s)
           f == CHOOSE f : IsKept(f, s, gone, n)
           Ok(k) == /\ Queue(f[k], S) /\ Len(f[k]) <= k
                    /\ ToSet(f[k]) = {s[i] : i \in 1..k} \ gone
           B == {k \in 0..n : ~Ok(k)}
<1>1. n \in Nat /\ s \in Seq(S)
  BY DEF Queue
<1>2. Without(s, gone) = f[n]
  BY DEF Without, IsKept
<1>3. IsKept(f, s, gone, n)
  BY <1>1, KeptExists
<1> HIDE DEF f
<1>4. /\ f[0] = <<>>
      /\ \A k \in 1..n : k # 0 /\ f[k] = IF s[k] \in gone THEN f[k - 1] ELSE Append(f[k - 1], s[k])
  <2>1. \A k \in 0..n : f[k] = IF k = 0 THEN <<>> ELSE IF s[k] \in gone THEN f[k - 1] ELSE Append(f[k - 1], s[k])
    <3> HIDE DEF n
    <3> QED
      BY <1>3 DEF IsKept
  <2> HIDE DEF n
  <2> QED
    BY <1>1, <2>1 DEF n
<1>5. Ok(0)
  BY <1>4 DEF Queue, ToSet
<1>6. ASSUME NEW k \in 1..n, Ok(k - 1) PROVE Ok(k)
  <2>1. s[k] \in S /\ s[k] \notin {s[i] : i \in 1..(k - 1)} /\ k - 1 \in Nat
        /\ {s[i] : i \in 1..k} = {s[i] : i \in 1..(k - 1)} \cup {s[k]}
    BY <1>1 DEF Queue
  <2>2. CASE s[k] \in gone
    <3>1. f[k] = f[k - 1] /\ {s[i] : i \in 1..k} \ gone = {s[i] : i \in 1..(k - 1)} \ gone
      BY <1>4, <2>1, <2>2
    <3>2. Len(f[k - 1]) \in Nat
      BY <1>6 DEF Queue
    <3> QED
      BY <1>6, <2>1, <3>1, <3>2
  <2>3. CASE s[k] \notin gone
    <3> DEFINE t == f[k - 1]
               u == Append(t, s[k])
    <3>1. f[k] = u /\ t \in Seq(S) /\ Len(t) \in Nat /\ Len(t) <= k - 1
      <4>1. f[k] = u
        BY <1>4, <2>3
      <4>2. t \in Seq(S) /\ Len(t) <= k - 1
        BY <1>6 DEF Queue
      <4> HIDE DEF t, u
      <4> QED
        BY <4>1, <4>2
    <3>2. u \in Seq(S) /\ Len(u) = Len(t) + 1 /\ u[Len(t) + 1] = s[k]
          /\ \A i \in 1..Len(t) : u[i] = t[i]
      BY <2>1, <3>1
    <3>3. s[k] \notin ToSet(t) /\ \A i \in 1..Len(t) : t[i] # s[k]
      <4>1. s[k] \notin ToSet(t)
        BY <1>6, <2>1
      <4>2. \A i \in 1..Len(t) : t[i] \in ToSet(t)
        BY <3>1 DEF ToSet
      <4> HIDE DEF t
      <4> QED
        BY <4>1, <4>2
    <3>4. Queue(u, S)
      BY <1>6, <3>1, <3>2, <3>3 DEF Queue
    <3>5. ToSet(u) = ToSet(t) \cup {s[k]}
      BY <3>1, <3>2 DEF ToSet
    <3> HIDE DEF t, u
    <3> QED
      BY <1>6, <2>1, <2>3, <3>1, <3>2, <3>4, <3>5 DEF t
  <2> QED
    BY <2>2, <2>3
<1>7. B = {}
  <2> SUFFICES ASSUME B # {} PROVE FALSE
    OBVIOUS
  <2>0. B \in SUBSET (0..n)
    OBVIOUS
  <2>1. PICK k \in B : \A j \in B : k <= j
    <3> HIDE DEF B
    <3> QED
      BY <1>1, <2>0, Least
  <2>2. k # 0
    BY <1>5
  <2>3. k \in 1..n /\ k - 1 \in 0..n /\ ~(k <= k - 1)
    BY <1>1, <2>2
  <2>4. Ok(k - 1)
    BY <2>1, <2>3
  <2> QED
    BY <1>6, <2>1, <2>3, <2>4
<1>8. Ok(n)
  BY <1>1, <1>7
<1> QED
  BY <1>1, <1>2, <1>8 DEF ToSet

\* Who joins a line is its last, and nobody is in it twice.
LEMMA AppendQueue ==
    ASSUME NEW S, NEW s, Queue(s, S), NEW x \in S, x \notin ToSet(s)
    PROVE  /\ Queue(Append(s, x), S) /\ Len(Append(s, x)) = Len(s) + 1
           /\ ToSet(Append(s, x)) = ToSet(s) \cup {x}
<1>1. s \in Seq(S) /\ Len(s) \in Nat /\ \A i \in 1..Len(s) : s[i] # x
  BY DEF Queue, ToSet
<1>2. Append(s, x) \in Seq(S) /\ Len(Append(s, x)) = Len(s) + 1 /\ Append(s, x)[Len(s) + 1] = x
      /\ \A i \in 1..Len(s) : Append(s, x)[i] = s[i]
  BY <1>1
<1> QED
  BY <1>1, <1>2 DEF Queue, ToSet

\* What holds of every line.
LEMMA EmptyQueue ==
    /\ \A S : Queue(<<>>, S) 
    /\ ToSet(<<>>) = {} /\ Len(<<>>) = 0
    /\ \A S, s : Queue(s, S) => /\ ToSet(s) \subseteq S /\ Len(s) \in Nat
                                /\ ToSet(s) = {} <=> s = <<>>
  BY DEF Queue, ToSet

\* A stretch of a line is a line.
LEMMA SubQueue ==
    ASSUME NEW S, NEW s, Queue(s, S), NEW m \in 1..(Len(s) + 1), NEW n \in (m - 1)..Len(s)
    PROVE  /\ Queue(SubSeq(s, m, n), S) /\ Len(SubSeq(s, m, n)) = n - m + 1
           /\ ToSet(SubSeq(s, m, n)) = {s[i] : i \in m..n}
<1> DEFINE t == SubSeq(s, m, n)
<1>1. s \in Seq(S) /\ Len(s) \in Nat /\ m \in Int /\ n \in Int /\ m <= n + 1
  BY DEF Queue
<1>2. /\ t \in Seq(S) /\ Len(t) = n - m + 1
      /\ \A i \in 1..(n - m + 1) : t[i] = s[m + i - 1]
  <2>1. \A i \in m..n : s[i] \in S
    BY <1>1
  <2> QED
    BY <1>1, <2>1, SubSeqProperties
<1> HIDE DEF t
<1>3. DOMAIN t = 1..(n - m + 1)
  BY <1>1, <1>2
<1>4. \A i, j \in 1..(n - m + 1) : t[i] = t[j] => i = j
  <2> SUFFICES ASSUME NEW i \in 1..(n - m + 1), NEW j \in 1..(n - m + 1), t[i] = t[j] PROVE i = j
    OBVIOUS
  <2> DEFINE a == m + i - 1
             b == m + j - 1
  <2>1. a \in 1..Len(s) /\ b \in 1..Len(s) /\ i = a - m + 1 /\ j = b - m + 1
    BY <1>1
  <2>2. s[a] = s[b]
    BY <1>2
  <2> HIDE DEF a, b
  <2>3. a = b
    BY <2>1, <2>2 DEF Queue
  <2> QED
    BY <2>1, <2>3
<1>5. ASSUME NEW x PROVE (\E i \in 1..(n - m + 1) : x = t[i]) <=> \E i \in m..n : x = s[i]
  <2>1. ASSUME NEW i \in m..n PROVE i - m + 1 \in 1..(n - m + 1) /\ t[i - m + 1] = s[i]
    <3>1. i - m + 1 \in 1..(n - m + 1) /\ m + (i - m + 1) - 1 = i
      BY <1>1
    <3> QED
      BY <1>2, <3>1
  <2>2. ASSUME NEW i \in 1..(n - m + 1) PROVE m + i - 1 \in m..n /\ t[i] = s[m + i - 1]
    BY <1>1, <1>2
  <2> QED
    BY <2>1, <2>2
<1> QED
  <2>1. Queue(t, S)
    BY <1>1, <1>2, <1>4 DEF Queue
  <2>2. ToSet(t) = {s[i] : i \in m..n}
    BY <1>3, <1>5 DEF ToSet
  <2> QED
    BY <1>2, <2>1, <2>2 DEF t

\* The first of a line leaves it.
LEMMA TailQueue ==
    ASSUME NEW S, NEW s, Queue(s, S), s # <<>>
    PROVE  /\ Queue(Tail(s), S) /\ Len(Tail(s)) = Len(s) - 1 /\ Head(s) \in S
           /\ Head(s) \in ToSet(s) /\ ToSet(Tail(s)) = ToSet(s) \ {Head(s)}
<1>1. s \in Seq(S) /\ Len(s) \in Nat /\ Len(s) # 0
  BY DEF Queue
<1>2. Tail(s) = SubSeq(s, 2, Len(s)) /\ Head(s) = s[1]
  BY <1>1, TailIsSubSeq
<1>3. 2 \in 1..(Len(s) + 1) /\ Len(s) \in (2 - 1)..Len(s) /\ Len(s) - 2 + 1 = Len(s) - 1
  BY <1>1
<1>4. Queue(Tail(s), S) /\ Len(Tail(s)) = Len(s) - 1 /\ ToSet(Tail(s)) = {s[i] : i \in 2..Len(s)}
  <2> DEFINE l == Len(s)
  <2>1. l \in (2 - 1)..Len(s) /\ 2 \in 1..(Len(s) + 1)
    BY <1>3
  <2>2. Queue(SubSeq(s, 2, l), S) /\ Len(SubSeq(s, 2, l)) = l - 2 + 1 /\ ToSet(SubSeq(s, 2, l)) = {s[i] : i \in 2..l}
    <3> HIDE DEF l
    <3> QED
      BY <2>1, SubQueue
  <2> QED
    BY <1>2, <1>3, <2>2
<1>5. ToSet(s) = {s[i] : i \in 1..Len(s)}
  BY <1>1 DEF ToSet
<1>6. {s[i] : i \in 2..Len(s)} = {s[i] : i \in 1..Len(s)} \ {s[1]} /\ s[1] \in {s[i] : i \in 1..Len(s)}
  BY <1>1 DEF Queue
<1> QED
  BY <1>1, <1>2, <1>4, <1>5, <1>6

\* A line is what was let go of it and what is left.
LEMMA SplitQueue ==
    ASSUME NEW S, NEW s, Queue(s, S), NEW n \in 0..Len(s)
    PROVE  LET gone == ToSet(SubSeq(s, 1, n))
               left == SubSeq(s, n + 1, Len(s))
           IN  Queue(left, S) /\ gone \subseteq ToSet(s) /\ ToSet(left) = ToSet(s) \ gone
<1>1. Len(s) \in Nat /\ s \in Seq(S) /\ n + 1 \in 1..(Len(s) + 1) /\ 1 \in 1..(Len(s) + 1)
      /\ n \in (1 - 1)..Len(s) /\ Len(s) \in (n + 1 - 1)..Len(s)
  BY DEF Queue
<1>2. ToSet(SubSeq(s, 1, n)) = {s[i] : i \in 1..n}
  BY <1>1, SubQueue
<1>3. Queue(SubSeq(s, n + 1, Len(s)), S) /\ ToSet(SubSeq(s, n + 1, Len(s))) = {s[i] : i \in (n + 1)..Len(s)}
  <2> DEFINE m == n + 1
             l == Len(s)
  <2>1. m \in 1..(Len(s) + 1) /\ l \in (m - 1)..Len(s)
    BY <1>1
  <2>2. Queue(SubSeq(s, m, l), S) /\ ToSet(SubSeq(s, m, l)) = {s[i] : i \in m..l}
    <3> HIDE DEF m, l
    <3> QED
      BY <2>1, SubQueue
  <2> QED
    BY <2>2
<1>4. ToSet(s) = {s[i] : i \in 1..Len(s)}
  BY <1>1 DEF ToSet
<1>5. {s[i] : i \in (n + 1)..Len(s)} = {s[i] : i \in 1..Len(s)} \ {s[i] : i \in 1..n}
  BY <1>1 DEF Queue
<1>6. {s[i] : i \in 1..n} \subseteq {s[i] : i \in 1..Len(s)}
  BY <1>1
<1> QED
  BY <1>2, <1>3, <1>4, <1>5, <1>6

-----------------------------------------------------------------------------
(* The invariant                                                           *)

Fields == {"owner", "latched", "dispatch", "chats", "deliveries", "wakes", "loops", "pending",
           "sending", "inFlight", "st", "tries", "answers", "alive"}

Shape(g) ==
    /\ DOMAIN g = Fields
    /\ g.owner \in Runs \cup {NoOne} /\ g.sending \in Sends \cup {NoOne}
    /\ g.latched \in BOOLEAN /\ g.dispatch \in BOOLEAN
    /\ g.st \in [Runs -> Stages] /\ g.tries \in [Runs -> Nat] /\ g.answers \in [Runs -> Nat]
    /\ g.alive \subseteq Runs

Line(g) == ToSet(g.chats) \cup ToSet(g.deliveries) \cup ToSet(g.wakes) \cup ToSet(g.loops)
           \cup ToSet(g.pending)

\* Who is in line is queued and the other way round, but for x, the run that
\* the code has in hand between two of its statements.
Lines(g, x) ==
    /\ Queue(g.chats, Humans) /\ Queue(g.deliveries, Sends) /\ Queue(g.wakes, {Wake})
    /\ Queue(g.loops, Scheduled) /\ Queue(g.pending, Sends)
    /\ Len(g.chats) <= CHAT_WAITER_MAX
    /\ ToSet(g.deliveries) \subseteq {g.sending}
    /\ g.sending \notin ToSet(g.pending)
    /\ g.sending # NoOne => g.st[g.sending] # "idle"
    /\ x \notin Line(g)
    /\ \A r \in Runs \ {x} : r \in Line(g) <=> g.st[r] \in {"queued", "approved"}

Active == {"running", "cancelled", "killed"}

\* The one run under way is the holder's, and its process is the only one.
Held(g, x) ==
    /\ g.alive \subseteq {g.owner} /\ g.alive \cap Sends \subseteq {g.sending}
    /\ x \in Runs => x # g.owner
    /\ g.owner # NoOne => g.st[g.owner] \in (IF g.latched THEN Active \cup {"done"} ELSE Active)
    /\ \A r \in Runs \ {x} : g.st[r] \in Active =>
            /\ g.owner = r
            /\ IF r \in Sends THEN r = g.sending ELSE ~g.latched
    /\ g.st[Board] = "running" /\ Board \in g.alive => g.tries[Board] # 0

\* Who was given its outcome is done, and a reply is sent once its turn is.
Fates(g, x) ==
    /\ \A r \in Runs : g.answers[r] <= 1 /\ (g.answers[r] = 1 => g.st[r] = "done")
    /\ \A u \in Turns : /\ g.st[Delivery(u)] # "idle" => g.st[<<"turn", u>>] = "done"
                        /\ g.st[<<"turn", u>>] \notin {"approved", "gated", "cancelled"}
    /\ x \in Runs => g.st[x] # "done"

Open(g) == {u \in Turns : g.st[<<"turn", u>>] \in {"reading", "queued", "running", "killed"}}
Count(g) == g.inFlight = Cardinality(Open(g)) /\ g.inFlight <= CHANNEL_INFLIGHT_MAX

GInv(g, x) == Shape(g) /\ Lines(g, x) /\ Held(g, x) /\ Fates(g, x) /\ Count(g)

-----------------------------------------------------------------------------
(* What the small operators do, field by field                             *)

SameLines(g, h) ==
    /\ h.chats = g.chats /\ h.deliveries = g.deliveries /\ h.wakes = g.wakes
    /\ h.loops = g.loops /\ h.pending = g.pending /\ h.sending = g.sending
SameSlot(g, h) == h.owner = g.owner /\ h.latched = g.latched /\ h.alive = g.alive
SameFates(g, h) ==
    h.st = g.st /\ h.tries = g.tries /\ h.answers = g.answers /\ h.inFlight = g.inFlight

\* r goes to a stage, and the others stay where they are.
Moved(g, h, r, stage) ==
    h.st[r] = stage /\ \A p \in Runs : p # r => h.st[p] = g.st[p]

\* The kinds of runs are apart from each other.
LEMMA Kinds ==
    /\ Humans \subseteq Runs /\ Sends \subseteq Runs /\ Scheduled \subseteq Runs
    /\ Wake \in Runs /\ Board \in Runs /\ NoOne \notin Runs
    /\ Humans \cap Sends = {} /\ Humans \cap Scheduled = {} /\ Sends \cap Scheduled = {}
    /\ {Wake, Board} \cap (Humans \cup Sends \cup Scheduled) = {} /\ Wake # Board
    /\ \A u \in Turns : <<"turn", u>> \in Humans /\ Delivery(u) \in Sends
    /\ \A u, v \in Turns : (Delivery(u) = Delivery(v) => u = v) /\ (<<"turn", u>> = <<"turn", v>> => u = v)
  BY NoOneAssumption DEF Runs, Humans, Sends, Scheduled, Wake, Board, Delivery

\* The slot is taken.
LEMMA TakeIs ==
    ASSUME NEW g, Shape(g), NEW r \in Runs
    PROVE  LET h == Take(g, r) IN
           /\ Shape(h) /\ SameLines(g, h) /\ h.owner = r /\ h.latched = g.latched /\ h.alive = g.alive
           /\ Moved(g, h, r, "running") /\ h.tries = g.tries /\ h.answers = g.answers
           /\ h.inFlight = g.inFlight
  BY DEF Take, Shape, Fields, SameLines, Moved, Stages

\* The slot is given back by its holder, short of a quarantine.
LEMMA ReleaseIs ==
    ASSUME NEW g, Shape(g), NEW r
    PROVE  LET h == Release(g, r) IN
           /\ Shape(h) /\ SameLines(g, h) /\ SameFates(g, h) /\ h.alive = g.alive /\ h.latched = g.latched
           /\ h.owner = IF g.owner = r /\ ~g.latched THEN NoOne ELSE g.owner
  BY DEF Release, Shape, Fields, SameLines, SameFates

\* A process is asked for.
LEMMA LaunchIs ==
    ASSUME NEW g, Shape(g), NEW r \in Runs
    PROVE  LET h == Launch(g, r) IN
           /\ Shape(h) /\ SameLines(g, h) /\ h.owner = g.owner /\ h.latched = g.latched
           /\ h.alive = g.alive \cup {r} /\ Moved(g, h, r, "running") /\ h.tries[r] # 0
           /\ \A p \in Runs : p # r => h.tries[p] = g.tries[p]
           /\ h.answers = g.answers /\ h.inFlight = g.inFlight
  BY DEF Launch, Shape, Fields, SameLines, Moved, Stages

\* Callers are told.
LEMMA TellAllIs ==
    ASSUME NEW g, Shape(g), NEW told
    PROVE  LET h == TellAll(g, told) IN
           /\ Shape(h) /\ SameLines(g, h) /\ SameSlot(g, h) /\ h.inFlight = g.inFlight
           /\ \A r \in Runs : /\ h.st[r] = IF r \in told THEN "done" ELSE g.st[r]
                              /\ h.tries[r] = IF r \in told THEN 0 ELSE g.tries[r]
                              /\ h.answers[r] = IF r \in told THEN g.answers[r] + 1 ELSE g.answers[r]
  BY DEF TellAll, Shape, Fields, SameLines, SameSlot, Stages

\* One caller is told.
LEMMA TellIs ==
    ASSUME NEW g, Shape(g), NEW x \in Runs
    PROVE  LET h == Tell(g, x) IN
           /\ Shape(h) /\ SameLines(g, h) /\ SameSlot(g, h) /\ h.inFlight = g.inFlight
           /\ Moved(g, h, x, "done")
           /\ h.tries[x] = 0 /\ h.answers[x] = g.answers[x] + 1
           /\ \A r \in Runs : r # x => h.tries[r] = g.tries[r] /\ h.answers[r] = g.answers[r]
  BY TellAllIs DEF Tell, Moved

-----------------------------------------------------------------------------
(* A run in hand is given a place, the slot, or its outcome                *)

TurnRuns == {<<"turn", u>> : u \in Turns}

OpenStage == {"reading", "queued", "running", "killed"}

\* The bound on turns counts as before when no turn opens or closes.
LEMMA OpenSame ==
    ASSUME NEW g, NEW h, NEW x, NEW stage, Count(g), h.inFlight = g.inFlight,
           Moved(g, h, x, stage), x \in TurnRuns => (g.st[x] \in OpenStage <=> stage \in OpenStage)
    PROVE  Count(h)
<1>1. ASSUME NEW u \in Turns
      PROVE  g.st[<<"turn", u>>] \in OpenStage <=> h.st[<<"turn", u>>] \in OpenStage
  BY Kinds DEF Moved, TurnRuns
<1>2. Open(g) = Open(h)
  BY <1>1 DEF Open, OpenStage
<1> QED
  BY <1>2 DEF Count

\* A turn that is open is in flight.
LEMMA OpenStages ==
    ASSUME NEW g, NEW x, Shape(g), Fates(g, x), NEW u \in Turns
    PROVE  LET s == g.st[<<"turn", u>>] IN
           /\ s \notin {"approved", "gated", "cancelled"}
           /\ s \in {"reading", "queued", "running", "killed"} <=> s \notin {"idle", "done"}
  BY Kinds DEF Fates, Shape, Stages

\* A run that waits outside the slot and outside the lines may be taken in hand.
LEMMA InHand ==
    ASSUME NEW g, GInv(g, NoOne), NEW r \in Runs, g.st[r] \in {"idle", "reading", "gated"}
    PROVE  GInv(g, r)
<1>1. Shape(g) /\ Count(g)
  BY DEF GInv
<1>2. Lines(g, r)
  BY Kinds DEF GInv, Lines
<1>3. Held(g, r)
  BY Kinds DEF GInv, Held, Active
<1>4. Fates(g, r)
  BY DEF GInv, Fates
<1> QED
  BY <1>1, <1>2, <1>3, <1>4 DEF GInv

\* The caller of x is told.
Told(g, h, x) ==
    /\ SameLines(g, h) /\ SameSlot(g, h)
    /\ Moved(g, h, x, "done")
    /\ h.tries[x] = 0 /\ h.answers[x] = g.answers[x] + 1
    /\ \A r \in Runs : r # x => h.tries[r] = g.tries[r] /\ h.answers[r] = g.answers[r]

\* A run in hand is told: the lines, the slot and the outcomes.
LEMMA ToldPlace ==
    ASSUME NEW g, NEW h, NEW x \in Runs, GInv(g, x), Shape(h), Told(g, h, x),
           x \in Sends => \A u \in Turns : x = Delivery(u) => g.st[<<"turn", u>>] = "done"
    PROVE  Lines(h, NoOne) /\ Held(h, NoOne) /\ Fates(h, NoOne)
<1>1. Shape(g)
  BY DEF GInv
<1>2. /\ SameLines(g, h) /\ SameSlot(g, h)
      /\ Moved(g, h, x, "done")
      /\ h.tries[x] = 0 /\ h.answers[x] = g.answers[x] + 1
      /\ \A r \in Runs : r # x => h.tries[r] = g.tries[r] /\ h.answers[r] = g.answers[r]
  BY DEF Told
<1>3. Lines(h, NoOne)
  <2>1. Lines(g, x) /\ Line(h) = Line(g)
    BY <1>2 DEF GInv, SameLines, Line
  <2>2. NoOne \notin Line(g)
    BY <2>1, Kinds, EmptyQueue DEF Lines, Line
  <2>3. h.sending # NoOne => h.st[h.sending] # "idle"
    <3>1. h.sending = g.sending /\ (g.sending # NoOne => g.sending \in Runs /\ g.st[g.sending] # "idle")
      BY <1>1, <1>2, <2>1, Kinds DEF Lines, SameLines, Shape
    <3>2. g.sending # NoOne => h.st[g.sending] # "idle"
      BY <1>2, <3>1 DEF Moved
    <3> QED
      BY <3>1, <3>2
  <2>4. \A r \in Runs : r \in Line(h) <=> h.st[r] \in {"queued", "approved"}
    BY <1>2, <2>1 DEF Lines, Moved
  <2> QED
    BY <1>2, <2>1, <2>2, <2>3, <2>4 DEF Lines, SameLines
<1>4. Held(h, NoOne)
  <2>1. Held(g, x) /\ x # g.owner /\ x \notin g.alive
    BY DEF GInv, Held
  <2>2. h.owner = g.owner /\ h.latched = g.latched /\ h.alive = g.alive /\ h.sending = g.sending
    BY <1>2 DEF SameSlot, SameLines
  <2>3. g.owner # NoOne => h.st[g.owner] = g.st[g.owner]
    BY <1>1, <1>2, <2>1 DEF Moved, Shape
  <2>4. \A r \in Runs : h.st[r] \in Active => r # x /\ g.st[r] \in Active
    BY <1>2 DEF Moved, Active
  <2>5. h.st[Board] = "running" => Board # x /\ g.st[Board] = "running" /\ h.tries[Board] = g.tries[Board]
    BY <1>2, Kinds DEF Moved
  <2> QED
    BY <2>1, <2>2, <2>3, <2>4, <2>5, Kinds DEF Held
<1>5. Fates(h, NoOne)
  <2>1. g.answers[x] = 0
    BY <1>1 DEF GInv, Fates, Shape
  <2> QED
    BY <1>2, <2>1, Kinds DEF GInv, Fates, Moved
<1> QED
  BY <1>3, <1>4, <1>5

\* And the bound on turns, when the run is not an open turn.
LEMMA ToldHand ==
    ASSUME NEW g, NEW h, NEW x \in Runs, GInv(g, x), Shape(h), Told(g, h, x), h.inFlight = g.inFlight,
           x \in TurnRuns => g.st[x] = "idle",
           x \in Sends => \A u \in Turns : x = Delivery(u) => g.st[<<"turn", u>>] = "done"
    PROVE  GInv(h, NoOne)
<1>1. Lines(h, NoOne) /\ Held(h, NoOne) /\ Fates(h, NoOne)
  BY ToldPlace
<1>2. Count(h)
  BY OpenSame DEF GInv, OpenStage, Told
<1> QED
  BY <1>1, <1>2 DEF GInv

\* A run in hand is told.
LEMMA TellHand ==
    ASSUME NEW g, NEW x \in Runs, GInv(g, x),
           x \in TurnRuns => g.st[x] = "idle",
           x \in Sends => \A u \in Turns : x = Delivery(u) => g.st[<<"turn", u>>] = "done"
    PROVE  GInv(Tell(g, x), NoOne)
<1> DEFINE h == Tell(g, x)
<1>1. Shape(g)
  BY DEF GInv
<1>2. Shape(h) /\ Told(g, h, x) /\ h.inFlight = g.inFlight
  BY <1>1, TellIs DEF Told
<1> HIDE DEF h
<1> QED
  BY <1>2, ToldHand DEF h

\* The slot is free for a run in hand.
LEMMA TakeHand ==
    ASSUME NEW g, NEW x \in Runs, GInv(g, x), Free(g), x \in Sends => x = g.sending,
           x \in TurnRuns => g.st[x] # "idle"
    PROVE  /\ GInv(Take(g, x), NoOne)
           /\ Take(g, x).owner = x /\ Take(g, x).st[x] = "running" /\ Take(g, x).alive = {}
           /\ g.alive = {} /\ ~Take(g, x).latched /\ Take(g, x).chats = g.chats
<1> DEFINE h == Take(g, x)
<1>1. Shape(g)
  BY DEF GInv
<1>2. /\ Shape(h) /\ SameLines(g, h) /\ h.owner = x /\ h.latched = g.latched /\ h.alive = g.alive
      /\ Moved(g, h, x, "running") /\ h.tries = g.tries /\ h.answers = g.answers
      /\ h.inFlight = g.inFlight
  BY <1>1, TakeIs
<1> HIDE DEF h
<1>a. g.alive = {} /\ g.owner = NoOne /\ ~g.latched
  BY <1>1, Kinds DEF GInv, Held, Free, Shape
<1>3. Lines(h, NoOne)
  <2>1. Lines(g, x) /\ Line(h) = Line(g)
    BY <1>2 DEF GInv, SameLines, Line
  <2>2. NoOne \notin Line(g)
    BY <2>1, Kinds, EmptyQueue DEF Lines, Line
  <2>3. h.sending # NoOne => h.st[h.sending] # "idle"
    <3>1. h.sending = g.sending /\ (g.sending # NoOne => g.sending \in Runs /\ g.st[g.sending] # "idle")
      BY <1>1, <1>2, <2>1, Kinds DEF Lines, SameLines, Shape
    <3>2. g.sending # NoOne => h.st[g.sending] # "idle"
      BY <1>2, <3>1 DEF Moved
    <3> QED
      BY <3>1, <3>2
  <2>4. \A r \in Runs : r \in Line(h) <=> h.st[r] \in {"queued", "approved"}
    BY <1>2, <2>1 DEF Lines, Moved
  <2> QED
    BY <1>2, <2>1, <2>2, <2>3, <2>4 DEF Lines, SameLines
<1>4. Held(h, NoOne)
  BY <1>2, <1>a, Kinds DEF GInv, Held, SameLines, Moved, Active
<1>5. Fates(h, NoOne)
  <2>1. \A r \in Runs : h.st[r] = "done" => g.st[r] = "done"
    BY <1>2 DEF Moved
  <2>2. \A r \in Runs : h.answers[r] = 1 => h.st[r] = "done"
    BY <1>2 DEF GInv, Fates, Moved
  <2>3. ASSUME NEW u \in Turns, h.st[Delivery(u)] # "idle" PROVE h.st[<<"turn", u>>] = "done"
    <3>1. g.st[Delivery(u)] # "idle"
      <4>1. Delivery(u) = x => g.sending = x /\ x # NoOne
        BY <1>2, Kinds
      <4>2. Delivery(u) # x => g.st[Delivery(u)] = h.st[Delivery(u)]
        BY <1>2, Kinds DEF Moved
      <4> QED
        BY <2>3, <4>1, <4>2 DEF GInv, Lines
    <3> QED
      BY <1>2, <3>1, Kinds DEF GInv, Fates, Moved
  <2> QED
    BY <1>2, <2>2, <2>3, Kinds DEF GInv, Fates, Moved
<1>6. Count(h)
  <2>1. \A u \in Turns : x = <<"turn", u>> => g.st[x] \in OpenStage
    BY <1>1, OpenStages DEF GInv, Fates, TurnRuns, OpenStage
  <2> QED
    BY <1>2, <2>1, OpenSame, Kinds DEF GInv, OpenStage, TurnRuns
<1>7. GInv(h, NoOne)
  BY <1>2, <1>3, <1>4, <1>5, <1>6 DEF GInv
<1> QED
  BY <1>2, <1>7, <1>a DEF h, SameLines, Moved

\* The holder's process is asked for.
LEMMA LaunchHeld ==
    ASSUME NEW g, NEW r \in Runs, GInv(g, NoOne), g.owner = r, g.st[r] \in Active,
           r \in TurnRuns => g.st[r] # "cancelled"
    PROVE  GInv(Launch(g, r), NoOne)
<1> DEFINE h == Launch(g, r)
<1>1. Shape(g)
  BY DEF GInv
<1>2. /\ Shape(h) /\ SameLines(g, h) /\ h.owner = g.owner /\ h.latched = g.latched
      /\ h.alive = g.alive \cup {r} /\ Moved(g, h, r, "running") /\ h.tries[r] # 0
      /\ \A p \in Runs : p # r => h.tries[p] = g.tries[p]
      /\ h.answers = g.answers /\ h.inFlight = g.inFlight
  BY <1>1, LaunchIs
<1> HIDE DEF h
<1>3. Lines(h, NoOne)
  <2>1. Lines(g, NoOne) /\ Line(h) = Line(g)
    BY <1>2 DEF GInv, SameLines, Line
  <2>3. h.sending # NoOne => h.st[h.sending] # "idle"
    <3>1. h.sending = g.sending /\ (g.sending # NoOne => g.sending \in Runs /\ g.st[g.sending] # "idle")
      BY <1>1, <1>2, <2>1, Kinds DEF Lines, SameLines, Shape
    <3>2. g.sending # NoOne => h.st[g.sending] # "idle"
      BY <1>2, <3>1 DEF Moved
    <3> QED
      BY <3>1, <3>2
  <2>4. \A p \in Runs : p \in Line(h) <=> h.st[p] \in {"queued", "approved"}
    BY <1>2, <2>1, Kinds DEF Lines, Moved, Active
  <2> QED
    BY <1>2, <2>1, <2>3, <2>4, Kinds DEF Lines, SameLines
<1>4. Held(h, NoOne)
  BY <1>2, Kinds DEF GInv, Held, SameLines, Moved, Active
<1>5. Fates(h, NoOne)
  BY <1>1, <1>2, Kinds DEF GInv, Fates, Moved, Active
<1>6. Count(h)
  BY <1>2, OpenSame DEF GInv, OpenStage, Active
<1> QED
  BY <1>2, <1>3, <1>4, <1>5, <1>6 DEF GInv, h

-----------------------------------------------------------------------------
(* Lines are joined and left                                               *)

SameCosts(g, h) == h.tries = g.tries /\ h.answers = g.answers /\ h.inFlight = g.inFlight

\* x goes to the end of its line, and waits there.
Joins(g, h, x, stage) ==
    /\ SameSlot(g, h) /\ SameCosts(g, h) /\ h.sending = g.sending
    /\ Moved(g, h, x, stage) /\ stage \in {"queued", "approved"}
    /\ \/ /\ h.chats = Append(g.chats, x) /\ x \in Humans /\ Len(g.chats) < CHAT_WAITER_MAX
          /\ h.deliveries = g.deliveries /\ h.wakes = g.wakes /\ h.loops = g.loops /\ h.pending = g.pending
       \/ /\ h.deliveries = Append(g.deliveries, x) /\ x \in Sends /\ x = g.sending
          /\ h.chats = g.chats /\ h.wakes = g.wakes /\ h.loops = g.loops /\ h.pending = g.pending
       \/ /\ h.wakes = Append(g.wakes, x) /\ x = Wake
          /\ h.chats = g.chats /\ h.deliveries = g.deliveries /\ h.loops = g.loops /\ h.pending = g.pending
       \/ /\ h.loops = Append(g.loops, x) /\ x \in Scheduled
          /\ h.chats = g.chats /\ h.deliveries = g.deliveries /\ h.wakes = g.wakes /\ h.pending = g.pending
       \/ /\ h.pending = Append(g.pending, x) /\ x \in Sends /\ x # g.sending
          /\ h.chats = g.chats /\ h.deliveries = g.deliveries /\ h.wakes = g.wakes /\ h.loops = g.loops

\* A run in hand gets in line.
LEMMA JoinHand ==
    ASSUME NEW g, NEW h, NEW x \in Runs, NEW stage, GInv(g, x), Shape(h), Joins(g, h, x, stage),
           x \in TurnRuns => stage = "queued" /\ g.st[x] \in OpenStage,
           x \in Sends => \A u \in Turns : x = Delivery(u) => g.st[<<"turn", u>>] = "done"
    PROVE  GInv(h, NoOne)
<1>1. /\ SameSlot(g, h) /\ SameCosts(g, h) /\ h.sending = g.sending
      /\ Moved(g, h, x, stage) /\ stage \in {"queued", "approved"}
  BY DEF Joins
<1>2. Shape(g) /\ Lines(g, x) /\ Held(g, x) /\ Fates(g, x) /\ Count(g)
  BY DEF GInv
<1>3. /\ Queue(g.chats, Humans) /\ Queue(g.deliveries, Sends) /\ Queue(g.wakes, {Wake})
      /\ Queue(g.loops, Scheduled) /\ Queue(g.pending, Sends)
      /\ x \notin ToSet(g.chats) /\ x \notin ToSet(g.deliveries) /\ x \notin ToSet(g.wakes)
      /\ x \notin ToSet(g.loops) /\ x \notin ToSet(g.pending)
      /\ Len(g.chats) \in Nat /\ Len(g.chats) <= CHAT_WAITER_MAX
      /\ ToSet(g.deliveries) \subseteq {g.sending} /\ g.sending \notin ToSet(g.pending)
  BY <1>2, EmptyQueue DEF Lines, Line
<1>4. /\ Queue(h.chats, Humans) /\ Queue(h.deliveries, Sends) /\ Queue(h.wakes, {Wake})
      /\ Queue(h.loops, Scheduled) /\ Queue(h.pending, Sends)
      /\ Len(h.chats) <= CHAT_WAITER_MAX
      /\ ToSet(h.deliveries) \subseteq {g.sending} /\ g.sending \notin ToSet(h.pending)
      /\ Line(h) = Line(g) \cup {x}
  <2>1. CASE h.chats = Append(g.chats, x) /\ x \in Humans /\ Len(g.chats) < CHAT_WAITER_MAX
             /\ h.deliveries = g.deliveries /\ h.wakes = g.wakes /\ h.loops = g.loops /\ h.pending = g.pending
    <3>1. Queue(h.chats, Humans) /\ Len(h.chats) = Len(g.chats) + 1 /\ ToSet(h.chats) = ToSet(g.chats) \cup {x}
      BY <1>3, <2>1, AppendQueue
    <3>2. Len(h.chats) <= CHAT_WAITER_MAX
      BY <1>3, <2>1, <3>1, BoundAssumption
    <3> QED
      BY <1>3, <2>1, <3>1, <3>2 DEF Line
  <2>2. CASE h.deliveries = Append(g.deliveries, x) /\ x \in Sends /\ x = g.sending
             /\ h.chats = g.chats /\ h.wakes = g.wakes /\ h.loops = g.loops /\ h.pending = g.pending
    <3>1. Queue(h.deliveries, Sends) /\ ToSet(h.deliveries) = ToSet(g.deliveries) \cup {x}
      BY <1>3, <2>2, AppendQueue
    <3> QED
      BY <1>3, <2>2, <3>1 DEF Line
  <2>3. CASE h.wakes = Append(g.wakes, x) /\ x = Wake
             /\ h.chats = g.chats /\ h.deliveries = g.deliveries /\ h.loops = g.loops /\ h.pending = g.pending
    <3>1. Queue(h.wakes, {Wake}) /\ ToSet(h.wakes) = ToSet(g.wakes) \cup {x}
      BY <1>3, <2>3, AppendQueue
    <3> QED
      BY <1>3, <2>3, <3>1 DEF Line
  <2>4. CASE h.loops = Append(g.loops, x) /\ x \in Scheduled
             /\ h.chats = g.chats /\ h.deliveries = g.deliveries /\ h.wakes = g.wakes /\ h.pending = g.pending
    <3>1. Queue(h.loops, Scheduled) /\ ToSet(h.loops) = ToSet(g.loops) \cup {x}
      BY <1>3, <2>4, AppendQueue
    <3> QED
      BY <1>3, <2>4, <3>1 DEF Line
  <2>5. CASE h.pending = Append(g.pending, x) /\ x \in Sends /\ x # g.sending
             /\ h.chats = g.chats /\ h.deliveries = g.deliveries /\ h.wakes = g.wakes /\ h.loops = g.loops
    <3>1. Queue(h.pending, Sends) /\ ToSet(h.pending) = ToSet(g.pending) \cup {x}
      BY <1>3, <2>5, AppendQueue
    <3> QED
      BY <1>3, <2>5, <3>1 DEF Line
  <2> QED
    BY <2>1, <2>2, <2>3, <2>4, <2>5 DEF Joins
<1>5. Lines(h, NoOne)
  <2>1. h.sending # NoOne => h.st[h.sending] # "idle"
    <3>1. g.sending # NoOne => g.sending \in Runs /\ g.st[g.sending] # "idle"
      BY <1>2, Kinds DEF Lines, Shape
    <3> QED
      BY <1>1, <3>1 DEF Moved
  <2>2. \A r \in Runs : r \in Line(h) <=> h.st[r] \in {"queued", "approved"}
    BY <1>1, <1>2, <1>4 DEF Lines, Moved
  <2>3. NoOne \notin Line(h)
    BY <1>4, Kinds, EmptyQueue DEF Line
  <2> QED
    BY <1>1, <1>4, <2>1, <2>2, <2>3 DEF Lines
<1>6. Held(h, NoOne)
  <2>1. x # g.owner /\ x \notin g.alive
    BY <1>2 DEF Held
  <2>2. h.owner = g.owner /\ h.latched = g.latched /\ h.alive = g.alive /\ h.tries = g.tries
    BY <1>1 DEF SameSlot, SameCosts
  <2>3. g.owner # NoOne => h.st[g.owner] = g.st[g.owner]
    BY <1>1, <1>2, <2>1 DEF Moved, Shape
  <2>4. \A r \in Runs : h.st[r] \in Active => r # x /\ g.st[r] \in Active
    BY <1>1 DEF Moved, Active
  <2>5. h.st[Board] = "running" => Board # x /\ g.st[Board] = "running"
    BY <1>1, Kinds DEF Moved
  <2> QED
    BY <1>1, <1>2, <2>1, <2>2, <2>3, <2>4, <2>5, Kinds DEF Held
<1>7. Fates(h, NoOne)
  <2>1. g.st[x] # "done"
    BY <1>2 DEF Fates
  <2>2. \A r \in Runs : g.answers[r] <= 1 /\ (g.answers[r] = 1 => h.st[r] = "done")
    BY <1>1, <1>2, <2>1 DEF Fates, Moved
  <2>3. ASSUME NEW u \in Turns
        PROVE  /\ h.st[Delivery(u)] # "idle" => h.st[<<"turn", u>>] = "done"
               /\ h.st[<<"turn", u>>] \notin {"approved", "gated", "cancelled"}
    <3>1. Delivery(u) \in Sends /\ <<"turn", u>> \in TurnRuns /\ <<"turn", u>> \in Runs
          /\ Delivery(u) \in Runs /\ <<"turn", u>> \notin Sends
      BY Kinds DEF TurnRuns
    <3>2. CASE x = <<"turn", u>>
      <4>1. h.st[x] = "queued" /\ g.st[x] # "done" /\ h.st[Delivery(u)] = g.st[Delivery(u)]
        BY <1>1, <2>1, <3>1, <3>2 DEF Moved
      <4> QED
        BY <1>2, <3>2, <4>1 DEF Fates
    <3>3. CASE x = Delivery(u)
      <4>1. g.st[<<"turn", u>>] = "done" /\ h.st[<<"turn", u>>] = "done"
        BY <1>1, <3>1, <3>3 DEF Moved
      <4> QED
        BY <4>1
    <3>4. CASE x # Delivery(u) /\ x # <<"turn", u>>
      BY <1>1, <1>2, <3>1, <3>4 DEF Moved, Fates
    <3> QED
      BY <3>2, <3>3, <3>4
  <2> QED
    BY <1>1, <2>2, <2>3, Kinds DEF Fates, SameCosts
<1>8. Count(h)
  <2>1. x \in TurnRuns => (g.st[x] \in OpenStage <=> stage \in OpenStage)
    BY DEF OpenStage
  <2> QED
    BY <1>1, <1>2, <2>1, OpenSame DEF SameCosts
<1> QED
  BY <1>5, <1>6, <1>7, <1>8 DEF GInv

\* The first of a line is taken in hand.
Leaves(g, h, x) ==
    /\ SameSlot(g, h) /\ SameFates(g, h) /\ h.sending = g.sending
    /\ \/ /\ g.chats # <<>> /\ x = Head(g.chats) /\ h.chats = Tail(g.chats)
          /\ h.deliveries = g.deliveries /\ h.wakes = g.wakes /\ h.loops = g.loops /\ h.pending = g.pending
       \/ /\ g.deliveries # <<>> /\ x = Head(g.deliveries) /\ h.deliveries = Tail(g.deliveries)
          /\ h.chats = g.chats /\ h.wakes = g.wakes /\ h.loops = g.loops /\ h.pending = g.pending
       \/ /\ g.wakes # <<>> /\ x = Head(g.wakes) /\ h.wakes = Tail(g.wakes)
          /\ h.chats = g.chats /\ h.deliveries = g.deliveries /\ h.loops = g.loops /\ h.pending = g.pending
       \/ /\ g.loops # <<>> /\ x = Head(g.loops) /\ h.loops = Tail(g.loops)
          /\ h.chats = g.chats /\ h.deliveries = g.deliveries /\ h.wakes = g.wakes /\ h.pending = g.pending

\* The first of a line is in hand.
LEMMA LeaveLine ==
    ASSUME NEW g, NEW h, NEW x, GInv(g, NoOne), Shape(h), Leaves(g, h, x)
    PROVE  GInv(h, x) /\ x \in Line(g) /\ x \in Runs /\ h.st[x] \in {"queued", "approved"}
<1>1. SameSlot(g, h) /\ SameFates(g, h) /\ h.sending = g.sending
  BY DEF Leaves
<1>2. Shape(g) /\ Lines(g, NoOne) /\ Held(g, NoOne) /\ Fates(g, NoOne) /\ Count(g)
  BY DEF GInv
<1>3. /\ Queue(g.chats, Humans) /\ Queue(g.deliveries, Sends) /\ Queue(g.wakes, {Wake})
      /\ Queue(g.loops, Scheduled) /\ Queue(g.pending, Sends)
      /\ Len(g.chats) \in Nat /\ Len(g.chats) <= CHAT_WAITER_MAX
      /\ ToSet(g.deliveries) \subseteq {g.sending} /\ g.sending \notin ToSet(g.pending)
      /\ ToSet(g.chats) \subseteq Humans /\ ToSet(g.deliveries) \subseteq Sends
      /\ ToSet(g.wakes) \subseteq {Wake} /\ ToSet(g.loops) \subseteq Scheduled /\ ToSet(g.pending) \subseteq Sends
  BY <1>2, EmptyQueue DEF Lines
<1>4. /\ Queue(h.chats, Humans) /\ Queue(h.deliveries, Sends) /\ Queue(h.wakes, {Wake})
      /\ Queue(h.loops, Scheduled) /\ Queue(h.pending, Sends)
      /\ Len(h.chats) <= CHAT_WAITER_MAX
      /\ ToSet(h.deliveries) \subseteq {g.sending} /\ h.pending = g.pending
      /\ x \in Line(g) /\ Line(h) = Line(g) \ {x}
  <2>1. CASE g.chats # <<>> /\ x = Head(g.chats) /\ h.chats = Tail(g.chats)
             /\ h.deliveries = g.deliveries /\ h.wakes = g.wakes /\ h.loops = g.loops /\ h.pending = g.pending
    <3>1. Queue(h.chats, Humans) /\ Len(h.chats) = Len(g.chats) - 1 /\ x \in Humans
          /\ x \in ToSet(g.chats) /\ ToSet(h.chats) = ToSet(g.chats) \ {x}
      BY <1>3, <2>1, TailQueue
    <3>2. Len(h.chats) <= CHAT_WAITER_MAX
      BY <1>3, <3>1, BoundAssumption
    <3> QED
      BY <1>3, <2>1, <3>1, <3>2, Kinds DEF Line
  <2>2. CASE g.deliveries # <<>> /\ x = Head(g.deliveries) /\ h.deliveries = Tail(g.deliveries)
             /\ h.chats = g.chats /\ h.wakes = g.wakes /\ h.loops = g.loops /\ h.pending = g.pending
    <3>1. Queue(h.deliveries, Sends) /\ x \in Sends
          /\ x \in ToSet(g.deliveries) /\ ToSet(h.deliveries) = ToSet(g.deliveries) \ {x}
      BY <1>3, <2>2, TailQueue
    <3> QED
      BY <1>3, <2>2, <3>1, Kinds DEF Line
  <2>3. CASE g.wakes # <<>> /\ x = Head(g.wakes) /\ h.wakes = Tail(g.wakes)
             /\ h.chats = g.chats /\ h.deliveries = g.deliveries /\ h.loops = g.loops /\ h.pending = g.pending
    <3>1. Queue(h.wakes, {Wake}) /\ x \in {Wake}
          /\ x \in ToSet(g.wakes) /\ ToSet(h.wakes) = ToSet(g.wakes) \ {x}
      <4> DEFINE W == {Wake}
      <4>1. Queue(g.wakes, W)
        BY <1>3
      <4> HIDE DEF W
      <4>2. Queue(Tail(g.wakes), W) /\ Head(g.wakes) \in W
            /\ Head(g.wakes) \in ToSet(g.wakes) /\ ToSet(Tail(g.wakes)) = ToSet(g.wakes) \ {Head(g.wakes)}
        BY <2>3, <4>1, TailQueue
      <4> QED
        BY <2>3, <4>2 DEF W
    <3> QED
      BY <1>3, <2>3, <3>1, Kinds DEF Line
  <2>4. CASE g.loops # <<>> /\ x = Head(g.loops) /\ h.loops = Tail(g.loops)
             /\ h.chats = g.chats /\ h.deliveries = g.deliveries /\ h.wakes = g.wakes /\ h.pending = g.pending
    <3>1. Queue(h.loops, Scheduled) /\ x \in Scheduled
          /\ x \in ToSet(g.loops) /\ ToSet(h.loops) = ToSet(g.loops) \ {x}
      BY <1>3, <2>4, TailQueue
    <3> QED
      BY <1>3, <2>4, <3>1, Kinds DEF Line
  <2> QED
    BY <2>1, <2>2, <2>3, <2>4 DEF Leaves
<1>5. x \in Runs /\ g.st[x] \in {"queued", "approved"} /\ h.st = g.st
  <2>1. Line(g) \subseteq Runs
    BY <1>3, Kinds DEF Line
  <2> QED
    BY <1>1, <1>2, <1>4, <2>1, Kinds DEF Lines, SameFates
<1>6. Lines(h, x)
  BY <1>1, <1>2, <1>4, <1>5, Kinds DEF Lines
<1>7. Held(h, x)
  <2>1. x # g.owner
    BY <1>2, <1>5, Kinds DEF Held, Active
  <2> QED
    BY <1>1, <1>2, <1>5, <2>1, Kinds DEF Held, SameSlot, SameFates
<1>8. Fates(h, x) /\ Count(h)
  BY <1>1, <1>2, <1>5 DEF Fates, SameFates, Count, Open
<1> QED
  BY <1>4, <1>5, <1>6, <1>7, <1>8 DEF GInv

-----------------------------------------------------------------------------
(* Steps that leave the quarantine as it was                               *)

\* The slot goes to background work past no human, and a latched lane starts
\* nothing and takes nobody in line; who has come is not forgotten.
Steady(g, h) ==
    /\ h.latched = g.latched
    /\ h.owner # g.owner /\ h.owner \in Sends \cup Scheduled \cup {Wake} => h.chats = <<>>
    /\ g.latched => h.alive \subseteq g.alive /\ Queued(h) \subseteq Queued(g)
    /\ \A r \in Runs : h.st[r] = "idle" => g.st[r] = "idle"

\* Two steady steps, when the first at most gives the slot back.
LEMMA SteadyAfter ==
    ASSUME NEW g, NEW h, NEW k, Steady(g, h), Steady(h, k), h.owner \in {g.owner, NoOne}
    PROVE  Steady(g, k)
<1>1. k.owner # g.owner /\ k.owner \in Sends \cup Scheduled \cup {Wake} => k.chats = <<>>
  <2>1. k.owner \in Sends \cup Scheduled \cup {Wake} => k.owner # NoOne
    BY Kinds
  <2> QED
    BY <2>1 DEF Steady
<1> QED
  BY <1>1 DEF Steady

\* Nothing but a run's place has changed.
LEMMA SteadyMove ==
    ASSUME NEW g, NEW h, NEW x, NEW stage, SameSlot(g, h), Moved(g, h, x, stage),
           stage # "idle", stage \notin {"queued", "approved"} \/ ~g.latched \/ x \in Queued(g)
    PROVE  Steady(g, h)
<1>1. Queued(h) \subseteq Queued(g) \/ ~g.latched
  BY DEF Queued, Moved
<1>2. \A r \in Runs : h.st[r] = "idle" => g.st[r] = "idle"
  BY DEF Moved
<1> QED
  BY <1>1, <1>2 DEF Steady, SameSlot

\* A run in hand is given the slot and its process.
LEMMA StartHand ==
    ASSUME NEW g, NEW x \in Runs, GInv(g, x), Free(g), x \in Sends => x = g.sending,
           x \in TurnRuns => g.st[x] # "idle",
           x \in Sends \cup Scheduled \cup {Wake} => g.chats = <<>>
    PROVE  GInv(Launch(Take(g, x), x), NoOne) /\ Steady(g, Launch(Take(g, x), x))
<1> DEFINE h == Take(g, x)
           k == Launch(h, x)
<1>1. /\ GInv(h, NoOne) /\ h.owner = x /\ h.st[x] = "running"
      /\ h.chats = g.chats /\ ~g.latched /\ ~h.latched
  BY TakeHand DEF Free
<1> HIDE DEF h
<1>2. GInv(k, NoOne)
  BY <1>1, LaunchHeld DEF Active
<1>3. k.chats = g.chats /\ k.owner = x /\ k.latched = g.latched
  <2>1. Shape(h)
    BY <1>1 DEF GInv
  <2>2. SameLines(h, k) /\ k.owner = h.owner /\ k.latched = h.latched
    BY <2>1, LaunchIs
  <2>3. h.latched \in BOOLEAN /\ g.latched \in BOOLEAN
    BY <2>1 DEF GInv, Shape
  <2> QED
    BY <1>1, <2>2, <2>3 DEF SameLines
<1>a. \A r \in Runs : k.st[r] = "idle" => g.st[r] = "idle"
  <2>1. Shape(g) /\ Shape(h)
    BY <1>1 DEF GInv
  <2>2. Moved(g, Take(g, x), x, "running") /\ Moved(h, k, x, "running")
    BY <2>1, TakeIs, LaunchIs
  <2> HIDE DEF k
  <2> QED
    BY <2>2 DEF Moved, h
<1> HIDE DEF k
<1>4. Steady(g, k)
  BY <1>1, <1>3, <1>a DEF Steady
<1> QED
  BY <1>2, <1>4 DEF h, k

\* A run that is not a channel's is put aside without an outcome.
LEMMA RestHand ==
    ASSUME NEW g, NEW h, NEW x \in Runs, NEW stage \in {"done", "gated"}, GInv(g, x), Shape(h),
           SameLines(g, h), SameSlot(g, h), Moved(g, h, x, stage), h.inFlight = g.inFlight,
           h.answers = g.answers, \A r \in Runs : r # x => h.tries[r] = g.tries[r],
           x \notin TurnRuns \cup Sends
    PROVE  GInv(h, NoOne)
<1>1. Shape(g) /\ Lines(g, x) /\ Held(g, x) /\ Fates(g, x) /\ Count(g)
  BY DEF GInv
<1>2. Lines(h, NoOne)
  <2>1. Line(h) = Line(g)
    BY DEF SameLines, Line
  <2>2. NoOne \notin Line(g)
    BY <1>1, Kinds, EmptyQueue DEF Lines, Line
  <2>3. h.sending # NoOne => h.st[h.sending] # "idle"
    <3>1. h.sending = g.sending /\ (g.sending # NoOne => g.sending \in Runs /\ g.st[g.sending] # "idle")
      BY <1>1, Kinds DEF Lines, SameLines, Shape
    <3>2. g.sending # NoOne => h.st[g.sending] # "idle"
      BY <3>1 DEF Moved
    <3> QED
      BY <3>1, <3>2
  <2>4. \A r \in Runs : r \in Line(h) <=> h.st[r] \in {"queued", "approved"}
    BY <1>1, <2>1 DEF Lines, Moved
  <2> QED
    BY <1>1, <2>1, <2>2, <2>3, <2>4 DEF Lines, SameLines
<1>3. Held(h, NoOne)
  <2>1. x # g.owner
    BY <1>1 DEF Held
  <2>2. h.owner = g.owner /\ h.latched = g.latched /\ h.alive = g.alive /\ h.sending = g.sending
    BY DEF SameSlot, SameLines
  <2>3. g.owner # NoOne => h.st[g.owner] = g.st[g.owner]
    BY <1>1, <2>1 DEF Moved, Shape
  <2>4. \A r \in Runs : h.st[r] \in Active => r # x /\ g.st[r] \in Active
    BY DEF Moved, Active
  <2>5. h.st[Board] = "running" => Board # x /\ g.st[Board] = "running" /\ h.tries[Board] = g.tries[Board]
    BY Kinds DEF Moved
  <2> QED
    BY <1>1, <2>1, <2>2, <2>3, <2>4, <2>5, Kinds DEF Held
<1>4. Fates(h, NoOne)
  <2>1. g.st[x] # "done"
    BY <1>1 DEF Fates
  <2>2. \A r \in Runs : h.answers[r] <= 1 /\ (h.answers[r] = 1 => h.st[r] = "done")
    BY <1>1, <2>1 DEF Fates, Moved
  <2>3. ASSUME NEW u \in Turns
        PROVE  /\ h.st[Delivery(u)] = g.st[Delivery(u)] /\ h.st[<<"turn", u>>] = g.st[<<"turn", u>>]
    BY Kinds DEF Moved, TurnRuns
  <2> QED
    BY <1>1, <2>2, <2>3, Kinds DEF Fates
<1>5. Count(h)
  BY <1>1, OpenSame
<1> QED
  BY <1>2, <1>3, <1>4, <1>5 DEF GInv

\* The holder whose process is gone gives the slot back, and is in hand.
LEMMA LetGo ==
    ASSUME NEW g, NEW h, NEW x \in Runs, GInv(g, NoOne), g.owner = x, ~g.latched,
           Shape(h), SameLines(g, h), SameFates(g, h), h.alive = {}, h.latched = g.latched, h.owner = NoOne
    PROVE  GInv(h, x) /\ Free(h)
<1>1. Shape(g) /\ Lines(g, NoOne) /\ Held(g, NoOne) /\ Fates(g, NoOne) /\ Count(g)
  BY DEF GInv
<1>2. g.st[x] \in Active
  BY <1>1, Kinds DEF Held
<1>3. Lines(h, x)
  <2>1. Line(h) = Line(g)
    BY DEF SameLines, Line
  <2> QED
    BY <1>1, <1>2, <2>1, Kinds DEF Lines, SameLines, SameFates, Active
<1>4. Held(h, x)
  BY <1>1, <1>2, Kinds DEF Held, SameFates
<1>5. Fates(h, x) /\ Count(h)
  BY <1>1, <1>2 DEF Fates, SameFates, Count, Open, Active
<1> QED
  BY <1>3, <1>4, <1>5 DEF GInv, Free

-----------------------------------------------------------------------------
(* The limiter                                                             *)

\* A delivery under way whose turn has come, or that gets in line for the slot.
LEMMA DeliverHolds ==
    ASSUME NEW g, NEW d \in Sends, GInv(g, d), g.sending = d, g.st[d] \in {"queued", "approved"}
    PROVE  GInv(Deliver(g, d), NoOne) /\ Steady(g, Deliver(g, d))
<1>1. d \in Runs /\ Shape(g) /\ Lines(g, d) /\ Fates(g, d) /\ d \notin Humans
  BY Kinds DEF GInv
<1>2. CASE Free(g) /\ g.chats = <<>>
  <2>1. d \notin TurnRuns
    BY Kinds DEF TurnRuns
  <2> QED
    BY <1>1, <1>2, <2>1, StartHand DEF Deliver
<1>3. CASE ~(Free(g) /\ g.chats = <<>>)
  <2> DEFINE h == [g EXCEPT !.deliveries = Append(@, d)]
  <2>1. Shape(h) /\ Joins(g, h, d, g.st[d])
    BY <1>1, Kinds DEF Shape, Fields, Joins, SameSlot, SameCosts, Moved
  <2>2. d \notin TurnRuns
    BY Kinds DEF TurnRuns
  <2>3. \A u \in Turns : d = Delivery(u) => g.st[<<"turn", u>>] = "done"
    BY <1>1 DEF Fates
  <2>4. d \in Queued(g) /\ SameSlot(g, h) /\ Moved(g, h, d, g.st[d])
    BY <1>1, <2>1 DEF Queued, Joins
  <2> HIDE DEF h
  <2>5. GInv(h, NoOne)
    BY <1>1, <2>1, <2>2, <2>3, JoinHand
  <2>6. Steady(g, h)
    BY <2>4, SteadyMove
  <2>7. Deliver(g, d) = h
    BY <1>3 DEF Deliver, h
  <2> QED
    BY <2>5, <2>6, <2>7
<1> QED
  BY <1>2, <1>3

\* The limiter takes its next delivery, if it may.
LEMMA DrainHolds ==
    ASSUME NEW g, GInv(g, NoOne)
    PROVE  GInv(Drain(g), NoOne) /\ Steady(g, Drain(g))
<1>1. Shape(g) /\ Lines(g, NoOne) /\ Held(g, NoOne) /\ Fates(g, NoOne) /\ Count(g)
  BY DEF GInv
<1>2. CASE g.sending # NoOne \/ g.latched \/ g.pending = <<>>
  BY <1>2 DEF Drain, Steady
<1>3. CASE ~(g.sending # NoOne \/ g.latched \/ g.pending = <<>>)
  <2> DEFINE d == Head(g.pending)
             h == [g EXCEPT !.pending = Tail(@), !.sending = d]
  <2>1. /\ d \in Sends /\ d \in ToSet(g.pending) /\ Queue(Tail(g.pending), Sends)
        /\ ToSet(Tail(g.pending)) = ToSet(g.pending) \ {d}
    BY <1>1, <1>3, TailQueue DEF Lines
  <2>2. /\ Shape(h) /\ SameSlot(g, h) /\ SameFates(g, h) /\ h.sending = d
        /\ h.chats = g.chats /\ h.deliveries = g.deliveries /\ h.wakes = g.wakes /\ h.loops = g.loops
        /\ h.pending = Tail(g.pending)
    BY <1>1, <2>1 DEF Shape, Fields, SameSlot, SameFates
  <2>3. Drain(g) = Deliver(h, d)
    BY <1>3 DEF Drain
  <2> HIDE DEF d, h
  <2>a. d \in Runs /\ d # NoOne /\ g.sending = NoOne
    BY <1>3, <2>1, Kinds
  <2>4. g.st[d] \in {"queued", "approved"}
    BY <1>1, <2>1, <2>a DEF Lines, Line
  <2>5. d \notin ToSet(g.chats) \cup ToSet(g.wakes) \cup ToSet(g.loops) /\ g.deliveries = <<>>
    BY <1>1, <2>1, <2>a, Kinds, EmptyQueue DEF Lines
  <2>6. Lines(h, d)
    <3>1. Line(h) = Line(g) \ {d} /\ ToSet(h.deliveries) = {} /\ d \notin ToSet(h.pending)
      BY <2>1, <2>2, <2>5, EmptyQueue DEF Line
    <3>2. h.st = g.st
      BY <2>2 DEF SameFates
    <3> QED
      BY <1>1, <2>1, <2>2, <2>4, <3>1, <3>2, Kinds DEF Lines
  <2>7. Held(h, d)
    <3>1. d # g.owner
      BY <1>1, <2>4, <2>a DEF Held, Active
    <3> QED
      BY <1>1, <2>2, <2>a, <3>1, Kinds DEF Held, SameSlot, SameFates
  <2>8. Fates(h, d) /\ Count(h)
    BY <1>1, <2>2, <2>4, <2>a DEF Fates, SameFates, Count, Open
  <2>9. GInv(h, d) /\ h.st[d] \in {"queued", "approved"}
    BY <2>2, <2>4, <2>6, <2>7, <2>8 DEF GInv, SameFates
  <2>10. GInv(Deliver(h, d), NoOne) /\ Steady(h, Deliver(h, d))
    BY <2>1, <2>2, <2>9, DeliverHolds
  <2>11. Steady(g, h) /\ h.owner = g.owner
    BY <2>2 DEF Steady, SameSlot, SameFates, Queued
  <2> QED
    BY <2>3, <2>10, <2>11, SteadyAfter
<1> QED
  BY <1>2, <1>3

\* A reply goes to the limiter: it is sent, waits, or is refused.
LEMMA EnqueueHolds ==
    ASSUME NEW g, NEW u \in Turns, GInv(g, Delivery(u)), g.st[Delivery(u)] = "idle",
           g.st[<<"turn", u>>] = "done"
    PROVE  GInv(Enqueue(g, Delivery(u)), NoOne) /\ Steady(g, Enqueue(g, Delivery(u)))
<1> DEFINE d == Delivery(u)
<1>1. /\ d \in Sends /\ d \in Runs /\ d \notin TurnRuns
      /\ \A v \in Turns : d = Delivery(v) => v = u
  BY Kinds DEF TurnRuns
<1>2. Shape(g) /\ Lines(g, d) /\ Fates(g, d) /\ GInv(g, d) /\ g.st[d] = "idle"
  BY DEF GInv
<1>a. \A v \in Turns : d = Delivery(v) => g.st[<<"turn", v>>] = "done"
  BY <1>1
<1> HIDE DEF d
<1>3. CASE g.latched \/ Len(g.pending) >= CHANNEL_INFLIGHT_MAX
  <2>1. GInv(Tell(g, d), NoOne)
    BY <1>1, <1>2, <1>a, TellHand
  <2>2. SameSlot(g, Tell(g, d)) /\ Moved(g, Tell(g, d), d, "done")
    BY <1>1, <1>2, TellIs
  <2>3. Steady(g, Tell(g, d))
    BY <2>2, SteadyMove
  <2> QED
    BY <1>3, <2>1, <2>3 DEF Enqueue, d
<1>4. CASE ~(g.latched \/ Len(g.pending) >= CHANNEL_INFLIGHT_MAX)
  <2> DEFINE h == [g EXCEPT !.pending = Append(@, d), !.st[d] = "queued"]
  <2>1. d # g.sending
    BY <1>1, <1>2, Kinds DEF Lines
  <2>2. Shape(h) /\ Joins(g, h, d, "queued") /\ h.owner = g.owner
    BY <1>1, <1>2, <2>1 DEF Shape, Fields, Joins, SameSlot, SameCosts, Moved, Stages
  <2>3. Enqueue(g, d) = Drain(h)
    BY <1>4 DEF Enqueue
  <2> HIDE DEF h
  <2>4. GInv(h, NoOne)
    BY <1>1, <1>2, <1>a, <2>2, JoinHand
  <2>5. Steady(g, h)
    BY <1>4, <2>2, SteadyMove DEF Joins
  <2>6. GInv(Drain(h), NoOne) /\ Steady(h, Drain(h))
    BY <2>4, DrainHolds
  <2>7. Steady(g, Drain(h))
    BY <2>2, <2>5, <2>6, SteadyAfter
  <2> QED
    BY <2>3, <2>6, <2>7 DEF d
<1> QED
  BY <1>3, <1>4

\* A turn in hand is answered: it is no longer in flight.
LEMMA TurnAnswered ==
    ASSUME NEW g, NEW h, NEW u \in Turns, GInv(g, <<"turn", u>>), g.st[<<"turn", u>>] \in OpenStage,
           Shape(h), Told(g, h, <<"turn", u>>), h.inFlight = g.inFlight - 1
    PROVE  GInv(h, Delivery(u)) /\ h.st[Delivery(u)] = "idle" /\ h.st[<<"turn", u>>] = "done"
<1> DEFINE x == <<"turn", u>>
<1>1. /\ x \in Runs /\ x \notin Sends /\ Delivery(u) \in Runs /\ Delivery(u) # x
      /\ GInv(g, x) /\ g.st[x] \in OpenStage /\ Told(g, h, x)
      /\ \A v \in Turns : <<"turn", v>> = x => v = u
  BY Kinds
<1>2. Shape(g) /\ Fates(g, x) /\ Count(g)
  BY <1>1 DEF GInv
<1>3. g.st[Delivery(u)] = "idle"
  <2>1. g.st[Delivery(u)] # "idle" => g.st[x] = "done"
    BY <1>2 DEF Fates
  <2> HIDE DEF x
  <2> QED
    BY <1>1, <2>1 DEF OpenStage
<1>4. Moved(g, h, x, "done")
  BY <1>1 DEF Told
<1>5. Count(h)
  <2>1. ASSUME NEW v \in Turns
        PROVE  h.st[<<"turn", v>>] \in OpenStage <=> v # u /\ g.st[<<"turn", v>>] \in OpenStage
    <3>1. <<"turn", v>> \in Runs
      BY Kinds
    <3>2. CASE v = u
      <4>1. h.st[<<"turn", v>>] = "done"
        BY <1>4, <3>2 DEF Moved
      <4> QED
        BY <3>2, <4>1 DEF OpenStage
    <3>3. CASE v # u
      <4>1. <<"turn", v>> # x
        BY <1>1, <3>3
      <4>2. h.st[<<"turn", v>>] = g.st[<<"turn", v>>]
        BY <1>4, <3>1, <4>1 DEF Moved
      <4> QED
        BY <3>3, <4>2
    <3> QED
      BY <3>2, <3>3
  <2>2. Open(h) = Open(g) \ {u} /\ u \in Open(g)
    BY <1>1, <2>1 DEF Open, OpenStage
  <2>3. IsFiniteSet(Open(g))
    BY TurnsAssumption, FS_Subset DEF Open
  <2>4. Cardinality(Open(h)) = Cardinality(Open(g)) - 1 /\ Cardinality(Open(g)) \in Nat
    BY <2>2, <2>3, FS_RemoveElement, FS_CardinalityType
  <2>5. h.inFlight = g.inFlight - 1 /\ g.inFlight = Cardinality(Open(g)) /\ g.inFlight <= CHANNEL_INFLIGHT_MAX
    BY <1>2 DEF Count
  <2>6. h.inFlight <= CHANNEL_INFLIGHT_MAX
    BY <2>4, <2>5, BoundAssumption
  <2> QED
    BY <2>4, <2>5, <2>6 DEF Count
<1>6. GInv(h, NoOne)
  <2>1. Lines(h, NoOne) /\ Held(h, NoOne) /\ Fates(h, NoOne)
    <3> HIDE DEF x
    <3>1. x \in Sends => \A v \in Turns : x = Delivery(v) => g.st[<<"turn", v>>] = "done"
      BY <1>1
    <3> QED
      BY <1>1, <3>1, ToldPlace
  <2> QED
    BY <1>5, <2>1 DEF GInv
<1>7. h.st[Delivery(u)] = "idle" /\ h.st[x] = "done"
  BY <1>1, <1>3, <1>4 DEF Moved
<1> QED
  BY <1>1, <1>6, <1>7, InHand

\* A run in hand is answered; a turn's answer is sent.
LEMMA AnswerHolds ==
    ASSUME NEW g, NEW x \in Runs, GInv(g, x), x \notin Sends, x \in TurnRuns => g.st[x] \in OpenStage
    PROVE  GInv(Answer(g, x), NoOne) /\ Steady(g, Answer(g, x))
<1>0. Shape(g)
  BY DEF GInv
<1>1. CASE x \notin TurnRuns
  <2>1. GInv(Tell(g, x), NoOne)
    BY <1>1, TellHand
  <2>2. SameSlot(g, Tell(g, x)) /\ Moved(g, Tell(g, x), x, "done")
    BY <1>0, TellIs
  <2>3. Steady(g, Tell(g, x))
    BY <2>2, SteadyMove
  <2>4. x \notin {"turn"} \X Turns
    BY <1>1 DEF TurnRuns
  <2> QED
    BY <2>1, <2>3, <2>4 DEF Answer
<1>2. CASE x \in TurnRuns
  <2>1. PICK u \in Turns : x = <<"turn", u>>
    BY <1>2 DEF TurnRuns
  <2> DEFINE t == Tell(g, x)
             h == [t EXCEPT !.inFlight = @ - 1]
  <2>2. Shape(t) /\ Told(g, t, x) /\ t.inFlight = g.inFlight
    BY <1>0, TellIs DEF Told
  <2>3. Shape(h) /\ Told(g, h, x) /\ h.inFlight = g.inFlight - 1
    <3> HIDE DEF t
    <3> QED
      BY <2>2 DEF Shape, Fields, Told, SameLines, SameSlot, Moved
  <2>4. Answer(g, x) = Enqueue(h, Delivery(u))
    BY <2>1 DEF Answer
  <2> HIDE DEF t, h
  <2>5. GInv(h, Delivery(u)) /\ h.st[Delivery(u)] = "idle" /\ h.st[<<"turn", u>>] = "done"
    BY <1>2, <2>1, <2>3, TurnAnswered
  <2>6. GInv(Enqueue(h, Delivery(u)), NoOne) /\ Steady(h, Enqueue(h, Delivery(u)))
    BY <2>5, EnqueueHolds
  <2>7. Steady(g, h) /\ h.owner = g.owner
    BY <2>3, SteadyMove DEF Told, SameSlot
  <2> QED
    BY <2>4, <2>6, <2>7, SteadyAfter
<1> QED
  BY <1>1, <1>2

\* A human's run in hand waits for the slot, or takes it: it has not started.
Waiting(g, x) == x \in Humans /\ (x \in TurnRuns => g.st[x] \in {"reading", "queued"})

\* A human gets in line, or is told that it is full.
LEMMA JoinChatsHolds ==
    ASSUME NEW g, NEW x, GInv(g, x), Waiting(g, x)
    PROVE  GInv(JoinChats(g, x), NoOne) /\ Steady(g, JoinChats(g, x))
<1>1. Shape(g) /\ x \in Runs /\ x \in Humans /\ x \notin Sends /\ (x \in TurnRuns => g.st[x] \in OpenStage)
  BY Kinds DEF GInv, Waiting, OpenStage
<1>2. CASE g.latched \/ Len(g.chats) >= CHAT_WAITER_MAX
  BY <1>1, <1>2, AnswerHolds DEF JoinChats
<1>3. CASE ~(g.latched \/ Len(g.chats) >= CHAT_WAITER_MAX)
  <2> DEFINE h == [g EXCEPT !.chats = Append(@, x), !.st[x] = "queued"]
  <2>1. Len(g.chats) \in Nat
    BY EmptyQueue DEF GInv, Lines
  <2>2. Len(g.chats) < CHAT_WAITER_MAX
    BY <1>3, <2>1, BoundAssumption
  <2>3. Shape(h) /\ Joins(g, h, x, "queued")
    BY <1>1, <2>2 DEF Shape, Fields, Joins, SameSlot, SameCosts, Moved, Stages
  <2>4. JoinChats(g, x) = h
    BY <1>3 DEF JoinChats
  <2> HIDE DEF h
  <2>5. GInv(h, NoOne)
    BY <1>1, <2>3, JoinHand
  <2>6. Steady(g, h)
    BY <1>3, <2>3, SteadyMove DEF Joins
  <2> QED
    BY <2>4, <2>5, <2>6
<1> QED
  BY <1>2, <1>3

\* A human is given the slot, or answered without it.
LEMMA HumanStartsHolds ==
    ASSUME NEW g, NEW x, GInv(g, x), Waiting(g, x), Free(g), NEW h \in HumanStarts(g, x)
    PROVE  GInv(h, NoOne) /\ Steady(g, h)
<1>1. /\ x \in Runs /\ x \in Humans /\ x \notin Sends \cup Scheduled \cup {Wake}
      /\ x \in TurnRuns => g.st[x] \in OpenStage /\ g.st[x] # "idle"
  BY Kinds DEF Waiting, OpenStage
<1>2. CASE h = Answer(g, x)
  BY <1>1, <1>2, AnswerHolds
<1>3. CASE h = Launch(Take(g, x), x)
  BY <1>1, <1>3, StartHand
<1> QED
  BY <1>2, <1>3 DEF HumanStarts

-----------------------------------------------------------------------------
(* The wake round and the Loops                                            *)

\* The round's engine is through, and no process of it is left.
LEMMA WakeYieldsHolds ==
    ASSUME NEW g, GInv(g, NoOne), g.alive = {}, g.owner = Wake, ~g.latched
    PROVE  GInv(WakeYields(g), NoOne) /\ Steady(g, WakeYields(g)) /\ WakeYields(g).owner = NoOne
<1> DEFINE e == Release(g, Wake)
<1>1. Wake \in Runs /\ Wake \notin TurnRuns \cup Sends /\ Shape(g)
  BY Kinds DEF TurnRuns, Wake, GInv
<1>2. /\ Shape(e) /\ SameLines(g, e) /\ SameFates(g, e) /\ e.alive = {} /\ e.latched = g.latched
      /\ e.owner = NoOne
  BY <1>1, ReleaseIs
<1> HIDE DEF e
<1>3. GInv(e, Wake) /\ Free(e)
  BY <1>1, <1>2, LetGo
<1>4. Steady(g, e)
  BY <1>2, Kinds DEF Steady, SameFates, Queued
<1>5. CASE g.tries[Wake] >= WakeSteps
  <2>1. GInv(Tell(e, Wake), NoOne)
    BY <1>1, <1>3, TellHand
  <2>2. SameSlot(e, Tell(e, Wake)) /\ Moved(e, Tell(e, Wake), Wake, "done")
    BY <1>1, <1>2, TellIs
  <2>3. Steady(g, Tell(e, Wake))
    BY <1>2, <1>4, <2>2, SteadyMove, SteadyAfter
  <2>4. WakeYields(g) = Tell(e, Wake)
    BY <1>5 DEF WakeYields, e
  <2> QED
    BY <1>2, <2>1, <2>2, <2>3, <2>4 DEF SameSlot
<1>6. CASE ~(g.tries[Wake] >= WakeSteps)
  <2> DEFINE q == [g EXCEPT !.wakes = Append(@, Wake), !.st[Wake] = "queued"]
             h == Release(q, Wake)
  <2>1. /\ Shape(q) /\ q.wakes = Append(g.wakes, Wake) /\ Moved(g, q, Wake, "queued")
        /\ q.chats = g.chats /\ q.deliveries = g.deliveries /\ q.loops = g.loops /\ q.pending = g.pending
        /\ q.sending = g.sending /\ SameCosts(g, q) /\ SameSlot(g, q)
    BY <1>1 DEF Shape, Fields, Moved, SameCosts, SameSlot, Stages
  <2>2. WakeYields(g) = h
    BY <1>6 DEF WakeYields
  <2> HIDE DEF q
  <2>3. /\ Shape(h) /\ SameLines(q, h) /\ SameFates(q, h) /\ h.alive = {} /\ h.latched = g.latched
        /\ h.owner = NoOne
    BY <2>1, ReleaseIs DEF SameSlot
  <2> HIDE DEF h
  <2>4. SameSlot(e, h) /\ SameCosts(e, h) /\ h.sending = e.sending
    BY <1>2, <2>1, <2>3 DEF SameSlot, SameCosts, SameLines, SameFates
  <2>5. Moved(e, h, Wake, "queued")
    BY <1>2, <2>1, <2>3 DEF Moved, SameFates
  <2>6. h.wakes = Append(e.wakes, Wake) /\ h.chats = e.chats /\ h.deliveries = e.deliveries
        /\ h.loops = e.loops /\ h.pending = e.pending
    BY <1>2, <2>1, <2>3 DEF SameLines
  <2>7. Joins(e, h, Wake, "queued")
    BY <2>4, <2>5, <2>6 DEF Joins
  <2>8. GInv(h, NoOne)
    BY <1>1, <1>3, <2>3, <2>7, JoinHand
  <2>9. Steady(g, h)
    <3>1. \A r \in Runs : h.st[r] = "idle" => g.st[r] = "idle"
      BY <2>1, <2>3 DEF Moved, SameFates
    <3> QED
      BY <2>3, <3>1, Kinds DEF Steady
  <2> QED
    BY <2>2, <2>3, <2>8, <2>9
<1> QED
  BY <1>5, <1>6

\* The wake round is given the slot.
LEMMA WakeStartsHolds ==
    ASSUME NEW g, GInv(g, Wake), Free(g), g.chats = <<>>, NEW h \in WakeStarts(g)
    PROVE  GInv(h, NoOne) /\ Steady(g, h)
<1> DEFINE k == Take(g, Wake)
<1>1. Wake \in Runs /\ Wake \notin TurnRuns \cup Sends /\ Shape(g) /\ ~g.latched /\ g.owner = NoOne
  BY Kinds DEF TurnRuns, Wake, GInv, Free
<1>2. /\ Shape(k) /\ SameLines(g, k) /\ k.owner = Wake /\ k.latched = g.latched /\ k.alive = g.alive
      /\ Moved(g, k, Wake, "running") /\ k.tries = g.tries /\ k.answers = g.answers
      /\ k.inFlight = g.inFlight
  BY <1>1, TakeIs
<1>3. GInv(k, NoOne) /\ k.alive = {}
  BY <1>1, TakeHand
<1>4. CASE h = Release([k EXCEPT !.st[Wake] = "done"], Wake)
  <2> DEFINE q == [k EXCEPT !.st[Wake] = "done"]
  <2> HIDE DEF k
  <2>1. /\ Shape(q) /\ SameLines(k, q) /\ q.owner = k.owner /\ q.latched = k.latched /\ q.alive = k.alive
        /\ Moved(k, q, Wake, "done") /\ q.tries = k.tries /\ q.answers = k.answers /\ q.inFlight = k.inFlight
    BY <1>1, <1>2 DEF Shape, Fields, SameLines, Moved, Stages
  <2>a. h = Release(q, Wake)
    BY <1>4
  <2> HIDE DEF q
  <2>2. /\ Shape(h) /\ SameLines(q, h) /\ SameFates(q, h) /\ h.alive = q.alive /\ h.latched = q.latched
        /\ h.owner = NoOne
    BY <1>1, <1>2, <2>1, <2>a, ReleaseIs
  <2>3. SameLines(g, h) /\ SameSlot(g, h) /\ h.inFlight = g.inFlight /\ h.answers = g.answers
        /\ h.tries = g.tries
    BY <1>1, <1>2, <2>1, <2>2 DEF SameLines, SameSlot, SameFates
  <2>4. Moved(g, h, Wake, "done")
    BY <1>2, <2>1, <2>2 DEF Moved, SameFates
  <2>5. GInv(h, NoOne)
    BY <1>1, <2>2, <2>3, <2>4, RestHand
  <2>6. Steady(g, h)
    BY <2>3, <2>4, SteadyMove
  <2> QED
    BY <2>5, <2>6
<1>5. CASE h = WakeYields([k EXCEPT !.tries[Wake] = @ + 1])
  <2> DEFINE q == [k EXCEPT !.tries[Wake] = @ + 1]
  <2> HIDE DEF k
  <2>1. /\ Shape(q) /\ SameLines(k, q) /\ SameSlot(k, q) /\ q.st = k.st /\ q.answers = k.answers
        /\ q.inFlight = k.inFlight /\ q.tries[Board] = k.tries[Board]
    BY <1>1, <1>2, Kinds DEF Shape, Fields, SameLines, SameSlot
  <2> HIDE DEF q
  <2>2. GInv(q, NoOne)
    <3>1. Lines(q, NoOne)
      <4>1. Line(q) = Line(k)
        BY <2>1 DEF SameLines, Line
      <4> QED
        BY <1>3, <2>1, <4>1 DEF GInv, Lines, SameLines
    <3>2. Held(q, NoOne)
      BY <1>3, <2>1 DEF GInv, Held, SameSlot, SameLines
    <3>3. Fates(q, NoOne) /\ Count(q)
      BY <1>3, <2>1 DEF GInv, Fates, Count, Open
    <3> QED
      BY <2>1, <3>1, <3>2, <3>3 DEF GInv
  <2>3. q.alive = {} /\ q.owner = Wake /\ ~q.latched
    BY <1>1, <1>2, <1>3, <2>1 DEF SameSlot
  <2>5. GInv(WakeYields(q), NoOne) /\ Steady(q, WakeYields(q)) /\ WakeYields(q).owner = NoOne
    BY <2>1, <2>2, <2>3, WakeYieldsHolds
  <2>6. Steady(g, WakeYields(q))
    <3>1. \A r \in Runs : q.st[r] = "idle" => g.st[r] = "idle"
      BY <1>2, <2>1 DEF Moved
    <3>2. q.latched = g.latched
      BY <1>2, <2>1 DEF SameSlot
    <3> QED
      BY <1>1, <2>5, <3>1, <3>2, Kinds DEF Steady
  <2> QED
    BY <1>5, <2>5, <2>6 DEF q
<1>6. CASE h = Launch(k, Wake)
  <2>1. GInv(Launch(Take(g, Wake), Wake), NoOne) /\ Steady(g, Launch(Take(g, Wake), Wake))
    BY <1>1, StartHand
  <2> QED
    BY <1>6, <2>1
<1> QED
  BY <1>4, <1>5, <1>6 DEF WakeStarts

\* A Loop in hand is given the slot, past a human only when it was not in line.
LEMMA LoopStartsHolds ==
    ASSUME NEW g, NEW x \in Scheduled, GInv(g, x), Free(g), NEW h \in LoopStarts(g, x)
    PROVE  GInv(h, NoOne) /\ (g.chats = <<>> => Steady(g, h))
           /\ h.latched = g.latched /\ h.owner \in {NoOne, x}
<1> DEFINE k == Take(g, x)
<1>1. x \in Runs /\ x \notin TurnRuns \cup Sends /\ Shape(g) /\ ~g.latched /\ g.owner = NoOne
  BY Kinds DEF TurnRuns, Scheduled, GInv, Free
<1>2. /\ Shape(k) /\ SameLines(g, k) /\ k.owner = x /\ k.latched = g.latched /\ k.alive = g.alive
      /\ Moved(g, k, x, "running") /\ k.tries = g.tries /\ k.answers = g.answers
      /\ k.inFlight = g.inFlight
  BY <1>1, TakeIs
<1>3. GInv(k, NoOne) /\ k.alive = {}
  BY <1>1, TakeHand
<1>4. CASE h = Release(Tell(k, x), x)
  <2> DEFINE q == Tell(k, x)
  <2> HIDE DEF k
  <2>1. /\ Shape(q) /\ SameLines(k, q) /\ SameSlot(k, q) /\ q.inFlight = k.inFlight
        /\ Moved(k, q, x, "done") /\ q.tries[x] = 0 /\ q.answers[x] = k.answers[x] + 1
        /\ \A r \in Runs : r # x => q.tries[r] = k.tries[r] /\ q.answers[r] = k.answers[r]
    BY <1>1, <1>2, TellIs
  <2> HIDE DEF q
  <2>2. /\ Shape(h) /\ SameLines(q, h) /\ SameFates(q, h) /\ h.alive = q.alive /\ h.latched = q.latched
        /\ h.owner = NoOne
    BY <1>1, <1>2, <1>4, <2>1, ReleaseIs DEF q, SameSlot
  <2>3. SameLines(g, h) /\ SameSlot(g, h) /\ h.inFlight = g.inFlight
    BY <1>1, <1>2, <2>1, <2>2 DEF SameLines, SameSlot, SameFates
  <2>4. Moved(g, h, x, "done")
    BY <1>2, <2>1, <2>2 DEF Moved, SameFates
  <2>5. Told(g, h, x)
    BY <1>2, <2>1, <2>2, <2>3, <2>4 DEF Told, SameFates
  <2>6. GInv(h, NoOne)
    BY <1>1, <2>2, <2>3, <2>5, ToldHand
  <2>7. Steady(g, h)
    BY <2>3, <2>4, SteadyMove
  <2> QED
    BY <2>2, <2>3, <2>6, <2>7 DEF SameSlot
<1>5. CASE h = Release([k EXCEPT !.st[x] = "gated"], x)
  <2> DEFINE q == [k EXCEPT !.st[x] = "gated"]
  <2> HIDE DEF k
  <2>1. /\ Shape(q) /\ SameLines(k, q) /\ q.owner = k.owner /\ q.latched = k.latched /\ q.alive = k.alive
        /\ Moved(k, q, x, "gated") /\ q.tries = k.tries /\ q.answers = k.answers /\ q.inFlight = k.inFlight
    BY <1>1, <1>2 DEF Shape, Fields, SameLines, Moved, Stages
  <2>a. h = Release(q, x)
    BY <1>5
  <2> HIDE DEF q
  <2>2. /\ Shape(h) /\ SameLines(q, h) /\ SameFates(q, h) /\ h.alive = q.alive /\ h.latched = q.latched
        /\ h.owner = NoOne
    BY <1>1, <1>2, <2>1, <2>a, ReleaseIs
  <2>3. SameLines(g, h) /\ SameSlot(g, h) /\ h.inFlight = g.inFlight /\ h.answers = g.answers
        /\ h.tries = g.tries
    BY <1>1, <1>2, <2>1, <2>2 DEF SameLines, SameSlot, SameFates
  <2>4. Moved(g, h, x, "gated")
    BY <1>2, <2>1, <2>2 DEF Moved, SameFates
  <2>5. GInv(h, NoOne)
    BY <1>1, <2>2, <2>3, <2>4, RestHand
  <2>6. Steady(g, h)
    BY <2>3, <2>4, SteadyMove
  <2> QED
    BY <2>2, <2>3, <2>5, <2>6 DEF SameSlot
<1>6. CASE h = Launch(k, x)
  <2>1. GInv(Launch(k, x), NoOne)
    BY <1>2, <1>3, LaunchHeld, <1>1 DEF Moved, Active
  <2>2. /\ h.owner = x /\ h.latched = g.latched /\ h.chats = g.chats
        /\ \A r \in Runs : h.st[r] = "idle" => g.st[r] = "idle"
    <3> HIDE DEF k
    <3>1. SameLines(k, h) /\ h.owner = k.owner /\ h.latched = k.latched /\ Moved(k, h, x, "running")
      BY <1>1, <1>2, <1>6, LaunchIs
    <3>2. \A r \in Runs : h.st[r] = "idle" => g.st[r] = "idle"
      BY <1>2, <3>1 DEF Moved
    <3> QED
      BY <1>2, <3>1, <3>2 DEF SameLines
  <2>3. g.chats = <<>> => Steady(g, h)
    BY <1>1, <2>2 DEF Steady
  <2> QED
    BY <1>6, <2>1, <2>2, <2>3
<1> QED
  BY <1>4, <1>5, <1>6 DEF LoopStarts

\* Loops that were deleted or parked drop out of line, told or not.
LEMMA LoopsDropped ==
    ASSUME NEW g, GInv(g, NoOne), NEW n \in 0..Len(g.loops)
    PROVE  LET h == TellAll([g EXCEPT !.loops = SubSeq(@, n + 1, Len(@))], ToSet(SubSeq(g.loops, 1, n)))
           IN  /\ GInv(h, NoOne) /\ SameSlot(g, h) /\ Queued(h) \subseteq Queued(g) /\ h.chats = g.chats
               /\ \A r \in Runs : h.st[r] = "idle" => g.st[r] = "idle"
<1> DEFINE told == ToSet(SubSeq(g.loops, 1, n))
           q == [g EXCEPT !.loops = SubSeq(@, n + 1, Len(@))]
           h == TellAll(q, told)
<1>1. Shape(g) /\ Lines(g, NoOne) /\ Held(g, NoOne) /\ Fates(g, NoOne) /\ Count(g)
  BY DEF GInv
<1>2. /\ Queue(SubSeq(g.loops, n + 1, Len(g.loops)), Scheduled) /\ told \subseteq ToSet(g.loops)
      /\ ToSet(SubSeq(g.loops, n + 1, Len(g.loops))) = ToSet(g.loops) \ told
  BY <1>1, SplitQueue DEF Lines
<1>3. /\ Shape(q) /\ SameSlot(g, q) /\ SameFates(g, q) /\ q.sending = g.sending
      /\ q.chats = g.chats /\ q.deliveries = g.deliveries /\ q.wakes = g.wakes /\ q.pending = g.pending
      /\ q.loops = SubSeq(g.loops, n + 1, Len(g.loops))
  BY <1>1 DEF Shape, Fields, SameSlot, SameFates
<1> HIDE DEF told, q
<1>4. /\ Shape(h) /\ SameLines(q, h) /\ SameSlot(q, h) /\ h.inFlight = q.inFlight
      /\ \A r \in Runs : /\ h.st[r] = IF r \in told THEN "done" ELSE q.st[r]
                         /\ h.tries[r] = IF r \in told THEN 0 ELSE q.tries[r]
                         /\ h.answers[r] = IF r \in told THEN q.answers[r] + 1 ELSE q.answers[r]
  BY <1>3, TellAllIs
<1> HIDE DEF h
<1>5. /\ h.chats = g.chats /\ h.deliveries = g.deliveries /\ h.wakes = g.wakes /\ h.pending = g.pending
      /\ Queue(h.loops, Scheduled) /\ ToSet(h.loops) = ToSet(g.loops) \ told /\ h.sending = g.sending
      /\ SameSlot(g, h) /\ h.inFlight = g.inFlight
  BY <1>2, <1>3, <1>4 DEF SameLines, SameSlot, SameFates
<1>6. \A r \in Runs : /\ h.st[r] = IF r \in told THEN "done" ELSE g.st[r]
                      /\ h.tries[r] = IF r \in told THEN 0 ELSE g.tries[r]
                      /\ h.answers[r] = IF r \in told THEN g.answers[r] + 1 ELSE g.answers[r]
  BY <1>3, <1>4 DEF SameFates
<1>7. /\ told \subseteq Scheduled /\ told \subseteq Runs
      /\ \A r \in told : g.st[r] \in {"queued", "approved"}
  BY <1>1, <1>2, Kinds, EmptyQueue DEF Lines, Line
<1>8. Line(h) = Line(g) \ told
  BY <1>1, <1>5, <1>7, Kinds, EmptyQueue DEF Line, Lines
<1>9. Lines(h, NoOne)
  <2>1. h.sending # NoOne => h.st[h.sending] # "idle"
    <3>1. g.sending # NoOne => g.sending \in Runs /\ g.st[g.sending] # "idle"
      BY <1>1, Kinds DEF Lines, Shape
    <3>2. g.sending # NoOne => h.st[g.sending] # "idle"
      BY <1>6, <3>1
    <3> QED
      BY <1>5, <3>2
  <2>2. \A r \in Runs : r \in Line(h) <=> h.st[r] \in {"queued", "approved"}
    BY <1>1, <1>6, <1>8, Kinds DEF Lines
  <2> QED
    BY <1>1, <1>5, <1>8, <2>1, <2>2 DEF Lines
<1>10. Held(h, NoOne)
  <2>1. h.owner = g.owner /\ h.latched = g.latched /\ h.alive = g.alive /\ h.sending = g.sending
    BY <1>5 DEF SameSlot
  <2>2. g.owner # NoOne => h.st[g.owner] = g.st[g.owner]
    BY <1>1, <1>6, <1>7 DEF Held, Shape, Active
  <2>3. \A r \in Runs : h.st[r] \in Active => g.st[r] \in Active
    BY <1>6 DEF Active
  <2>4. Board \notin told /\ Board \in Runs
    BY <1>7, Kinds
  <2>5. h.st[Board] = g.st[Board] /\ h.tries[Board] = g.tries[Board]
    BY <1>6, <2>4
  <2> QED
    BY <1>1, <2>1, <2>2, <2>3, <2>5, Kinds DEF Held
<1>11. Fates(h, NoOne)
  <2>1. ASSUME NEW r \in Runs PROVE h.answers[r] <= 1 /\ (h.answers[r] = 1 => h.st[r] = "done")
    <3>1. CASE r \in told
      <4>1. g.st[r] # "done" /\ h.answers[r] = g.answers[r] + 1 /\ h.st[r] = "done"
        BY <1>6, <1>7, <3>1
      <4>2. g.answers[r] \in Nat /\ g.answers[r] <= 1 /\ g.answers[r] # 1
        BY <1>1, <4>1 DEF Shape, Fates
      <4> QED
        BY <4>1, <4>2
    <3>2. CASE r \notin told
      <4>1. h.st[r] = g.st[r] /\ h.answers[r] = g.answers[r]
        BY <1>6, <3>2
      <4> QED
        BY <1>1, <4>1 DEF Fates
    <3> QED
      BY <3>1, <3>2
  <2>2. ASSUME NEW u \in Turns
        PROVE  h.st[Delivery(u)] = g.st[Delivery(u)] /\ h.st[<<"turn", u>>] = g.st[<<"turn", u>>]
    BY <1>6, <1>7, Kinds
  <2> QED
    BY <1>1, <2>1, <2>2, Kinds DEF Fates
<1>12. Count(h)
  <2>1. ASSUME NEW u \in Turns PROVE h.st[<<"turn", u>>] = g.st[<<"turn", u>>]
    BY <1>6, <1>7, Kinds
  <2>2. Open(h) = Open(g)
    BY <2>1 DEF Open
  <2> QED
    BY <1>1, <1>5, <2>2 DEF Count
<1>13. Queued(h) \subseteq Queued(g)
  BY <1>6 DEF Queued
<1>14. GInv(h, NoOne)
  BY <1>4, <1>9, <1>10, <1>11, <1>12 DEF GInv
<1>15. \A r \in Runs : h.st[r] = "idle" => g.st[r] = "idle"
  BY <1>6
<1> QED
  BY <1>5, <1>13, <1>14, <1>15 DEF h, q, told

\* drainCronQueue: the next Loop that is still there is started.
LEMMA LoopsDrainedHolds ==
    ASSUME NEW g, GInv(g, NoOne), Free(g), g.chats = <<>>, NEW k \in LoopsDrained(g)
    PROVE  GInv(k, NoOne) /\ Steady(g, k)
<1>1. PICK n \in 0..Len(g.loops) :
        LET h == TellAll([g EXCEPT !.loops = SubSeq(@, n + 1, Len(@))], ToSet(SubSeq(g.loops, 1, n)))
        IN  k \in IF h.loops = <<>> THEN {h} ELSE LoopStarts([h EXCEPT !.loops = Tail(@)], Head(h.loops))
  BY DEF LoopsDrained
<1> DEFINE h == TellAll([g EXCEPT !.loops = SubSeq(@, n + 1, Len(@))], ToSet(SubSeq(g.loops, 1, n)))
<1>2. k \in IF h.loops = <<>> THEN {h} ELSE LoopStarts([h EXCEPT !.loops = Tail(@)], Head(h.loops))
  BY <1>1
<1>3. /\ GInv(h, NoOne) /\ SameSlot(g, h) /\ Queued(h) \subseteq Queued(g) /\ h.chats = g.chats
      /\ \A r \in Runs : h.st[r] = "idle" => g.st[r] = "idle"
  BY LoopsDropped
<1> HIDE DEF h
<1>4. Steady(g, h) /\ Free(h) /\ h.chats = <<>> /\ h.owner = g.owner
  BY <1>3 DEF Steady, SameSlot, Free
<1>5. CASE h.loops = <<>>
  BY <1>2, <1>3, <1>4, <1>5
<1>6. CASE h.loops # <<>>
  <2> DEFINE x == Head(h.loops)
             q == [h EXCEPT !.loops = Tail(@)]
  <2>1. Shape(q) /\ Leaves(h, q, x)
    BY <1>3, <1>6 DEF GInv, Shape, Fields, Leaves, SameSlot, SameFates
  <2>2. k \in LoopStarts(q, x)
    BY <1>2, <1>6
  <2>3. x \in Scheduled
    BY <1>3, <1>6, TailQueue DEF GInv, Lines
  <2> HIDE DEF x, q
  <2>4. GInv(q, x)
    BY <1>3, <2>1, LeaveLine
  <2>5. q.owner = h.owner /\ q.latched = h.latched /\ q.alive = h.alive /\ q.chats = h.chats /\ q.st = h.st
    BY <1>4, <2>1, <2>3, Kinds DEF Leaves, SameSlot, SameFates
  <2>6. Free(q) /\ Steady(h, q)
    BY <1>4, <2>5 DEF Free, Steady, Queued
  <2>7. GInv(k, NoOne) /\ Steady(q, k)
    BY <1>4, <2>2, <2>3, <2>4, <2>5, <2>6, LoopStartsHolds
  <2>8. Steady(h, k)
    BY <2>5, <2>6, <2>7, SteadyAfter
  <2> QED
    BY <1>4, <2>7, <2>8, SteadyAfter
<1> QED
  BY <1>5, <1>6

\* dispatchAgentSlot: whoever is first in line, humans before the others.
LEMMA DispatchedHolds ==
    ASSUME NEW g, GInv(g, NoOne), NEW k \in Dispatched(g)
    PROVE  GInv(k, NoOne) /\ Steady(g, k)
<1>0. Shape(g) /\ Lines(g, NoOne) /\ Fates(g, NoOne)
  BY DEF GInv
<1>1. CASE ~Free(g)
  BY <1>1 DEF Dispatched, Steady
<1>2. CASE Free(g) /\ g.chats # <<>>
  <2> DEFINE x == Head(g.chats)
             q == [g EXCEPT !.chats = Tail(@)]
  <2>1. Shape(q) /\ Leaves(g, q, x)
    BY <1>0, <1>2 DEF Shape, Fields, Leaves, SameSlot, SameFates
  <2>2. k \in HumanStarts(q, x)
    BY <1>2 DEF Dispatched
  <2>3. x \in Humans
    BY <1>0, <1>2, TailQueue DEF Lines
  <2> HIDE DEF x, q
  <2>4. GInv(q, x) /\ q.st[x] \in {"queued", "approved"}
    BY <2>1, LeaveLine
  <2>5. q.owner = g.owner /\ q.latched = g.latched /\ q.alive = g.alive /\ q.st = g.st
    BY <2>1 DEF Leaves, SameSlot, SameFates
  <2>6. Free(q) /\ Steady(g, q)
    BY <1>2, <2>5, Kinds DEF Free, Steady, Queued
  <2>7. Waiting(q, x)
    <3>1. ASSUME x \in TurnRuns PROVE q.st[x] # "approved"
      <4>1. PICK u \in Turns : x = <<"turn", u>>
        BY <3>1 DEF TurnRuns
      <4>2. q.st[<<"turn", u>>] \notin {"approved", "gated", "cancelled"}
        BY <2>4 DEF GInv, Fates
      <4> QED
        BY <4>1, <4>2
    <3> QED
      BY <2>3, <2>4, <3>1 DEF Waiting
  <2>8. GInv(k, NoOne) /\ Steady(q, k)
    BY <2>2, <2>4, <2>6, <2>7, HumanStartsHolds
  <2> QED
    BY <2>5, <2>6, <2>8, SteadyAfter
<1>3. CASE Free(g) /\ g.chats = <<>> /\ g.deliveries # <<>>
  <2> DEFINE x == Head(g.deliveries)
             q == [g EXCEPT !.deliveries = Tail(@)]
  <2>1. Shape(q) /\ Leaves(g, q, x)
    BY <1>0, <1>3 DEF Shape, Fields, Leaves, SameSlot, SameFates
  <2>2. k = Deliver(q, x)
    BY <1>3 DEF Dispatched
  <2>3. x \in Sends /\ x = g.sending
    BY <1>0, <1>3, TailQueue DEF Lines
  <2> HIDE DEF x, q
  <2>4. GInv(q, x) /\ q.st[x] \in {"queued", "approved"}
    BY <2>1, LeaveLine
  <2>5. q.owner = g.owner /\ q.latched = g.latched /\ q.alive = g.alive /\ q.st = g.st
        /\ q.sending = g.sending
    BY <2>1 DEF Leaves, SameSlot, SameFates
  <2>6. Steady(g, q)
    BY <2>5 DEF Steady, Queued
  <2>7. GInv(k, NoOne) /\ Steady(q, k)
    BY <2>2, <2>3, <2>4, <2>5, DeliverHolds
  <2> QED
    BY <2>5, <2>6, <2>7, SteadyAfter
<1>4. CASE Free(g) /\ g.chats = <<>> /\ g.deliveries = <<>> /\ g.wakes # <<>>
  <2> DEFINE x == Head(g.wakes)
             q == [g EXCEPT !.wakes = Tail(@)]
  <2>1. Shape(q) /\ Leaves(g, q, x) /\ q.chats = <<>>
    BY <1>0, <1>4 DEF Shape, Fields, Leaves, SameSlot, SameFates
  <2>2. k \in WakeStarts(q)
    BY <1>4 DEF Dispatched
  <2>3. x = Wake
    <3>1. x \in ToSet(g.wakes)
      BY <1>0, <1>4, TailQueue DEF Lines
    <3>2. ToSet(g.wakes) \subseteq {Wake}
      BY <1>0, EmptyQueue DEF Lines
    <3> QED
      BY <3>1, <3>2
  <2> HIDE DEF x, q
  <2>4. GInv(q, x)
    BY <2>1, LeaveLine
  <2>5. q.owner = g.owner /\ q.latched = g.latched /\ q.alive = g.alive /\ q.st = g.st
    BY <2>1 DEF Leaves, SameSlot, SameFates
  <2>6. Free(q) /\ Steady(g, q)
    BY <1>4, <2>5, Kinds DEF Free, Steady, Queued
  <2>7. GInv(k, NoOne) /\ Steady(q, k)
    BY <2>1, <2>2, <2>3, <2>4, <2>6, WakeStartsHolds
  <2> QED
    BY <2>5, <2>6, <2>7, SteadyAfter
<1>5. CASE Free(g) /\ g.chats = <<>> /\ g.deliveries = <<>> /\ g.wakes = <<>>
  <2>1. k \in LoopsDrained(g)
    BY <1>5 DEF Dispatched
  <2> QED
    BY <1>5, <2>1, LoopsDrainedHolds
<1> QED
  BY <1>1, <1>2, <1>3, <1>4, <1>5

-----------------------------------------------------------------------------
(* The quarantine                                                          *)

\* Everyone in line is told, and the holder unless it is a delivery.
LEMMA QuarantineHolds ==
    ASSUME NEW g, GInv(g, NoOne), ~g.latched
    PROVE  LET h == Quarantine(g) IN
           /\ GInv(h, NoOne) /\ h.latched /\ h.owner = g.owner /\ h.alive = g.alive /\ Queued(h) = {}
           /\ h.sending = g.sending
           /\ \A d \in Sends : g.st[d] \in Active => h.st[d] = g.st[d]
<1> DEFINE line == ToSet(g.pending) \cup ToSet(g.chats) \cup ToSet(g.wakes)
                   \cup ToSet(g.deliveries) \cup ToSet(g.loops)
           held == {g.owner} \ (Sends \cup {NoOne})
           turns == {u \in Turns : <<"turn", u>> \in line \cup held}
           told == line \cup held \cup {Delivery(u) : u \in turns}
           q == [g EXCEPT !.latched = TRUE, !.inFlight = @ - Cardinality(turns),
                          !.pending = <<>>, !.chats = <<>>, !.wakes = <<>>,
                          !.deliveries = <<>>, !.loops = <<>>]
           h == TellAll(q, told)
<1>1. Shape(g) /\ Lines(g, NoOne) /\ Held(g, NoOne) /\ Fates(g, NoOne) /\ Count(g)
  BY DEF GInv
<1>2. Quarantine(g) = h
  BY DEF Quarantine
<1>3. line = Line(g)
  BY DEF Line
<1>4. /\ Shape(q) /\ q.latched /\ q.owner = g.owner /\ q.alive = g.alive /\ q.sending = g.sending
      /\ q.inFlight = g.inFlight - Cardinality(turns)
      /\ q.st = g.st /\ q.answers = g.answers /\ q.tries = g.tries
      /\ q.pending = <<>> /\ q.chats = <<>> /\ q.wakes = <<>> /\ q.deliveries = <<>> /\ q.loops = <<>>
  <2> HIDE DEF turns
  <2> QED
    BY <1>1 DEF Shape, Fields
<1> HIDE DEF q
<1>5. /\ Shape(h) /\ SameLines(q, h) /\ SameSlot(q, h) /\ h.inFlight = q.inFlight
      /\ \A r \in Runs : /\ h.st[r] = IF r \in told THEN "done" ELSE q.st[r]
                         /\ h.tries[r] = IF r \in told THEN 0 ELSE q.tries[r]
                         /\ h.answers[r] = IF r \in told THEN q.answers[r] + 1 ELSE q.answers[r]
  <2> HIDE DEF told
  <2> QED
    BY <1>4, TellAllIs
<1>6. /\ h.pending = <<>> /\ h.chats = <<>> /\ h.wakes = <<>> /\ h.deliveries = <<>> /\ h.loops = <<>>
      /\ h.latched /\ h.owner = g.owner /\ h.alive = g.alive /\ h.sending = g.sending
      /\ h.inFlight = g.inFlight - Cardinality(turns)
  <2> HIDE DEF turns, told, h
  <2> QED
    BY <1>4, <1>5 DEF SameLines, SameSlot
<1>7. \A r \in Runs : /\ h.st[r] = IF r \in told THEN "done" ELSE g.st[r]
                      /\ h.tries[r] = IF r \in told THEN 0 ELSE g.tries[r]
                      /\ h.answers[r] = IF r \in told THEN g.answers[r] + 1 ELSE g.answers[r]
  <2> HIDE DEF turns, told, h
  <2> QED
    BY <1>4, <1>5
<1>8. \A r \in line : r \in Runs /\ g.st[r] \in {"queued", "approved"}
  <2>1. Line(g) \subseteq Runs
    BY <1>1, Kinds, EmptyQueue DEF Lines, Line
  <2> HIDE DEF line
  <2> QED
    BY <1>1, <1>3, <2>1, Kinds DEF Lines
<1>9. \A r \in held : r \in Runs /\ r = g.owner /\ g.st[r] \in Active /\ r \notin Sends
  BY <1>1 DEF Shape, Held
<1> HIDE DEF line, held
<1>10. ASSUME NEW u \in turns
       PROVE  /\ g.st[<<"turn", u>>] \in OpenStage /\ <<"turn", u>> \in told /\ u \in Turns
              /\ g.st[Delivery(u)] = "idle" /\ Delivery(u) \in told
  <2>1. u \in Turns /\ <<"turn", u>> \in line \cup held /\ <<"turn", u>> \in Runs
    BY <1>8, <1>9
  <2>2. g.st[<<"turn", u>>] \in {"queued", "approved"} \cup Active
    BY <1>8, <1>9, <2>1
  <2>3. g.st[<<"turn", u>>] \notin {"approved", "gated", "cancelled"}
    BY <1>1, <2>1 DEF Fates
  <2>4. g.st[<<"turn", u>>] \in OpenStage
    BY <2>2, <2>3 DEF Active, OpenStage
  <2>5. g.st[Delivery(u)] = "idle"
    BY <1>1, <2>1, <2>4 DEF Fates, OpenStage
  <2>6. Delivery(u) \in told /\ <<"turn", u>> \in told
    BY <2>1
  <2> QED
    BY <2>1, <2>4, <2>5, <2>6
<1>11. ASSUME NEW r \in told
       PROVE  /\ r \in Runs /\ g.st[r] \in {"queued", "approved", "idle"} \cup Active
              /\ r \in Sends => g.st[r] \notin Active
  <2>1. CASE r \in line
    BY <1>8, <2>1 DEF Active
  <2>2. CASE r \in held
    BY <1>9, <2>2
  <2>3. CASE r \in {Delivery(u) : u \in turns}
    <3>1. PICK u \in turns : r = Delivery(u)
      BY <2>3
    <3>2. Delivery(u) \in Runs
      BY <1>10, <3>1, Kinds
    <3> HIDE DEF turns
    <3> QED
      BY <1>10, <3>1, <3>2 DEF Active
  <2> QED
    BY <2>1, <2>2, <2>3
<1>12. ASSUME NEW r \in Runs, r \notin told
       PROVE  r \notin line /\ r \notin held /\ h.st[r] = g.st[r] /\ h.answers[r] = g.answers[r]
  <2>1. r \notin line /\ r \notin held
    BY <1>12
  <2> HIDE DEF told, h
  <2> QED
    BY <1>7, <1>12, <2>1
<1>13. ASSUME NEW r \in told
       PROVE  h.st[r] = "done" /\ h.answers[r] = 1
  <2> HIDE DEF told, h, turns
  <2>1. r \in Runs /\ g.st[r] # "done"
    BY <1>11 DEF Active
  <2>2. g.answers[r] \in Nat /\ g.answers[r] <= 1 /\ g.answers[r] # 1
    BY <1>1, <2>1 DEF Shape, Fates
  <2>3. h.answers[r] = g.answers[r] + 1 /\ h.st[r] = "done"
    BY <1>7, <1>13, <2>1
  <2> QED
    BY <2>2, <2>3
<1>14. ASSUME NEW u \in Turns PROVE <<"turn", u>> \in told <=> u \in turns
  <2>1. <<"turn", u>> \notin Sends /\ \A v \in turns : v \in Turns /\ Delivery(v) \in Sends
    BY Kinds
  <2>2. <<"turn", u>> \notin {Delivery(v) : v \in turns}
    <3> HIDE DEF turns
    <3> QED
      BY <2>1
  <2>3. u \in turns <=> <<"turn", u>> \in line \cup held
    OBVIOUS
  <2> HIDE DEF turns
  <2> QED
    BY <2>2, <2>3
<1>a. turns \subseteq Turns
  OBVIOUS
<1>b. \A r : r \in held <=> r = g.owner /\ r \notin Sends /\ r # NoOne
  BY DEF held
<1>c. \A r \in Runs : r \in line <=> g.st[r] \in {"queued", "approved"}
  BY <1>1, <1>3, Kinds DEF Lines
<1> HIDE DEF told, h, turns
<1>15. \A d \in Sends : g.st[d] \in Active => h.st[d] = g.st[d]
  BY <1>11, <1>12, Kinds
<1>16. \A r \in Runs : h.st[r] \notin {"queued", "approved"}
  <2> SUFFICES ASSUME NEW r \in Runs PROVE h.st[r] \notin {"queued", "approved"}
    OBVIOUS
  <2>1. CASE r \in told
    BY <1>13, <2>1
  <2>2. CASE r \notin told
    BY <1>12, <1>c, <2>2
  <2> QED
    BY <2>1, <2>2
<1>17. Lines(h, NoOne)
  <2>1. h.sending # NoOne => h.st[h.sending] # "idle"
    <3>1. g.sending # NoOne => g.sending \in Runs /\ g.st[g.sending] # "idle"
      BY <1>1, Kinds DEF Lines, Shape
    <3>2. g.sending # NoOne => h.st[g.sending] # "idle"
      BY <1>7, <3>1
    <3> QED
      BY <1>6, <3>2
  <2>2. Line(h) = {}
    BY <1>6, EmptyQueue DEF Line
  <2>3. 0 <= CHAT_WAITER_MAX
    BY BoundAssumption
  <2> QED
    BY <1>6, <1>16, <2>1, <2>2, <2>3, EmptyQueue DEF Lines
<1>18. Held(h, NoOne)
  <2>1. g.owner # NoOne => h.st[g.owner] \in Active \cup {"done"}
    <3>1. g.owner # NoOne => g.owner \in Runs /\ g.st[g.owner] \in Active \cup {"done"}
      BY <1>1 DEF Held, Shape
    <3> QED
      BY <1>7, <3>1
  <2>2. ASSUME NEW r \in Runs, h.st[r] \in Active PROVE g.owner = r /\ r \in Sends /\ r = g.sending
    <3>1. r \notin told
      BY <1>13, <2>2 DEF Active
    <3>2. g.st[r] \in Active
      BY <1>12, <2>2, <3>1
    <3>3. g.owner = r /\ (r \in Sends => r = g.sending) /\ r # NoOne
      BY <1>1, <3>2, Kinds DEF Held
    <3>4. r \in Sends
      BY <1>12, <1>b, <3>1, <3>3
    <3> QED
      BY <3>3, <3>4
  <2>3. ~(h.st[Board] = "running")
    BY <2>2, Kinds DEF Active
  <2>4. g.alive \subseteq {g.owner} /\ g.alive \cap Sends \subseteq {g.sending}
    BY <1>1 DEF Held
  <2> QED
    BY <1>6, <2>1, <2>2, <2>3, <2>4, Kinds DEF Held
<1>19. Fates(h, NoOne)
  <2>1. ASSUME NEW r \in Runs PROVE h.answers[r] <= 1 /\ (h.answers[r] = 1 => h.st[r] = "done")
    <3>1. CASE r \in told
      BY <1>13, <3>1
    <3>2. CASE r \notin told
      BY <1>1, <1>12, <3>2 DEF Fates
    <3> QED
      BY <3>1, <3>2
  <2>2. ASSUME NEW u \in Turns
        PROVE  /\ h.st[Delivery(u)] # "idle" => h.st[<<"turn", u>>] = "done"
               /\ h.st[<<"turn", u>>] \notin {"approved", "gated", "cancelled"}
    <3>1. Delivery(u) \in Runs /\ <<"turn", u>> \in Runs
      BY Kinds
    <3>2. CASE u \in turns
      <4>1. h.st[<<"turn", u>>] = "done"
        BY <1>10, <1>13, <3>2
      <4> QED
        BY <4>1
    <3>3. CASE u \notin turns
      <4>1. h.st[<<"turn", u>>] = g.st[<<"turn", u>>]
        BY <1>12, <1>14, <3>1, <3>3
      <4>2. g.st[Delivery(u)] # "idle" => g.st[<<"turn", u>>] = "done"
        BY <1>1 DEF Fates
      <4>3. g.st[<<"turn", u>>] \notin {"approved", "gated", "cancelled"}
        BY <1>1 DEF Fates
      <4>4. ASSUME h.st[Delivery(u)] # "idle" PROVE g.st[Delivery(u)] # "idle"
        <5>1. CASE Delivery(u) \notin told
          BY <1>12, <3>1, <4>4, <5>1
        <5>2. CASE Delivery(u) \in told
          <6>1. Delivery(u) \notin {Delivery(v) : v \in turns}
            BY <1>a, <3>3, Kinds
          <6>2. Delivery(u) \in line
            BY <1>b, <5>2, <6>1, Kinds DEF told
          <6> QED
            BY <1>8, <6>2
        <5> QED
          BY <5>1, <5>2
      <4> QED
        BY <4>1, <4>2, <4>3, <4>4
    <3> QED
      BY <3>2, <3>3
  <2> QED
    BY <2>1, <2>2, Kinds DEF Fates
<1>20. Count(h)
  <2>1. turns \subseteq Open(g)
    BY <1>10 DEF Open, OpenStage
  <2>2. ASSUME NEW u \in Turns PROVE u \in Open(h) <=> u \in Open(g) /\ u \notin turns
    <3>1. <<"turn", u>> \in Runs
      BY Kinds
    <3>2. CASE u \in turns
      <4>1. h.st[<<"turn", u>>] = "done"
        BY <1>10, <1>13, <3>2
      <4> QED
        BY <3>2, <4>1 DEF Open
    <3>3. CASE u \notin turns
      <4>1. h.st[<<"turn", u>>] = g.st[<<"turn", u>>]
        BY <1>12, <1>14, <3>1, <3>3
      <4> QED
        BY <3>3, <4>1 DEF Open
    <3> QED
      BY <3>2, <3>3
  <2>3. Open(h) = Open(g) \ turns
    BY <2>2 DEF Open
  <2>4. IsFiniteSet(Open(g))
    BY TurnsAssumption, FS_Subset DEF Open
  <2>5. Open(g) \cap turns = turns
    BY <2>1
  <2>6. Cardinality(Open(h)) = Cardinality(Open(g)) - Cardinality(turns)
    BY <2>3, <2>4, <2>5, FS_Difference
  <2>7. Cardinality(Open(g)) \in Nat /\ Cardinality(turns) \in Nat
    BY <2>1, <2>4, FS_Subset, FS_CardinalityType
  <2>8. g.inFlight = Cardinality(Open(g)) /\ g.inFlight <= CHANNEL_INFLIGHT_MAX
    BY <1>1 DEF Count
  <2>9. h.inFlight <= CHANNEL_INFLIGHT_MAX
    BY <1>6, <2>7, <2>8, BoundAssumption
  <2> QED
    BY <1>6, <2>6, <2>8, <2>9 DEF Count
<1>21. Queued(h) = {}
  BY <1>16 DEF Queued
<1>22. GInv(h, NoOne)
  BY <1>5, <1>17, <1>18, <1>19, <1>20 DEF GInv
<1> QED
  BY <1>2, <1>6, <1>15, <1>21, <1>22

-----------------------------------------------------------------------------
(* What remains of the steps                                               *)

\* A flag that no part of the invariant reads has changed.
LEMMA SameHand ==
    ASSUME NEW g, NEW h, NEW x, GInv(g, x), Shape(h), SameLines(g, h), SameSlot(g, h), SameFates(g, h)
    PROVE  GInv(h, x)
<1>1. Lines(h, x)
  <2>1. Line(h) = Line(g)
    BY DEF SameLines, Line
  <2> QED
    BY <2>1 DEF GInv, Lines, SameLines, SameFates
<1>2. Held(h, x)
  BY DEF GInv, Held, SameLines, SameSlot, SameFates
<1>3. Fates(h, x) /\ Count(h)
  BY DEF GInv, Fates, SameFates, Count, Open
<1> QED
  BY <1>1, <1>2, <1>3 DEF GInv

\* Only the holder has a process.
LEMMA Holder ==
    ASSUME NEW g, NEW r \in g.alive, GInv(g, NoOne)
    PROVE  /\ g.owner = r /\ r \in Runs /\ g.alive = {r}
           /\ r \in Sends => r = g.sending
           /\ g.st[r] \in (IF g.latched THEN Active \cup {"done"} ELSE Active)
<1>1. g.owner = r /\ r \in Runs /\ g.alive = {r} /\ (r \in Sends => r = g.sending)
  BY DEF GInv, Held, Shape
<1>2. g.st[r] \in (IF g.latched THEN Active \cup {"done"} ELSE Active)
  BY <1>1, Kinds DEF GInv, Held
<1> QED
  BY <1>1, <1>2

\* A process is gone: that of the holder, there is no other.
LEMMA Gone ==
    ASSUME NEW g, NEW r \in g.alive, GInv(g, NoOne)
    PROVE  LET h == [g EXCEPT !.alive = @ \ {r}] IN
           /\ GInv(h, NoOne) /\ h.alive = {} /\ g.owner = r /\ r \in Runs
           /\ SameLines(g, h) /\ SameFates(g, h) /\ h.owner = g.owner /\ h.latched = g.latched
           /\ r \in Sends => r = g.sending
           /\ g.st[r] \in (IF g.latched THEN Active \cup {"done"} ELSE Active)
<1> DEFINE h == [g EXCEPT !.alive = @ \ {r}]
<1>1. Shape(g) /\ Lines(g, NoOne) /\ Held(g, NoOne) /\ Fates(g, NoOne) /\ Count(g)
  BY DEF GInv
<1>2. g.owner = r /\ r \in Runs /\ g.alive \ {r} = {} /\ (r \in Sends => r = g.sending)
  BY <1>1 DEF Held, Shape
<1>3. /\ Shape(h) /\ SameLines(g, h) /\ SameFates(g, h) /\ h.owner = g.owner /\ h.latched = g.latched
      /\ h.alive = {}
  BY <1>1, <1>2 DEF Shape, Fields, SameLines, SameFates
<1> HIDE DEF h
<1>4. Lines(h, NoOne)
  <2>1. Line(h) = Line(g)
    BY <1>3 DEF SameLines, Line
  <2> QED
    BY <1>1, <1>3, <2>1 DEF Lines, SameLines, SameFates
<1>5. Held(h, NoOne)
  BY <1>1, <1>3 DEF Held, SameLines, SameFates
<1>6. Fates(h, NoOne) /\ Count(h)
  BY <1>1, <1>3 DEF Fates, SameFates, Count, Open
<1>7. g.st[r] \in (IF g.latched THEN Active \cup {"done"} ELSE Active)
  BY <1>1, <1>2, Kinds DEF Held
<1>8. GInv(h, NoOne)
  BY <1>3, <1>4, <1>5, <1>6 DEF GInv
<1> QED
  BY <1>2, <1>3, <1>7, <1>8 DEF h

\* The holder of the slot stays under way, in another manner.
LEMMA Restaged ==
    ASSUME NEW g, NEW h, NEW x \in Runs, NEW stage \in Active, GInv(g, NoOne), Shape(h),
           SameLines(g, h), SameSlot(g, h), SameCosts(g, h), Moved(g, h, x, stage), g.st[x] \in Active,
           x \in TurnRuns => stage # "cancelled", stage # "running"
    PROVE  GInv(h, NoOne) /\ Steady(g, h)
<1>1. Shape(g) /\ Lines(g, NoOne) /\ Held(g, NoOne) /\ Fates(g, NoOne) /\ Count(g)
  BY DEF GInv
<1>2. Lines(h, NoOne)
  <2>1. Line(h) = Line(g)
    BY DEF SameLines, Line
  <2>2. h.sending # NoOne => h.st[h.sending] # "idle"
    <3>1. h.sending = g.sending /\ (g.sending # NoOne => g.sending \in Runs /\ g.st[g.sending] # "idle")
      BY <1>1, Kinds DEF Lines, SameLines, Shape
    <3>2. g.sending # NoOne => h.st[g.sending] # "idle"
      BY <3>1 DEF Moved, Active
    <3> QED
      BY <3>1, <3>2
  <2>3. \A r \in Runs : r \in Line(h) <=> h.st[r] \in {"queued", "approved"}
    BY <1>1, <2>1, Kinds DEF Lines, Moved, Active
  <2> QED
    BY <1>1, <2>1, <2>2, <2>3 DEF Lines, SameLines
<1>3. Held(h, NoOne)
  <2>1. h.owner = g.owner /\ h.latched = g.latched /\ h.alive = g.alive /\ h.sending = g.sending
    BY DEF SameSlot, SameLines
  <2>2. g.owner # NoOne => h.st[g.owner] \in (IF g.latched THEN Active \cup {"done"} ELSE Active)
    BY <1>1 DEF Moved, Held, Shape
  <2>3. \A r \in Runs : h.st[r] \in Active => g.st[r] \in Active
    BY DEF Moved
  <2>4. h.st[Board] = "running" => g.st[Board] = "running"
    BY Kinds DEF Moved
  <2> QED
    BY <1>1, <2>1, <2>2, <2>3, <2>4, Kinds DEF Held, SameCosts
<1>4. Fates(h, NoOne)
  <2>1. g.st[x] # "done" /\ g.st[x] # "idle"
    BY DEF Active
  <2>2. \A r \in Runs : g.answers[r] <= 1 /\ (g.answers[r] = 1 => h.st[r] = "done")
    BY <1>1, <2>1 DEF Fates, Moved
  <2>3. ASSUME NEW u \in Turns
        PROVE  /\ h.st[Delivery(u)] # "idle" => h.st[<<"turn", u>>] = "done"
               /\ h.st[<<"turn", u>>] \notin {"approved", "gated", "cancelled"}
    <3>1. Delivery(u) \in Runs /\ <<"turn", u>> \in Runs /\ <<"turn", u>> \in TurnRuns
      BY Kinds DEF TurnRuns
    <3>2. h.st[Delivery(u)] # "idle" => g.st[Delivery(u)] # "idle"
      BY <2>1, <3>1 DEF Moved
    <3>3. g.st[<<"turn", u>>] = "done" => h.st[<<"turn", u>>] = "done"
      BY <2>1, <3>1 DEF Moved
    <3>4. h.st[<<"turn", u>>] \notin {"approved", "gated", "cancelled"}
      <4>1. CASE x = <<"turn", u>>
        BY <3>1, <4>1 DEF Moved, Active
      <4>2. CASE x # <<"turn", u>>
        <5>1. h.st[<<"turn", u>>] = g.st[<<"turn", u>>]
          BY <3>1, <4>2 DEF Moved
        <5> QED
          BY <1>1, <5>1 DEF Fates
      <4> QED
        BY <4>1, <4>2
    <3>5. g.st[Delivery(u)] # "idle" => g.st[<<"turn", u>>] = "done"
      BY <1>1 DEF Fates
    <3> QED
      BY <3>2, <3>3, <3>4, <3>5
  <2> QED
    BY <1>1, <2>2, <2>3, Kinds DEF Fates, SameCosts
<1>5. Count(h)
  <2>1. x \in TurnRuns => (g.st[x] \in OpenStage <=> stage \in OpenStage)
    <3>1. ASSUME x \in TurnRuns PROVE g.st[x] # "cancelled"
      <4>1. PICK u \in Turns : x = <<"turn", u>>
        BY <3>1 DEF TurnRuns
      <4>2. g.st[<<"turn", u>>] \notin {"approved", "gated", "cancelled"}
        BY <1>1 DEF Fates
      <4> QED
        BY <4>1, <4>2
    <3> QED
      BY <3>1 DEF Active, OpenStage
  <2> QED
    BY <1>1, <2>1, OpenSame DEF SameCosts
<1>6. Steady(g, h)
  BY SteadyMove DEF Active
<1> QED
  BY <1>2, <1>3, <1>4, <1>5, <1>6 DEF GInv

-----------------------------------------------------------------------------
(* The end of a delivery                                                   *)

\* In a quarantine the delivery under way is told, and keeps the slot.
LEMMA TellLatched ==
    ASSUME NEW g, NEW d \in Sends, GInv(g, NoOne), g.latched, g.owner = d, g.st[d] \in Active
    PROVE  /\ GInv(Tell(g, d), NoOne) /\ Steady(g, Tell(g, d)) /\ Tell(g, d).st[d] = "done"
           /\ Tell(g, d).owner = g.owner /\ Tell(g, d).alive = g.alive
           /\ Tell(g, d).sending = g.sending /\ Tell(g, d).latched
<1> DEFINE h == Tell(g, d)
<1>1. /\ Shape(g) /\ Lines(g, NoOne) /\ Held(g, NoOne) /\ Fates(g, NoOne) /\ Count(g)
      /\ d \in Runs /\ d \notin TurnRuns /\ d # Board
  BY Kinds DEF GInv, TurnRuns
<1>2. /\ Shape(h) /\ SameLines(g, h) /\ SameSlot(g, h) /\ h.inFlight = g.inFlight
      /\ Moved(g, h, d, "done")
      /\ h.tries[d] = 0 /\ h.answers[d] = g.answers[d] + 1
      /\ \A r \in Runs : r # d => h.tries[r] = g.tries[r] /\ h.answers[r] = g.answers[r]
  BY <1>1, TellIs
<1> HIDE DEF h
<1>3. Lines(h, NoOne)
  <2>1. Line(h) = Line(g)
    BY <1>2 DEF SameLines, Line
  <2>2. h.sending # NoOne => h.st[h.sending] # "idle"
    <3>1. h.sending = g.sending /\ (g.sending # NoOne => g.sending \in Runs /\ g.st[g.sending] # "idle")
      BY <1>1, <1>2, Kinds DEF Lines, SameLines, Shape
    <3>2. g.sending # NoOne => h.st[g.sending] # "idle"
      BY <1>2, <3>1 DEF Moved
    <3> QED
      BY <3>1, <3>2
  <2>3. \A r \in Runs : r \in Line(h) <=> h.st[r] \in {"queued", "approved"}
    BY <1>1, <1>2, <2>1, Kinds DEF Lines, Moved, Active
  <2> QED
    BY <1>1, <1>2, <2>1, <2>2, <2>3 DEF Lines, SameLines
<1>4. Held(h, NoOne)
  <2>1. h.owner = g.owner /\ h.latched = g.latched /\ h.alive = g.alive /\ h.sending = g.sending
    BY <1>2 DEF SameSlot, SameLines
  <2>2. h.st[g.owner] = "done"
    BY <1>2 DEF Moved
  <2>3. \A r \in Runs : h.st[r] \in Active => g.st[r] \in Active
    BY <1>2 DEF Moved, Active
  <2>4. h.st[Board] = g.st[Board] /\ h.tries[Board] = g.tries[Board]
    BY <1>1, <1>2, Kinds DEF Moved
  <2> QED
    BY <1>1, <2>1, <2>2, <2>3, <2>4, Kinds DEF Held
<1>5. Fates(h, NoOne)
  <2>1. g.answers[d] = 0
    BY <1>1 DEF Fates, Shape, Active
  <2>2. \A r \in Runs : h.answers[r] <= 1 /\ (h.answers[r] = 1 => h.st[r] = "done")
    BY <1>1, <1>2, <2>1 DEF Fates, Moved
  <2>3. ASSUME NEW u \in Turns
        PROVE  /\ h.st[Delivery(u)] # "idle" => h.st[<<"turn", u>>] = "done"
               /\ h.st[<<"turn", u>>] \notin {"approved", "gated", "cancelled"}
    <3>1. <<"turn", u>> \in Runs /\ <<"turn", u>> # d /\ Delivery(u) \in Runs
      BY Kinds
    <3>2. h.st[<<"turn", u>>] = g.st[<<"turn", u>>]
      BY <1>2, <3>1 DEF Moved
    <3>3. h.st[Delivery(u)] # "idle" => g.st[Delivery(u)] # "idle"
      BY <1>2, <3>1 DEF Moved, Active
    <3>4. g.st[Delivery(u)] # "idle" => g.st[<<"turn", u>>] = "done"
      BY <1>1 DEF Fates
    <3>5. g.st[<<"turn", u>>] \notin {"approved", "gated", "cancelled"}
      BY <1>1 DEF Fates
    <3> QED
      BY <3>2, <3>3, <3>4, <3>5
  <2> QED
    BY <2>2, <2>3, Kinds DEF Fates
<1>6. Count(h)
  BY <1>1, <1>2, OpenSame
<1>7. GInv(h, NoOne)
  BY <1>2, <1>3, <1>4, <1>5, <1>6 DEF GInv
<1>8. Steady(g, h) /\ h.st[d] = "done"
  <2>1. Steady(g, h)
    BY <1>2, SteadyMove
  <2> QED
    BY <1>2, <2>1 DEF Moved
<1> QED
  BY <1>2, <1>7, <1>8 DEF h, SameSlot, SameLines

\* The limiter is done with a delivery that is over.
LEMMA LimiterFreed ==
    ASSUME NEW g, GInv(g, NoOne), g.alive = {}, g.sending # NoOne, g.st[g.sending] = "done"
    PROVE  LET h == [g EXCEPT !.sending = NoOne] IN
           GInv(h, NoOne) /\ Steady(g, h) /\ h.owner = g.owner
<1> DEFINE h == [g EXCEPT !.sending = NoOne]
<1>1. Shape(g) /\ Lines(g, NoOne) /\ Held(g, NoOne) /\ Fates(g, NoOne) /\ Count(g)
  BY DEF GInv
<1>2. /\ Shape(h) /\ SameSlot(g, h) /\ SameFates(g, h) /\ h.sending = NoOne
      /\ h.chats = g.chats /\ h.deliveries = g.deliveries /\ h.wakes = g.wakes /\ h.loops = g.loops
      /\ h.pending = g.pending
  BY <1>1 DEF Shape, Fields, SameSlot, SameFates
<1> HIDE DEF h
<1>3. g.sending \notin Line(g) /\ g.sending \in Runs
  BY <1>1, Kinds DEF Lines, Shape
<1>4. ToSet(g.deliveries) = {}
  BY <1>1, <1>3 DEF Lines, Line
<1>5. Lines(h, NoOne)
  <2>1. Line(h) = Line(g) /\ NoOne \notin ToSet(h.pending)
    BY <1>1, <1>2 DEF Lines, Line
  <2> QED
    BY <1>1, <1>2, <1>4, <2>1 DEF Lines, SameFates
<1>6. Held(h, NoOne)
  BY <1>1, <1>2, Kinds DEF Held, SameSlot, SameFates, Active
<1>7. Fates(h, NoOne) /\ Count(h)
  BY <1>1, <1>2 DEF Fates, SameFates, Count, Open
<1>8. Steady(g, h)
  BY <1>2 DEF Steady, SameSlot, SameFates, Queued
<1>9. GInv(h, NoOne)
  BY <1>2, <1>5, <1>6, <1>7 DEF GInv
<1> QED
  BY <1>2, <1>8, <1>9 DEF h, SameSlot

\* The process of a delivery is gone, and no other candidate is tried.
LEMMA SentHolds ==
    ASSUME NEW g, NEW d \in Sends, GInv(g, NoOne), g.owner = d, g.sending = d, g.alive = {}, g.st[d] \in Active
    PROVE  GInv(Sent(g, d), NoOne) /\ Steady(g, Sent(g, d))
<1> DEFINE e == Release(g, d)
           t == Tell(e, d)
           s == [t EXCEPT !.sending = NoOne]
<1>1. d \in Runs /\ d \notin TurnRuns /\ d # NoOne /\ Shape(g) /\ Fates(g, NoOne)
  BY Kinds DEF GInv, TurnRuns
<1>2. /\ Shape(e) /\ SameLines(g, e) /\ SameFates(g, e) /\ e.alive = {} /\ e.latched = g.latched
      /\ e.owner = IF g.owner = d /\ ~g.latched THEN NoOne ELSE g.owner
  BY <1>1, ReleaseIs
<1>3. Sent(g, d) = Drain(s)
  BY DEF Sent
<1> HIDE DEF e
<1>4. Shape(t) /\ SameLines(e, t) /\ SameSlot(e, t) /\ Moved(e, t, d, "done")
  BY <1>1, <1>2, TellIs
<1> HIDE DEF t
<1>5. GInv(t, NoOne)
  <2>1. CASE ~g.latched
    <3>1. GInv(e, d)
      BY <1>1, <1>2, <2>1, LetGo
    <3>2. \A u \in Turns : d = Delivery(u) => e.st[<<"turn", u>>] = "done"
      <4>1. e.st[d] # "idle" /\ Fates(e, d)
        BY <1>2, <3>1 DEF SameFates, Active, GInv
      <4> QED
        BY <4>1 DEF Fates
    <3> QED
      BY <1>1, <3>1, <3>2, TellHand DEF t
  <2>2. CASE g.latched
    <3>1. GInv(e, NoOne)
      BY <1>2, <2>2, SameHand DEF SameSlot
    <3> QED
      BY <1>2, <2>2, <3>1, TellLatched DEF t, SameFates
  <2> QED
    BY <2>1, <2>2
<1>6. t.alive = {} /\ t.sending = d /\ t.st[d] = "done" /\ t.owner \in {g.owner, NoOne}
  BY <1>2, <1>4 DEF SameSlot, SameLines, Moved
<1>7. Steady(g, t)
  <2>1. Steady(g, e)
    BY <1>2, Kinds DEF Steady, SameFates, Queued
  <2>2. Steady(e, t)
    BY <1>4, SteadyMove
  <2> QED
    BY <1>2, <2>1, <2>2, SteadyAfter
<1>8. GInv(s, NoOne) /\ Steady(t, s) /\ s.owner = t.owner
  BY <1>1, <1>5, <1>6, LimiterFreed
<1> HIDE DEF s
<1>9. Steady(g, s)
  BY <1>6, <1>7, <1>8, SteadyAfter
<1>10. GInv(Drain(s), NoOne) /\ Steady(s, Drain(s))
  BY <1>8, DrainHolds
<1> QED
  BY <1>3, <1>6, <1>8, <1>9, <1>10, SteadyAfter

-----------------------------------------------------------------------------
(* What a step keeps, whatever the step                                    *)

\* The action properties, of two states of the gate.
Promised(g, h) ==
    /\ \A r \in Sends \cup {Wake} \cup ToSet(g.loops) :
          h.owner = r /\ g.owner # r => h.chats = <<>>
    /\ g.latched => h.alive \subseteq g.alive \cup {g.sending}
    /\ h.latched /\ ~g.latched => Queued(h) = {}
    /\ g.latched => \A r \in Queued(h) \ Queued(g) : g.st[r] = "gated"

Kept(h) == GInv(h, NoOne) /\ Promised(gate, h)

\* A steady step keeps the promises.
LEMMA SteadyKept ==
    ASSUME NEW h, GInv(gate, NoOne), GInv(h, NoOne), Steady(gate, h)
    PROVE  Kept(h)
<1>1. ToSet(gate.loops) \subseteq Scheduled
  BY EmptyQueue DEF GInv, Lines
<1>2. gate.latched \in BOOLEAN /\ h.latched = gate.latched
  BY DEF GInv, Shape, Steady
<1> QED
  BY <1>1, <1>2 DEF Kept, Promised, Steady

\* quarantineAgentLane keeps the promises.
LEMMA QuarantineKept ==
    ASSUME GInv(gate, NoOne), ~gate.latched
    PROVE  Kept(Quarantine(gate))
<1>1. /\ GInv(Quarantine(gate), NoOne) /\ Quarantine(gate).latched /\ Quarantine(gate).owner = gate.owner
      /\ Queued(Quarantine(gate)) = {}
  BY QuarantineHolds
<1> QED
  BY <1>1 DEF Kept, Promised

\* A delivery that cannot be shown to have ended closes the lane, and is told.
LEMMA SendUnprovenKept ==
    ASSUME NEW d \in Sends, GInv(gate, NoOne), d \in gate.alive, gate.st[d] # "done"
    PROVE  Kept(SendUnproven(gate, d))
<1>1. gate.owner = d /\ gate.sending = d /\ gate.st[d] \in Active
  BY Holder
<1>2. CASE gate.latched
  <2>1. Quarantine(gate) = gate
    BY <1>2 DEF Quarantine
  <2>2. GInv(Tell(gate, d), NoOne) /\ Steady(gate, Tell(gate, d))
    BY <1>1, <1>2, TellLatched
  <2> QED
    BY <2>1, <2>2, SteadyKept DEF SendUnproven
<1>3. CASE ~gate.latched
  <2> DEFINE q == Quarantine(gate)
             h == Tell(q, d)
  <2>1. /\ GInv(q, NoOne) /\ q.latched /\ q.owner = gate.owner /\ Queued(q) = {}
        /\ q.st[d] = gate.st[d]
    BY <1>1, <1>3, QuarantineHolds
  <2>2. SendUnproven(gate, d) = h
    BY DEF SendUnproven
  <2> HIDE DEF q
  <2>3. GInv(h, NoOne) /\ Steady(q, h) /\ h.owner = q.owner
    BY <1>1, <2>1, TellLatched
  <2> HIDE DEF h
  <2>4. Queued(h) = {}
    BY <2>1, <2>3 DEF Steady
  <2> QED
    BY <1>3, <2>1, <2>2, <2>3, <2>4 DEF Kept, Promised
<1> QED
  BY <1>2, <1>3

-----------------------------------------------------------------------------
(* The actions                                                             *)

\* The scheduled dispatch.
LEMMA ImmediateKept ==
    ASSUME GInv(gate, NoOne), Immediate PROVE Kept(gate')
<1> DEFINE q == [gate EXCEPT !.dispatch = FALSE]
<1>1. Shape(q) /\ SameLines(gate, q) /\ SameSlot(gate, q) /\ SameFates(gate, q)
  BY DEF GInv, Shape, Fields, SameLines, SameSlot, SameFates
<1>2. gate' \in Dispatched(q)
  BY DEF Immediate
<1> HIDE DEF q
<1>3. GInv(q, NoOne)
  BY <1>1, SameHand
<1>4. GInv(gate', NoOne) /\ Steady(q, gate')
  BY <1>2, <1>3, DispatchedHolds
<1>5. Steady(gate, q) /\ q.owner = gate.owner
  BY <1>1 DEF Steady, SameSlot, SameFates, Queued
<1>6. Steady(gate, gate')
  BY <1>4, <1>5, SteadyAfter
<1> QED
  BY <1>4, <1>6, SteadyKept

\* A web chat arrives.
LEMMA ChatKept ==
    ASSUME GInv(gate, NoOne), NEW c \in Chats, Chat(c) PROVE Kept(gate')
<1> DEFINE r == <<"chat", c>>
<1>1. r \in Runs /\ gate.st[r] = "idle" /\ Waiting(gate, r)
  BY Kinds DEF Chat, Humans, Waiting, TurnRuns
<1>2. (Free(gate) /\ gate' \in HumanStarts(gate, r)) \/ gate' = JoinChats(gate, r)
  BY DEF Chat
<1> HIDE DEF r
<1>3. GInv(gate, r)
  BY <1>1, InHand
<1>4. GInv(gate', NoOne) /\ Steady(gate, gate')
  BY <1>1, <1>2, <1>3, HumanStartsHolds, JoinChatsHolds
<1> QED
  BY <1>4, SteadyKept

\* One more turn in flight.
LEMMA TurnArrives ==
    ASSUME GInv(gate, NoOne), NEW u \in Turns, gate.st[<<"turn", u>>] = "idle",
           gate.inFlight < CHANNEL_INFLIGHT_MAX
    PROVE  Kept([gate EXCEPT !.inFlight = @ + 1, !.st[<<"turn", u>>] = "reading"])
<1> DEFINE x == <<"turn", u>>
           h == [gate EXCEPT !.inFlight = @ + 1, !.st[x] = "reading"]
<1>1. /\ x \in Runs /\ x # Board /\ x \notin Sends /\ gate.st[x] = "idle"
      /\ \A v \in Turns : <<"turn", v>> = x => v = u
      /\ Shape(gate) /\ Lines(gate, NoOne) /\ Held(gate, NoOne) /\ Fates(gate, NoOne) /\ Count(gate)
  BY Kinds DEF GInv
<1> HIDE DEF x
<1>2. /\ Shape(h) /\ SameLines(gate, h) /\ SameSlot(gate, h) /\ Moved(gate, h, x, "reading")
      /\ h.tries = gate.tries /\ h.answers = gate.answers /\ h.inFlight = gate.inFlight + 1
  BY <1>1 DEF Shape, Fields, SameLines, SameSlot, Moved, Stages
<1> HIDE DEF h
<1>3. Lines(h, NoOne)
  <2>1. Line(h) = Line(gate)
    BY <1>2 DEF SameLines, Line
  <2>2. h.sending # NoOne => h.st[h.sending] # "idle"
    <3>1. h.sending = gate.sending /\ (gate.sending # NoOne => gate.sending \in Runs /\ gate.st[gate.sending] # "idle")
      BY <1>1, <1>2, Kinds DEF Lines, SameLines, Shape
    <3>2. gate.sending # NoOne => h.st[gate.sending] # "idle"
      BY <1>2, <3>1 DEF Moved
    <3> QED
      BY <3>1, <3>2
  <2>3. \A r \in Runs : r \in Line(h) <=> h.st[r] \in {"queued", "approved"}
    BY <1>1, <1>2, <2>1, Kinds DEF Lines, Moved
  <2> QED
    BY <1>1, <1>2, <2>1, <2>2, <2>3 DEF Lines, SameLines
<1>4. Held(h, NoOne)
  <2>1. h.owner = gate.owner /\ h.latched = gate.latched /\ h.alive = gate.alive /\ h.sending = gate.sending
    BY <1>2 DEF SameSlot, SameLines
  <2>2. gate.owner # NoOne => h.st[gate.owner] = gate.st[gate.owner]
    BY <1>1, <1>2 DEF Moved, Held, Shape, Active
  <2>3. \A r \in Runs : h.st[r] \in Active => gate.st[r] \in Active
    BY <1>2 DEF Moved, Active
  <2>4. h.st[Board] = gate.st[Board]
    BY <1>1, <1>2, Kinds DEF Moved
  <2> QED
    BY <1>1, <1>2, <2>1, <2>2, <2>3, <2>4, Kinds DEF Held
<1>5. Fates(h, NoOne)
  <2>1. \A r \in Runs : gate.answers[r] <= 1 /\ (gate.answers[r] = 1 => h.st[r] = "done")
    BY <1>1, <1>2 DEF Fates, Moved
  <2>2. ASSUME NEW v \in Turns
        PROVE  /\ h.st[Delivery(v)] # "idle" => h.st[<<"turn", v>>] = "done"
               /\ h.st[<<"turn", v>>] \notin {"approved", "gated", "cancelled"}
    <3>1. <<"turn", v>> \in Runs /\ Delivery(v) \in Runs /\ Delivery(v) # x
      BY <1>1, Kinds
    <3>2. h.st[Delivery(v)] = gate.st[Delivery(v)]
      BY <1>2, <3>1 DEF Moved
    <3>3. gate.st[Delivery(v)] # "idle" => gate.st[<<"turn", v>>] = "done"
      BY <1>1 DEF Fates
    <3>4. gate.st[<<"turn", v>>] \notin {"approved", "gated", "cancelled"}
      BY <1>1 DEF Fates
    <3>5. gate.st[<<"turn", v>>] = "done" => h.st[<<"turn", v>>] = "done"
      BY <1>1, <1>2, <3>1 DEF Moved
    <3>6. h.st[<<"turn", v>>] \in {gate.st[<<"turn", v>>], "reading"}
      BY <1>2, <3>1 DEF Moved
    <3> QED
      BY <3>2, <3>3, <3>4, <3>5, <3>6
  <2> QED
    BY <1>1, <1>2, <2>1, <2>2, Kinds DEF Fates
<1>6. Count(h)
  <2>1. ASSUME NEW v \in Turns PROVE v \in Open(h) <=> v \in Open(gate) \/ v = u
    <3>1. <<"turn", v>> \in Runs /\ (v # u => <<"turn", v>> # x) /\ (v = u => <<"turn", v>> = x)
      BY <1>1, Kinds DEF x
    <3>2. h.st[<<"turn", v>>] = IF v = u THEN "reading" ELSE gate.st[<<"turn", v>>]
      BY <1>2, <3>1 DEF Moved
    <3> QED
      BY <3>2 DEF Open
  <2>2. Open(h) = Open(gate) \cup {u} /\ u \notin Open(gate)
    BY <1>1, <2>1 DEF Open, x
  <2>3. IsFiniteSet(Open(gate))
    BY TurnsAssumption, FS_Subset DEF Open
  <2>4. Cardinality(Open(h)) = Cardinality(Open(gate)) + 1 /\ Cardinality(Open(gate)) \in Nat
    BY <2>2, <2>3, FS_AddElement, FS_CardinalityType
  <2>5. h.inFlight <= CHANNEL_INFLIGHT_MAX
    BY <1>1, <1>2, <2>4, BoundAssumption DEF Count
  <2> QED
    BY <1>1, <1>2, <2>4, <2>5 DEF Count
<1>7. GInv(h, NoOne)
  BY <1>2, <1>3, <1>4, <1>5, <1>6 DEF GInv
<1>8. Steady(gate, h)
  BY <1>2, SteadyMove
<1> QED
  BY <1>7, <1>8, SteadyKept DEF h, x

\* A channel message arrives.
LEMMA ChannelMessageKept ==
    ASSUME GInv(gate, NoOne), NEW u \in Turns, ChannelMessage(u) PROVE Kept(gate')
<1> DEFINE x == <<"turn", u>>
           t == Tell(gate, x)
<1>1. /\ x \in Runs /\ x \notin Sends /\ gate.st[x] = "idle" /\ Delivery(u) \in Runs /\ Delivery(u) # x
      /\ Shape(gate) /\ Fates(gate, NoOne)
  BY Kinds DEF ChannelMessage, GInv
<1>2. CASE gate' = Enqueue(t, Delivery(u))
  <2>a. gate.st[Delivery(u)] # "idle" => gate.st[x] = "done"
    BY <1>1 DEF Fates
  <2>b. GInv(gate, x)
    <3> HIDE DEF x
    <3> QED
      BY <1>1, InHand
  <2> HIDE DEF x
  <2>1. SameSlot(gate, t) /\ Moved(gate, t, x, "done")
    BY <1>1, TellIs
  <2>2. GInv(t, NoOne)
    BY <1>1, <2>b, TellHand
  <2> HIDE DEF t
  <2>3. t.st[Delivery(u)] = "idle" /\ t.st[x] = "done"
    BY <1>1, <2>1, <2>a DEF Moved
  <2>4. GInv(t, Delivery(u))
    BY <1>1, <2>2, <2>3, InHand
  <2>5. GInv(gate', NoOne) /\ Steady(t, gate')
    BY <1>2, <2>3, <2>4, EnqueueHolds DEF x
  <2>6. Steady(gate, t) /\ t.owner = gate.owner
    BY <2>1, SteadyMove DEF SameSlot
  <2>7. Steady(gate, gate')
    BY <2>5, <2>6, SteadyAfter
  <2> QED
    BY <2>5, <2>7, SteadyKept
<1>3. CASE /\ gate.inFlight < CHANNEL_INFLIGHT_MAX
           /\ gate' = [gate EXCEPT !.inFlight = @ + 1, !.st[x] = "reading"]
  <2> DEFINE h == [gate EXCEPT !.inFlight = @ + 1, !.st[x] = "reading"]
  <2>0. gate.st[<<"turn", u>>] = "idle" /\ gate.inFlight < CHANNEL_INFLIGHT_MAX
    BY <1>3 DEF ChannelMessage
  <2>1. Kept([gate EXCEPT !.inFlight = @ + 1, !.st[<<"turn", u>>] = "reading"])
    BY <2>0, TurnArrives, Zenon
  <2>2. gate' = h
    BY <1>3
  <2>3. Kept(h)
    BY <2>1, Zenon
  <2> HIDE DEF h
  <2> QED
    BY <2>2, <2>3, Zenon
<1> QED
  BY <1>2, <1>3 DEF ChannelMessage

\* A channel turn has read the board.
LEMMA TurnStartsKept ==
    ASSUME GInv(gate, NoOne), NEW u \in Turns, TurnStarts(u) PROVE Kept(gate')
<1> DEFINE x == <<"turn", u>>
<1>1. /\ x \in Runs /\ x \notin Sends /\ gate.st[x] = "reading" /\ Waiting(gate, x)
      /\ x \notin Sends \cup Scheduled \cup {Wake}
  BY Kinds DEF TurnStarts, Waiting
<1>2. \/ gate' = Answer(gate, x)
      \/ Free(gate) /\ gate' = Launch(Take(gate, x), x)
      \/ gate' = JoinChats(gate, x)
  BY DEF TurnStarts
<1> HIDE DEF x
<1>3. GInv(gate, x)
  BY <1>1, InHand
<1>4. CASE gate' = Answer(gate, x)
  <2>1. GInv(gate', NoOne) /\ Steady(gate, gate')
    BY <1>1, <1>3, <1>4, AnswerHolds DEF OpenStage
  <2> QED
    BY <2>1, SteadyKept
<1>5. CASE Free(gate) /\ gate' = Launch(Take(gate, x), x)
  <2>1. GInv(gate', NoOne) /\ Steady(gate, gate')
    BY <1>1, <1>3, <1>5, StartHand
  <2> QED
    BY <2>1, SteadyKept
<1>6. CASE gate' = JoinChats(gate, x)
  <2>1. GInv(gate', NoOne) /\ Steady(gate, gate')
    BY <1>1, <1>3, <1>6, JoinChatsHolds
  <2> QED
    BY <2>1, SteadyKept
<1> QED
  BY <1>2, <1>4, <1>5, <1>6

\* A run in line is taken out of it, and is in hand.
Withdraw(g, r) == [g EXCEPT !.chats = Without(@, {r}), !.loops = Without(@, {r})]

\* What that leaves.
LEMMA Withdrawn ==
    ASSUME NEW g, NEW r \in ({"chat"} \X Chats) \cup Scheduled, GInv(g, NoOne), r \in Queued(g)
    PROVE  LET q == Withdraw(g, r) IN
           GInv(q, r) /\ SameSlot(g, q) /\ SameFates(g, q)
<1> DEFINE chats == Without(g.chats, {r})
           loops == Without(g.loops, {r})
           q == Withdraw(g, r)
<1>1. /\ Shape(g) /\ Lines(g, NoOne) /\ Held(g, NoOne) /\ Fates(g, NoOne) /\ Count(g)
      /\ r \in Runs /\ r \notin Sends /\ r # Wake /\ g.st[r] \in {"queued", "approved"}
      /\ r \in Humans \cup Scheduled
  BY Kinds DEF GInv, Queued, Humans
<1>2. /\ Queue(chats, Humans) /\ Len(chats) <= Len(g.chats) /\ ToSet(chats) = ToSet(g.chats) \ {r}
      /\ Queue(loops, Scheduled) /\ ToSet(loops) = ToSet(g.loops) \ {r}
  <2>1. Queue(g.chats, Humans) /\ Queue(g.loops, Scheduled)
    BY <1>1 DEF Lines
  <2> QED
    BY <2>1, WithoutQueue
<1>3. Len(chats) \in Nat /\ Len(g.chats) \in Nat
  BY <1>1, <1>2, EmptyQueue DEF Lines
<1>4. Len(chats) <= CHAT_WAITER_MAX
  <2>1. Len(g.chats) <= CHAT_WAITER_MAX
    BY <1>1 DEF Lines
  <2> HIDE DEF chats
  <2> QED
    BY <1>2, <1>3, <2>1, BoundAssumption
<1>5. /\ Shape(q) /\ SameSlot(g, q) /\ SameFates(g, q) /\ q.sending = g.sending
      /\ q.deliveries = g.deliveries /\ q.wakes = g.wakes /\ q.pending = g.pending
      /\ q.chats = chats /\ q.loops = loops
  BY <1>1 DEF Withdraw, Shape, Fields, SameSlot, SameFates
<1> HIDE DEF chats, loops, q
<1>6. r \notin ToSet(g.deliveries) \cup ToSet(g.wakes) \cup ToSet(g.pending)
  BY <1>1, EmptyQueue DEF Lines
<1>7. Line(q) = Line(g) \ {r}
  BY <1>2, <1>5, <1>6 DEF Line
<1>8. Lines(q, r)
  BY <1>1, <1>2, <1>4, <1>5, <1>7, Kinds DEF Lines, SameFates
<1>9. Held(q, r)
  <2>1. r # g.owner
    BY <1>1, Kinds DEF Held, Active
  <2> QED
    BY <1>1, <1>5, <2>1, Kinds DEF Held, SameSlot, SameFates
<1>10. Fates(q, r) /\ Count(q)
  BY <1>1, <1>5 DEF Fates, SameFates, Count, Open
<1>11. GInv(q, r)
  BY <1>5, <1>8, <1>9, <1>10 DEF GInv
<1> QED
  BY <1>5, <1>11 DEF q

\* A chat is cancelled, or a schedule deleted.
LEMMA CancelKept ==
    ASSUME GInv(gate, NoOne), NEW r \in Runs, Cancel(r) PROVE Kept(gate')
<1>0. /\ r \in ({"chat"} \X Chats) \cup Scheduled
      /\ \/ r \in Queued(gate) /\ gate' = Tell(Withdraw(gate, r), r)
         \/ gate.st[r] = "running" /\ gate' = [gate EXCEPT !.st[r] = "cancelled"]
  BY Zenon DEF Cancel, Withdraw
<1>1. r \in ({"chat"} \X Chats) \cup Scheduled /\ r \notin TurnRuns /\ r \notin Sends /\ Shape(gate)
  <2>1. r \in ({"chat"} \X Chats) \cup Scheduled
    BY <1>0
  <2> QED
    BY <2>1, Kinds DEF TurnRuns, Scheduled, GInv, Humans
<1>2. CASE r \in Queued(gate) /\ gate' = Tell(Withdraw(gate, r), r)
  <2> DEFINE q == Withdraw(gate, r)
  <2>1. GInv(q, r) /\ SameSlot(gate, q) /\ SameFates(gate, q)
    BY <1>1, <1>2, Withdrawn
  <2>2. gate' = Tell(q, r)
    BY <1>2
  <2> HIDE DEF q
  <2>3. GInv(gate', NoOne)
    BY <1>1, <2>1, <2>2, TellHand
  <2>4. SameSlot(q, gate') /\ Moved(q, gate', r, "done")
    BY <2>1, <2>2, TellIs DEF GInv
  <2>5. Steady(q, gate')
    BY <2>4, SteadyMove
  <2>6. Steady(gate, q) /\ q.owner = gate.owner
    BY <2>1 DEF Steady, SameSlot, SameFates, Queued
  <2>7. Steady(gate, gate')
    BY <2>5, <2>6, SteadyAfter
  <2> QED
    BY <2>3, <2>7, SteadyKept
<1>3. CASE gate.st[r] = "running" /\ gate' = [gate EXCEPT !.st[r] = "cancelled"]
  <2>1. /\ Shape(gate') /\ SameLines(gate, gate') /\ SameSlot(gate, gate') /\ SameCosts(gate, gate')
        /\ Moved(gate, gate', r, "cancelled")
    BY <1>1, <1>3 DEF Shape, Fields, SameLines, SameSlot, SameCosts, Moved, Stages
  <2>2. "cancelled" \in Active /\ gate.st[r] \in Active
    BY <1>3 DEF Active
  <2>3. GInv(gate', NoOne) /\ Steady(gate, gate')
    BY <1>1, <2>1, <2>2, Restaged
  <2> QED
    BY <2>3, SteadyKept
<1> QED
  BY <1>0, <1>2, <1>3

\* The boot's wake round arrives.
LEMMA WakeRoundKept ==
    ASSUME GInv(gate, NoOne), WakeRound PROVE Kept(gate')
<1> DEFINE q == [gate EXCEPT !.wakes = Append(@, Wake), !.st[Wake] = "queued"]
<1>1. Wake \in Runs /\ Wake \notin TurnRuns /\ Wake \notin Sends /\ gate.st[Wake] = "idle" /\ ~gate.latched
  BY Kinds DEF WakeRound, TurnRuns, Wake
<1>2. GInv(gate, Wake)
  BY <1>1, InHand
<1>3. Shape(q) /\ Joins(gate, q, Wake, "queued")
  <2>1. Shape(gate)
    BY DEF GInv
  <2> QED
    BY <1>1, <2>1 DEF Shape, Fields, Joins, SameSlot, SameCosts, Moved, Stages
<1>4. gate' \in Dispatched(q)
  BY DEF WakeRound
<1> HIDE DEF q
<1>5. GInv(q, NoOne)
  BY <1>1, <1>2, <1>3, JoinHand
<1>6. Steady(gate, q) /\ q.owner = gate.owner
  BY <1>1, <1>3, SteadyMove DEF Joins, SameSlot
<1>7. GInv(gate', NoOne) /\ Steady(q, gate')
  BY <1>4, <1>5, DispatchedHolds
<1>8. Steady(gate, gate')
  BY <1>6, <1>7, SteadyAfter
<1> QED
  BY <1>7, <1>8, SteadyKept

\* Approvals that were not used in time: their Loops are gated again.
Lapsed(g, expired) ==
    [g EXCEPT !.loops = Without(@, expired),
              !.st = [r \in Runs |-> IF r \in expired THEN "gated" ELSE g.st[r]]]

\* What that leaves.
LEMMA ApprovalsExpire ==
    ASSUME NEW g, GInv(g, NoOne), ~g.latched, NEW expired \in SUBSET {r \in Scheduled : g.st[r] = "approved"}
    PROVE  LET q == Lapsed(g, expired) IN
           GInv(q, NoOne) /\ Steady(g, q) /\ q.owner = g.owner
<1> DEFINE loops == Without(g.loops, expired)
           q == Lapsed(g, expired)
<1>1. Shape(g) /\ Lines(g, NoOne) /\ Held(g, NoOne) /\ Fates(g, NoOne) /\ Count(g)
  BY DEF GInv
<1>2. Queue(loops, Scheduled) /\ ToSet(loops) = ToSet(g.loops) \ expired
  <2>1. Queue(g.loops, Scheduled)
    BY <1>1 DEF Lines
  <2> QED
    BY <2>1, WithoutQueue
<1>3. /\ Shape(q) /\ SameSlot(g, q) /\ SameCosts(g, q) /\ q.sending = g.sending
      /\ q.chats = g.chats /\ q.deliveries = g.deliveries /\ q.wakes = g.wakes /\ q.pending = g.pending
      /\ q.loops = loops /\ \A r \in Runs : q.st[r] = IF r \in expired THEN "gated" ELSE g.st[r]
  BY <1>1 DEF Lapsed, Shape, Fields, SameSlot, SameCosts, Stages
<1> HIDE DEF loops, q
<1>4. /\ expired \subseteq Scheduled /\ expired \subseteq Runs
      /\ \A r \in expired : g.st[r] = "approved" /\ r \notin Sends /\ r \notin Humans /\ r # Wake /\ r # Board
  BY Kinds
<1>5. Line(q) = Line(g) \ expired
  BY <1>1, <1>2, <1>3, <1>4, EmptyQueue DEF Line, Lines
<1>6. Lines(q, NoOne)
  <2>1. q.sending # NoOne => q.st[q.sending] # "idle"
    <3>1. g.sending # NoOne => g.sending \in Runs /\ g.st[g.sending] # "idle"
      BY <1>1, Kinds DEF Lines, Shape
    <3>2. g.sending # NoOne => q.st[g.sending] # "idle"
      BY <1>3, <3>1
    <3> QED
      BY <1>3, <3>2
  <2>2. \A r \in Runs : r \in Line(q) <=> q.st[r] \in {"queued", "approved"}
    BY <1>1, <1>3, <1>5, Kinds DEF Lines
  <2> QED
    BY <1>1, <1>2, <1>3, <1>5, <2>1, <2>2 DEF Lines
<1>7. Held(q, NoOne)
  <2>1. q.owner = g.owner /\ q.latched = g.latched /\ q.alive = g.alive /\ q.sending = g.sending
    BY <1>3 DEF SameSlot
  <2>2. g.owner # NoOne => q.st[g.owner] = g.st[g.owner]
    BY <1>1, <1>3, <1>4 DEF Held, Shape, Active
  <2>3. \A r \in Runs : q.st[r] \in Active => g.st[r] \in Active
    BY <1>3 DEF Active
  <2>4. q.st[Board] = g.st[Board]
    BY <1>3, <1>4, Kinds
  <2> QED
    BY <1>1, <1>3, <2>1, <2>2, <2>3, <2>4, Kinds DEF Held, SameCosts
<1>8. Fates(q, NoOne)
  <2>1. \A r \in Runs : g.answers[r] <= 1 /\ (g.answers[r] = 1 => q.st[r] = "done")
    BY <1>1, <1>3, <1>4 DEF Fates
  <2>2. ASSUME NEW u \in Turns
        PROVE  q.st[Delivery(u)] = g.st[Delivery(u)] /\ q.st[<<"turn", u>>] = g.st[<<"turn", u>>]
    BY <1>3, <1>4, Kinds
  <2> QED
    BY <1>1, <1>3, <2>1, <2>2, Kinds DEF Fates, SameCosts
<1>9. Count(q)
  <2>1. ASSUME NEW u \in Turns PROVE q.st[<<"turn", u>>] = g.st[<<"turn", u>>]
    BY <1>3, <1>4, Kinds
  <2>2. Open(q) = Open(g)
    BY <2>1 DEF Open
  <2> QED
    BY <1>1, <1>3, <2>2 DEF Count, SameCosts
<1>10. Steady(g, q)
  <2>1. \A r \in Runs : q.st[r] = "idle" => g.st[r] = "idle"
    BY <1>3
  <2> QED
    BY <1>3, <2>1 DEF Steady, SameSlot
<1>11. GInv(q, NoOne)
  BY <1>3, <1>6, <1>7, <1>8, <1>9 DEF GInv
<1> QED
  BY <1>3, <1>10, <1>11 DEF q, SameSlot

Due(g, r) ==
    \/ gate' \in {[g EXCEPT !.st[r] = "gated"], Tell(g, r)}
    \/ Free(g) /\ gate' \in LoopStarts(g, r)
    \/ ~Free(g) /\ gate' = [g EXCEPT !.loops = Append(@, r), !.st[r] = "queued"]

\* A Loop that is due is gated, failed, started or queued; it may start past a human
\* who is in line, for it was not queued itself.
LEMMA LoopDue ==
    ASSUME GInv(gate, NoOne), ~gate.latched, NEW g, GInv(g, NoOne), Steady(gate, g),
           NEW r \in Scheduled, g.st[r] = "idle", Due(g, r)
    PROVE  Kept(gate')
<1>1. /\ r \in Runs /\ r \notin TurnRuns \cup Sends /\ GInv(g, r) /\ Shape(g) /\ ~g.latched
      /\ g.latched = gate.latched
  <2>1. r \in Runs /\ r \notin TurnRuns \cup Sends
    BY Kinds DEF TurnRuns, Scheduled
  <2> QED
    BY <2>1, InHand DEF GInv, Steady
<1>2. CASE gate' = [g EXCEPT !.st[r] = "gated"]
  <2>1. /\ Shape(gate') /\ SameLines(g, gate') /\ SameSlot(g, gate') /\ Moved(g, gate', r, "gated")
        /\ gate'.inFlight = g.inFlight /\ gate'.answers = g.answers /\ gate'.tries = g.tries
    BY <1>1, <1>2 DEF Shape, Fields, SameLines, SameSlot, Moved, Stages
  <2>2. GInv(gate', NoOne)
    BY <1>1, <2>1, RestHand
  <2>3. Steady(g, gate')
    BY <2>1, SteadyMove
  <2>4. Steady(gate, gate')
    BY <2>1, <2>3 DEF Steady, SameSlot, SameLines
  <2> QED
    BY <2>2, <2>4, SteadyKept
<1>3. CASE Free(g) /\ gate' \in LoopStarts(g, r)
  <2>1. GInv(gate', NoOne) /\ gate'.latched = g.latched /\ gate'.owner \in {NoOne, r}
    BY <1>1, <1>3, LoopStartsHolds
  <2>2. r \notin Sends \cup {Wake}
    BY <1>1, Kinds
  <2>3. r \notin ToSet(gate.loops)
    <3>1. gate.st[r] = "idle"
      BY <1>1 DEF Steady
    <3>2. r \in Line(gate) <=> gate.st[r] \in {"queued", "approved"}
      BY <1>1, Kinds DEF GInv, Lines
    <3> QED
      BY <3>1, <3>2 DEF Line
  <2>4. NoOne \notin Sends \cup {Wake} \cup ToSet(gate.loops)
    BY Kinds, EmptyQueue DEF GInv, Lines
  <2> QED
    BY <1>1, <2>1, <2>2, <2>3, <2>4 DEF Kept, Promised
<1>4. CASE gate' = [g EXCEPT !.loops = Append(@, r), !.st[r] = "queued"]
  <2>1. Shape(gate') /\ Joins(g, gate', r, "queued")
    BY <1>1, <1>4 DEF Shape, Fields, Joins, SameSlot, SameCosts, Moved, Stages
  <2>2. GInv(gate', NoOne)
    BY <1>1, <2>1, JoinHand
  <2>3. Steady(g, gate')
    BY <1>1, <2>1, SteadyMove DEF Joins
  <2>4. gate'.owner = g.owner /\ gate'.chats = g.chats
    BY <1>1, <1>4 DEF Shape, Fields
  <2>5. Steady(gate, gate')
    BY <2>3, <2>4 DEF Steady
  <2> QED
    BY <2>2, <2>5, SteadyKept
<1>5. CASE gate' = Tell(g, r)
  <2>1. GInv(gate', NoOne)
    BY <1>1, <1>5, TellHand
  <2>2. SameSlot(g, gate') /\ SameLines(g, gate') /\ Moved(g, gate', r, "done")
    BY <1>1, <1>5, TellIs
  <2>3. Steady(g, gate')
    BY <2>2, SteadyMove
  <2>4. Steady(gate, gate')
    BY <2>2, <2>3 DEF Steady, SameSlot, SameLines
  <2> QED
    BY <2>1, <2>4, SteadyKept
<1> QED
  BY <1>2, <1>3, <1>4, <1>5 DEF Due

\* The scheduler's tick.
LEMMA CronTickKept ==
    ASSUME GInv(gate, NoOne), CronTick PROVE Kept(gate')
<1>0. /\ ~gate.latched
      /\ \E expired \in SUBSET {r \in Scheduled : gate.st[r] = "approved"} :
         \E g \in Dispatched(Lapsed(gate, expired)) : gate' = g \/ \E r \in Scheduled : g.st[r] = "idle" /\ Due(g, r)
  BY Zenon DEF CronTick, Lapsed, Due
<1>1. PICK expired \in SUBSET {r \in Scheduled : gate.st[r] = "approved"} :
        \E g \in Dispatched(Lapsed(gate, expired)) : gate' = g \/ \E r \in Scheduled : g.st[r] = "idle" /\ Due(g, r)
  BY <1>0
<1>2. PICK g \in Dispatched(Lapsed(gate, expired)) : gate' = g \/ \E r \in Scheduled : g.st[r] = "idle" /\ Due(g, r)
  BY <1>1
<1> DEFINE q == Lapsed(gate, expired)
<1>3. GInv(q, NoOne) /\ Steady(gate, q) /\ q.owner = gate.owner
  BY <1>0, ApprovalsExpire
<1> HIDE DEF q
<1>4. GInv(g, NoOne) /\ Steady(q, g)
  BY <1>3, DispatchedHolds DEF q
<1>5. Steady(gate, g)
  BY <1>3, <1>4, SteadyAfter
<1>6. CASE gate' = g
  BY <1>4, <1>5, <1>6, SteadyKept
<1>7. CASE \E r \in Scheduled : g.st[r] = "idle" /\ Due(g, r)
  BY <1>0, <1>4, <1>5, <1>7, LoopDue
<1> QED
  BY <1>2, <1>6, <1>7

\* The operator approves a gated run.
LEMMA ApproveKept ==
    ASSUME GInv(gate, NoOne), NEW r \in Runs, Approve(r) PROVE Kept(gate')
<1> DEFINE q == [gate EXCEPT !.loops = Append(@, r), !.st[r] = "approved"]
<1>1. r \in Scheduled /\ gate.st[r] = "gated" /\ r \notin TurnRuns /\ r \notin Sends /\ Shape(gate)
  BY Kinds DEF Approve, TurnRuns, Scheduled, GInv
<1>2. GInv(gate, r)
  BY <1>1, InHand
<1>3. Shape(gate') /\ Joins(gate, gate', r, "approved")
  BY <1>1 DEF Approve, Shape, Fields, Joins, SameSlot, SameCosts, Moved, Stages
<1>4. GInv(gate', NoOne)
  BY <1>1, <1>2, <1>3, JoinHand
<1>5. \A p \in Queued(gate') \ Queued(gate) : p = r
  BY <1>3 DEF Joins, Moved, Queued
<1>6. SameSlot(gate, gate')
  BY <1>3 DEF Joins
<1> QED
  BY <1>1, <1>4, <1>5, <1>6 DEF Kept, Promised, SameSlot

\* The board's tick takes the slot.
LEMMA BoardTickKept ==
    ASSUME GInv(gate, NoOne), BoardTick PROVE Kept(gate')
<1>1. /\ Board \in Runs /\ Board \notin TurnRuns /\ Board \notin Sends \cup {Wake} \cup Scheduled
      /\ gate.st[Board] = "idle" /\ Free(gate) /\ gate' = Take(gate, Board) /\ Shape(gate)
  BY Kinds DEF BoardTick, TurnRuns, Board, GInv
<1>2. GInv(gate, Board)
  BY <1>1, InHand
<1>3. GInv(gate', NoOne)
  BY <1>1, <1>2, TakeHand
<1>4. gate'.owner = Board /\ gate'.latched = gate.latched /\ gate'.alive = gate.alive
      /\ Moved(gate, gate', Board, "running")
  BY <1>1, TakeIs
<1>5. Steady(gate, gate')
  <2>1. \A r \in Runs : gate'.st[r] = "idle" => gate.st[r] = "idle"
    BY <1>4 DEF Moved
  <2> QED
    BY <1>1, <1>4, <2>1 DEF Steady, Free
<1> QED
  BY <1>3, <1>5, SteadyKept

\* The board's tick dispatches an agent, or gives the slot back.
LEMMA BoardListedKept ==
    ASSUME GInv(gate, NoOne), BoardListed PROVE Kept(gate')
<1>1. /\ Board \in Runs /\ Board \notin TurnRuns /\ Board \notin Sends
      /\ gate.st[Board] = "running" /\ gate.tries[Board] = 0 /\ Shape(gate) /\ Held(gate, NoOne)
      /\ \/ gate' = Tell(Release(gate, Board), Board)
         \/ gate' = Launch(gate, Board)
  BY Kinds, Zenon DEF BoardListed, TurnRuns, Board, GInv
<1>2. gate.owner = Board /\ ~gate.latched /\ Board \notin gate.alive /\ gate.alive = {}
  BY <1>1, Kinds DEF Held, Active
<1>3. CASE gate' = Tell(Release(gate, Board), Board)
  <2> DEFINE e == Release(gate, Board)
  <2>1. /\ Shape(e) /\ SameLines(gate, e) /\ SameFates(gate, e) /\ e.alive = {}
        /\ e.latched = gate.latched /\ e.owner = NoOne
    BY <1>1, <1>2, ReleaseIs
  <2>2. gate' = Tell(e, Board)
    BY <1>3
  <2> HIDE DEF e
  <2>3. GInv(e, Board)
    BY <1>1, <1>2, <2>1, LetGo
  <2>4. GInv(gate', NoOne)
    BY <1>1, <2>2, <2>3, TellHand
  <2>5. SameSlot(e, gate') /\ Moved(e, gate', Board, "done")
    BY <1>1, <2>1, <2>2, TellIs
  <2>6. Steady(e, gate')
    BY <2>5, SteadyMove
  <2>7. Steady(gate, e)
    BY <2>1, Kinds DEF Steady, SameFates, Queued
  <2>8. Steady(gate, gate')
    BY <2>1, <2>6, <2>7, SteadyAfter
  <2> QED
    BY <2>4, <2>8, SteadyKept
<1>4. CASE gate' = Launch(gate, Board)
  <2>1. GInv(gate', NoOne)
    BY <1>1, <1>2, <1>4, LaunchHeld DEF Active
  <2>2. gate'.owner = gate.owner /\ gate'.latched = gate.latched /\ Moved(gate, gate', Board, "running")
    BY <1>1, <1>4, LaunchIs
  <2>3. \A r \in Runs : gate'.st[r] = "idle" => gate.st[r] = "idle"
    BY <2>2 DEF Moved
  <2>4. Steady(gate, gate')
    BY <1>2, <2>2, <2>3 DEF Steady
  <2> QED
    BY <2>1, <2>4, SteadyKept
<1> QED
  BY <1>1, <1>3, <1>4

\* The gate when the process of r is gone.
Reaped(g, r) == [g EXCEPT !.alive = @ \ {r}]

\* A process ends, other than a delivery's.
LEMMA RunExitsKept ==
    ASSUME GInv(gate, NoOne), NEW r \in Runs, RunExits(r) PROVE Kept(gate')
<1> DEFINE g == Reaped(gate, r)
<1>0. /\ r \in gate.alive /\ r \notin Sends
      /\ IF gate.latched THEN gate' = g
         ELSE \/ gate' = IF r = Wake THEN WakeYields(g) ELSE Answer(Release(g, r), r)
              \/ /\ r \in Humans /\ gate.st[r] = "running" /\ gate.tries[r] = 1
                 /\ gate' = Launch(g, r)
  BY Zenon DEF RunExits, Reaped
<1>1. /\ GInv(g, NoOne) /\ g.alive = {} /\ gate.owner = r
      /\ SameLines(gate, g) /\ SameFates(gate, g) /\ g.owner = gate.owner /\ g.latched = gate.latched
      /\ gate.st[r] \in (IF gate.latched THEN Active \cup {"done"} ELSE Active)
  BY <1>0, Gone DEF Reaped
<1> HIDE DEF g
<1>2. Steady(gate, g) /\ g.owner = gate.owner
  BY <1>1 DEF Steady, SameFates, Queued
<1>3. CASE gate.latched
  <2>1. gate' = g
    BY <1>0, <1>3
  <2> QED
    BY <1>1, <1>2, <2>1, SteadyKept
<1>4. CASE ~gate.latched /\ r = Wake /\ gate' = WakeYields(g)
  <2>1. GInv(gate', NoOne) /\ Steady(g, gate')
    BY <1>1, <1>4, WakeYieldsHolds
  <2>2. Steady(gate, gate')
    BY <1>2, <2>1, SteadyAfter
  <2> QED
    BY <2>1, <2>2, SteadyKept
<1>5. CASE ~gate.latched /\ gate' = Answer(Release(g, r), r)
  <2> DEFINE e == Release(g, r)
  <2>1. /\ Shape(e) /\ SameLines(g, e) /\ SameFates(g, e) /\ e.alive = {} /\ e.latched = g.latched
        /\ e.owner = NoOne
    BY <1>1, <1>5, ReleaseIs DEF GInv
  <2>2. gate' = Answer(e, r)
    BY <1>5
  <2> HIDE DEF e
  <2>3. GInv(e, r)
    BY <1>1, <1>5, <2>1, LetGo
  <2>4. ASSUME r \in TurnRuns PROVE e.st[r] \in OpenStage
    <3>1. e.st[r] \in Active
      BY <1>1, <1>5, <2>1 DEF SameFates
    <3>2. PICK u \in Turns : r = <<"turn", u>>
      BY <2>4 DEF TurnRuns
    <3>3. e.st[<<"turn", u>>] \notin {"approved", "gated", "cancelled"}
      BY <2>3 DEF GInv, Fates
    <3> QED
      BY <3>1, <3>2, <3>3 DEF Active, OpenStage
  <2>5. GInv(gate', NoOne) /\ Steady(e, gate')
    BY <1>0, <2>2, <2>3, <2>4, AnswerHolds
  <2>6. Steady(gate, e)
    <3>1. Steady(g, e)
      BY <2>1, Kinds DEF Steady, SameFates, Queued
    <3> QED
      BY <1>2, <3>1, SteadyAfter
  <2>7. Steady(gate, gate')
    BY <2>1, <2>5, <2>6, SteadyAfter
  <2> QED
    BY <2>5, <2>7, SteadyKept
<1>6. CASE ~gate.latched /\ gate.st[r] = "running" /\ gate' = Launch(g, r)
  <2>1. GInv(gate', NoOne)
    BY <1>1, <1>6, LaunchHeld DEF Active, SameFates
  <2>2. gate'.owner = g.owner /\ gate'.latched = g.latched /\ Moved(g, gate', r, "running")
    BY <1>1, <1>6, LaunchIs DEF GInv
  <2>3. \A p \in Runs : gate'.st[p] = "idle" => gate.st[p] = "idle"
    BY <1>1, <2>2 DEF Moved, SameFates
  <2>4. Steady(gate, gate')
    BY <1>1, <1>6, <2>2, <2>3 DEF Steady
  <2> QED
    BY <2>1, <2>4, SteadyKept
<1> QED
  BY <1>0, <1>3, <1>4, <1>5, <1>6

\* A run is past its time.
LEMMA RunTimeoutKept ==
    ASSUME GInv(gate, NoOne), NEW r \in Runs, RunTimeout(r) PROVE Kept(gate')
<1>1. /\ ~gate.latched /\ gate.st[r] \in {"running", "cancelled"}
      /\ gate' = Quarantine(gate) \/ gate' = [gate EXCEPT !.st[r] = "killed"]
  BY Zenon DEF RunTimeout
<1>2. CASE gate' = [gate EXCEPT !.st[r] = "killed"]
  <2>1. /\ Shape(gate') /\ SameLines(gate, gate') /\ SameSlot(gate, gate') /\ SameCosts(gate, gate')
        /\ Moved(gate, gate', r, "killed")
    BY <1>2 DEF GInv, Shape, Fields, SameLines, SameSlot, SameCosts, Moved, Stages
  <2>2. "killed" \in Active /\ gate.st[r] \in Active
    BY <1>1 DEF Active
  <2>3. GInv(gate', NoOne) /\ Steady(gate, gate')
    BY <2>1, <2>2, Restaged
  <2> QED
    BY <2>3, SteadyKept
<1> QED
  BY <1>1, <1>2, QuarantineKept

\* A delivery is past its time.
LEMMA SendTimeoutKept ==
    ASSUME GInv(gate, NoOne), NEW d \in Runs, SendTimeout(d) PROVE Kept(gate')
<1>1. gate.st[d] = "running" /\ gate' = [gate EXCEPT !.st[d] = "killed"]
  BY Zenon DEF SendTimeout
<1>2. /\ Shape(gate') /\ SameLines(gate, gate') /\ SameSlot(gate, gate') /\ SameCosts(gate, gate')
      /\ Moved(gate, gate', d, "killed")
  BY <1>1 DEF GInv, Shape, Fields, SameLines, SameSlot, SameCosts, Moved, Stages
<1>3. "killed" \in Active /\ gate.st[d] \in Active
  BY <1>1 DEF Active
<1>4. GInv(gate', NoOne) /\ Steady(gate, gate')
  BY <1>2, <1>3, Restaged
<1> QED
  BY <1>4, SteadyKept

\* The process of a delivery ends.
LEMMA SendExitsKept ==
    ASSUME GInv(gate, NoOne), NEW d \in Runs, SendExits(d) PROVE Kept(gate')
<1> DEFINE g == Reaped(gate, d)
<1>0. /\ d \in gate.alive /\ d \in Sends
      /\ IF gate.st[d] = "done" THEN gate' = g
         ELSE gate' = Sent(g, d) \/ gate' = Launch(g, d)
  BY Zenon DEF SendExits, Reaped
<1>1. /\ GInv(g, NoOne) /\ g.alive = {} /\ gate.owner = d /\ gate.sending = d /\ gate.alive = {d}
      /\ SameLines(gate, g) /\ SameFates(gate, g) /\ g.owner = gate.owner /\ g.latched = gate.latched
      /\ gate.st[d] \in (IF gate.latched THEN Active \cup {"done"} ELSE Active)
  BY <1>0, Gone, Holder DEF Reaped
<1> HIDE DEF g
<1>2. Steady(gate, g) /\ g.owner = gate.owner /\ g.sending = d /\ g.st = gate.st
  BY <1>1 DEF Steady, SameFates, SameLines, Queued
<1>3. CASE gate.st[d] = "done"
  <2>1. gate' = g
    BY <1>0, <1>3
  <2> QED
    BY <1>1, <1>2, <2>1, SteadyKept
<1>4. CASE gate.st[d] # "done" /\ gate' = Sent(g, d)
  <2>1. GInv(gate', NoOne) /\ Steady(g, gate')
    BY <1>0, <1>1, <1>2, <1>4, SentHolds
  <2>2. Steady(gate, gate')
    BY <1>2, <2>1, SteadyAfter
  <2> QED
    BY <2>1, <2>2, SteadyKept
<1>5. CASE gate.st[d] # "done" /\ gate' = Launch(g, d)
  <2>0. d \notin TurnRuns
    BY <1>0, Kinds DEF TurnRuns
  <2>1. GInv(gate', NoOne)
    BY <1>1, <1>2, <1>5, <2>0, LaunchHeld
  <2>2. /\ gate'.owner = g.owner /\ gate'.latched = g.latched /\ gate'.alive = g.alive \cup {d}
        /\ Moved(g, gate', d, "running")
    BY <1>1, <1>5, LaunchIs DEF GInv
  <2>3. Queued(gate') \subseteq Queued(gate)
    BY <1>2, <2>2 DEF Moved, Queued
  <2> QED
    BY <1>1, <2>1, <2>2, <2>3 DEF Kept, Promised
<1> QED
  BY <1>0, <1>3, <1>4, <1>5

-----------------------------------------------------------------------------
(* The invariant, and what follows                                         *)

Safe == GInv(gate, NoOne)

\* The gate starts in the invariant, quarantined or not.
LEMMA Starts == Init => Safe
<1> SUFFICES ASSUME Init PROVE Safe
  OBVIOUS
<1>1. /\ DOMAIN gate = Fields /\ gate.owner = NoOne /\ gate.latched \in BOOLEAN /\ gate.dispatch = FALSE
      /\ gate.chats = <<>> /\ gate.deliveries = <<>> /\ gate.wakes = <<>> /\ gate.loops = <<>>
      /\ gate.pending = <<>> /\ gate.sending = NoOne /\ gate.inFlight = 0
      /\ gate.st = [r \in Runs |-> "idle"] /\ gate.tries = [r \in Runs |-> 0]
      /\ gate.answers = [r \in Runs |-> 0] /\ gate.alive = {}
  BY DEF Init, Fields
<1>2. Shape(gate)
  <2>1. gate.st \in [Runs -> Stages] /\ gate.tries \in [Runs -> Nat] /\ gate.answers \in [Runs -> Nat]
    BY <1>1 DEF Stages
  <2>2. gate.owner \in Runs \cup {NoOne} /\ gate.sending \in Sends \cup {NoOne} /\ gate.alive \subseteq Runs
    BY <1>1
  <2>3. gate.latched \in BOOLEAN /\ gate.dispatch \in BOOLEAN
    BY <1>1, Zenon
  <2> QED
    BY <1>1, <2>1, <2>2, <2>3, Zenon DEF Shape
<1>3. Lines(gate, NoOne)
  <2>1. Line(gate) = {}
    BY <1>1, EmptyQueue DEF Line
  <2> QED
    BY <1>1, <2>1, EmptyQueue, BoundAssumption DEF Lines
<1>4. Held(gate, NoOne)
  BY <1>1, Kinds DEF Held, Active
<1>5. Fates(gate, NoOne)
  BY <1>1, Kinds DEF Fates
<1>6. Count(gate)
  <2>1. Open(gate) = {}
    BY <1>1, Kinds DEF Open
  <2> QED
    BY <1>1, <2>1, FS_EmptySet, BoundAssumption DEF Count
<1> QED
  BY <1>2, <1>3, <1>4, <1>5, <1>6 DEF GInv, Safe

\* Every step keeps the invariant and the promises.
LEMMA Steps ==
    ASSUME Safe, Next PROVE Safe' /\ Promised(gate, gate')
<1>0. GInv(gate, NoOne)
  BY DEF Safe
<1>1. Immediate => Kept(gate')
  BY <1>0, ImmediateKept
<1>2. WakeRound => Kept(gate')
  BY <1>0, WakeRoundKept
<1>3. CronTick => Kept(gate')
  BY <1>0, CronTickKept
<1>4. BoardTick => Kept(gate')
  BY <1>0, BoardTickKept
<1>5. BoardListed => Kept(gate')
  BY <1>0, BoardListedKept
<1>6. ElsewhereUnproven => Kept(gate')
  BY <1>0, QuarantineKept DEF ElsewhereUnproven
<1>7. ASSUME NEW c \in Chats, Chat(c) PROVE Kept(gate')
  BY <1>0, <1>7, ChatKept
<1>8. ASSUME NEW u \in Turns, ChannelMessage(u) \/ TurnStarts(u) PROVE Kept(gate')
  BY <1>0, <1>8, ChannelMessageKept, TurnStartsKept
<1>9. ASSUME NEW r \in Runs PROVE /\ Cancel(r) => Kept(gate')
                                  /\ Approve(r) => Kept(gate')
                                  /\ RunExits(r) => Kept(gate')
                                  /\ RunTimeout(r) => Kept(gate')
                                  /\ SendExits(r) => Kept(gate')
                                  /\ SendTimeout(r) => Kept(gate')
  BY <1>0, CancelKept, ApproveKept, RunExitsKept, RunTimeoutKept, SendExitsKept, SendTimeoutKept
<1>10. ASSUME NEW r \in Runs, RunLost(r) \/ RunGraceEnds(r) PROVE Kept(gate')
  BY <1>0, <1>10, QuarantineKept DEF RunLost, RunGraceEnds
<1>11. ASSUME NEW r \in Runs, SendLost(r) \/ SendGraceEnds(r) PROVE Kept(gate')
  <2>1. r \in Sends /\ r \in gate.alive /\ gate.st[r] # "done" /\ gate' = SendUnproven(gate, r)
    BY <1>11 DEF SendLost, SendGraceEnds
  <2> QED
    BY <1>0, <2>1, SendUnprovenKept
<1>12. Kept(gate')
  BY <1>1, <1>2, <1>3, <1>4, <1>5, <1>6, <1>7, <1>8, <1>9, <1>10, <1>11, Zenon DEF Next
<1> QED
  BY <1>12 DEF Kept, Safe

\* The invariant of the slot, the lines and the callers, on which the rest stands.
THEOREM Invariance == Spec => []Safe
<1>1. Safe /\ UNCHANGED vars => Safe'
  BY DEF Safe, vars
<1>2. Safe /\ [Next]_vars => Safe'
  BY <1>1, Steps
<1> QED
  BY Starts, <1>2, PTL DEF Spec

\* The slot, the lines and the bounds: at most one delivery and one wake round
\* are in line, and the lines of gate.js never pass their caps.
THEOREM Typed == Spec => []TypeOK
<1>1. Safe => TypeOK
  <2> SUFFICES ASSUME Safe PROVE TypeOK
    OBVIOUS
  <2>1. Shape(gate) /\ Lines(gate, NoOne) /\ Count(gate)
    BY DEF Safe, GInv
  <2>3. Len(gate.deliveries) <= 1
    <3>1. \A i \in 1..Len(gate.deliveries) : gate.deliveries[i] \in ToSet(gate.deliveries)
      BY <2>1 DEF Lines, Queue, ToSet
    <3>2. \A i \in 1..Len(gate.deliveries) : gate.deliveries[i] = gate.sending
      BY <2>1, <3>1 DEF Lines
    <3>3. Queue(gate.deliveries, Sends) /\ Len(gate.deliveries) \in Nat
      BY <2>1, EmptyQueue DEF Lines
    <3>4. \A i, j \in 1..Len(gate.deliveries) : i = j
      BY <3>2, <3>3 DEF Queue
    <3> QED
      BY <3>3, <3>4
  <2>4. Len(gate.wakes) <= 1
    <3>1. Queue(gate.wakes, {Wake}) /\ Len(gate.wakes) \in Nat /\ gate.wakes \in Seq({Wake})
      BY <2>1, EmptyQueue DEF Lines, Queue
    <3>2. \A i \in 1..Len(gate.wakes) : gate.wakes[i] = Wake
      BY <3>1
    <3>3. \A i, j \in 1..Len(gate.wakes) : i = j
      BY <3>1, <3>2 DEF Queue
    <3> QED
      BY <3>1, <3>3
  <2>5. gate.inFlight \in 0..CHANNEL_INFLIGHT_MAX
    <3>1. IsFiniteSet(Open(gate))
      BY TurnsAssumption, FS_Subset DEF Open
    <3>2. Cardinality(Open(gate)) \in Nat
      BY <3>1, FS_CardinalityType
    <3> QED
      BY <2>1, <3>2, BoundAssumption DEF Count
  <2> QED
    BY <2>1, <2>3, <2>4, <2>5 DEF TypeOK, Shape, Lines, Queue
<1> QED
  BY Invariance, <1>1, PTL

\* "two engines can't run at once" (gate.js:5640): the processes are the
\* holder's, and there is one holder.
THEOREM OneEngine == Spec => []OneProcess
<1>1. Safe => OneProcess
  <2> SUFFICES ASSUME Safe PROVE OneProcess
    OBVIOUS
  <2>1. gate.alive \subseteq {gate.owner}
    BY DEF Safe, GInv, Held
  <2>2. gate.alive = {} \/ gate.alive = {gate.owner}
    BY <2>1
  <2>3. Cardinality({}) = 0 /\ Cardinality({gate.owner}) = 1
    BY FS_EmptySet, FS_Singleton
  <2> QED
    BY <2>2, <2>3 DEF OneProcess
<1> QED
  BY Invariance, <1>1, PTL

\* No caller is told twice, and channelInFlight counts the open turns.
THEOREM ToldOnce == Spec => []AnsweredOnce
<1>1. Safe => AnsweredOnce
  BY DEF Safe, GInv, Fates, Count, Open, AnsweredOnce
<1> QED
  BY Invariance, <1>1, PTL

\* "A human waiting on the phone always goes before background boot check-ins"
\* (gate.js:5798), and before deliveries and queued Loops.
THEOREM HumansGoFirst == Spec => HumanFirst
<1> DEFINE A == \A r \in Sends \cup {Wake} \cup ToSet(gate.loops) :
                   gate'.owner = r /\ gate.owner # r => gate'.chats = <<>>
<1>1. Safe /\ [Next]_vars => [A]_vars
  BY Steps DEF Promised
<1> QED
  BY Invariance, <1>1, PTL DEF Spec, HumanFirst

\* "no replacement process will start" (gate.js:5748).
THEOREM NothingStarts == Spec => NoReplacement
<1> DEFINE A == gate.latched => \A r \in gate'.alive \ (gate.alive \ {gate.sending}) : r = gate.sending
<1>1. Safe /\ [Next]_vars => [A]_vars
  BY Steps DEF Promised
<1> QED
  BY Invariance, <1>1, PTL DEF Spec, NoReplacement

\* A quarantine leaves nobody in line, and nobody joins one but a Loop that the
\* operator approves afterwards.
THEOREM NobodyWaits == Spec => NoneLeftWaiting
<1> DEFINE A == /\ gate'.latched /\ ~gate.latched => Queued(gate') = {}
                /\ gate.latched => \A r \in Queued(gate') \ Queued(gate) : gate.st[r] = "gated"
<1>1. Safe /\ [Next]_vars => [A]_vars
  BY Steps DEF Promised
<1> QED
  BY Invariance, <1>1, PTL DEF Spec, NoneLeftWaiting

=============================================================================
