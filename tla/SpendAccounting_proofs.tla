----------------------- MODULE SpendAccounting_proofs -----------------------
(***************************************************************************)
(* The amounts of the spending authority, for every set of runs, requests  *)
(* and limits and under every set of faults: what the file charges is at   *)
(* least what was spent and at most what was reserved, the ledger agrees   *)
(* with the file, and every admission stays under both ceilings.           *)
(*                                                                         *)
(* The argument is by request.  In each image of the file a request either *)
(* holds its reservation, as it was made, or is loose: the day's settled   *)
(* amount then bounds the costs of the loose requests from both sides.  A  *)
(* step about q changes the reservation of q alone, so each sum changes by *)
(* one term.                                                               *)
(***************************************************************************)
EXTENDS SpendAuthority_proofs, FiniteSums

\* The requests that have a reservation in a file, the amounts of requests, and
\* the least and the most that each may cost.
HeldIn(f) == {q \in Requests : \E h \in f.held : h.req = q}
Usd(b) == [q \in Requests |-> b[q].usd]
Lo(b) == [q \in Requests |-> Min({b[q].bill, b[q].usd})]
Hi(b) == [q \in Requests |-> Max({b[q].bill, b[q].usd})]
InDay(b, d) == {q \in Requests : b[q].usd > 0 /\ b[q].day = d}
Loose(f, b, d) == InDay(b, d) \ HeldIn(f)

\* A file keeps every reservation as it was made, and has settled for the other
\* requests of a day no less than what they cost and no more than they may.
Kept(f, b) == \A h \in f.held : /\ b[h.req].usd = h.usd /\ b[h.req].day = h.day /\ h.usd > 0
Sound(f, b) ==
    /\ f \in File
    /\ Kept(f, b)
    /\ \A d \in Days : /\ SumFunctionOnSet(Lo(b), Loose(f, b, d)) <= f.settled[d]
                       /\ f.settled[d] <= SumFunctionOnSet(Hi(b), Loose(f, b, d))

\* Requests whose reservation is in memory, by day.
Live(b, d) == {q \in Requests : b[q].phase \in {"admitted", "sent", "stuck"} /\ b[q].day = d}

ReqType == [phase : ReqPhases, day : Days, usd : Nat, bill : Nat]
Book(b) == b \in [Requests -> ReqType]
DayType == [base : Nat \cup {Unread}, settled : Nat, reserved : Nat]

\* The phases of a request and what its amounts are.
Amounts(q) ==
    /\ req[q].phase = "idle" => req[q].usd = 0 /\ req[q].bill = 0
    /\ req[q].phase \in {"admitted", "sent", "stuck"} => req[q].usd > 0
    /\ req[q].phase = "admitted" => req[q].bill = 0
    /\ req[q].phase \in {"admitted", "sent"} => q \in HeldIn(file) /\ q \in HeldIn(synced)
    /\ ~poisoned /\ q \in HeldIn(file) => req[q].phase \in {"admitted", "sent", "lost"}

\* The ledger's reserved spend of a day is that of its live requests.
Ledger(d) ==
    /\ mem[d].reserved = SumFunctionOnSet(Usd(req), Live(req, d))
    /\ mem[d].base = Unread => mem[d].settled = 0 /\ mem[d].reserved = 0
    /\ ~poisoned /\ mem[d].base # Unread => Used(d) = Charge(file, d)

Books ==
    /\ poisoned \in BOOLEAN /\ mem \in [Days -> DayType] /\ Book(req)
    /\ Sound(file, req) /\ Sound(synced, req)
    /\ \A q \in Requests : Amounts(q)
    /\ \A d \in Days : Ledger(d)

\* Limits cannot change under a contained run that is open.
Captured ==
    \A r \in Relayed : run[r].phase = "open" => r \in active /\ run[r].limits = file.limits

RunTypes ==
    /\ run \in [Runs -> [phase : RunPhases, limits : Limits, day : Days, settled : Nat]]
    /\ active \subseteq Relayed /\ today \in Days

AInv == SInv /\ Books /\ Captured /\ RunTypes

-----------------------------------------------------------------------------
(* Amounts and sums of them                                                *)

LEMMA MinMax ==
    ASSUME NEW a \in Nat, NEW b \in Nat
    PROVE  /\ Min({a, b}) \in Nat /\ Min({a, b}) <= a /\ Min({a, b}) <= b
           /\ Max({a, b}) \in Nat /\ a <= Max({a, b}) /\ b <= Max({a, b})
<1>1. \E x \in {a, b} : \A y \in {a, b} : x <= y
  BY SMT
<1>2. \E x \in {a, b} : \A y \in {a, b} : x >= y
  BY SMT
<1>3. Min({a, b}) \in {a, b} /\ \A y \in {a, b} : Min({a, b}) <= y
  BY <1>1 DEF Min
<1>4. Max({a, b}) \in {a, b} /\ \A y \in {a, b} : Max({a, b}) >= y
  BY <1>2 DEF Max
<1> QED
  BY <1>3, <1>4

\* What a request costs is between the bounds.
LEMMA Bounds ==
    ASSUME NEW b, Book(b), NEW q \in Requests
    PROVE  /\ b[q].usd \in Nat /\ b[q].bill \in Nat /\ b[q].day \in Days /\ b[q].phase \in ReqPhases
           /\ Usd(b)[q] = b[q].usd
           /\ Lo(b)[q] = Min({b[q].bill, b[q].usd}) /\ Hi(b)[q] = Max({b[q].bill, b[q].usd})
           /\ Lo(b)[q] \in Nat /\ Lo(b)[q] <= b[q].usd /\ Lo(b)[q] <= b[q].bill
           /\ Hi(b)[q] \in Nat /\ b[q].usd <= Hi(b)[q] /\ b[q].bill <= Hi(b)[q]
  BY MinMax DEF Book, ReqType, Usd, Lo, Hi

\* The same as the sums need it.
LEMMA Terms ==
    ASSUME NEW b, Book(b)
    PROVE  \A q \in Requests :
               /\ Usd(b)[q] \in Nat /\ Lo(b)[q] \in Nat /\ Hi(b)[q] \in Nat
               /\ Usd(b)[q] \in Int /\ Lo(b)[q] \in Int /\ Hi(b)[q] \in Int
               /\ Lo(b)[q] <= Usd(b)[q] /\ Usd(b)[q] <= Hi(b)[q]
<1> SUFFICES ASSUME NEW q \in Requests
             PROVE  /\ Usd(b)[q] \in Nat /\ Lo(b)[q] \in Nat /\ Hi(b)[q] \in Nat
                    /\ Lo(b)[q] <= Usd(b)[q] /\ Usd(b)[q] <= Hi(b)[q]
  OBVIOUS
<1> DEFINE u == b[q].usd
           lo == Lo(b)[q]
           hi == Hi(b)[q]
<1>1. u \in Nat /\ Usd(b)[q] = u /\ lo \in Nat /\ hi \in Nat /\ lo <= u /\ u <= hi
  BY Bounds
<1> HIDE DEF u, lo, hi
<1>2. Usd(b)[q] \in Nat /\ lo <= Usd(b)[q] /\ Usd(b)[q] <= hi
  BY <1>1
<1> QED
  BY <1>1, <1>2 DEF lo, hi

\* The terms of a request depend on its amounts alone.
LEMMA SameTerm ==
    ASSUME NEW b, Book(b), NEW c, Book(c), NEW q \in Requests,
           c[q].usd = b[q].usd, c[q].bill = b[q].bill
    PROVE  Lo(b)[q] = Lo(c)[q] /\ Hi(b)[q] = Hi(c)[q]
  BY Bounds

\* Every set of requests is finite.
LEMMA Finite ==
    ASSUME NEW S \in SUBSET Requests
    PROVE  IsFiniteSet(S)
  BY RequestAssumption, FS_Subset

\* What a file holds for a set of requests is the sum of their amounts.
LEMMA HeldSum ==
    ASSUME NEW b, Book(b), NEW f \in File, Kept(f, b), NEW S \in SUBSET HeldIn(f)
    PROVE  Holding({h \in f.held : h.req \in S}) = SumFunctionOnSet(Usd(b), S)
<1> DEFINE g == [q \in Requests |-> Reservation(q, b[q].day, b[q].usd)]
           v == [h \in Held |-> h.usd]
           H == {h \in f.held : h.req \in S}
<1>1. S \subseteq Requests /\ IsFiniteSet(S)
  BY Finite DEF HeldIn
<1>2. \A q \in S : g[q] = Reservation(q, b[q].day, b[q].usd) /\ g[q].req = q /\ g[q] \in Held
  BY <1>1, Bounds DEF Reservation, Held
<1>3. \A h \in f.held : h \in Held /\ h.req \in Requests /\ h = Reservation(h.req, b[h.req].day, b[h.req].usd)
  BY DEF Kept, File, Held, Reservation
<1>4. \A q \in S : g[q] \in f.held
  BY <1>1, <1>2, <1>3 DEF HeldIn
<1>5. H = {g[q] : q \in S}
  <2>1. ASSUME NEW h \in H PROVE h.req \in S /\ g[h.req] = h
    BY <1>2, <1>3
  <2>2. ASSUME NEW q \in S PROVE g[q] \in H
    BY <1>2, <1>4
  <2> HIDE DEF g, H
  <2> QED
    BY <2>1, <2>2
<1>6. \A x, y \in S : g[x] = g[y] => x = y
  BY <1>2
<1>7. \A q \in S : Usd(b)[q] \in Int /\ v[g[q]] = Usd(b)[q]
  <2> SUFFICES ASSUME NEW q \in S PROVE Usd(b)[q] \in Int /\ v[g[q]] = Usd(b)[q]
    OBVIOUS
  <2>1. g[q] \in Held /\ g[q].usd = b[q].usd /\ q \in Requests
    BY <1>1, <1>2 DEF Reservation
  <2>2. v[g[q]] = g[q].usd
    <3> HIDE DEF g
    <3> QED
      BY <2>1
  <2>3. Usd(b)[q] = b[q].usd /\ Usd(b)[q] \in Int
    BY <2>1, Bounds, Terms
  <2> QED
    BY <2>1, <2>2, <2>3
<1>8. SumFunctionOnSet(v, {g[q] : q \in S}) = SumFunctionOnSet(Usd(b), S)
  <2> HIDE DEF g, v
  <2> QED
    BY <1>1, <1>6, <1>7, SumImage
<1> QED
  BY <1>5, <1>8 DEF Holding

\* The requests of a day that a file holds, and what it charges for the day.
LEMMA ChargeIs ==
    ASSUME NEW b, Book(b), NEW f \in File, Kept(f, b), NEW d \in Days
    PROVE  /\ Charge(f, d) = f.settled[d] + SumFunctionOnSet(Usd(b), InDay(b, d) \cap HeldIn(f))
           /\ SumFunctionOnSet(Usd(b), InDay(b, d) \cap HeldIn(f)) \in Nat
           /\ f.settled[d] \in Nat /\ Charge(f, d) \in Nat
<1> DEFINE S == InDay(b, d) \cap HeldIn(f)
<1>1. S \in SUBSET HeldIn(f) /\ S \subseteq Requests
  BY DEF HeldIn
<1>2. {h \in f.held : h.day = d} = {h \in f.held : h.req \in S}
  BY DEF Kept, InDay, HeldIn, File, Held
<1>3. Holding({h \in f.held : h.req \in S}) = SumFunctionOnSet(Usd(b), S)
  BY <1>1, HeldSum
<1>4. SumFunctionOnSet(Usd(b), S) \in Nat
  BY <1>1, Finite, Terms, SumNat
<1>5. f.settled[d] \in Nat
  BY DEF File
<1>6. Charge(f, d) = f.settled[d] + SumFunctionOnSet(Usd(b), S)
  BY <1>2, <1>3 DEF Charge
<1> HIDE DEF S
<1>7. f.settled[d] + SumFunctionOnSet(Usd(b), S) \in Nat
  BY <1>4, <1>5
<1> QED
  BY <1>4, <1>5, <1>6, <1>7 DEF S

\* A sound file charges for a day at least what was spent and at most what may
\* be charged.
LEMMA Accounts ==
    ASSUME NEW b, Book(b), NEW f, Sound(f, b), NEW d \in Days
    PROVE  /\ SumFunctionOnSet(Lo(b), InDay(b, d)) <= Charge(f, d)
           /\ Charge(f, d) <= SumFunctionOnSet(Hi(b), InDay(b, d))
<1> DEFINE S == InDay(b, d)
           K == S \cap HeldIn(f)
           L == Loose(f, b, d)
<1>1. /\ S \subseteq Requests /\ K \in SUBSET S /\ L = S \ K
      /\ L \subseteq Requests /\ K \subseteq Requests
  BY DEF InDay, Loose
<1>2. IsFiniteSet(S) /\ IsFiniteSet(K) /\ IsFiniteSet(L)
  BY <1>1, Finite
<1>3. \A q \in Requests : /\ Lo(b)[q] \in Int /\ Hi(b)[q] \in Int /\ Usd(b)[q] \in Int
                          /\ Lo(b)[q] <= Usd(b)[q] /\ Usd(b)[q] <= Hi(b)[q]
  BY Terms
<1> HIDE DEF S, K, L
<1>4. /\ SumFunctionOnSet(Lo(b), S) = SumFunctionOnSet(Lo(b), K) + SumFunctionOnSet(Lo(b), L)
      /\ SumFunctionOnSet(Hi(b), S) = SumFunctionOnSet(Hi(b), K) + SumFunctionOnSet(Hi(b), L)
  BY <1>1, <1>2, <1>3, SumSplit
<1>5. /\ SumFunctionOnSet(Lo(b), K) <= SumFunctionOnSet(Usd(b), K)
      /\ SumFunctionOnSet(Usd(b), K) <= SumFunctionOnSet(Hi(b), K)
  BY <1>1, <1>2, <1>3, SumAtMost
<1>6. /\ SumFunctionOnSet(Lo(b), K) \in Int /\ SumFunctionOnSet(Lo(b), L) \in Int
      /\ SumFunctionOnSet(Hi(b), K) \in Int /\ SumFunctionOnSet(Hi(b), L) \in Int
  BY <1>1, <1>2, <1>3, SumRemove
<1>7. /\ SumFunctionOnSet(Lo(b), L) <= f.settled[d] /\ f.settled[d] <= SumFunctionOnSet(Hi(b), L)
      /\ f \in File /\ Kept(f, b)
  BY DEF Sound, L
<1>8. /\ Charge(f, d) = f.settled[d] + SumFunctionOnSet(Usd(b), K)
      /\ SumFunctionOnSet(Usd(b), K) \in Nat /\ f.settled[d] \in Nat
  BY <1>7, ChargeIs DEF K, S
<1> QED
  BY <1>4, <1>5, <1>6, <1>7, <1>8 DEF S

-----------------------------------------------------------------------------
(* What a step makes of a sound file                                       *)

\* Phases, and what the provider bills for a request that is held, do not
\* matter to a file.
LEMMA SoundSame ==
    ASSUME NEW b, Book(b), NEW c, Book(c), NEW f, Sound(f, b),
           \A q \in Requests : /\ c[q].usd = b[q].usd /\ c[q].day = b[q].day
                               /\ q \notin HeldIn(f) => c[q].bill = b[q].bill
    PROVE  Sound(f, c)
<1>1. f \in File /\ Kept(f, c)
  BY DEF Sound, Kept, File, Held
<1>2. ASSUME NEW d \in Days
      PROVE  /\ SumFunctionOnSet(Lo(c), Loose(f, c, d)) <= f.settled[d]
             /\ f.settled[d] <= SumFunctionOnSet(Hi(c), Loose(f, c, d))
  <2>1. Loose(f, c, d) = Loose(f, b, d) /\ Loose(f, b, d) \subseteq Requests
    BY DEF Loose, InDay
  <2>2. \A q \in Loose(f, b, d) : /\ Lo(b)[q] \in Int /\ Lo(b)[q] = Lo(c)[q]
                                  /\ Hi(b)[q] \in Int /\ Hi(b)[q] = Hi(c)[q]
    BY <2>1, Terms, SameTerm DEF Loose
  <2>3. /\ SumFunctionOnSet(Lo(b), Loose(f, b, d)) = SumFunctionOnSet(Lo(c), Loose(f, b, d))
        /\ SumFunctionOnSet(Hi(b), Loose(f, b, d)) = SumFunctionOnSet(Hi(c), Loose(f, b, d))
    BY <2>1, <2>2, Finite, SumSame
  <2> QED
    BY <2>1, <2>3 DEF Sound
<1> QED
  BY <1>1, <1>2 DEF Sound

\* q gets its amount on a day, and the books of the others stay.
Made(b, c, q, d, usd) ==
    /\ b[q].usd = 0 /\ c[q].usd = usd /\ c[q].day = d /\ usd > 0
    /\ \A p \in Requests \ {q} : c[p] = b[p]

\* A file that reserves it is sound whatever is billed, and
LEMMA SoundReserved ==
    ASSUME NEW b, Book(b), NEW c, Book(c), NEW f, Sound(f, b),
           NEW q \in Requests, NEW d \in Days, NEW usd \in Nat, Made(b, c, q, d, usd),
           NEW g, g = [f EXCEPT !.held = @ \cup {Reservation(q, d, usd)}]
    PROVE  Sound(g, c)
<1>1. /\ g.held = f.held \cup {Reservation(q, d, usd)} /\ g.settled = f.settled /\ g.limits = f.limits
      /\ g \in File /\ Reservation(q, d, usd).req = q
      /\ Reservation(q, d, usd).day = d /\ Reservation(q, d, usd).usd = usd
  BY DEF Sound, File, Held, Reservation
<1>2. HeldIn(g) = HeldIn(f) \cup {q}
  BY <1>1 DEF HeldIn
<1>3. q \notin HeldIn(f)
  BY DEF HeldIn, Sound, Kept, Made
<1>4. Kept(g, c)
  <2> SUFFICES ASSUME NEW h \in g.held PROVE c[h.req].usd = h.usd /\ c[h.req].day = h.day /\ h.usd > 0
    BY DEF Kept
  <2>1. CASE h = Reservation(q, d, usd)
    BY <1>1, <2>1 DEF Made
  <2>2. CASE h \in f.held
    <3>1. h.req \in Requests /\ h.req # q
      BY <1>3, <2>2 DEF HeldIn, Sound, File, Held
    <3> QED
      BY <2>2, <3>1 DEF Sound, Kept, Made
  <2> QED
    BY <1>1, <2>1, <2>2
<1>5. ASSUME NEW e \in Days
      PROVE  /\ SumFunctionOnSet(Lo(c), Loose(g, c, e)) <= g.settled[e]
             /\ g.settled[e] <= SumFunctionOnSet(Hi(c), Loose(g, c, e))
  <2>1. Loose(g, c, e) = Loose(f, b, e) /\ Loose(f, b, e) \subseteq Requests /\ q \notin Loose(f, b, e)
    BY <1>2 DEF Loose, InDay, Made
  <2>2. \A p \in Loose(f, b, e) : /\ Lo(b)[p] \in Int /\ Lo(b)[p] = Lo(c)[p]
                                  /\ Hi(b)[p] \in Int /\ Hi(b)[p] = Hi(c)[p]
    BY <2>1, Terms, SameTerm DEF Made
  <2>3. /\ SumFunctionOnSet(Lo(b), Loose(f, b, e)) = SumFunctionOnSet(Lo(c), Loose(f, b, e))
        /\ SumFunctionOnSet(Hi(b), Loose(f, b, e)) = SumFunctionOnSet(Hi(c), Loose(f, b, e))
    BY <2>1, <2>2, Finite, SumSame
  <2> QED
    BY <1>1, <2>1, <2>3 DEF Sound
<1> QED
  BY <1>1, <1>4, <1>5 DEF Sound

\* so is one that does not, as long as nothing is billed.
LEMMA SoundDenied ==
    ASSUME NEW b, Book(b), NEW c, Book(c), NEW f, Sound(f, b),
           NEW q \in Requests, NEW d \in Days, NEW usd \in Nat, Made(b, c, q, d, usd), c[q].bill = 0
    PROVE  Sound(f, c)
<1>1. q \notin HeldIn(f) /\ f \in File
  BY DEF HeldIn, Sound, Kept, Made
<1>2. Kept(f, c)
  BY <1>1 DEF Sound, Kept, Made, HeldIn, File, Held
<1>3. ASSUME NEW e \in Days
      PROVE  /\ SumFunctionOnSet(Lo(c), Loose(f, c, e)) <= f.settled[e]
             /\ f.settled[e] <= SumFunctionOnSet(Hi(c), Loose(f, c, e))
  <2> DEFINE L == Loose(f, b, e)
  <2>1. L \subseteq Requests /\ q \notin L
    BY DEF Loose, InDay, Made
  <2>2. Loose(f, c, e) = IF e = d THEN L \cup {q} ELSE L
    BY <1>1 DEF Loose, InDay, Made
  <2>3. \A p \in L : /\ Lo(b)[p] \in Int /\ Lo(b)[p] = Lo(c)[p]
                     /\ Hi(b)[p] \in Int /\ Hi(b)[p] = Hi(c)[p]
    BY <2>1, Terms, SameTerm DEF Made
  <2>4. /\ SumFunctionOnSet(Lo(b), L) <= f.settled[e] /\ f.settled[e] <= SumFunctionOnSet(Hi(b), L)
        /\ f.settled[e] \in Nat
    BY DEF Sound, File
  <2> HIDE DEF L
  <2>5. /\ SumFunctionOnSet(Lo(b), L) = SumFunctionOnSet(Lo(c), L)
        /\ SumFunctionOnSet(Hi(b), L) = SumFunctionOnSet(Hi(c), L)
        /\ SumFunctionOnSet(Lo(c), L) \in Int /\ SumFunctionOnSet(Hi(c), L) \in Int
    BY <2>1, <2>3, Finite, SumSame, SumRemove
  <2>6. CASE e # d
    BY <2>2, <2>4, <2>5, <2>6
  <2>7. CASE e = d
    <3>1. Lo(c)[q] = 0 /\ Hi(c)[q] \in Nat
      <4>1. Lo(c)[q] \in Nat /\ Lo(c)[q] <= c[q].bill /\ Hi(c)[q] \in Nat
        BY Bounds
      <4> QED
        BY <4>1
    <3>2. /\ SumFunctionOnSet(Lo(c), L \cup {q}) = Lo(c)[q] + SumFunctionOnSet(Lo(c), L)
          /\ SumFunctionOnSet(Hi(c), L \cup {q}) = Hi(c)[q] + SumFunctionOnSet(Hi(c), L)
      BY <2>1, <2>3, <3>1, Finite, SumAdd
    <3> QED
      BY <2>2, <2>4, <2>5, <2>7, <3>1, <3>2
  <2> QED
    BY <2>6, <2>7
<1> QED
  BY <1>1, <1>2, <1>3 DEF Sound

\* A file that settles q for a cost within its bounds is sound.
LEMMA SoundSettled ==
    ASSUME NEW b, Book(b), NEW f, Sound(f, b), NEW q \in Requests, q \in HeldIn(f),
           NEW cost \in Nat, Lo(b)[q] <= cost, cost <= Hi(b)[q], NEW g \in File,
           g.held = {h \in f.held : h.req # q},
           \A e \in Days : g.settled[e] = IF e = b[q].day THEN f.settled[e] + cost ELSE f.settled[e]
    PROVE  Sound(g, b)
<1>1. Kept(g, b)
  BY DEF Sound, Kept
<1>2. HeldIn(g) = HeldIn(f) \ {q}
  BY DEF HeldIn
<1>3. b[q].usd > 0
  BY DEF HeldIn, Sound, Kept
<1>4. ASSUME NEW e \in Days
      PROVE  /\ SumFunctionOnSet(Lo(b), Loose(g, b, e)) <= g.settled[e]
             /\ g.settled[e] <= SumFunctionOnSet(Hi(b), Loose(g, b, e))
  <2> DEFINE L == Loose(f, b, e)
  <2>1. L \subseteq Requests /\ q \notin L
    BY DEF Loose, InDay
  <2>2. Loose(g, b, e) = IF e = b[q].day THEN L \cup {q} ELSE L
    BY <1>2, <1>3 DEF Loose, InDay
  <2>3. \A p \in L \cup {q} : Lo(b)[p] \in Int /\ Hi(b)[p] \in Int
    BY <2>1, Terms
  <2>4. /\ SumFunctionOnSet(Lo(b), L) <= f.settled[e] /\ f.settled[e] <= SumFunctionOnSet(Hi(b), L)
        /\ f.settled[e] \in Nat
    BY DEF Sound, File
  <2> HIDE DEF L
  <2>5. SumFunctionOnSet(Lo(b), L) \in Int /\ SumFunctionOnSet(Hi(b), L) \in Int
    BY <2>1, <2>3, Finite, SumRemove
  <2>6. CASE e # b[q].day
    BY <2>2, <2>4, <2>6
  <2>7. CASE e = b[q].day
    <3>1. /\ SumFunctionOnSet(Lo(b), L \cup {q}) = Lo(b)[q] + SumFunctionOnSet(Lo(b), L)
          /\ SumFunctionOnSet(Hi(b), L \cup {q}) = Hi(b)[q] + SumFunctionOnSet(Hi(b), L)
      BY <2>1, <2>3, Finite, SumAdd
    <3>2. Lo(b)[q] \in Int /\ Hi(b)[q] \in Int
      BY <2>3
    <3> QED
      BY <2>2, <2>4, <2>5, <2>7, <3>1, <3>2
  <2> QED
    BY <2>6, <2>7
<1> QED
  BY <1>1, <1>4 DEF Sound

-----------------------------------------------------------------------------
(* What a step makes of the charge of a day                                *)

LEMMA HeldFinite ==
    ASSUME NEW b, Book(b), NEW f \in File, Kept(f, b), NEW H \in SUBSET f.held
    PROVE  /\ IsFiniteSet(H)
           /\ \A h \in H : [x \in Held |-> x.usd][h] \in Int /\ [x \in Held |-> x.usd][h] = h.usd
           /\ Holding(H) \in Nat
<1> DEFINE g == [h \in f.held |-> h.req]
<1>1. \A h \in f.held : h \in Held /\ h.req \in Requests /\ h.usd \in Nat
                        /\ h = Reservation(h.req, b[h.req].day, b[h.req].usd)
  BY DEF Kept, File, Held, Reservation
<1>2. g \in Injection(f.held, Requests)
  BY <1>1 DEF Injection, IsInjective
<1>3. IsFiniteSet(f.held)
  <2> HIDE DEF g
  <2> QED
    BY <1>2, RequestAssumption, FS_Injection
<1>4. IsFiniteSet(H)
  BY <1>3, FS_Subset
<1>5. \A h \in H : [x \in Held |-> x.usd][h] \in Nat /\ [x \in Held |-> x.usd][h] = h.usd
  BY <1>1
<1> QED
  BY <1>4, <1>5, SumNat DEF Holding

LEMMA ChargeReserved ==
    ASSUME NEW b, Book(b), NEW f, Sound(f, b), NEW q \in Requests, b[q].usd = 0,
           NEW d \in Days, NEW usd \in Nat, NEW e \in Days
    PROVE  Charge([f EXCEPT !.held = @ \cup {Reservation(q, d, usd)}], e)
           = Charge(f, e) + (IF e = d THEN usd ELSE 0)
<1> DEFINE new == Reservation(q, d, usd)
           g == [f EXCEPT !.held = @ \cup {new}]
           H == {h \in f.held : h.day = e}
           v == [x \in Held |-> x.usd]
<1>1. /\ f \in File /\ Kept(f, b) /\ g.settled = f.settled /\ g.held = f.held \cup {new}
      /\ new \in Held /\ new.day = d /\ new.usd = usd /\ new.req = q
  BY DEF Sound, File, Reservation, Held
<1>2. new \notin f.held
  BY <1>1 DEF Kept
<1>3. /\ IsFiniteSet(H) /\ Holding(H) \in Nat /\ new \notin H
      /\ \A h \in H : v[h] \in Int
  BY <1>1, <1>2, HeldFinite
<1>4. v[new] = usd
  <2> HIDE DEF new
  <2> QED
    BY <1>1
<1>5. f.settled[e] \in Nat
  BY <1>1 DEF File
<1>6. CASE e = d
  <2>1. {h \in g.held : h.day = e} = H \cup {new}
    BY <1>1, <1>6
  <2>2. SumFunctionOnSet(v, H \cup {new}) = v[new] + SumFunctionOnSet(v, H)
    <3> HIDE DEF v, H, new
    <3> QED
      BY <1>3, <1>4, SumAdd
  <2>3. Charge(g, e) = f.settled[e] + (usd + Holding(H))
    BY <1>1, <1>4, <2>1, <2>2 DEF Charge, Holding
  <2>4. Charge(f, e) = f.settled[e] + Holding(H)
    BY DEF Charge
  <2> HIDE DEF g, H
  <2> QED
    BY <1>3, <1>5, <1>6, <2>3, <2>4 DEF g
<1>7. CASE e # d
  <2>1. {h \in g.held : h.day = e} = H
    BY <1>1, <1>7
  <2>2. Charge(g, e) = Charge(f, e) /\ Charge(f, e) = f.settled[e] + Holding(H)
    BY <1>1, <2>1 DEF Charge
  <2>3. f.settled[e] + Holding(H) \in Nat
    <3> HIDE DEF H
    <3> QED
      BY <1>3, <1>5
  <2>4. Charge(f, e) \in Nat
    BY <2>2, <2>3
  <2> HIDE DEF g
  <2> QED
    BY <1>7, <2>2, <2>4 DEF g
<1> QED
  BY <1>6, <1>7

LEMMA ChargeSettled ==
    ASSUME NEW b, Book(b), NEW f, Sound(f, b), NEW q \in Requests, q \in HeldIn(f),
           NEW cost \in Nat, NEW g \in File, g.held = {h \in f.held : h.req # q}, NEW e \in Days,
           g.settled[e] = IF e = b[q].day THEN f.settled[e] + cost ELSE f.settled[e]
    PROVE  Charge(g, e) = Charge(f, e) + (IF e = b[q].day THEN cost - b[q].usd ELSE 0)
<1> DEFINE H == {h \in f.held : h.day = e}
           v == [x \in Held |-> x.usd]
<1>1. f \in File /\ Kept(f, b) /\ f.settled[e] \in Nat
  BY DEF Sound, File
<1>2. PICK old \in f.held : old.req = q
  BY DEF HeldIn
<1>3. /\ old.day = b[q].day /\ old.usd = b[q].usd /\ old \in Held
      /\ \A h \in f.held : h.req = q => h = old
  BY <1>1, <1>2 DEF Kept, File, Held
<1>4. b[q].usd \in Nat
  BY Bounds
<1>5. /\ IsFiniteSet(H) /\ Holding(H) \in Nat
      /\ \A h \in H : v[h] \in Int /\ v[h] = h.usd
  BY <1>1, HeldFinite
<1>6. CASE e = b[q].day
  <2>1. {h \in g.held : h.day = e} = H \ {old} /\ old \in H
    BY <1>2, <1>3, <1>6
  <2>2. SumFunctionOnSet(v, H) = v[old] + SumFunctionOnSet(v, H \ {old}) /\ v[old] = b[q].usd
    <3> HIDE DEF v, H
    <3> QED
      BY <1>3, <1>5, <2>1, SumRemove
  <2>3. Holding(H \ {old}) \in Nat
    BY <1>1, HeldFinite
  <2>4. Holding(H) = b[q].usd + Holding(H \ {old})
    BY <2>2 DEF Holding
  <2>5. /\ Charge(g, e) = (f.settled[e] + cost) + Holding(H \ {old})
        /\ Charge(f, e) = f.settled[e] + Holding(H)
    BY <1>6, <2>1 DEF Charge
  <2> HIDE DEF H
  <2> QED
    BY <1>1, <1>4, <1>5, <1>6, <2>3, <2>4, <2>5
<1>7. CASE e # b[q].day
  <2>1. {h \in g.held : h.day = e} = H
    BY <1>3, <1>7
  <2>2. Charge(g, e) = f.settled[e] + Holding(H) /\ Charge(f, e) = f.settled[e] + Holding(H)
    BY <1>7, <2>1 DEF Charge
  <2> HIDE DEF H
  <2> QED
    BY <1>1, <1>5, <1>7, <2>2
<1> QED
  BY <1>6, <1>7

-----------------------------------------------------------------------------
(* The ledger                                                              *)

\* What a day's admissions work from: what the file charges, whether the base
\* was read or is read now, as long as the fuse is whole.
LEMMA UsedIs ==
    ASSUME Books, NEW d \in Days
    PROVE  /\ Charge(file, d) \in Nat /\ Base(d) \in Nat /\ mem[d] \in DayType
           /\ Used(d) \in Nat
           /\ ~poisoned => Used(d) = Charge(file, d)
<1>1. Charge(file, d) \in Nat
  BY ChargeIs DEF Books, Sound
<1>2. mem[d] \in DayType /\ Ledger(d)
  BY DEF Books
<1>3. mem[d].settled \in Nat /\ mem[d].reserved \in Nat /\ mem[d].base \in Nat \cup {Unread}
  BY <1>2 DEF DayType
<1>4. Base(d) \in Nat
  BY <1>1, <1>3 DEF Base
<1>5. Used(d) \in Nat
  BY <1>3, <1>4 DEF Used
<1>6. ASSUME ~poisoned PROVE Used(d) = Charge(file, d)
  <2>1. CASE mem[d].base = Unread
    BY <1>1, <1>2, <2>1 DEF Ledger, Used, Base
  <2>2. CASE mem[d].base # Unread
    BY <1>2, <1>6, <2>2 DEF Ledger
  <2> QED
    BY <2>1, <2>2
<1> QED
  BY <1>1, <1>2, <1>4, <1>5, <1>6

\* The reserved spend of a day is a sum of naturals over a finite set.
LEMMA LiveSum ==
    ASSUME NEW b, Book(b), NEW d
    PROVE  /\ Live(b, d) \subseteq Requests /\ IsFiniteSet(Live(b, d))
           /\ SumFunctionOnSet(Usd(b), Live(b, d)) \in Nat
  BY Finite, Terms, SumNat DEF Live

\* Where phases move only among the live ones, or only among the others, and no
\* live amount moves, the sums stay.
LEMMA LiveSame ==
    ASSUME NEW b, Book(b), NEW c, Book(c), NEW d, Live(c, d) = Live(b, d),
           \A q \in Live(b, d) : c[q].usd = b[q].usd
    PROVE  SumFunctionOnSet(Usd(c), Live(c, d)) = SumFunctionOnSet(Usd(b), Live(b, d))
<1>1. \A q \in Live(b, d) : Usd(b)[q] \in Int /\ Usd(b)[q] = Usd(c)[q]
  BY LiveSum, Terms, Bounds
<1> QED
  BY <1>1, LiveSum, SumSame

\* A base that is read agrees with the file.
LEMMA BaseRead ==
    ASSUME Books, NEW d \in Days, NEW m, m = mem \/ m = ReadBase(d)
    PROVE  /\ m \in [Days -> DayType]
           /\ \A e \in Days : /\ m[e].settled = mem[e].settled /\ m[e].reserved = mem[e].reserved
                              /\ m[e].base # Unread \/ m[e].base = mem[e].base
                              /\ ~poisoned /\ m[e].base # Unread =>
                                     m[e].base + m[e].settled + m[e].reserved = Charge(file, e)
<1>1. /\ mem \in [Days -> DayType]
      /\ \A e \in Days : mem[e] \in DayType /\ Used(e) = Base(e) + mem[e].settled + mem[e].reserved
                         /\ (~poisoned => Used(e) = Charge(file, e)) /\ Base(e) \in Nat
                         /\ (mem[e].base # Unread => Base(e) = mem[e].base)
  BY UsedIs DEF Books, Used, Base
<1>2. CASE m = mem
  BY <1>1, <1>2
<1>3. CASE m = ReadBase(d)
  <2>1. /\ m \in [Days -> DayType] /\ m[d] = [mem[d] EXCEPT !.base = Base(d)]
        /\ \A e \in Days : e # d => m[e] = mem[e]
    BY <1>1, <1>3 DEF ReadBase, DayType
  <2>2. m[d].base = Base(d) /\ m[d].settled = mem[d].settled /\ m[d].reserved = mem[d].reserved
    BY <1>1, <2>1 DEF DayType
  <2>3. Base(d) # Unread
    BY <1>1, UnreadAssumption
  <2> QED
    BY <1>1, <2>1, <2>2, <2>3
<1> QED
  BY <1>2, <1>3

\* A step that leaves the live requests and their amounts alone, and the file,
\* keeps the ledger; it may read a base.
LEMMA LedgerSame ==
    ASSUME Books, NEW d \in Days, mem' = mem \/ mem' = ReadBase(d), Book(req)',
           \A e \in Days : /\ Live(req', e) = Live(req, e)
                           /\ \A q \in Live(req, e) : req'[q].usd = req[q].usd,
           poisoned' \/ (~poisoned /\ \A e \in Days : Charge(file', e) = Charge(file, e))
    PROVE  mem' \in [Days -> DayType] /\ \A e \in Days : Ledger(e)'
<1>1. mem' \in [Days -> DayType]
  BY BaseRead
<1> SUFFICES ASSUME NEW e \in Days PROVE Ledger(e)'
  BY <1>1
<1>2. /\ mem'[e].settled = mem[e].settled /\ mem'[e].reserved = mem[e].reserved
      /\ mem'[e].base # Unread \/ mem'[e].base = mem[e].base
      /\ ~poisoned /\ mem'[e].base # Unread =>
             mem'[e].base + mem'[e].settled + mem'[e].reserved = Charge(file, e)
  BY BaseRead
<1>3. SumFunctionOnSet(Usd(req'), Live(req', e)) = SumFunctionOnSet(Usd(req), Live(req, e))
  BY LiveSame DEF Books
<1>4. Ledger(e)
  BY DEF Books
<1>5. /\ mem'[e].reserved = SumFunctionOnSet(Usd(req'), Live(req', e))
      /\ mem'[e].base = Unread => mem'[e].settled = 0 /\ mem'[e].reserved = 0
  BY <1>2, <1>3, <1>4 DEF Ledger
<1>6. ~poisoned' /\ mem'[e].base # Unread => Used(e)' = Charge(file', e)
  BY <1>2 DEF Used, Base
<1> QED
  BY <1>5, <1>6 DEF Ledger

-----------------------------------------------------------------------------
(* The books, by what a step does with a request                           *)

\* Of the ledger: the reserved spend of the day grows with what the file charges.
LEMMA LedgerReserved ==
    ASSUME Books, NEW q \in Requests, req[q].phase = "idle", NEW d \in Days, NEW usd \in Nat,
           Book(req'), Made(req, req', q, d, usd), req'[q].phase \in {"admitted", "sent"},
           file' = [file EXCEPT !.held = @ \cup {Reservation(q, d, usd)}],
           mem' = Reserve(d, usd), ~poisoned, ~poisoned'
    PROVE  mem' \in [Days -> DayType] /\ \A e \in Days : Ledger(e)'
<1>0. /\ Book(req) /\ Book(req') /\ Sound(file, req) /\ ~poisoned /\ ~poisoned'
      /\ req[q].usd = 0 /\ req'[q].usd = usd /\ req'[q].day = d
      /\ \A p \in Requests \ {q} : req'[p] = req[p]
  BY DEF Books, Made
<1>1. /\ mem \in [Days -> DayType]
      /\ \A e \in Days : mem[e] \in DayType /\ Ledger(e) /\ Used(e) = Base(e) + mem[e].settled + mem[e].reserved
                         /\ Used(e) = Charge(file, e) /\ Base(e) \in Nat /\ Charge(file, e) \in Nat
  BY <1>0, UsedIs DEF Books, Used
<1>2. /\ mem' \in [Days -> DayType] /\ mem'[d].base = Base(d) /\ mem'[d].settled = mem[d].settled
      /\ mem'[d].reserved = mem[d].reserved + usd
      /\ \A e \in Days \ {d} : mem'[e] = mem[e]
  <2>1. DOMAIN mem = Days /\ mem[d] \in DayType
    BY <1>1
  <2>2. /\ mem[d].settled \in Nat /\ mem[d].reserved \in Nat /\ Base(d) \in Nat
        /\ mem[d] = [base |-> mem[d].base, settled |-> mem[d].settled, reserved |-> mem[d].reserved]
    BY <1>1, <2>1 DEF DayType
  <2> DEFINE m == [mem EXCEPT ![d].base = Base(d)]
  <2>a. mem' = [m EXCEPT ![d].reserved = @ + usd]
    BY <2>1, <2>2 DEF Reserve
  <2>b. DOMAIN m = Days /\ m[d] = [base |-> Base(d), settled |-> mem[d].settled, reserved |-> mem[d].reserved]
        /\ \A e \in Days \ {d} : m[e] = mem[e]
    BY <2>1, <2>2
  <2> HIDE DEF m
  <2>3. mem'[d] = [base |-> Base(d), settled |-> mem[d].settled, reserved |-> mem[d].reserved + usd]
    BY <2>a, <2>b
  <2>4. DOMAIN mem' = Days /\ mem' = [e \in Days |-> mem'[e]] /\ \A e \in Days \ {d} : mem'[e] = mem[e]
    BY <2>a, <2>b
  <2>5. mem'[d] \in DayType
    BY <2>2, <2>3 DEF DayType
  <2>6. mem' \in [Days -> DayType]
    <3>1. \A e \in Days : mem'[e] \in DayType
      BY <1>1, <2>4, <2>5
    <3> QED
      BY <2>4, <3>1
  <2> QED
    BY <2>3, <2>4, <2>6
<1>3. ASSUME NEW e \in Days
      PROVE  Charge(file', e) = Charge(file, e) + (IF e = d THEN usd ELSE 0)
  BY <1>0, ChargeReserved DEF Made
<1>4. ASSUME NEW e \in Days \ {d} PROVE Ledger(e)'
  <2>1. Live(req', e) = Live(req, e) /\ \A p \in Live(req, e) : req'[p].usd = req[p].usd
    BY <1>0, <1>4 DEF Live, Amounts
  <2>2. SumFunctionOnSet(Usd(req'), Live(req', e)) = SumFunctionOnSet(Usd(req), Live(req, e))
    BY <1>0, <2>1, LiveSame
  <2>3. Charge(file', e) = Charge(file, e)
    <3>1. Charge(file', e) = Charge(file, e) + 0 /\ Charge(file, e) \in Nat
      BY <1>1, <1>3, <1>4
    <3> QED
      BY <3>1
  <2>4. Ledger(e) /\ mem'[e] = mem[e]
    BY <1>1, <1>2
  <2>5. mem'[e].base # Unread => Used(e)' = Used(e)
    BY <2>4 DEF Used, Base
  <2> QED
    BY <1>0, <2>2, <2>3, <2>4, <2>5 DEF Ledger
<1>5. Ledger(d)'
  <2> DEFINE L == Live(req, d)
  <2>1. L \subseteq Requests /\ IsFiniteSet(L) /\ q \notin L
    <3>1. L \subseteq Requests /\ IsFiniteSet(L)
      BY <1>0, LiveSum
    <3> QED
      BY <3>1 DEF Live
  <2>a. \A p \in L : req'[p] = req[p]
    BY <1>0, <2>1
  <2>b. Live(req', d) = L \cup {q}
    <3>1. ASSUME NEW p \in Requests, p # q PROVE p \in Live(req', d) <=> p \in L
      BY <1>0, <3>1 DEF Live
    <3>2. q \in Live(req', d) /\ Live(req', d) \subseteq Requests
      BY <1>0 DEF Live
    <3> QED
      BY <2>1, <3>1, <3>2
  <2>2. \A p \in L \cup {q} : Usd(req')[p] \in Int
    BY <1>0, <2>1, Terms
  <2>c. \A p \in L : Usd(req')[p] = Usd(req)[p]
    <3> SUFFICES ASSUME NEW p \in L PROVE Usd(req')[p] = Usd(req)[p]
      OBVIOUS
    <3>1. p \in Requests /\ req'[p] = req[p]
      BY <2>1, <2>a
    <3>2. Usd(req')[p] = req'[p].usd /\ Usd(req)[p] = req[p].usd
      BY <1>0, <3>1, Bounds
    <3> QED
      BY <3>1, <3>2
  <2>d. Usd(req')[q] = usd
    BY <1>0, Bounds
  <2> HIDE DEF L
  <2>3. SumFunctionOnSet(Usd(req'), L \cup {q}) = Usd(req')[q] + SumFunctionOnSet(Usd(req'), L)
    BY <2>1, <2>2, SumAdd
  <2>4. SumFunctionOnSet(Usd(req'), L) = SumFunctionOnSet(Usd(req), L)
    BY <2>1, <2>2, <2>c, SumSame
  <2>5. mem[d].reserved = SumFunctionOnSet(Usd(req), L) /\ mem[d].reserved \in Nat
        /\ mem[d].settled \in Nat
    BY <1>1 DEF Ledger, L, DayType
  <2>6. mem'[d].reserved = SumFunctionOnSet(Usd(req'), Live(req', d))
    <3> DEFINE T == SumFunctionOnSet(Usd(req), L)
    <3>1. SumFunctionOnSet(Usd(req'), Live(req', d)) = usd + T /\ mem[d].reserved = T
      BY <2>b, <2>d, <2>3, <2>4, <2>5
    <3> HIDE DEF T
    <3> QED
      BY <1>2, <2>5, <3>1
  <2>7. mem'[d].base # Unread
    BY <1>1, <1>2, UnreadAssumption
  <2>8. Used(d)' = mem'[d].base + mem'[d].settled + mem'[d].reserved
    BY <2>7 DEF Used, Base
  <2>9. Used(d)' = Charge(file', d)
    <3>1. Charge(file', d) = Charge(file, d) + usd
      BY <1>3
    <3>2. Charge(file, d) = Base(d) + mem[d].settled + mem[d].reserved
          /\ Base(d) \in Nat
      BY <1>1
    <3> QED
      BY <1>2, <2>5, <2>8, <3>1, <3>2
  <2> QED
    BY <2>6, <2>7, <2>9 DEF Ledger
<1> QED
  BY <1>2, <1>4, <1>5

\* Reserved, and admitted or sent.
LEMMA BooksReserved ==
    ASSUME Books, NEW q \in Requests, req[q].phase = "idle", NEW d \in Days,
           NEW usd \in Nat, usd > 0, NEW bill \in Nat, NEW phase \in {"admitted", "sent"},
           phase = "admitted" => bill = 0,
           Saved(Reserved(Reservation(q, d, usd))), mem' = Reserve(d, usd), UNCHANGED poisoned,
           req' = [req EXCEPT ![q] = [phase |-> phase, day |-> d, usd |-> usd, bill |-> bill]]
    PROVE  Books'
<1> DEFINE new == [file EXCEPT !.held = @ \cup {Reservation(q, d, usd)}]
<1>0. /\ Book(req) /\ Sound(file, req) /\ Amounts(q) /\ ~poisoned
      /\ file' = new /\ synced' = new /\ q \notin HeldIn(file)
  BY DEF Books, Saved, Reserved, Amounts, Sound, Kept, HeldIn
<1>1. /\ Book(req') /\ Made(req, req', q, d, usd) /\ req'[q].phase = phase /\ req'[q].bill = bill
      /\ req'[q].usd = usd /\ req'[q].day = d /\ \A p \in Requests \ {q} : req'[p] = req[p]
  BY <1>0 DEF Book, Made, Amounts, ReqType, ReqPhases
<1>a. Book(req) /\ Book(req')
  BY <1>0, <1>1
<1>2. Sound(file', req') /\ Sound(synced', req')
  BY <1>0, <1>1, SoundReserved
<1>3. HeldIn(file') = HeldIn(file) \cup {q} /\ HeldIn(synced') = HeldIn(file')
  BY <1>0 DEF HeldIn, Sound, File, Reservation
<1>4. ASSUME NEW p \in Requests PROVE Amounts(p)'
  <2>1. Amounts(p)
    BY DEF Books
  <2> QED
    BY <1>0, <1>1, <1>3, <2>1 DEF Amounts
<1>5. mem' \in [Days -> DayType] /\ \A e \in Days : Ledger(e)'
  BY <1>0, <1>1, LedgerReserved
<1> QED
  BY <1>0, <1>1, <1>2, <1>4, <1>5 DEF Books

\* Denied because its reservation could not be written.
LEMMA BooksDenied ==
    ASSUME Books, NEW q \in Requests, req[q].phase = "idle", NEW d \in Days,
           NEW usd \in Nat, usd > 0, NotSaved(Reserved(Reservation(q, d, usd))),
           mem' = mem \/ mem' = ReadBase(d), poisoned' = TRUE,
           req' = [req EXCEPT ![q] = [phase |-> "denied", day |-> d, usd |-> usd, bill |-> 0]]
    PROVE  Books'
<1> DEFINE new == [file EXCEPT !.held = @ \cup {Reservation(q, d, usd)}]
<1>0. /\ Book(req) /\ Sound(file, req) /\ Sound(synced, req) /\ Amounts(q)
      /\ file' \in {file, new} /\ synced' = synced
  BY DEF Books, NotSaved, Reserved
<1>1. /\ Book(req') /\ Made(req, req', q, d, usd) /\ req'[q].phase = "denied" /\ req'[q].bill = 0
      /\ req'[q].usd = usd /\ req'[q].day = d /\ \A p \in Requests \ {q} : req'[p] = req[p]
  BY <1>0 DEF Book, Made, Amounts, ReqType, ReqPhases
<1>2. Sound(file', req') /\ Sound(synced', req')
  <2>1. Sound(file, req') /\ Sound(synced, req')
    BY <1>0, <1>1, SoundDenied
  <2>2. Sound(new, req')
    BY <1>0, <1>1, SoundReserved
  <2> QED
    BY <1>0, <2>1, <2>2
<1>3. HeldIn(file) \subseteq HeldIn(file')
  BY <1>0 DEF HeldIn, Sound, File
<1>4. ASSUME NEW p \in Requests PROVE Amounts(p)'
  <2>1. Amounts(p)
    BY DEF Books
  <2> QED
    BY <1>0, <1>1, <1>3, <2>1 DEF Amounts
<1>5. \A e \in Days : /\ Live(req', e) = Live(req, e)
                      /\ \A p \in Live(req, e) : req'[p].usd = req[p].usd
  BY <1>1 DEF Live
<1>6. mem' \in [Days -> DayType] /\ \A e \in Days : Ledger(e)'
  BY <1>1, <1>5, LedgerSame
<1> QED
  BY <1>1, <1>2, <1>4, <1>6 DEF Books

\* The books of requests whose amounts stay, while the file does: a request is
\* denied for want of money, is sent, or gets stuck.
LEMMA BooksMoved ==
    ASSUME Books, NEW q \in Requests, NEW d \in Days, mem' = mem \/ mem' = ReadBase(d),
           Book(req'), \A p \in Requests \ {q} : req'[p] = req[p],
           req'[q].usd = req[q].usd, req'[q].day = req[q].day,
           \/ /\ req[q].phase = "idle" /\ req'[q].phase = "denied"
              /\ req'[q].bill = req[q].bill /\ UNCHANGED poisoned
           \/ req[q].phase = "admitted" /\ req'[q].phase = "sent" /\ UNCHANGED poisoned
           \/ /\ req[q].phase \in {"admitted", "sent"} /\ req'[q].phase = "stuck"
              /\ req'[q].bill = req[q].bill /\ poisoned' = TRUE,
           UNCHANGED <<file, synced>>
    PROVE  Books'
<1>0. /\ Book(req) /\ Sound(file, req) /\ Sound(synced, req) /\ Amounts(q) /\ poisoned' \in BOOLEAN
  BY DEF Books
<1>1. req[q].phase = "idle" => q \notin HeldIn(file)
  BY <1>0 DEF Amounts, HeldIn, Sound, Kept
<1>2. Sound(file', req') /\ Sound(synced', req')
  <2>1. \A p \in Requests : /\ req'[p].usd = req[p].usd /\ req'[p].day = req[p].day
                            /\ p \notin HeldIn(file) \/ p \notin HeldIn(synced) => req'[p].bill = req[p].bill
    BY <1>0 DEF Amounts
  <2> QED
    BY <1>0, <2>1, SoundSame
<1>3. ASSUME NEW p \in Requests PROVE Amounts(p)'
  <2>1. Amounts(p)
    BY DEF Books
  <2> QED
    BY <1>0, <1>1, <2>1 DEF Amounts
<1>4. \A e \in Days : /\ Live(req', e) = Live(req, e)
                      /\ \A p \in Live(req, e) : req'[p].usd = req[p].usd
  BY DEF Live
<1>5. mem' \in [Days -> DayType] /\ \A e \in Days : Ledger(e)'
  <2>1. poisoned' \/ (~poisoned /\ \A e \in Days : Charge(file', e) = Charge(file, e))
    BY <1>0 DEF Books
  <2> QED
    BY <1>4, <2>1, LedgerSame
<1> QED
  BY <1>0, <1>2, <1>3, <1>5 DEF Books

\* What a settlement writes: the reservation of q is gone and its cost is added
\* to its day; a cancellation adds nothing.
Clears(new, q, cost) ==
    /\ new \in File /\ new.held = {h \in file.held : h.req # q}
    /\ \A e \in Days :
        new.settled[e] = IF e = req[q].day THEN file.settled[e] + cost ELSE file.settled[e]

LEMMA SettlesIs ==
    ASSUME Books, NEW q \in Requests, NEW cost \in Nat
    PROVE  /\ Clears(Settled(q, cost), q, cost)
           /\ Clears(Cancelled(q), q, 0)
<1>0. file \in File /\ req[q].day \in Days
  BY Bounds DEF Books, Sound
<1>1. /\ file.settled \in [Days -> Nat] /\ file.held \subseteq Held /\ file.limits \in Limits
      /\ file = [limits |-> file.limits, settled |-> file.settled, held |-> file.held]
  BY <1>0 DEF File
<1>2. Cancelled(q) = [limits |-> file.limits, settled |-> file.settled, held |-> file.held \ HeldFor(q)]
  BY <1>1 DEF Cancelled
<1>3. file.held \ HeldFor(q) = {h \in file.held : h.req # q}
  BY DEF HeldFor
<1>4. Clears(Cancelled(q), q, 0)
  <2>1. \A e \in Days : file.settled[e] + 0 = file.settled[e]
    BY <1>1
  <2> QED
    BY <1>1, <1>2, <1>3, <2>1 DEF Clears, File
<1>5. Settled(q, cost) = [limits |-> file.limits, held |-> file.held \ HeldFor(q),
                          settled |-> [file.settled EXCEPT ![req[q].day] = @ + cost]]
  BY <1>1, <1>2 DEF Settled
<1>6. /\ [file.settled EXCEPT ![req[q].day] = @ + cost] \in [Days -> Nat]
      /\ \A e \in Days : [file.settled EXCEPT ![req[q].day] = @ + cost][e]
                         = IF e = req[q].day THEN file.settled[e] + cost ELSE file.settled[e]
  BY <1>0, <1>1
<1>7. Clears(Settled(q, cost), q, cost)
  BY <1>1, <1>3, <1>5, <1>6 DEF Clears, File
<1> QED
  BY <1>4, <1>7

\* The ledger follows the file when a live request is settled.
LEMMA LedgerSettled ==
    ASSUME Books, NEW q \in Requests, req[q].phase \in {"admitted", "sent"}, NEW cost \in Nat,
           Book(req'), req'[q].phase = "ended",
           \A p \in Requests \ {q} : req'[p] = req[p],
           Clears(file', q, cost), mem' = Release(q, cost), ~poisoned,
           NEW d, d = req[q].day
    PROVE  mem' \in [Days -> DayType] /\ \A e \in Days : Ledger(e)'
<1> DEFINE usd == req[q].usd
<1>0. /\ Book(req) /\ Book(req') /\ Sound(file, req) /\ ~poisoned /\ Amounts(q)
      /\ \A p \in Requests \ {q} : req'[p] = req[p]
  BY DEF Books
<1>a. /\ d \in Days /\ usd \in Nat /\ usd > 0 /\ q \in HeldIn(file)
  BY <1>0, Bounds DEF Amounts
<1>1. /\ mem \in [Days -> DayType]
      /\ \A e \in Days : mem[e] \in DayType /\ Ledger(e) /\ Used(e) = Base(e) + mem[e].settled + mem[e].reserved
                         /\ Used(e) = Charge(file, e) /\ Base(e) \in Nat /\ Charge(file, e) \in Nat
  BY <1>0, UsedIs DEF Books, Used
<1>3. ASSUME NEW e \in Days
      PROVE  Charge(file', e) = Charge(file, e) + (IF e = d THEN cost - usd ELSE 0)
  BY <1>0, <1>a, ChargeSettled DEF Clears
<1> DEFINE L == Live(req, d)
<1>4. /\ L \subseteq Requests /\ IsFiniteSet(L) /\ q \in L
      /\ SumFunctionOnSet(Usd(req), L) \in Nat
  <2>1. L \subseteq Requests /\ IsFiniteSet(L) /\ SumFunctionOnSet(Usd(req), L) \in Nat
    BY <1>0, LiveSum
  <2> QED
    BY <2>1 DEF Live
<1>5. Live(req', d) = L \ {q}
  <2>1. ASSUME NEW p \in Requests, p # q PROVE p \in Live(req', d) <=> p \in L
    BY <1>0, <2>1 DEF Live
  <2>2. q \notin Live(req', d) /\ Live(req', d) \subseteq Requests
    BY DEF Live
  <2> QED
    BY <1>4, <2>1, <2>2
<1>6. SumFunctionOnSet(Usd(req), L) = usd + SumFunctionOnSet(Usd(req), L \ {q})
  <2>1. \A p \in L : Usd(req)[p] \in Int
    BY <1>0, <1>4, Terms
  <2>2. Usd(req)[q] = usd
    BY <1>0, Bounds
  <2> HIDE DEF L
  <2> QED
    BY <1>4, <2>1, <2>2, SumRemove
<1>7. /\ SumFunctionOnSet(Usd(req'), L \ {q}) = SumFunctionOnSet(Usd(req), L \ {q})
      /\ SumFunctionOnSet(Usd(req), L \ {q}) \in Nat
  <2>1. \A p \in L \ {q} : Usd(req)[p] \in Nat /\ Usd(req)[p] \in Int /\ Usd(req)[p] = Usd(req')[p]
    <3> SUFFICES ASSUME NEW p \in L \ {q}
                 PROVE  Usd(req)[p] \in Nat /\ Usd(req)[p] \in Int /\ Usd(req)[p] = Usd(req')[p]
      OBVIOUS
    <3>1. p \in Requests /\ req'[p] = req[p]
      BY <1>0, <1>4
    <3>2. Usd(req')[p] = req'[p].usd /\ Usd(req)[p] = req[p].usd /\ Usd(req)[p] \in Nat /\ Usd(req)[p] \in Int
      BY <1>0, <3>1, Bounds, Terms
    <3> QED
      BY <3>1, <3>2
  <2>2. IsFiniteSet(L \ {q})
    BY <1>4, FS_RemoveElement
  <2> HIDE DEF L
  <2> QED
    BY <2>1, <2>2, SumSame, SumNat
<1>8. mem[d].reserved = usd + SumFunctionOnSet(Usd(req), L \ {q}) /\ mem[d].base # Unread
  <2>1. mem[d].reserved = usd + SumFunctionOnSet(Usd(req), L \ {q})
    BY <1>1, <1>6, <1>a DEF Ledger
  <2>2. mem[d].reserved # 0
    <3> DEFINE T == SumFunctionOnSet(Usd(req), L \ {q})
    <3>1. T \in Nat /\ mem[d].reserved = usd + T
      BY <1>7, <2>1
    <3> HIDE DEF T
    <3> QED
      BY <1>a, <3>1
  <2> QED
    BY <1>1, <1>a, <2>1, <2>2 DEF Ledger
<1>9. /\ mem' \in [Days -> DayType] /\ mem'[d].base = mem[d].base /\ mem'[d].settled = mem[d].settled + cost
      /\ mem'[d].reserved = mem[d].reserved - usd
      /\ \A e \in Days \ {d} : mem'[e] = mem[e]
  <2>1. DOMAIN mem = Days /\ mem[d] \in DayType
    BY <1>1, <1>a
  <2>2. /\ mem[d].settled \in Nat /\ mem[d].reserved \in Nat /\ mem[d].base \in Nat \cup {Unread}
        /\ mem[d] = [base |-> mem[d].base, settled |-> mem[d].settled, reserved |-> mem[d].reserved]
    BY <2>1 DEF DayType
  <2> DEFINE m == [mem EXCEPT ![d].reserved = @ - usd]
  <2>a. mem' = [m EXCEPT ![d].settled = @ + cost]
    BY <2>1, <2>2 DEF Release
  <2>b. DOMAIN m = Days
        /\ m[d] = [base |-> mem[d].base, settled |-> mem[d].settled, reserved |-> mem[d].reserved - usd]
        /\ \A e \in Days \ {d} : m[e] = mem[e]
    BY <1>a, <2>1, <2>2
  <2> HIDE DEF m
  <2>3. mem'[d] = [base |-> mem[d].base, settled |-> mem[d].settled + cost, reserved |-> mem[d].reserved - usd]
    BY <1>a, <2>a, <2>b
  <2>4. DOMAIN mem' = Days /\ mem' = [e \in Days |-> mem'[e]] /\ \A e \in Days \ {d} : mem'[e] = mem[e]
    BY <2>a, <2>b
  <2>5. mem[d].reserved - usd \in Nat
    <3> DEFINE T == SumFunctionOnSet(Usd(req), L \ {q})
    <3>1. T \in Nat /\ mem[d].reserved = usd + T
      BY <1>7, <1>8
    <3> HIDE DEF T
    <3> QED
      BY <1>a, <3>1
  <2>6. mem'[d] \in DayType
    BY <2>2, <2>3, <2>5 DEF DayType
  <2>7. \A e \in Days : mem'[e] \in DayType
    BY <1>1, <2>4, <2>6
  <2> QED
    BY <2>3, <2>4, <2>7
<1>10. ASSUME NEW e \in Days \ {d} PROVE Ledger(e)'
  <2>1. Live(req', e) = Live(req, e) /\ \A p \in Live(req, e) : req'[p].usd = req[p].usd
    BY <1>0, <1>10 DEF Live
  <2>2. SumFunctionOnSet(Usd(req'), Live(req', e)) = SumFunctionOnSet(Usd(req), Live(req, e))
    BY <1>0, <2>1, LiveSame
  <2>3. Charge(file', e) = Charge(file, e)
    <3>1. Charge(file', e) = Charge(file, e) + 0 /\ Charge(file, e) \in Nat
      BY <1>1, <1>3, <1>10
    <3> QED
      BY <3>1
  <2>4. Ledger(e) /\ mem'[e] = mem[e]
    BY <1>1, <1>9
  <2>5. mem'[e].base # Unread => Used(e)' = Used(e)
    BY <2>4 DEF Used, Base
  <2> QED
    BY <1>0, <2>2, <2>3, <2>4, <2>5 DEF Ledger
<1>11. Ledger(d)'
  <2>1. SumFunctionOnSet(Usd(req'), Live(req', d)) = SumFunctionOnSet(Usd(req), L \ {q})
    BY <1>5, <1>7
  <2>2. mem[d].reserved - usd = SumFunctionOnSet(Usd(req), L \ {q})
    <3> DEFINE T == SumFunctionOnSet(Usd(req), L \ {q})
    <3>1. T \in Nat /\ mem[d].reserved = usd + T
      BY <1>7, <1>8
    <3> HIDE DEF T
    <3>2. mem[d].reserved - usd = T
      BY <1>a, <3>1
    <3> QED
      BY <3>2 DEF T
  <2>3. mem'[d].base # Unread
    BY <1>8, <1>9
  <2>4. Used(d)' = mem'[d].base + mem'[d].settled + mem'[d].reserved
    BY <2>3 DEF Used, Base
  <2>5. Used(d)' = Charge(file', d)
    <3>1. Charge(file', d) = Charge(file, d) + (cost - usd)
      BY <1>3, <1>a
    <3>2. Charge(file, d) = mem[d].base + mem[d].settled + mem[d].reserved /\ mem[d].base \in Nat
          /\ mem[d].settled \in Nat /\ mem[d].reserved \in Nat
      BY <1>1, <1>8, <1>a DEF Base, DayType
    <3> HIDE DEF usd
    <3> QED
      BY <1>9, <1>a, <2>4, <3>1, <3>2
  <2> QED
    BY <1>9, <2>1, <2>2, <2>3, <2>5 DEF Ledger
<1> QED
  BY <1>9, <1>10, <1>11

\* A request moves into a phase and keeps its amounts.
Becomes(q, phase) ==
    /\ Book(req') /\ \A p \in Requests \ {q} : req'[p] = req[p]
    /\ req'[q].phase = phase
    /\ req'[q].usd = req[q].usd /\ req'[q].day = req[q].day /\ req'[q].bill = req[q].bill

LEMMA PhaseMoves ==
    ASSUME Book(req), NEW q \in Requests, NEW phase \in ReqPhases, req' = [req EXCEPT ![q].phase = phase]
    PROVE  Becomes(q, phase)
<1>1. /\ req[q] = [phase |-> req[q].phase, day |-> req[q].day, usd |-> req[q].usd, bill |-> req[q].bill]
      /\ req[q] \in ReqType /\ DOMAIN req = Requests
  BY DEF Book, ReqType
<1>2. /\ req'[q] = [phase |-> phase, day |-> req[q].day, usd |-> req[q].usd, bill |-> req[q].bill]
      /\ \A p \in Requests \ {q} : req'[p] = req[p]
  BY <1>1
<1>3. Book(req')
  <2>1. req'[q] \in ReqType
    BY <1>1, <1>2 DEF ReqType
  <2>2. req' = [p \in Requests |-> req'[p]]
    BY <1>1
  <2>3. \A p \in Requests : req'[p] \in ReqType
    BY <1>2, <2>1 DEF Book
  <2> QED
    BY <2>2, <2>3 DEF Book
<1> QED
  BY <1>2, <1>3 DEF Becomes

\* Phases alone change nothing in a file.
LEMMA SoundMoved ==
    ASSUME Book(req), NEW q \in Requests, NEW phase, Becomes(q, phase), NEW f, Sound(f, req)
    PROVE  Sound(f, req')
<1>1. \A p \in Requests : /\ req'[p].usd = req[p].usd /\ req'[p].day = req[p].day
                          /\ p \notin HeldIn(f) => req'[p].bill = req[p].bill
  BY DEF Becomes
<1>2. Book(req')
  BY DEF Becomes
<1> QED
  BY <1>1, <1>2, SoundSame

\* Settled, or cancelled, in a write that succeeded.
LEMMA BooksSettled ==
    ASSUME Books, NEW q \in Requests, req[q].phase \in {"admitted", "sent"}, NEW cost \in Nat,
           Lo(req)[q] <= cost, cost <= Hi(req)[q], NEW new, Clears(new, q, cost), Saved(new),
           mem' = Release(q, cost), Becomes(q, "ended"), poisoned' \in BOOLEAN
    PROVE  Books'
<1>0. /\ Book(req) /\ Book(req') /\ Sound(file, req) /\ Amounts(q) /\ ~poisoned
      /\ file' = new /\ synced' = new /\ q \in HeldIn(file)
  BY DEF Books, Saved, Becomes, Amounts
<1>1. Sound(new, req)
  BY <1>0, SoundSettled DEF Clears
<1>2. Sound(file', req') /\ Sound(synced', req')
  BY <1>0, <1>1, SoundMoved
<1>3. HeldIn(file') = HeldIn(file) \ {q} /\ HeldIn(synced') = HeldIn(file')
  BY <1>0 DEF HeldIn, Clears
<1>4. ASSUME NEW p \in Requests PROVE Amounts(p)'
  <2>1. Amounts(p)
    BY DEF Books
  <2> QED
    BY <1>0, <1>3, <2>1 DEF Amounts, Becomes
<1>5. mem' \in [Days -> DayType] /\ \A e \in Days : Ledger(e)'
  <2>1. /\ req'[q].phase = "ended" /\ \A p \in Requests \ {q} : req'[p] = req[p]
        /\ Clears(file', q, cost)
    BY <1>0 DEF Becomes
  <2> QED
    BY <1>0, <2>1, LedgerSettled
<1> QED
  BY <1>0, <1>2, <1>4, <1>5 DEF Books

\* Stuck, because the accounting could not be written.
LEMMA BooksStuck ==
    ASSUME Books, NEW q \in Requests, req[q].phase \in {"admitted", "sent"}, NEW cost \in Nat,
           Lo(req)[q] <= cost, cost <= Hi(req)[q], NEW new, Clears(new, q, cost), NotSaved(new),
           UNCHANGED mem, Becomes(q, "stuck"), poisoned' = TRUE
    PROVE  Books'
<1>0. /\ Book(req) /\ Book(req') /\ Sound(file, req) /\ Sound(synced, req) /\ Amounts(q)
      /\ file' \in {file, new} /\ synced' = synced /\ q \in HeldIn(file)
  BY DEF Books, NotSaved, Becomes, Amounts
<1>1. Sound(new, req)
  BY <1>0, SoundSettled DEF Clears
<1>2. Sound(file', req') /\ Sound(synced', req')
  BY <1>0, <1>1, SoundMoved
<1>3. \A p \in Requests \ {q} : p \in HeldIn(file) => p \in HeldIn(file')
  BY <1>0 DEF HeldIn, Clears
<1>4. ASSUME NEW p \in Requests PROVE Amounts(p)'
  <2>1. Amounts(p)
    BY DEF Books
  <2> QED
    BY <1>0, <1>3, <2>1 DEF Amounts, Becomes
<1>5. \A e \in Days : /\ Live(req', e) = Live(req, e)
                      /\ \A p \in Live(req, e) : req'[p].usd = req[p].usd
  BY DEF Live, Becomes
<1>6. ASSUME NEW d \in Days PROVE mem' \in [Days -> DayType] /\ \A e \in Days : Ledger(e)'
  BY <1>0, <1>5, LedgerSame
<1>7. 1 \in Days
  BY AmountAssumption DEF Days
<1> QED
  BY <1>0, <1>2, <1>4, <1>6, <1>7 DEF Books

\* A restart reads whichever image of the file survived; it holds every
\* reservation that may have left, and has forgotten the day's totals.
LEMMA BooksRestarted ==
    ASSUME Books, Restarted, file' \in {file, synced}, synced' \in {file, synced}
    PROVE  Books'
<1>0. Book(req) /\ Sound(file, req) /\ Sound(synced, req)
  BY DEF Books
<1>1. ASSUME NEW q \in Requests
      PROVE  /\ req'[q] \in ReqType
             /\ req'[q].usd = req[q].usd /\ req'[q].day = req[q].day /\ req'[q].bill = req[q].bill
             /\ req'[q].phase = IF req[q].phase = "idle" THEN "idle" ELSE "lost"
  <2>1. /\ req[q] \in ReqType
        /\ req[q] = [phase |-> req[q].phase, day |-> req[q].day, usd |-> req[q].usd, bill |-> req[q].bill]
    BY <1>0 DEF Book, ReqType
  <2>2. req'[q] = IF req[q].phase = "idle" THEN req[q] ELSE [req[q] EXCEPT !.phase = "lost"]
    BY DEF Restarted
  <2> QED
    BY <2>1, <2>2 DEF ReqType, ReqPhases
<1>2. Book(req')
  <2>1. req' = [q \in Requests |-> req'[q]]
    BY DEF Restarted
  <2> QED
    BY <1>1, <2>1 DEF Book
<1>3. Sound(file', req') /\ Sound(synced', req')
  <2>1. Sound(file, req') /\ Sound(synced, req')
    BY <1>0, <1>1, <1>2, SoundSame
  <2> QED
    BY <2>1
<1>4. ASSUME NEW q \in Requests PROVE Amounts(q)'
  <2>1. Amounts(q) /\ (req[q].phase = "idle" => q \notin HeldIn(file) /\ q \notin HeldIn(synced))
    BY <1>0 DEF Books, Amounts, HeldIn, Sound, Kept
  <2> QED
    BY <1>1, <2>1 DEF Amounts
<1>5. poisoned' \in BOOLEAN /\ mem' \in [Days -> DayType] /\ \A e \in Days : mem'[e] = FreshDay
  BY DEF Restarted, FreshDay, DayType
<1>6. ASSUME NEW e \in Days PROVE Ledger(e)'
  <2>1. Live(req', e) = {}
    BY <1>1 DEF Live
  <2>2. SumFunctionOnSet(Usd(req'), Live(req', e)) = 0
    BY <2>1, SumEmpty
  <2>3. mem'[e].base = Unread /\ mem'[e].settled = 0 /\ mem'[e].reserved = 0
    BY <1>5 DEF FreshDay
  <2> QED
    BY <2>2, <2>3 DEF Ledger
<1> QED
  BY <1>2, <1>3, <1>4, <1>5, <1>6 DEF Books

\* Limits are no part of the books.
LEMMA BooksLimited ==
    ASSUME Books, NEW limits \in Limits,
           file' \in {file, [file EXCEPT !.limits = limits]},
           synced' = synced \/ synced' = file',
           UNCHANGED poisoned \/ poisoned' = TRUE, UNCHANGED <<mem, req>>
    PROVE  Books'
<1> DEFINE new == [file EXCEPT !.limits = limits]
<1>0. Book(req) /\ Sound(file, req) /\ Sound(synced, req) /\ poisoned' \in BOOLEAN
  BY DEF Books
<1>1. new \in File /\ new.held = file.held /\ new.settled = file.settled
  BY <1>0 DEF Sound, File
<1>2. /\ HeldIn(new) = HeldIn(file)
      /\ \A e \in Days : Charge(new, e) = Charge(file, e)
      /\ \A e \in Days : Loose(new, req, e) = Loose(file, req, e)
  BY <1>1 DEF HeldIn, Charge, Loose
<1>3. Sound(new, req)
  BY <1>0, <1>1, <1>2 DEF Sound, Kept
<1> HIDE DEF new
<1>4. file' \in {file, new} /\ (synced' = synced \/ synced' = file')
  BY DEF new
<1>5. Sound(file', req') /\ Sound(synced', req')
  BY <1>0, <1>3, <1>4
<1>6. ASSUME NEW q \in Requests PROVE Amounts(q)'
  <2>1. Amounts(q) /\ req'[q] = req[q]
    BY DEF Books
  <2> QED
    BY <1>2, <1>4, <2>1 DEF Amounts
<1>7. 1 \in Days
  BY AmountAssumption DEF Days
<1>8. mem' \in [Days -> DayType] /\ \A e \in Days : Ledger(e)'
  <2>1. poisoned' \/ (~poisoned /\ \A e \in Days : Charge(file', e) = Charge(file, e))
    BY <1>0, <1>2, <1>4 DEF Books
  <2>2. \A e \in Days : Live(req', e) = Live(req, e) /\ \A q \in Live(req, e) : req'[q].usd = req[q].usd
    OBVIOUS
  <2>3. Book(req)'
    BY <1>0
  <2> QED
    BY <1>7, <2>1, <2>2, <2>3, LedgerSame
<1> QED
  BY <1>0, <1>5, <1>6, <1>8 DEF Books

-----------------------------------------------------------------------------
(* The steps keep the books                                                *)

LEMMA MinInt ==
    ASSUME NEW a \in Int, NEW b \in Int
    PROVE  Min({a, b}) \in Int /\ Min({a, b}) <= a /\ Min({a, b}) <= b
<1>1. \E x \in {a, b} : \A y \in {a, b} : x <= y
  BY SMT
<1>2. Min({a, b}) \in {a, b} /\ \A y \in {a, b} : Min({a, b}) <= y
  BY <1>1 DEF Min
<1> QED
  BY <1>2

\* What the live requests of a run hold in memory.
Promised(r) == SumFunctionOnSet([q \in Requests |-> req[q].usd], Outstanding(r))

\* What is admitted is positive and leaves both ceilings whole.
LEMMA Admissible ==
    ASSUME Books, NEW limits \in Limits, NEW spent \in Nat, NEW r, NEW d \in Days,
           NEW available, available = Available(limits, spent, r, d), available >= Least
    PROVE  /\ Amount(available) \in Nat /\ Amount(available) > 0
           /\ Promised(r) \in Nat /\ limits.run \in Nat /\ limits.day \in Nat
           /\ Used(d) + Amount(available) <= limits.day
           /\ spent + Promised(r) + Amount(available) <= limits.run
<1>1. limits.run \in Nat /\ limits.day \in Nat
  BY LimitAssumption
<1>2. Promised(r) \in Nat
  <2>1. Book(req) /\ Outstanding(r) \subseteq Requests /\ IsFiniteSet(Outstanding(r))
    BY Finite DEF Books, Outstanding
  <2>2. \A q \in Outstanding(r) : Usd(req)[q] \in Nat
    BY <2>1, Terms
  <2>3. SumFunctionOnSet(Usd(req), Outstanding(r)) \in Nat
    BY <2>1, <2>2, SumNat
  <2> QED
    BY <2>3 DEF Promised, Usd
<1>3. Used(d) \in Nat
  BY UsedIs
<1> DEFINE byRun == limits.run - spent - Promised(r)
           byDay == limits.day - Used(d)
<1>4. available = Min({byRun, byDay})
  BY DEF Available, Promised
<1>5. byRun \in Int /\ byDay \in Int
  BY <1>1, <1>2, <1>3
<1>6. available \in Int /\ available <= byRun /\ available <= byDay
  <2> HIDE DEF byRun, byDay
  <2> QED
    BY <1>4, <1>5, MinInt
<1>7. Amount(available) \in Int /\ Amount(available) <= available /\ Amount(available) > 0
  BY <1>6, AmountAssumption DEF Amount
<1> QED
  BY <1>1, <1>2, <1>3, <1>6, <1>7

LEMMA AdmitBooks ==
    ASSUME AInv, NEW q \in Requests, Admit(q)
    PROVE  Books'
<1> DEFINE r == RunOf[q]
           d == run[r].day
           available == Available(run[r].limits, run[r].settled, r, d)
           usd == Amount(available)
           new == Reserved(Reservation(q, d, usd))
<1>0. /\ Books /\ Book(req) /\ req[q].phase = "idle"
      /\ d \in Days /\ run[r].limits \in Limits /\ run[r].settled \in Nat
  <2>1. r \in Runs
    BY RunAssumption
  <2> QED
    BY <2>1 DEF AInv, Books, RunTypes, Admit
<1>1. available >= Least => usd \in Nat /\ usd > 0
  BY <1>0, Admissible
<1>2. CASE /\ available >= Least /\ Saved(new) /\ mem' = Reserve(d, usd) /\ UNCHANGED poisoned
           /\ req' = [req EXCEPT ![q] = [phase |-> "admitted", day |-> d, usd |-> usd, bill |-> 0]]
  <2> HIDE DEF usd, d, available
  <2> QED
    BY <1>0, <1>1, <1>2, BooksReserved
<1>3. CASE /\ available >= Least /\ NotSaved(new) /\ poisoned' = TRUE
           /\ mem' = IF poisoned THEN mem ELSE ReadBase(d)
           /\ req' = [req EXCEPT ![q] = [phase |-> "denied", day |-> d, usd |-> usd, bill |-> 0]]
  <2>1. mem' = mem \/ mem' = ReadBase(d)
    BY <1>3
  <2> HIDE DEF usd, d, available
  <2> QED
    BY <1>0, <1>1, <1>3, <2>1, BooksDenied
<1>4. CASE /\ mem' = IF poisoned \/ today # d THEN mem ELSE ReadBase(d)
           /\ req' = [req EXCEPT ![q].phase = "denied"] /\ UNCHANGED <<file, synced, poisoned>>
  <2>1. mem' = mem \/ mem' = ReadBase(d)
    BY <1>4
  <2>2. Becomes(q, "denied")
    BY <1>0, <1>4, PhaseMoves DEF ReqPhases
  <2> HIDE DEF d
  <2> QED
    BY <1>0, <1>4, <2>1, <2>2, BooksMoved DEF Becomes
<1> QED
  BY <1>2, <1>3, <1>4 DEF Admit

LEMMA TurnBooks ==
    ASSUME AInv, NEW q \in Requests, Turn(q)
    PROVE  Books'
<1> DEFINE r == RunOf[q]
           available == Available(file.limits, 0, r, today)
           usd == Amount(available)
           new == Reserved(Reservation(q, today, usd))
<1>0. Books /\ Book(req) /\ today \in Days /\ file.limits \in Limits /\ run[r].phase = "idle"
  BY DEF AInv, Books, RunTypes, Turn, Sound, File
<1>1. available >= Least => usd \in Nat /\ usd > 0
  BY <1>0, Admissible
<1>a. req[q].phase = "idle"
  BY DEF AInv, SInv, InStep, Turn
<1>2. CASE /\ available >= Least /\ Saved(new) /\ mem' = Reserve(today, usd) /\ UNCHANGED poisoned
           /\ \E bill \in Bills(usd) :
                req' = [req EXCEPT ![q] = [phase |-> "sent", day |-> today, usd |-> usd, bill |-> bill]]
  <2> HIDE DEF usd, available
  <2>1. PICK bill \in Bills(usd) :
            req' = [req EXCEPT ![q] = [phase |-> "sent", day |-> today, usd |-> usd, bill |-> bill]]
    BY <1>2
  <2>2. bill \in Nat
    BY <1>1, <1>2 DEF Bills
  <2> QED
    BY <1>0, <1>1, <1>a, <1>2, <2>1, <2>2, BooksReserved
<1>3. CASE /\ available >= Least /\ NotSaved(new) /\ poisoned' = TRUE /\ mem' = ReadBase(today)
           /\ req' = [req EXCEPT ![q] = [phase |-> "denied", day |-> today, usd |-> usd, bill |-> 0]]
  <2> HIDE DEF usd, available
  <2> QED
    BY <1>0, <1>1, <1>a, <1>3, BooksDenied
<1>4. CASE /\ mem' = ReadBase(today)
           /\ req' = [req EXCEPT ![q].phase = "denied"] /\ UNCHANGED <<file, synced, poisoned>>
  <2>2. Becomes(q, "denied")
    BY <1>0, <1>4, PhaseMoves DEF ReqPhases
  <2> QED
    BY <1>0, <1>a, <1>4, <2>2, BooksMoved DEF Becomes
<1> QED
  BY <1>2, <1>3, <1>4 DEF Turn

LEMMA SendBooks ==
    ASSUME AInv, NEW q \in Requests, Send(q)
    PROVE  Books'
<1>0. Books /\ Book(req) /\ req[q].phase = "admitted" /\ UNCHANGED <<file, synced, poisoned, mem>>
  BY DEF AInv, Books, Send
<1>1. PICK bill \in Bills(req[q].usd) : req' = [req EXCEPT ![q].phase = "sent", ![q].bill = bill]
  BY DEF Send
<1>2. bill \in Nat
  <2>1. req[q].usd \in Nat
    BY <1>0, Bounds
  <2>2. bill = 0 \/ bill = req[q].usd \/ bill = req[q].usd + 1
    BY DEF Bills
  <2> QED
    BY <2>1, <2>2
<1> DEFINE mid == [req EXCEPT ![q].phase = "sent"]
<1>3. /\ req[q] = [phase |-> req[q].phase, day |-> req[q].day, usd |-> req[q].usd, bill |-> req[q].bill]
      /\ req[q] \in ReqType /\ DOMAIN req = Requests
  BY <1>0 DEF Book, ReqType
<1>4. req' = [mid EXCEPT ![q].bill = bill]
  BY <1>1, <1>3
<1>5. /\ mid[q] = [phase |-> "sent", day |-> req[q].day, usd |-> req[q].usd, bill |-> req[q].bill]
      /\ DOMAIN mid = Requests /\ \A p \in Requests \ {q} : mid[p] = req[p]
  BY <1>3
<1> HIDE DEF mid
<1>6. /\ req'[q] = [phase |-> "sent", day |-> req[q].day, usd |-> req[q].usd, bill |-> bill]
      /\ \A p \in Requests \ {q} : req'[p] = req[p]
      /\ req' = [p \in Requests |-> req'[p]]
  <2>2. req'[q] = [mid[q] EXCEPT !.bill = bill] /\ \A p \in Requests \ {q} : req'[p] = mid[p]
    BY <1>4, <1>5
  <2>3. req' = [p \in Requests |-> req'[p]]
    BY <1>4, <1>5
  <2> QED
    BY <1>5, <2>2, <2>3
<1>7. Book(req')
  <2>1. req'[q] \in ReqType
    BY <1>2, <1>3, <1>6 DEF ReqType, ReqPhases
  <2>2. \A p \in Requests : req'[p] \in ReqType
    BY <1>0, <1>6, <2>1 DEF Book
  <2> QED
    BY <1>6, <2>2 DEF Book
<1>8. 1 \in Days
  BY AmountAssumption DEF Days
<1>9. req'[q].phase = "sent" /\ req'[q].usd = req[q].usd /\ req'[q].day = req[q].day
  BY <1>6
<1>10. \A p \in Requests \ {q} : req'[p] = req[p]
  BY <1>6
<1> QED
  BY <1>0, <1>7, <1>8, <1>9, <1>10, BooksMoved

LEMMA WithdrawBooks ==
    ASSUME AInv, NEW q \in Requests, Withdraw(q)
    PROVE  Books'
<1>0. Books /\ Book(req) /\ Amounts(q) /\ req[q].phase = "admitted" /\ Clears(Cancelled(q), q, 0)
  BY SettlesIs DEF AInv, Books, Withdraw
<1>1. Lo(req)[q] <= 0 /\ 0 <= Hi(req)[q]
  <2>1. Lo(req)[q] <= req[q].bill /\ req[q].bill = 0 /\ Hi(req)[q] \in Nat /\ Lo(req)[q] \in Nat
    BY <1>0, Bounds DEF Amounts
  <2> QED
    BY <2>1
<1>2. CASE /\ Saved(Cancelled(q)) /\ mem' = Release(q, 0) /\ req' = [req EXCEPT ![q].phase = "ended"]
           /\ UNCHANGED poisoned
  <2>1. Becomes(q, "ended") /\ poisoned' \in BOOLEAN
    BY <1>0, <1>2, PhaseMoves DEF ReqPhases, Books
  <2> QED
    BY <1>0, <1>1, <1>2, <2>1, BooksSettled
<1>3. CASE Unsettled(q, Cancelled(q))
  <2>1. Becomes(q, "stuck")
    BY <1>0, <1>3, PhaseMoves DEF ReqPhases, Unsettled
  <2> QED
    BY <1>0, <1>1, <1>3, <2>1, BooksStuck DEF Unsettled
<1> QED
  BY <1>2, <1>3 DEF Withdraw

\* The cost of a request is within its bounds, whatever usage is believed.
LEMMA CostIs ==
    ASSUME Book(req), NEW q \in Requests, NEW trusted \in BOOLEAN
    PROVE  Cost(q, trusted) \in Nat /\ Lo(req)[q] <= Cost(q, trusted) /\ Cost(q, trusted) <= Hi(req)[q]
  BY Bounds DEF Cost

LEMMA EndBooks ==
    ASSUME AInv, NEW q \in Requests, RelayEnd(q) \/ TurnEnd(q)
    PROVE  Books'
<1>0. Books /\ Book(req) /\ req[q].phase = "sent"
  BY DEF AInv, Books, RelayEnd, TurnEnd
<1>1. PICK trusted \in BOOLEAN :
          \/ /\ Saved(Settled(q, Cost(q, trusted))) /\ mem' = Release(q, Cost(q, trusted))
             /\ req' = [req EXCEPT ![q].phase = "ended"] /\ poisoned' = Exceeds(q, trusted)
          \/ Unsettled(q, Settled(q, Cost(q, trusted)))
  BY DEF RelayEnd, TurnEnd
<1> DEFINE cost == Cost(q, trusted)
<1>2. /\ cost \in Nat /\ Lo(req)[q] <= cost /\ cost <= Hi(req)[q]
      /\ Clears(Settled(q, cost), q, cost)
  BY <1>0, CostIs, SettlesIs
<1>3. CASE /\ Saved(Settled(q, cost)) /\ mem' = Release(q, cost)
           /\ req' = [req EXCEPT ![q].phase = "ended"] /\ poisoned' = Exceeds(q, trusted)
  <2>1. Becomes(q, "ended") /\ poisoned' \in BOOLEAN
    BY <1>0, <1>3, PhaseMoves DEF ReqPhases, Exceeds
  <2> HIDE DEF cost
  <2> QED
    BY <1>0, <1>2, <1>3, <2>1, BooksSettled
<1>4. CASE Unsettled(q, Settled(q, cost))
  <2>1. Becomes(q, "stuck")
    BY <1>0, <1>4, PhaseMoves DEF ReqPhases, Unsettled
  <2> HIDE DEF cost
  <2> QED
    BY <1>0, <1>2, <1>4, <2>1, BooksStuck DEF Unsettled
<1> QED
  BY <1>1, <1>3, <1>4

-----------------------------------------------------------------------------
(* Runs and their limits                                                   *)

RunType == [phase : RunPhases, limits : Limits, day : Days, settled : Nat]

\* A run that is marked failed keeps its limits, and is not open.
LEMMA MarkFailedTyped ==
    ASSUME run \in [Runs -> RunType], NEW r \in Runs
    PROVE  /\ MarkFailed(r) \in [Runs -> RunType]
           /\ \A s \in Runs : MarkFailed(r)[s].phase = "open" => MarkFailed(r)[s] = run[s]
<1>1. CASE run[r].phase = "open"
  <2>1. MarkFailed(r) = [run EXCEPT ![r].phase = "refusing"]
    BY <1>1 DEF MarkFailed
  <2>2. /\ MarkFailed(r)[r] = [phase |-> "refusing", limits |-> run[r].limits, day |-> run[r].day,
                               settled |-> run[r].settled]
        /\ \A s \in Runs \ {r} : MarkFailed(r)[s] = run[s]
        /\ MarkFailed(r) = [s \in Runs |-> MarkFailed(r)[s]]
    BY <2>1 DEF RunType
  <2>3. \A s \in Runs : MarkFailed(r)[s] \in RunType
    BY <2>2 DEF RunType, RunPhases
  <2> QED
    BY <2>2, <2>3
<1>2. CASE run[r].phase # "open"
  BY <1>2 DEF MarkFailed
<1> QED
  BY <1>1, <1>2

\* A write about a request leaves the limits.
LEMMA LimitsKept ==
    ASSUME file \in File, NEW q \in Requests, NEW new,
           \/ \E d, usd : new = Reserved(Reservation(q, d, usd))
           \/ new = Cancelled(q)
           \/ \E usd : new = Settled(q, usd),
           Saved(new) \/ NotSaved(new)
    PROVE  file'.limits = file.limits
<1>1. file' = file \/ file' = new
  BY DEF Saved, NotSaved
<1>2. Cancelled(q).limits = file.limits /\ DOMAIN Cancelled(q) = {"limits", "settled", "held"}
  BY DEF Cancelled, File
<1>3. \A usd : Settled(q, usd).limits = file.limits
  BY <1>2 DEF Settled
<1>4. \A d, usd : Reserved(Reservation(q, d, usd)).limits = file.limits
  BY DEF Reserved, File
<1> QED
  BY <1>1, <1>2, <1>3, <1>4

\* No run opens, and an open one keeps its limits.
NoneOpens ==
    /\ active' = active /\ file'.limits = file.limits
    /\ \A s \in Relayed : run'[s].phase = "open" =>
           run[s].phase = "open" /\ run'[s].limits = run[s].limits

LEMMA RequestRuns ==
    ASSUME AInv, NEW q \in Requests,
           Admit(q) \/ Send(q) \/ Withdraw(q) \/ RelayEnd(q) \/ Turn(q) \/ TurnEnd(q)
    PROVE  RunTypes' /\ Captured'
<1> DEFINE r == RunOf[q]
<1>0. /\ Books /\ Book(req) /\ file \in File /\ run \in [Runs -> RunType] /\ active \subseteq Relayed
      /\ today \in Days /\ r \in Runs /\ active' = active /\ today' = today
  <2>1. r \in Runs
    BY RunAssumption
  <2> QED
    BY <2>1 DEF AInv, Books, Sound, RunTypes, RunType, Admit, Send, Withdraw, RelayEnd, Turn, TurnEnd
<1>1. SUFFICES run' \in [Runs -> RunType] /\ NoneOpens
  BY <1>0 DEF AInv, RunTypes, RunType, Captured, NoneOpens
<1>2. CASE Admit(q)
  <2>1. run' = run /\ file'.limits = file.limits
    BY <1>0, <1>2, LimitsKept DEF Admit
  <2> QED
    BY <1>0, <2>1 DEF NoneOpens
<1>3. CASE Send(q)
  <2>1. run' = run /\ file' = file
    BY <1>3 DEF Send
  <2> QED
    BY <1>0, <2>1 DEF NoneOpens
<1>4. CASE Withdraw(q)
  <2>1. file'.limits = file.limits
    BY <1>0, <1>4, LimitsKept DEF Withdraw, Unsettled
  <2>2. run' = run \/ run' = MarkFailed(r)
    BY <1>4 DEF Withdraw
  <2> QED
    BY <1>0, <2>1, <2>2, MarkFailedTyped, RunAssumption DEF NoneOpens
<1>5. CASE RelayEnd(q)
  <2>1. PICK trusted \in BOOLEAN :
            \/ /\ Saved(Settled(q, Cost(q, trusted)))
               /\ run' = [(IF Exceeds(q, trusted) THEN MarkFailed(r) ELSE run) EXCEPT
                            ![r].settled = @ + Cost(q, trusted)]
            \/ /\ Unsettled(q, Settled(q, Cost(q, trusted)))
               /\ run' = MarkFailed(r)
    BY <1>5 DEF RelayEnd
  <2>2. file'.limits = file.limits
    BY <1>0, <2>1, LimitsKept DEF Unsettled
  <2>3. Cost(q, trusted) \in Nat
    BY <1>0, CostIs
  <2>4. PICK after \in {run, MarkFailed(r)} :
            run' = after \/ run' = [after EXCEPT ![r].settled = @ + Cost(q, trusted)]
    BY <2>1
  <2>5. /\ after \in [Runs -> RunType]
        /\ \A s \in Runs : after[s].phase = "open" => after[s] = run[s]
    BY <1>0, MarkFailedTyped
  <2>6. /\ run' \in [Runs -> RunType]
        /\ \A s \in Runs : run'[s].phase = after[s].phase /\ run'[s].limits = after[s].limits
    BY <1>0, <2>3, <2>4, <2>5 DEF RunType
  <2>7. \A s \in Relayed : run'[s].phase = "open" =>
            run[s].phase = "open" /\ run'[s].limits = run[s].limits
    BY <2>5, <2>6, RunAssumption
  <2> QED
    BY <1>0, <2>2, <2>6, <2>7 DEF NoneOpens
<1>6. CASE Turn(q)
  <2> DEFINE opened == [phase |-> "open", limits |-> file.limits, day |-> today, settled |-> 0]
  <2>1. file'.limits = file.limits /\ r \notin Relayed
    BY <1>0, <1>6, LimitsKept DEF Turn
  <2>2. \/ run' = [run EXCEPT ![r] = opened]
        \/ run' = [run EXCEPT ![r] = [opened EXCEPT !.phase = "closed"]]
    BY <1>6 DEF Turn
  <2>3. opened \in RunType /\ [opened EXCEPT !.phase = "closed"] \in RunType
    BY <1>0 DEF RunType, RunPhases, File
  <2> HIDE DEF opened
  <2>4. run' \in [Runs -> RunType] /\ \A s \in Runs \ {r} : run'[s] = run[s]
    BY <1>0, <2>2, <2>3
  <2> QED
    BY <1>0, <2>1, <2>4, RunAssumption DEF NoneOpens
<1>7. CASE TurnEnd(q)
  <2>1. PICK trusted \in BOOLEAN :
            \/ /\ Saved(Settled(q, Cost(q, trusted)))
               /\ run' = [run EXCEPT ![r].phase = "closed", ![r].settled = @ + Cost(q, trusted)]
            \/ /\ Unsettled(q, Settled(q, Cost(q, trusted)))
               /\ run' = [run EXCEPT ![r].phase = "failed"]
    BY <1>7 DEF TurnEnd
  <2>2. file'.limits = file.limits /\ r \notin Relayed
    BY <1>0, <1>7, <2>1, LimitsKept DEF Unsettled, TurnEnd
  <2>3. Cost(q, trusted) \in Nat
    BY <1>0, CostIs
  <2>4. PICK phase \in {"closed", "failed"} :
            \/ run' = [run EXCEPT ![r].phase = phase]
            \/ run' = [[run EXCEPT ![r].phase = phase] EXCEPT ![r].settled = @ + Cost(q, trusted)]
    BY <1>0, <2>1 DEF RunType
  <2>5. run' \in [Runs -> RunType] /\ \A s \in Runs \ {r} : run'[s] = run[s]
    <3> DEFINE after == [run EXCEPT ![r].phase = phase]
    <3>1. after \in [Runs -> RunType] /\ \A s \in Runs \ {r} : after[s] = run[s]
      BY <1>0 DEF RunType, RunPhases
    <3>2. run' = after \/ run' = [after EXCEPT ![r].settled = @ + Cost(q, trusted)]
      BY <2>4
    <3> HIDE DEF after
    <3> QED
      BY <1>0, <2>3, <3>1, <3>2 DEF RunType
  <2> QED
    BY <1>0, <2>2, <2>5, RunAssumption DEF NoneOpens
<1> QED
  BY <1>2, <1>3, <1>4, <1>5, <1>6, <1>7

LEMMA RunRuns ==
    ASSUME AInv, NEW r \in Runs, Begin(r) \/ Stop(r) \/ Close(r) \/ Forget(r)
    PROVE  RunTypes' /\ Captured'
<1>0. /\ file \in File /\ run \in [Runs -> RunType] /\ active \subseteq Relayed /\ today \in Days
      /\ Captured /\ file' = file /\ today' = today
  BY DEF AInv, Books, Sound, RunTypes, RunType, Begin, Stop, Close, Forget
<1>1. CASE Begin(r)
  <2> DEFINE opened == [phase |-> "open", limits |-> file.limits, day |-> today, settled |-> 0]
  <2>1. run' = [run EXCEPT ![r] = opened] /\ active' = active \cup {r} /\ r \in Relayed
    BY <1>1 DEF Begin
  <2>2. opened \in RunType /\ opened.limits = file.limits
    BY <1>0 DEF RunType, RunPhases, File
  <2> HIDE DEF opened
  <2>3. run' \in [Runs -> RunType] /\ run'[r] = opened /\ \A s \in Runs \ {r} : run'[s] = run[s]
    BY <1>0, <2>1, <2>2
  <2> QED
    BY <1>0, <2>1, <2>2, <2>3, RunAssumption DEF RunTypes, RunType, Captured
<1>2. CASE Stop(r) \/ Close(r)
  <2>1. PICK phase \in {"refusing", "closed", "failed"} : run' = [run EXCEPT ![r].phase = phase]
    BY <1>2 DEF Stop, Close
  <2>2. active' = active
    BY <1>2 DEF Stop, Close
  <2>3. /\ run' \in [Runs -> RunType] /\ run'[r].phase = phase
        /\ \A s \in Runs \ {r} : run'[s] = run[s]
    BY <1>0, <2>1 DEF RunType, RunPhases
  <2> QED
    BY <1>0, <2>2, <2>3, RunAssumption DEF RunTypes, RunType, Captured
<1>3. CASE Forget(r)
  <2>1. run' = run /\ active' = active \ {r} /\ run[r].phase = "closed"
    BY <1>3 DEF Forget
  <2> QED
    BY <1>0, <2>1 DEF RunTypes, RunType, Captured
<1> QED
  BY <1>1, <1>2, <1>3

LEMMA RestartRuns ==
    ASSUME AInv, Restarted
    PROVE  RunTypes' /\ Captured'
<1>1. run \in [Runs -> RunType] /\ today \in Days
  BY DEF AInv, RunTypes, RunType
<1>2. [FreshRun EXCEPT !.phase = "lost"] =
          [phase |-> "lost", limits |-> FirstLimits, day |-> 1, settled |-> 0]
  BY DEF FreshRun
<1>3. [FreshRun EXCEPT !.phase = "lost"] \in RunType
  BY <1>2, LimitAssumption, AmountAssumption DEF RunType, RunPhases, Days
<1>4. run' = [r \in Runs |-> IF run[r].phase = "idle" THEN run[r] ELSE [FreshRun EXCEPT !.phase = "lost"]]
      /\ active' = {} /\ today' = today
  BY DEF Restarted
<1>5. run' \in [Runs -> RunType] /\ \A r \in Runs : run'[r].phase # "open"
  BY <1>1, <1>2, <1>3, <1>4
<1> QED
  BY <1>1, <1>4, <1>5, RunAssumption DEF RunTypes, RunType, Captured

-----------------------------------------------------------------------------
(* The invariant                                                           *)

LEMMA InitAccounts == Init => AInv
<1> SUFFICES ASSUME Init PROVE AInv
  OBVIOUS
<1>0. 1 \in Days /\ FirstLimits \in Limits
  BY AmountAssumption, LimitAssumption DEF Days
<1>1. /\ poisoned = FALSE /\ mem \in [Days -> DayType] /\ \A d \in Days : mem[d] = FreshDay
      /\ Book(req) /\ \A q \in Requests : req[q] = FreshReq
  BY <1>0 DEF Init, FreshDay, DayType, Book, ReqType, ReqPhases, FreshReq
<1>2. /\ file = [limits |-> FirstLimits, settled |-> [d \in Days |-> 0], held |-> {}]
      /\ synced = file
  BY DEF Init
<1>3. \A q \in Requests : req[q].phase = "idle" /\ req[q].usd = 0 /\ req[q].bill = 0
  BY <1>1 DEF FreshReq
<1>4. Sound(file, req)
  <2>1. file \in File /\ Kept(file, req) /\ \A d \in Days : file.settled[d] = 0
    BY <1>0, <1>2 DEF File, Kept
  <2>2. \A d \in Days : Loose(file, req, d) = {}
    BY <1>3 DEF Loose, InDay
  <2>3. SumFunctionOnSet(Lo(req), {}) = 0 /\ SumFunctionOnSet(Hi(req), {}) = 0
    BY SumEmpty
  <2> QED
    BY <2>1, <2>2, <2>3 DEF Sound
<1>5. ASSUME NEW q \in Requests PROVE Amounts(q)
  BY <1>2, <1>3 DEF Amounts, HeldIn
<1>6. ASSUME NEW d \in Days PROVE Ledger(d)
  <2>1. Live(req, d) = {}
    BY <1>3 DEF Live
  <2>2. SumFunctionOnSet(Usd(req), Live(req, d)) = 0
    BY <2>1, SumEmpty
  <2>3. mem[d].base = Unread /\ mem[d].settled = 0 /\ mem[d].reserved = 0
    BY <1>1 DEF FreshDay
  <2> QED
    BY <2>2, <2>3 DEF Ledger
<1>7. Books
  BY <1>1, <1>2, <1>4, <1>5, <1>6 DEF Books
<1>8. run \in [Runs -> RunType] /\ \A r \in Runs : run[r].phase = "idle"
  BY <1>0 DEF Init, FreshRun, RunType, RunPhases
<1>9. RunTypes /\ Captured
  BY <1>0, <1>8, RunAssumption DEF RunTypes, RunType, Captured, Init
<1> QED
  BY <1>7, <1>9, InitHolds DEF AInv

LEMMA AccountsStep == AInv /\ [Next]_vars => AInv'
<1> SUFFICES ASSUME AInv, [Next]_vars PROVE AInv'
  OBVIOUS
<1>0. SInv'
  BY InvStep DEF AInv
<1> SUFFICES Books' /\ Captured' /\ RunTypes'
  BY <1>0 DEF AInv
<1>1. ASSUME NEW r \in Runs, Begin(r) \/ Stop(r) \/ Close(r) \/ Forget(r)
      PROVE  Books' /\ Captured' /\ RunTypes'
  <2>1. UNCHANGED <<file, synced, poisoned, mem, req>>
    BY <1>1 DEF Begin, Stop, Close, Forget
  <2>2. Books'
    BY <2>1 DEF AInv, Books, Amounts, Ledger, Used, Base
  <2> QED
    BY <1>1, <2>2, RunRuns
<1>2. ASSUME NEW q \in Requests,
             Admit(q) \/ Send(q) \/ Withdraw(q) \/ RelayEnd(q) \/ Turn(q) \/ TurnEnd(q)
      PROVE  Books' /\ Captured' /\ RunTypes'
  <2>1. Books'
    BY <1>2, AdmitBooks, SendBooks, WithdrawBooks, EndBooks, TurnBooks
  <2> QED
    BY <1>2, <2>1, RequestRuns
<1>3. ASSUME NEW limits \in Limits, SetLimits(limits)
      PROVE  Books' /\ Captured' /\ RunTypes'
  <2>1. /\ file' \in {file, [file EXCEPT !.limits = limits]} /\ (synced' = synced \/ synced' = file')
        /\ (UNCHANGED poisoned \/ poisoned' = TRUE) /\ UNCHANGED <<mem, run, active, req, today>>
        /\ active = {}
    BY <1>3 DEF SetLimits, Saved, NotSaved
  <2>2. Books'
    BY <2>1, BooksLimited DEF AInv
  <2> QED
    BY <2>1, <2>2 DEF AInv, RunTypes, Captured
<1>4. CASE Midnight \/ UNCHANGED vars
  <2>1. UNCHANGED <<file, synced, poisoned, mem, req, run, active>>
    BY <1>4 DEF Midnight, vars
  <2>2. Books'
    BY <2>1 DEF AInv, Books, Amounts, Ledger, Used, Base
  <2>3. today' \in Days
    BY <1>4, AmountAssumption DEF AInv, RunTypes, Midnight, vars, Days
  <2> QED
    BY <2>1, <2>2, <2>3 DEF AInv, RunTypes, Captured
<1>5. CASE GateCrash \/ MachineCrash
  <2>1. Restarted /\ file' \in {file, synced} /\ synced' \in {file, synced}
    BY <1>5 DEF GateCrash, MachineCrash
  <2>2. Books'
    BY <2>1, BooksRestarted DEF AInv
  <2> QED
    BY <2>1, <2>2, RestartRuns
<1> QED
  BY <1>1, <1>2, <1>3, <1>4, <1>5 DEF Next

LEMMA Accounting == Spec => []AInv
  BY InitAccounts, AccountsStep, PTL DEF Spec

-----------------------------------------------------------------------------
(* Admissions                                                              *)

\* What a file holds for a run when a reservation of it is added.
Ours(f, r) == {h \in f.held : RunOf[h.req] = r}

LEMMA HoldingReserved ==
    ASSUME NEW b, Book(b), NEW f, Sound(f, b), NEW q \in Requests, b[q].usd = 0,
           NEW d \in Days, NEW usd \in Nat, NEW g,
           g.held = f.held \cup {Reservation(q, d, usd)}
    PROVE  /\ Holding(Ours(f, RunOf[q])) \in Nat
           /\ Holding(Ours(g, RunOf[q])) = Holding(Ours(f, RunOf[q])) + usd
           /\ Reservation(q, d, usd) \notin f.held
<1> DEFINE new == Reservation(q, d, usd)
           H == Ours(f, RunOf[q])
           v == [x \in Held |-> x.usd]
<1>1. /\ f \in File /\ Kept(f, b) /\ new \in Held /\ new.usd = usd /\ new.req = q
  BY DEF Sound, File, Reservation, Held
<1>2. new \notin f.held
  BY <1>1 DEF Kept
<1>3. IsFiniteSet(H) /\ new \notin H /\ \A h \in H : v[h] \in Int /\ v[h] \in Nat
  <2>1. H \subseteq f.held /\ f.held \subseteq Held
    BY <1>1 DEF File, Ours
  <2>2. IsFiniteSet(f.held)
    BY <1>1, HeldFinite
  <2> QED
    BY <1>2, <2>1, <2>2, FS_Subset DEF Held
<1>4. Ours(g, RunOf[q]) = H \cup {new}
  BY <1>1 DEF Ours
<1>5. v[new] = usd
  BY <1>1
<1>6. Holding(H) = SumFunctionOnSet(v, H) /\ Holding(H \cup {new}) = SumFunctionOnSet(v, H \cup {new})
  BY DEF Holding
<1> HIDE DEF v, H, new
<1>7. SumFunctionOnSet(v, H) \in Nat
  BY <1>3, SumNat
<1>8. SumFunctionOnSet(v, H \cup {new}) = v[new] + SumFunctionOnSet(v, H)
  BY <1>3, <1>5, SumAdd
<1> QED
  BY <1>2, <1>4, <1>5, <1>6, <1>7, <1>8 DEF H, new

\* A run that goes on holds in the file at most what it holds in memory.
LEMMA OursPromised ==
    ASSUME AInv, ~poisoned, NEW r, run[r].phase # "lost"
    PROVE  Holding(Ours(file, r)) <= Promised(r)
<1> DEFINE S == {p \in HeldIn(file) : RunOf[p] = r}
<1>1. Books /\ Book(req) /\ file \in File /\ Kept(file, req) /\ S \subseteq HeldIn(file)
  BY DEF AInv, Books, Sound
<1>2. Ours(file, r) = {h \in file.held : h.req \in S}
  BY <1>1 DEF Ours, HeldIn, File, Held
<1>3. Holding({h \in file.held : h.req \in S}) = SumFunctionOnSet(Usd(req), S)
  BY <1>1, HeldSum
<1>4. S \in SUBSET Outstanding(r)
  <2> SUFFICES ASSUME NEW p \in S PROVE p \in Outstanding(r)
    OBVIOUS
  <2>1. p \in Requests /\ p \in HeldIn(file) /\ RunOf[p] = r
    BY DEF HeldIn
  <2>2. req[p].phase \in {"admitted", "sent", "lost"}
    BY <2>1 DEF AInv, Books, Amounts
  <2>3. req[p].phase # "lost"
    BY <2>1 DEF AInv, SInv, InStep
  <2> QED
    BY <2>1, <2>2, <2>3 DEF Outstanding
<1>5. IsFiniteSet(Outstanding(r)) /\ \A q \in Outstanding(r) : Usd(req)[q] \in Nat
  BY <1>1, Terms, Finite DEF Outstanding
<1>6. SumFunctionOnSet(Usd(req), S) <= SumFunctionOnSet(Usd(req), Outstanding(r))
  <2> HIDE DEF S
  <2> QED
    BY <1>4, <1>5, SumPart
<1>7. Promised(r) = SumFunctionOnSet(Usd(req), Outstanding(r))
  BY DEF Promised, Usd
<1> QED
  BY <1>2, <1>3, <1>6, <1>7

\* A reservation that is made leaves the day and the run under the limits.
LEMMA ReservationFits ==
    ASSUME AInv, ~poisoned, NEW q \in Requests, req[q].phase = "idle",
           run[RunOf[q]].phase \in {"idle", "open"},
           NEW d \in Days, NEW spent \in Nat, NEW available,
           available = Available(file.limits, spent, RunOf[q], d), available >= Least,
           NEW g, g = Reserved(Reservation(q, d, Amount(available)))
    PROVE  \A h \in g.held \ file.held :
              /\ h.req = q
              /\ Charge(g, h.day) <= g.limits.day
              /\ spent + Holding(Ours(g, RunOf[q])) <= g.limits.run
<1> DEFINE usd == Amount(available)
           r == RunOf[q]
           new == Reservation(q, d, usd)
<1>1. /\ Books /\ Book(req) /\ Sound(file, req) /\ file \in File /\ file.limits \in Limits
      /\ req[q].usd = 0
  BY DEF AInv, Books, Sound, File, Amounts
<1>2. /\ usd \in Nat /\ Promised(r) \in Nat /\ file.limits.run \in Nat /\ file.limits.day \in Nat
      /\ Used(d) + usd <= file.limits.day
      /\ spent + Promised(r) + usd <= file.limits.run
  BY <1>1, Admissible
<1>3. Used(d) = Charge(file, d)
  BY <1>1, UsedIs
<1>4. /\ g = [file EXCEPT !.held = @ \cup {new}]
      /\ g.limits = file.limits /\ g.held = file.held \cup {new} /\ new.req = q /\ new.day = d
  BY <1>1 DEF Reserved, File, Reservation
<1> HIDE DEF usd
<1>5. Charge(g, d) = Charge(file, d) + usd
  BY <1>1, <1>2, <1>4, ChargeReserved
<1>6. Holding(Ours(file, r)) \in Nat /\ Holding(Ours(g, r)) = Holding(Ours(file, r)) + usd
  <2>1. g.held = file.held \cup {Reservation(q, d, usd)} /\ usd \in Nat
    BY <1>2, <1>4
  <2> HIDE DEF r
  <2> QED
    BY <1>1, <2>1, HoldingReserved DEF r
<1>7. Holding(Ours(file, r)) <= Promised(r)
  BY OursPromised
<1>8. Charge(g, d) <= g.limits.day
  BY <1>2, <1>3, <1>4, <1>5
<1>9. spent + Holding(Ours(g, r)) <= g.limits.run
  <2> HIDE DEF r
  <2> QED
    BY <1>2, <1>4, <1>6, <1>7
<1> QED
  BY <1>4, <1>8, <1>9

\* The file of before, or what a crash of the machine leaves, holds nothing for
\* a request that is idle.
LEMMA NothingMade ==
    ASSUME AInv, file' = file \/ file' = synced
    PROVE  \A h \in file'.held \ file.held : req[h.req].phase # "idle"
<1> SUFFICES ASSUME NEW h \in synced.held PROVE req[h.req].phase # "idle"
  OBVIOUS
<1>1. h.usd > 0 /\ req[h.req].usd = h.usd /\ h.req \in Requests /\ h.usd \in Nat
  BY DEF AInv, Books, Sound, Kept, File, Held
<1>2. Amounts(h.req)
  BY <1>1 DEF AInv, Books
<1> QED
  BY <1>1, <1>2 DEF Amounts

LEMMA AdmissionFits ==
    ASSUME AInv, NEW q \in Requests, Admit(q) \/ Turn(q)
    PROVE  \A h \in file'.held \ file.held : req[h.req].phase = "idle" =>
              /\ Charge(file', h.day) <= file'.limits.day
              /\ SpentBy(RunOf[h.req])' <= file'.limits.run
<1> DEFINE r == RunOf[q]
<1>0. r \in Runs /\ today \in Days /\ run \in [Runs -> RunType] /\ file \in File
  BY RunAssumption DEF AInv, RunTypes, RunType, Books, Sound
<1>1. CASE Admit(q)
  <2> DEFINE d == run[r].day
             available == Available(run[r].limits, run[r].settled, r, d)
             new == Reserved(Reservation(q, d, Amount(available)))
  <2>1. /\ req[q].phase = "idle" /\ run[r].phase = "open" /\ run' = run
        /\ \/ file' = file
           \/ file' = new /\ ~poisoned /\ available >= Least
    BY <1>1 DEF Admit, Saved, NotSaved
  <2>2. run[r].limits = file.limits /\ d \in Days /\ run[r].settled \in Nat
    BY <1>0, <1>1, <2>1 DEF AInv, Captured, Admit, RunType
  <2>3. CASE file' = file
    BY <2>3
  <2>4. CASE file' = new /\ ~poisoned /\ available >= Least
    <3>1. \A h \in new.held \ file.held :
              /\ h.req = q /\ Charge(new, h.day) <= new.limits.day
              /\ run[r].settled + Holding(Ours(new, RunOf[q])) <= new.limits.run
      <4> DEFINE spent == run[r].settled
      <4>1. available = Available(file.limits, spent, RunOf[q], d) /\ spent \in Nat
        BY <2>2
      <4> HIDE DEF available, d, spent
      <4> QED
        BY <2>1, <2>2, <2>4, <4>1, ReservationFits DEF spent
    <3>2. SpentBy(RunOf[q])' = run'[r].settled + Holding(Ours(file', RunOf[q]))
      BY DEF SpentBy, Ours
    <3> HIDE DEF new
    <3> QED
      BY <2>1, <2>4, <3>1, <3>2
  <2> QED
    BY <2>1, <2>3, <2>4
<1>2. CASE Turn(q)
  <2> DEFINE available == Available(file.limits, 0, r, today)
             new == Reserved(Reservation(q, today, Amount(available)))
             opened == [phase |-> "open", limits |-> file.limits, day |-> today, settled |-> 0]
  <2>1. /\ run[r].phase = "idle"
        /\ run' = [run EXCEPT ![r] = opened]
           \/ run' = [run EXCEPT ![r] = [opened EXCEPT !.phase = "closed"]]
        /\ \/ file' = file
           \/ file' = new /\ ~poisoned /\ available >= Least
    BY <1>2 DEF Turn, Saved, NotSaved
  <2>2. req[q].phase = "idle"
    BY <2>1 DEF AInv, SInv, InStep
  <2>3. run'[r].settled = 0
    BY <1>0, <2>1
  <2>4. CASE file' = file
    BY <2>4
  <2>5. CASE file' = new /\ ~poisoned /\ available >= Least
    <3>1. \A h \in new.held \ file.held :
              /\ h.req = q /\ Charge(new, h.day) <= new.limits.day
              /\ 0 + Holding(Ours(new, RunOf[q])) <= new.limits.run
      <4>1. available = Available(file.limits, 0, RunOf[q], today) /\ 0 \in Nat
        OBVIOUS
      <4> HIDE DEF available
      <4> QED
        BY <1>0, <2>1, <2>2, <2>5, <4>1, ReservationFits
    <3>2. SpentBy(RunOf[q])' = run'[r].settled + Holding(Ours(file', RunOf[q]))
      BY DEF SpentBy, Ours
    <3> HIDE DEF new
    <3> QED
      BY <2>3, <2>5, <3>1, <3>2
  <2> QED
    BY <2>1, <2>4, <2>5
<1> QED
  BY <1>1, <1>2

\* What ends a request makes no reservation.
LEMMA EndFits ==
    ASSUME AInv, NEW q \in Requests, Withdraw(q) \/ RelayEnd(q) \/ TurnEnd(q)
    PROVE  \A h \in file'.held \ file.held : FALSE
<1>1. PICK new : /\ new = Cancelled(q) \/ \E usd : new = Settled(q, usd)
                 /\ file' = file \/ file' = new
  BY DEF Withdraw, RelayEnd, TurnEnd, Unsettled, Saved, NotSaved
<1>2. file \in File
  BY DEF AInv, Books, Sound
<1>3. Cancelled(q).held = file.held \ HeldFor(q) /\ DOMAIN Cancelled(q) = {"limits", "settled", "held"}
  BY <1>2 DEF Cancelled, File
<1>4. \A usd : Settled(q, usd).held = Cancelled(q).held
  BY <1>3 DEF Settled
<1> QED
  BY <1>1, <1>3, <1>4

-----------------------------------------------------------------------------
(* The theorems                                                            *)

\* The type invariant, amounts included.
THEOREM Typed == Spec => []TypeOK
<1>1. AInv => TypeOK
  BY DEF AInv, Books, Book, ReqType, DayType, Sound, RunTypes, TypeOK
<1> QED
  BY <1>1, Accounting, PTL

\* The day's charge, on disk and in what a crash of the machine leaves of it,
\* is never below what was spent and never above what may be charged, whatever
\* write fails and whenever the gate or the machine dies.
THEOREM ChargedOnce == Spec => []Accounted
<1>1. AInv => Accounted
  <2> SUFFICES ASSUME AInv, NEW d \in Days, NEW f \in {file, synced}
               PROVE  Owed(d) <= Charge(f, d) /\ Charge(f, d) <= Ceiling(d)
    BY DEF Accounted
  <2>1. Book(req) /\ Sound(f, req)
    BY DEF AInv, Books
  <2>2. OfDay(d) = InDay(req, d) /\ Owed(d) = SumFunctionOnSet(Lo(req), InDay(req, d))
        /\ Ceiling(d) = SumFunctionOnSet(Hi(req), InDay(req, d))
    BY DEF OfDay, InDay, Owed, Ceiling, Lo, Hi
  <2> QED
    BY <2>1, <2>2, Accounts
<1> QED
  BY <1>1, Accounting, PTL

\* As long as no write failed, the total an admission works from is what the
\* file charges.
THEOREM FileAgrees == Spec => []LedgerIsFile
<1>1. AInv => LedgerIsFile
  BY DEF AInv, Books, Ledger, LedgerIsFile
<1> QED
  BY <1>1, Accounting, PTL

\* Whatever is reserved keeps the day and the run under the limits in force,
\* however many requests and runs share them and whenever the operator changes
\* the limits.
THEOREM CeilingsHold == Spec => CapAtAdmission
<1> DEFINE Fits == \A h \in file'.held \ file.held : req[h.req].phase = "idle" =>
                       /\ Charge(file', h.day) <= file'.limits.day
                       /\ SpentBy(RunOf[h.req])' <= file'.limits.run
<1>1. AInv /\ [Next]_vars => Fits
  <2> SUFFICES ASSUME AInv, [Next]_vars PROVE Fits
    OBVIOUS
  <2>1. ASSUME NEW q \in Requests, Admit(q) \/ Turn(q) PROVE Fits
    BY <2>1, AdmissionFits
  <2>2. CASE file' = file \/ file' = synced
    BY <2>2, NothingMade
  <2>3. ASSUME NEW q \in Requests, Withdraw(q) \/ RelayEnd(q) \/ TurnEnd(q) PROVE Fits
    BY <2>3, EndFits
  <2>4. ASSUME NEW limits \in Limits, SetLimits(limits) PROVE Fits
    <3>1. file \in File
      BY DEF AInv, Books, Sound
    <3>2. file'.held = file.held
      BY <2>4, <3>1 DEF SetLimits, Saved, NotSaved, File
    <3> QED
      BY <3>2
  <2>5. ASSUME NEW r \in Runs, Begin(r) \/ Stop(r) \/ Close(r) \/ Forget(r) PROVE file' = file
    BY <2>5 DEF Begin, Stop, Close, Forget
  <2>6. ASSUME NEW q \in Requests, Send(q) PROVE file' = file
    BY <2>6 DEF Send
  <2>7. ASSUME Midnight \/ GateCrash \/ MachineCrash \/ UNCHANGED vars
        PROVE  file' = file \/ file' = synced
    BY <2>7 DEF Midnight, GateCrash, MachineCrash, vars
  <2> HIDE DEF Fits
  <2> QED
    BY <2>1, <2>2, <2>3, <2>4, <2>5, <2>6, <2>7 DEF Next
<1>2. AInv /\ [Next]_vars => [Fits]_vars
  BY <1>1
<1> QED
  BY <1>2, Accounting, PTL DEF CapAtAdmission, Spec

=============================================================================
