----------------------------- MODULE FiniteSums -----------------------------
(***************************************************************************)
(* Smallest sets and sums over finite sets, for the proofs about amounts   *)
(* and sequences: the sum of a function exists, does not depend on the     *)
(* order in which its elements are taken, and is monotonic.  The induction *)
(* theorems of the library take an operator as a parameter, so every       *)
(* induction here is a smallest counterexample among the subsets of a      *)
(* finite set.                                                             *)
(***************************************************************************)
EXTENDS Integers, FiniteSets, Functions, FiniteSetTheorems, TLAPS

\* The element the library's fold takes first.
Pick(s) == CHOOSE x \in s : TRUE

\* f holds the sums of v over all subsets of S.
IsSumOf(f, v, S) ==
    f = [s \in SUBSET S |-> IF s = {} THEN 0 ELSE v[Pick(s)] + f[s \ {Pick(s)}]]

\* A set of subsets of a finite set has a smallest member.
LEMMA Smallest ==
  ASSUME NEW S, IsFiniteSet(S), NEW B, B \subseteq SUBSET S, B # {}
  PROVE  \E t \in B : \A u \in B : ~(u \subseteq t /\ u # t)
<1>1. FiniteSubsetsOf(S) = SUBSET S
  BY FS_FiniteSubsetsOfFinite
<1>2. IsWellFoundedOn(StrictSubsetOrdering(S), SUBSET S)
  BY <1>1, FS_StrictSubsetOrderingWellFounded
<1>3. \E t \in B : \A u \in B : ~(<<u, t>> \in StrictSubsetOrdering(S))
  BY <1>2, WFMin
<1>4. QED BY <1>3 DEF StrictSubsetOrdering

\* What is picked is a member.
LEMMA PickIn == ASSUME NEW s, s # {} PROVE Pick(s) \in s
BY DEF Pick

\* The library's fold, with its operators applied.
LEMMA Expands ==
  ASSUME NEW v, NEW S
  PROVE  SumFunctionOnSet(v, S) = (CHOOSE f : IsSumOf(f, v, S))[S]
BY DEF SumFunctionOnSet, FoldFunctionOnSet, MapThenFoldSet, IsSumOf, Pick

\* Two functions of sums agree where both are defined.
LEMMA Unique ==
  ASSUME NEW v, NEW S, NEW T, NEW f, NEW g, IsSumOf(f, v, S), IsSumOf(g, v, T),
         NEW s \in SUBSET (S \cap T), IsFiniteSet(s)
  PROVE  f[s] = g[s]
<1> DEFINE B == {t \in SUBSET s : f[t] # g[t]}
<1>1. SUFFICES ASSUME B # {} PROVE FALSE OBVIOUS
<1>a. B \subseteq SUBSET s OBVIOUS
<1>2. PICK t \in B : \A u \in B : ~(u \subseteq t /\ u # t)
  <2> HIDE DEF B
  <2> QED BY <1>1, <1>a, Smallest
<1>3. /\ f[t] = IF t = {} THEN 0 ELSE v[Pick(t)] + f[t \ {Pick(t)}]
      /\ g[t] = IF t = {} THEN 0 ELSE v[Pick(t)] + g[t \ {Pick(t)}]
  BY DEF IsSumOf
<1>4. t # {} BY <1>3
<1>5. t \ {Pick(t)} \in SUBSET s /\ t \ {Pick(t)} # t BY <1>4, PickIn
<1>6. f[t \ {Pick(t)}] = g[t \ {Pick(t)}] BY <1>5, <1>2
<1>7. QED BY <1>3, <1>6


\* There is a function of sums: a smallest set without one would get it from
\* its proper subsets.
LEMMA SumExists ==
  ASSUME NEW v, NEW S, IsFiniteSet(S)
  PROVE  \E f : IsSumOf(f, v, S)
<1> DEFINE B == {t \in SUBSET S : ~ \E f : IsSumOf(f, v, t)}
<1>1. SUFFICES ASSUME B # {} PROVE FALSE OBVIOUS
<1>a. B \subseteq SUBSET S OBVIOUS
<1>2. PICK t \in B : \A u \in B : ~(u \subseteq t /\ u # t)
  <2> HIDE DEF B
  <2> QED BY <1>1, <1>a, Smallest
<1> DEFINE g(u) == CHOOSE f : IsSumOf(f, v, u)
           h == [s \in SUBSET t |-> IF s = {} THEN 0
                   ELSE v[Pick(s)] + g(s \ {Pick(s)})[s \ {Pick(s)}]]
<1>3. \A u \in SUBSET t : u # t => IsSumOf(g(u), v, u)
  BY <1>2
<1>4. \A s \in SUBSET t : IsFiniteSet(s)
  BY FS_Subset
<1>5. ASSUME NEW s \in SUBSET t, s # {}
      PROVE  h[s \ {Pick(s)}] = g(s \ {Pick(s)})[s \ {Pick(s)}]
  <2> DEFINE r == s \ {Pick(s)}
  <2>1. r \in SUBSET t /\ r # t BY <1>5, PickIn
  <2>2. IsSumOf(g(r), v, r) BY <2>1, <1>3
  <2>3. g(r)[r] = IF r = {} THEN 0 ELSE v[Pick(r)] + g(r)[r \ {Pick(r)}]
    <3> HIDE DEF g, r
    <3> QED BY <2>2 DEF IsSumOf
  <2>4. h[r] = IF r = {} THEN 0 ELSE v[Pick(r)] + g(r \ {Pick(r)})[r \ {Pick(r)}]
    <3> HIDE DEF g, r
    <3> QED BY <2>1
  <2>5. CASE r = {}
    <3> HIDE DEF g, r
    <3> QED BY <2>3, <2>4, <2>5 DEF r
  <2>6. CASE r # {}
    <3> DEFINE q == r \ {Pick(r)}
    <3>1. q \in SUBSET t /\ q # t /\ q \in SUBSET (r \cap q) BY <2>1, <2>6, PickIn
    <3>2. IsSumOf(g(q), v, q) BY <3>1, <1>3
    <3>3. IsFiniteSet(q) BY <3>1, <1>4
    <3>4. g(r)[q] = g(q)[q]
      <4> HIDE DEF g, r, q
      <4> QED BY <2>2, <3>1, <3>2, <3>3, Unique
    <3>5. QED
      <4> HIDE DEF g, r
      <4> QED BY <2>3, <2>4, <2>6, <3>4 DEF r
  <2>7. QED BY <2>5, <2>6
<1>6. IsSumOf(h, v, t)
  <2> HIDE DEF g
  <2>1. \A s \in SUBSET t : h[s] = IF s = {} THEN 0 ELSE v[Pick(s)] + h[s \ {Pick(s)}]
     BY <1>5
  <2>2. h = [s \in SUBSET t |-> h[s]] OBVIOUS
  <2> HIDE DEF h
  <2>3. QED BY <2>1, <2>2 DEF IsSumOf
<1>7. QED BY <1>6


\* The equation by which the fold is defined.
LEMMA SumStep ==
  ASSUME NEW v, NEW S, IsFiniteSet(S)
  PROVE  SumFunctionOnSet(v, S) = IF S = {} THEN 0 ELSE v[Pick(S)] + SumFunctionOnSet(v, S \ {Pick(S)})
<1>1. PICK f : IsSumOf(f, v, S) BY SumExists
<1> DEFINE F == CHOOSE g : IsSumOf(g, v, S)
           R == S \ {Pick(S)}
           G == CHOOSE g : IsSumOf(g, v, R)
<1>2. IsSumOf(F, v, S) BY <1>1
<1>3. IsFiniteSet(R) /\ R \in SUBSET (S \cap R)  BY FS_Subset
<1>4. IsSumOf(G, v, R) BY <1>3, SumExists
<1>5. SumFunctionOnSet(v, S) = F[S] /\ SumFunctionOnSet(v, R) = G[R] BY Expands
<1>6. F[R] = G[R]
  <2> HIDE DEF F, G, R
  <2> QED BY <1>2, <1>3, <1>4, Unique
<1>7. F[S] = IF S = {} THEN 0 ELSE v[Pick(S)] + F[S \ {Pick(S)}]
  <2> HIDE DEF F
  <2> QED BY <1>2 DEF IsSumOf
<1> HIDE DEF F, G
<1>8. QED BY <1>5, <1>6, <1>7

\* A sum of integers is one, and any element may be taken first.
LEMMA SumRemove ==
  ASSUME NEW v, NEW S, IsFiniteSet(S), \A x \in S : v[x] \in Int
  PROVE  /\ SumFunctionOnSet(v, S) \in Int
         /\ \A x \in S : SumFunctionOnSet(v, S) = v[x] + SumFunctionOnSet(v, S \ {x})
<1> DEFINE B == {t \in SUBSET S : ~ (/\ SumFunctionOnSet(v, t) \in Int
                                     /\ \A x \in t : SumFunctionOnSet(v, t) = v[x] + SumFunctionOnSet(v, t \ {x}))}
<1>1. SUFFICES ASSUME B # {} PROVE FALSE OBVIOUS
<1>a. B \subseteq SUBSET S OBVIOUS
<1>2. PICK t \in B : \A u \in B : ~(u \subseteq t /\ u # t)
  <2> HIDE DEF B
  <2> QED BY <1>1, <1>a, Smallest
<1>3. ASSUME NEW u \in SUBSET t, u # t
      PROVE  /\ SumFunctionOnSet(v, u) \in Int
             /\ \A x \in u : SumFunctionOnSet(v, u) = v[x] + SumFunctionOnSet(v, u \ {x})
  BY <1>2, <1>3
<1> DEFINE p == Pick(t)
<1>4. IsFiniteSet(t) BY FS_Subset
<1>5. SumFunctionOnSet(v, t) = IF t = {} THEN 0 ELSE v[p] + SumFunctionOnSet(v, t \ {p}) BY <1>4, SumStep
<1>6. CASE t = {} BY <1>5, <1>6
<1>7. CASE t # {}
  <2>1. p \in t BY <1>7, PickIn
  <2> HIDE DEF p
  <2>2. SumFunctionOnSet(v, t \ {p}) \in Int BY <2>1, <1>3
  <2>3. v[p] \in Int BY <2>1
  <2>4. SumFunctionOnSet(v, t) \in Int BY <1>5, <2>2, <1>7, <2>3
  <2>5. ASSUME NEW x \in t PROVE SumFunctionOnSet(v, t) = v[x] + SumFunctionOnSet(v, t \ {x})
    <3>1. CASE x = p BY <1>5, <1>7, <3>1
    <3>2. CASE x # p
      <4>1. SumFunctionOnSet(v, t \ {p}) = v[x] + SumFunctionOnSet(v, (t \ {p}) \ {x}) BY <3>2, <2>1, <1>3
      <4>2. SumFunctionOnSet(v, t \ {x}) = v[p] + SumFunctionOnSet(v, (t \ {x}) \ {p}) BY <3>2, <2>1, <1>3
      <4>3. (t \ {p}) \ {x} = (t \ {x}) \ {p} OBVIOUS
      <4>4. SumFunctionOnSet(v, (t \ {p}) \ {x}) \in Int
        <5> DEFINE w == (t \ {p}) \ {x}
        <5>1. w \in SUBSET t /\ w # t OBVIOUS
        <5> HIDE DEF w
        <5> QED BY <5>1, <1>3 DEF w
      <4>5. v[x] \in Int OBVIOUS
      <4> DEFINE a == SumFunctionOnSet(v, (t \ {p}) \ {x})
      <4>6. SumFunctionOnSet(v, t \ {x}) = v[p] + a /\ SumFunctionOnSet(v, t \ {p}) = v[x] + a /\ SumFunctionOnSet(v, t) = v[p] + SumFunctionOnSet(v, t \ {p})
        BY <4>1, <4>2, <4>3, <1>5, <1>7
      <4>7. QED
        <5> DEFINE T1 == SumFunctionOnSet(v, t)  T2 == SumFunctionOnSet(v, t \ {x}) T3 == SumFunctionOnSet(v, t \ {p}) V1 == v[p] V2 == v[x]
        <5>1. T2 = V1 + a /\ T3 = V2 + a /\ T1 = V1 + T3 /\ a \in Int /\ V1 \in Int /\ V2 \in Int
          BY <4>6, <4>4, <4>5, <2>3
        <5> HIDE DEF T1, T2, T3, V1, V2, a
        <5>2. T1 = V2 + T2 BY <5>1
        <5> QED BY <5>2 DEF T1, T2, V2
    <3>3. QED BY <3>1, <3>2
  <2>6. QED BY <2>4, <2>5
<1>8. QED BY <1>6, <1>7

\* The empty sum.
LEMMA SumEmpty ==
  ASSUME NEW v
  PROVE  SumFunctionOnSet(v, {}) = 0
BY SumStep, FS_EmptySet

\* One more term.
LEMMA SumAdd ==
  ASSUME NEW v, NEW S, IsFiniteSet(S), NEW x, x \notin S, \A y \in S \cup {x} : v[y] \in Int
  PROVE  SumFunctionOnSet(v, S \cup {x}) = v[x] + SumFunctionOnSet(v, S)
<1>1. IsFiniteSet(S \cup {x}) BY FS_AddElement
<1>2. (S \cup {x}) \ {x} = S OBVIOUS
<1>3. SumFunctionOnSet(v, S \cup {x}) = v[x] + SumFunctionOnSet(v, (S \cup {x}) \ {x})
  BY <1>1, SumRemove
<1> QED BY <1>2, <1>3

\* Sums are monotonic in the function, and so depend on it only where it is
\* summed.
LEMMA SumAtMost ==
  ASSUME NEW v, NEW w, NEW S, IsFiniteSet(S),
         \A x \in S : v[x] \in Int /\ w[x] \in Int /\ v[x] <= w[x]
  PROVE  SumFunctionOnSet(v, S) <= SumFunctionOnSet(w, S)
<1> DEFINE B == {t \in SUBSET S : ~(SumFunctionOnSet(v, t) <= SumFunctionOnSet(w, t))}
<1>1. SUFFICES ASSUME B # {} PROVE FALSE OBVIOUS
<1>a. B \subseteq SUBSET S OBVIOUS
<1>2. PICK t \in B : \A u \in B : ~(u \subseteq t /\ u # t)
  <2> HIDE DEF B
  <2> QED BY <1>1, <1>a, Smallest
<1>4. IsFiniteSet(t) /\ t \subseteq S BY FS_Subset
<1>5. t # {} BY SumEmpty
<1>6. PICK p \in t : TRUE BY <1>5
<1>7. SumFunctionOnSet(v, t \ {p}) <= SumFunctionOnSet(w, t \ {p}) BY <1>2, <1>4
<1>8. /\ SumFunctionOnSet(v, t) = v[p] + SumFunctionOnSet(v, t \ {p})
      /\ SumFunctionOnSet(w, t) = w[p] + SumFunctionOnSet(w, t \ {p})
      /\ SumFunctionOnSet(v, t) \in Int /\ SumFunctionOnSet(w, t) \in Int
  BY <1>4, SumRemove
<1>9. SumFunctionOnSet(v, t \ {p}) \in Int /\ SumFunctionOnSet(w, t \ {p}) \in Int
  BY <1>4, FS_RemoveElement, SumRemove
<1>10. v[p] \in Int /\ w[p] \in Int /\ v[p] <= w[p] BY <1>4
<1>11. SumFunctionOnSet(v, t) <= SumFunctionOnSet(w, t) BY <1>7, <1>8, <1>9, <1>10
<1> QED BY <1>11

LEMMA SumSame ==
  ASSUME NEW v, NEW w, NEW S, IsFiniteSet(S), \A x \in S : v[x] \in Int /\ v[x] = w[x]
  PROVE  SumFunctionOnSet(v, S) = SumFunctionOnSet(w, S)
<1>1. /\ SumFunctionOnSet(v, S) <= SumFunctionOnSet(w, S)
      /\ SumFunctionOnSet(w, S) <= SumFunctionOnSet(v, S)
  BY SumAtMost
<1>2. SumFunctionOnSet(v, S) \in Int /\ SumFunctionOnSet(w, S) \in Int BY SumRemove
<1> QED BY <1>1, <1>2

\* A sum is the sum over a subset and the sum over the rest.
LEMMA SumSplit ==
  ASSUME NEW v, NEW S, IsFiniteSet(S), \A x \in S : v[x] \in Int, NEW T \in SUBSET S
  PROVE  SumFunctionOnSet(v, S) = SumFunctionOnSet(v, T) + SumFunctionOnSet(v, S \ T)
<1> DEFINE B == {t \in SUBSET T :
                   SumFunctionOnSet(v, S) # SumFunctionOnSet(v, t) + SumFunctionOnSet(v, S \ t)}
<1>1. SUFFICES ASSUME B # {} PROVE FALSE OBVIOUS
<1>a. B \subseteq SUBSET T OBVIOUS
<1>b. IsFiniteSet(T) BY FS_Subset
<1>2. PICK t \in B : \A u \in B : ~(u \subseteq t /\ u # t)
  <2> HIDE DEF B
  <2> QED BY <1>1, <1>a, <1>b, Smallest
<1>3. t \subseteq S /\ IsFiniteSet(t) /\ IsFiniteSet(S \ t) BY FS_Subset
<1>4. t # {}
  <2>1. S \ {} = S /\ SumFunctionOnSet(v, S) \in Int BY SumRemove
  <2> QED BY <2>1, SumEmpty
<1>5. PICK p \in t : TRUE BY <1>4
<1> DEFINE u == t \ {p}
<1>6. SumFunctionOnSet(v, S) = SumFunctionOnSet(v, u) + SumFunctionOnSet(v, S \ u) BY <1>2
<1>7. SumFunctionOnSet(v, t) = v[p] + SumFunctionOnSet(v, u) BY <1>3, SumRemove
<1>8. SumFunctionOnSet(v, S \ u) = v[p] + SumFunctionOnSet(v, S \ t)
  <2>1. S \ u = (S \ t) \cup {p} /\ p \notin S \ t BY <1>3
  <2>2. \A y \in (S \ t) \cup {p} : v[y] \in Int BY <1>3
  <2> HIDE DEF u
  <2> QED BY <2>1, <2>2, <1>3, SumAdd
<1>9. /\ SumFunctionOnSet(v, u) \in Int /\ SumFunctionOnSet(v, S \ t) \in Int
      /\ SumFunctionOnSet(v, S) \in Int /\ v[p] \in Int
  <2>1. IsFiniteSet(u) /\ u \subseteq S BY <1>3, FS_RemoveElement
  <2> HIDE DEF u
  <2> QED BY <2>1, <1>3, SumRemove
<1> HIDE DEF u
<1>10. SumFunctionOnSet(v, S) = SumFunctionOnSet(v, t) + SumFunctionOnSet(v, S \ t)
  BY <1>6, <1>7, <1>8, <1>9
<1> QED BY <1>10

\* A sum of naturals is a natural.
LEMMA SumNat ==
  ASSUME NEW v, NEW S, IsFiniteSet(S), \A x \in S : v[x] \in Nat
  PROVE  SumFunctionOnSet(v, S) \in Nat
<1> DEFINE zero == [x \in S |-> 0]
           B == {t \in SUBSET S : SumFunctionOnSet(v, t) \notin Nat}
<1>1. SUFFICES ASSUME B # {} PROVE FALSE OBVIOUS
<1>a. B \subseteq SUBSET S OBVIOUS
<1>2. PICK t \in B : \A u \in B : ~(u \subseteq t /\ u # t)
  <2> HIDE DEF B
  <2> QED BY <1>1, <1>a, Smallest
<1>3. IsFiniteSet(t) /\ t \subseteq S BY FS_Subset
<1>4. t # {} BY SumEmpty
<1>5. PICK p \in t : TRUE BY <1>4
<1>6. SumFunctionOnSet(v, t) = v[p] + SumFunctionOnSet(v, t \ {p}) BY <1>3, SumRemove
<1>7. SumFunctionOnSet(v, t \ {p}) \in Nat BY <1>2, <1>3
<1>8. SumFunctionOnSet(v, t) \in Nat BY <1>3, <1>6, <1>7
<1> QED BY <1>8

\* A part of a sum of naturals is at most the sum.
LEMMA SumPart ==
  ASSUME NEW v, NEW S, IsFiniteSet(S), \A x \in S : v[x] \in Nat, NEW T \in SUBSET S
  PROVE  SumFunctionOnSet(v, T) <= SumFunctionOnSet(v, S)
<1>1. SumFunctionOnSet(v, S) = SumFunctionOnSet(v, T) + SumFunctionOnSet(v, S \ T)
  BY SumSplit
<1>2. SumFunctionOnSet(v, T) \in Nat /\ SumFunctionOnSet(v, S \ T) \in Nat
  BY FS_Subset, SumNat
<1> QED BY <1>1, <1>2

\* A sum may be taken over the values of an injective function.
LEMMA SumImage ==
  ASSUME NEW v, NEW w, NEW S, IsFiniteSet(S), NEW g,
         \A x, y \in S : g[x] = g[y] => x = y,
         \A x \in S : v[x] \in Int /\ w[g[x]] = v[x]
  PROVE  /\ IsFiniteSet({g[x] : x \in S})
         /\ SumFunctionOnSet(w, {g[x] : x \in S}) = SumFunctionOnSet(v, S)
<1> DEFINE Im(t) == {g[x] : x \in t}
           B == {t \in SUBSET S : ~(/\ IsFiniteSet(Im(t))
                                    /\ SumFunctionOnSet(w, Im(t)) = SumFunctionOnSet(v, t))}
<1>1. SUFFICES ASSUME B # {} PROVE FALSE OBVIOUS
<1>a. B \subseteq SUBSET S OBVIOUS
<1>2. PICK t \in B : \A u \in B : ~(u \subseteq t /\ u # t)
  <2> HIDE DEF B
  <2> QED BY <1>1, <1>a, Smallest
<1>3. IsFiniteSet(t) /\ t \subseteq S BY FS_Subset
<1>4. t # {}
  <2>1. Im({}) = {} OBVIOUS
  <2>2. IsFiniteSet(Im({})) /\ SumFunctionOnSet(w, Im({})) = SumFunctionOnSet(v, {})
    BY <2>1, SumEmpty, FS_EmptySet
  <2> HIDE DEF Im
  <2> QED BY <2>2
<1>5. PICK p \in t : TRUE BY <1>4
<1> DEFINE u == t \ {p}
<1>6. IsFiniteSet(Im(u)) /\ SumFunctionOnSet(w, Im(u)) = SumFunctionOnSet(v, u)
  <2>1. u \in SUBSET S /\ u \subseteq t /\ u # t BY <1>3
  <2> HIDE DEF u, Im
  <2> QED BY <2>1, <1>2
<1>7. Im(t) = Im(u) \cup {g[p]} /\ g[p] \notin Im(u)
  BY <1>3
<1>8. \A y \in Im(t) : w[y] \in Int
  BY <1>3
<1>9. SumFunctionOnSet(v, t) = v[p] + SumFunctionOnSet(v, u) BY <1>3, SumRemove
<1>10. w[g[p]] = v[p] BY <1>3
<1>11. SumFunctionOnSet(w, Im(t)) = w[g[p]] + SumFunctionOnSet(w, Im(u))
  <2> HIDE DEF u, Im
  <2> QED BY <1>6, <1>7, <1>8, SumAdd
<1>12. IsFiniteSet(Im(t))
  <2> HIDE DEF u, Im
  <2> QED BY <1>6, <1>7, FS_AddElement
<1>13. SumFunctionOnSet(w, Im(t)) = SumFunctionOnSet(v, t)
  <2> HIDE DEF u, Im
  <2> QED BY <1>6, <1>9, <1>10, <1>11
<1>14. ~(IsFiniteSet(Im(t)) /\ SumFunctionOnSet(w, Im(t)) = SumFunctionOnSet(v, t))
  <2> HIDE DEF Im
  <2> QED OBVIOUS
<1> QED BY <1>12, <1>13, <1>14

=============================================================================
