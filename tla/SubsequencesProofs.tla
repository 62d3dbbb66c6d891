-------------------------- MODULE SubsequencesProofs --------------------------
(***************************************************************************)
(* Induction without operators: what holds of a number is given as the set *)
(* of the numbers it holds of.  From it follow that a function that is     *)
(* defined by recursion over 0..n exists, and what Kept returns.           *)
(***************************************************************************)
EXTENDS Subsequences, Functions, WellFoundedInduction, NaturalsInduction, FiniteSetTheorems, TLAPS

\* A non-empty set of numbers has a least one.
LEMMA Least ==
    ASSUME NEW T \in SUBSET Nat, T # {}
    PROVE  \E n \in T : \A m \in T : n <= m
<1> DEFINE R == {ss \in Nat \X Nat : ss[1] < ss[2]}
<1>1. IsWellFoundedOn(R, Nat)
  BY Zenon, NatLessThanWellFounded DEF OpToRel, R
<1> HIDE DEF R
<1>2. PICK n \in T : \A m \in T : ~(<<m, n>> \in R)
  BY <1>1, WFMin
<1>3. T \subseteq Nat
  OBVIOUS
<1>4. ASSUME NEW m \in T PROVE n <= m
  <2>1. m \in Nat /\ n \in Nat
    BY <1>3
  <2>2. ~(m < n)
    BY <1>2, <2>1 DEF R
  <2> QED BY <2>1, <2>2
<1> QED BY <1>4

\* Induction over 0..N.
LEMMA UpTo ==
    ASSUME NEW N \in Nat, NEW T, 0 \in T, \A n \in 1..N : n - 1 \in T => n \in T
    PROVE  0..N \subseteq T
<1> DEFINE B == {n \in 0..N : n \notin T}
<1>1. SUFFICES ASSUME B # {} PROVE FALSE
  OBVIOUS
<1>2. B \in SUBSET Nat
  OBVIOUS
<1> HIDE DEF B
<1>3. PICK n \in B : \A m \in B : n <= m
  BY <1>1, <1>2, Least
<1>4. n \in 1..N /\ n - 1 \in 0..N
  BY <1>3 DEF B
<1>5. n - 1 \notin B
  BY <1>2, <1>3, <1>4
<1> QED BY <1>3, <1>4, <1>5 DEF B

\* f solves a recursion over 0..N.
Solves(f, N, X, a, step) ==
    /\ f \in [0..N -> X]
    /\ f[0] = a
    /\ \A n \in 1..N : f[n] = step[<<n, f[n - 1]>>]

\* If one step of it is a function, there is a solution.
LEMMA Recursion ==
    ASSUME NEW N \in Nat, NEW X, NEW a \in X, NEW step \in [(1..N) \X X -> X]
    PROVE  \E f : Solves(f, N, X, a, step)
<1> DEFINE T == {k \in 0..N : \E f : Solves(f, k, X, a, step)}
<1>1. 0 \in T
  <2> DEFINE f == [n \in 0..0 |-> a]
  <2>1. Solves(f, 0, X, a, step)
    BY DEF Solves
  <2> HIDE DEF f
  <2> QED BY <2>1
<1>2. ASSUME NEW k \in 1..N, k - 1 \in T PROVE k \in T
  <2>1. PICK f : Solves(f, k - 1, X, a, step)
    BY <1>2
  <2> DEFINE g == [n \in 0..k |-> IF n = k THEN step[<<k, f[k - 1]>>] ELSE f[n]]
  <2>2. f[k - 1] \in X /\ step[<<k, f[k - 1]>>] \in X
    BY <2>1 DEF Solves
  <2>3. g \in [0..k -> X]
    BY <2>1, <2>2 DEF Solves
  <2>4. g[0] = a
    BY <2>1 DEF Solves
  <2>5. ASSUME NEW n \in 1..k PROVE g[n] = step[<<n, g[n - 1]>>]
    <3>1. CASE n = k
      <4>1. g[k] = step[<<k, f[k - 1]>>]
        OBVIOUS
      <4>2. g[k - 1] = f[k - 1]
        OBVIOUS
      <4> QED BY <3>1, <4>1, <4>2
    <3>2. CASE n # k
      <4>1. n \in 1..(k - 1) /\ n - 1 # k
        BY <3>2
      <4> QED BY <2>1, <4>1 DEF Solves
    <3> QED BY <3>1, <3>2
  <2> HIDE DEF g
  <2>6. Solves(g, k, X, a, step)
    BY <2>3, <2>4, <2>5 DEF Solves
  <2> QED BY <2>6
<1> HIDE DEF T
<1>3. 0..N \subseteq T
  BY <1>1, <1>2, UpTo
<1> QED BY <1>3 DEF T

\* One entry more, or not.
KeptStep(s, S, i, x) == IF s[i] \in S THEN Append(x, s[i]) ELSE x

\* f is what Kept computes, entry by entry.
KeptBy(f, E, s, S) ==
    /\ f \in [0..Len(s) -> Seq(E)]
    /\ f[0] = <<>>
    /\ \A i \in 1..Len(s) : f[i] = KeptStep(s, S, i, f[i - 1])
    /\ Kept(s, S) = f[Len(s)]

\* Such a function exists for every list.
LEMMA KeptBuilt ==
    ASSUME NEW E, NEW s \in Seq(E), NEW S
    PROVE  \E f : KeptBy(f, E, s, S)
<1> DEFINE step == [ix \in (1..Len(s)) \X Seq(E) |-> KeptStep(s, S, ix[1], ix[2])]
           Body(f) == [i \in 0..Len(s) |->
                         IF i = 0 THEN <<>>
                         ELSE IF s[i] \in S THEN Append(f[i - 1], s[i]) ELSE f[i - 1]]
<1>0. Len(s) \in Nat /\ <<>> \in Seq(E) /\ \A i \in 1..Len(s) : s[i] \in E /\ i - 1 \in 0..Len(s)
  OBVIOUS
<1>1. step \in [(1..Len(s)) \X Seq(E) -> Seq(E)]
  BY DEF KeptStep
<1>2. \A i \in 1..Len(s), x \in Seq(E) : step[<<i, x>>] = KeptStep(s, S, i, x)
  OBVIOUS
<1> HIDE DEF step
<1>3. PICK f : Solves(f, Len(s), Seq(E), <<>>, step)
  BY <1>0, <1>1, Recursion
<1>4. f \in [0..Len(s) -> Seq(E)] /\ f[0] = <<>>
  BY <1>3 DEF Solves
<1>5. ASSUME NEW i \in 1..Len(s) PROVE f[i] = KeptStep(s, S, i, f[i - 1])
  <2>1. f[i] = step[<<i, f[i - 1]>>]
    BY <1>3 DEF Solves
  <2>2. f[i - 1] \in Seq(E)
    BY <1>0, <1>4
  <2> QED BY <1>2, <2>1, <2>2
<1>6. \A g : g = Body(g) => g[Len(s)] = f[Len(s)]
  <2> TAKE g
  <2> HAVE g = Body(g)
  <2> DEFINE T == {i \in 0..Len(s) : g[i] = f[i]}
  <2>1. 0 \in T
    BY <1>0, <1>4
  <2>2. ASSUME NEW i \in 1..Len(s), i - 1 \in T PROVE i \in T
    <3>1. g[i - 1] = f[i - 1]
      BY <2>2
    <3>2. g[i] = Body(g)[i]
      OBVIOUS
    <3>3. Body(g)[i] = KeptStep(s, S, i, g[i - 1])
      BY <1>0 DEF KeptStep
    <3> QED BY <1>0, <1>5, <3>1, <3>2, <3>3
  <2> HIDE DEF T
  <2>3. 0..Len(s) \subseteq T
    BY <1>0, <2>1, <2>2, UpTo
  <2>4. Len(s) \in T
    BY <1>0, <2>3
  <2> QED BY <2>4 DEF T
<1>7. f = Body(f)
  <2>1. ASSUME NEW i \in 0..Len(s) PROVE f[i] = Body(f)[i]
    <3>1. CASE i = 0
      BY <1>0, <1>4, <3>1
    <3>2. CASE i # 0
      <4>1. i \in 1..Len(s)
        BY <1>0, <3>2
      <4> QED BY <1>5, <3>2, <4>1 DEF KeptStep
    <3> QED BY <3>1, <3>2
  <2>2. f = [i \in 0..Len(s) |-> f[i]]
    BY <1>4
  <2>3. Body(f) = [i \in 0..Len(s) |-> Body(f)[i]]
    OBVIOUS
  <2> HIDE DEF Body
  <2> QED BY <2>1, <2>2, <2>3
<1>8. Kept(s, S) = f[Len(s)]
  <2> DEFINE k == CHOOSE g : g = Body(g)
  <2>1. k = Body(k)
    BY <1>7
  <2>2. k[Len(s)] = f[Len(s)]
    BY <1>6, <2>1
  <2> QED BY <2>2 DEF Kept
<1> QED BY <1>4, <1>5, <1>8 DEF KeptBy

\* Kept keeps exactly the entries in S; of a queue without repetitions it makes
\* one that is not longer.
LEMMA KeptEntries ==
    ASSUME NEW E, NEW s \in Seq(E), NEW S
    PROVE  /\ Kept(s, S) \in Seq(E)
           /\ Range(Kept(s, S)) = Range(s) \cap S
           /\ Len(Kept(s, S)) <= Len(s)
           /\ IsInjective(s) => IsInjective(Kept(s, S))
<1>1. PICK f : KeptBy(f, E, s, S)
  BY KeptBuilt
<1>2. /\ f \in [0..Len(s) -> Seq(E)]
      /\ f[0] = <<>>
      /\ \A i \in 1..Len(s) : f[i] = KeptStep(s, S, i, f[i - 1])
      /\ Kept(s, S) = f[Len(s)]
  BY <1>1 DEF KeptBy
<1> DEFINE First(i) == {s[k] : k \in 1..i}
           T == {i \in 0..Len(s) : /\ Range(f[i]) = First(i) \cap S
                                   /\ Len(f[i]) <= i
                                   /\ IsInjective(s) => IsInjective(f[i])}
<1>3. 0 \in T
  <2>1. Range(<<>>) = {} /\ IsInjective(<<>>) /\ Len(<<>>) = 0 /\ First(0) = {}
    BY DEF Range, IsInjective
  <2> QED BY <1>2, <2>1
<1>4. ASSUME NEW i \in 1..Len(s), i - 1 \in T PROVE i \in T
  <2>1. First(i) = First(i - 1) \cup {s[i]} /\ s[i] \in E /\ f[i - 1] \in Seq(E)
    <3>1. i - 1 \in 0..Len(s) /\ i \in Nat /\ s[i] \in E
      OBVIOUS
    <3>2. 1..i = (1..(i - 1)) \cup {i}
      BY <3>1
    <3> QED BY <1>2, <3>1, <3>2
  <2>2. IsInjective(s) => s[i] \notin First(i - 1)
    BY DEF IsInjective
  <2>3. CASE s[i] \notin S
    BY <1>2, <1>4, <2>1, <2>3 DEF KeptStep
  <2>4. CASE s[i] \in S
    <3>1. f[i] = Append(f[i - 1], s[i])
      BY <1>2, <2>4 DEF KeptStep
    <3>2. Range(f[i]) = Range(f[i - 1]) \cup {s[i]}
      <4>1. \A x \in Range(f[i]) : x \in Range(f[i - 1]) \cup {s[i]}
        BY <2>1, <3>1 DEF Range
      <4>2. \A k \in DOMAIN f[i - 1] : k \in DOMAIN f[i] /\ f[i][k] = f[i - 1][k]
        BY <2>1, <3>1
      <4>3. Len(f[i]) \in DOMAIN f[i] /\ f[i][Len(f[i])] = s[i]
        BY <2>1, <3>1
      <4> QED BY <4>1, <4>2, <4>3 DEF Range
    <3>3. IsInjective(f[i - 1]) /\ s[i] \notin Range(f[i - 1]) => IsInjective(f[i])
      BY <2>1, <3>1 DEF Range, IsInjective
    <3>4. Range(f[i]) = First(i) \cap S
      BY <1>4, <2>1, <2>4, <3>2
    <3>5. Len(f[i]) <= i
      BY <1>4, <2>1, <3>1
    <3>6. IsInjective(s) => IsInjective(f[i])
      BY <1>4, <2>2, <3>3
    <3> QED BY <3>4, <3>5, <3>6
  <2> QED BY <2>3, <2>4
<1> HIDE DEF T
<1>5. Len(s) \in T
  <2>1. Len(s) \in Nat
    OBVIOUS
  <2>2. 0..Len(s) \subseteq T
    BY <1>3, <1>4, <2>1, UpTo
  <2> QED BY <2>1, <2>2
<1>6. First(Len(s)) = Range(s)
  BY DEF Range
<1> QED BY <1>2, <1>5, <1>6 DEF T

-----------------------------------------------------------------------------
(* Queues                                                                  *)

\* An entry more at the end.
LEMMA AppendedEntry ==
    ASSUME NEW E, NEW s \in Seq(E), NEW e \in E
    PROVE  /\ Append(s, e) \in Seq(E)
           /\ Len(Append(s, e)) = Len(s) + 1
           /\ Range(Append(s, e)) = Range(s) \cup {e}
           /\ IsInjective(s) /\ e \notin Range(s) => IsInjective(Append(s, e))
<1> DEFINE t == Append(s, e)
<1>1. t \in Seq(E) /\ Len(t) = Len(s) + 1 /\ Len(s) \in Nat
  OBVIOUS
<1>2. (\A k \in 1..Len(s) : t[k] = s[k]) /\ t[Len(s) + 1] = e
  OBVIOUS
<1> HIDE DEF t
<1>3. Range(t) = Range(s) \cup {e}
  <2>1. \A k \in 1..Len(t) : t[k] \in Range(s) \cup {e}
    BY <1>1, <1>2 DEF Range
  <2>2. \A k \in 1..Len(s) : s[k] \in Range(t)
    BY <1>1, <1>2 DEF Range
  <2>3. e \in Range(t)
    BY <1>1, <1>2 DEF Range
  <2> QED BY <1>1, <2>1, <2>2, <2>3 DEF Range
<1>4. IsInjective(s) /\ e \notin Range(s) => IsInjective(t)
  BY <1>1, <1>2 DEF Range, IsInjective
<1> QED BY <1>1, <1>3, <1>4 DEF t

\* One queue behind another.
LEMMA Joined ==
    ASSUME NEW E, NEW s \in Seq(E), NEW t \in Seq(E)
    PROVE  /\ s \o t \in Seq(E)
           /\ Range(s \o t) = Range(s) \cup Range(t)
           /\ IsInjective(s) /\ IsInjective(t) /\ Range(s) \cap Range(t) = {}
                => IsInjective(s \o t)
<1> DEFINE u == s \o t
<1>1. u \in Seq(E) /\ Len(u) = Len(s) + Len(t) /\ Len(s) \in Nat /\ Len(t) \in Nat
  OBVIOUS
<1>2. \A k \in 1..Len(s) : u[k] = s[k]
  OBVIOUS
<1>3. \A k \in 1..Len(t) : u[Len(s) + k] = t[k]
  OBVIOUS
<1> HIDE DEF u
<1>4. ASSUME NEW k \in 1..Len(u), k \notin 1..Len(s)
      PROVE  k - Len(s) \in 1..Len(t) /\ u[k] = t[k - Len(s)]
  <2>1. k - Len(s) \in 1..Len(t) /\ Len(s) + (k - Len(s)) = k
    BY <1>1, <1>4
  <2> QED BY <1>3, <2>1
<1>5. Range(u) = Range(s) \cup Range(t)
  <2>1. ASSUME NEW k \in 1..Len(u) PROVE u[k] \in Range(s) \cup Range(t)
    <3>1. CASE k \in 1..Len(s)
      BY <1>2, <3>1 DEF Range
    <3>2. CASE k \notin 1..Len(s)
      BY <1>4, <3>2 DEF Range
    <3> QED BY <3>1, <3>2
  <2>2. ASSUME NEW k \in 1..Len(s) PROVE s[k] \in Range(u)
    <3>1. k \in 1..Len(u)
      BY <1>1
    <3> QED BY <1>1, <1>2, <3>1 DEF Range
  <2>3. ASSUME NEW k \in 1..Len(t) PROVE t[k] \in Range(u)
    <3>1. Len(s) + k \in 1..Len(u)
      BY <1>1
    <3> QED BY <1>1, <1>3, <3>1 DEF Range
  <2>4. /\ Range(u) = {u[k] : k \in 1..Len(u)}
        /\ Range(s) = {s[k] : k \in 1..Len(s)}
        /\ Range(t) = {t[k] : k \in 1..Len(t)}
    <3>1. DOMAIN u = 1..Len(u) /\ DOMAIN s = 1..Len(s) /\ DOMAIN t = 1..Len(t)
      BY <1>1
    <3> QED BY <3>1 DEF Range
  <2> QED BY <2>1, <2>2, <2>3, <2>4
<1>6. ASSUME IsInjective(s), IsInjective(t), Range(s) \cap Range(t) = {},
             NEW k \in 1..Len(u), NEW l \in 1..Len(u), u[k] = u[l]
      PROVE  k = l
  <2>1. CASE k \in 1..Len(s) /\ l \in 1..Len(s)
    BY <1>2, <1>6, <2>1 DEF IsInjective
  <2>2. CASE k \notin 1..Len(s) /\ l \notin 1..Len(s)
    <3>1. /\ k - Len(s) \in 1..Len(t) /\ l - Len(s) \in 1..Len(t)
          /\ t[k - Len(s)] = t[l - Len(s)]
      BY <1>4, <1>6, <2>2
    <3>2. \A i, j \in 1..Len(t) : t[i] = t[j] => i = j
      BY <1>6 DEF IsInjective
    <3>3. k - Len(s) = l - Len(s)
      BY <3>1, <3>2
    <3> QED BY <1>1, <3>3
  <2>3. CASE k \in 1..Len(s) /\ l \notin 1..Len(s)
    <3>1. u[k] \in Range(s) /\ u[l] \in Range(t)
      BY <1>2, <1>4, <2>3 DEF Range
    <3> QED BY <1>6, <3>1
  <2>4. CASE k \notin 1..Len(s) /\ l \in 1..Len(s)
    <3>1. u[l] \in Range(s) /\ u[k] \in Range(t)
      BY <1>2, <1>4, <2>4 DEF Range
    <3> QED BY <1>6, <3>1
  <2> QED BY <2>1, <2>2, <2>3, <2>4
<1>7. IsInjective(s) /\ IsInjective(t) /\ Range(s) \cap Range(t) = {} => IsInjective(u)
  <2>1. DOMAIN u = 1..Len(u)
    BY <1>1
  <2> QED BY <1>6, <2>1 DEF IsInjective
<1> QED BY <1>1, <1>5, <1>7 DEF u

\* A queue without repetitions is as long as it has entries.
LEMMA Counted ==
    ASSUME NEW E, NEW s \in Seq(E), IsInjective(s)
    PROVE  IsFiniteSet(Range(s)) /\ Cardinality(Range(s)) = Len(s)
<1>1. Len(s) \in Nat /\ DOMAIN s = 1..Len(s)
  OBVIOUS
<1>2. s \in Bijection(1..Len(s), Range(s))
  <2>1. s \in [1..Len(s) -> Range(s)]
    BY <1>1 DEF Range
  <2>2. \A y \in Range(s) : \E k \in 1..Len(s) : s[k] = y
    BY <1>1 DEF Range
  <2>3. \A k, l \in 1..Len(s) : s[k] = s[l] => k = l
    BY <1>1 DEF IsInjective
  <2> QED BY <2>1, <2>2, <2>3 DEF Bijection, Injection, Surjection, IsInjective
<1>3. ExistsBijection(1..Len(s), Range(s))
  BY <1>2 DEF ExistsBijection
<1> QED BY <1>1, <1>3, FS_NatBijection, FS_CountingElements
===============================================================================
