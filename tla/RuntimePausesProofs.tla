-------------------------- MODULE RuntimePausesProofs --------------------------
(***************************************************************************)
(* The slots of a runtime, and those who pause, stop and start it, for any *)
(* requests, limits and reloads.                                           *)
(*                                                                         *)
(* SlotsInv is about the pool: AdmitQueued is a recursion over the slots,  *)
(* and Turn says what any number of its turns has made of the pool it      *)
(* began with; NextTurn is the induction step and Admitting its end, that  *)
(* nobody who may be admitted stays queued.  Every step of the slots       *)
(* either ends in AdmitQueued (AdmittingStep), closes the gate             *)
(* (ClosingStep), or is an arrival or a departure in the queue.            *)
(* LockInv is about the lifecycle queue: who is in it, and that whoever    *)
(* works is at its head.  MaintenanceInv joins the two: from the latch of  *)
(* its record to its stop, no step admits anybody.                         *)
(***************************************************************************)
EXTENDS RuntimePauses, SubsequencesProofs

-----------------------------------------------------------------------------
(* Queues                                                                  *)

\* The queue without one of its entries.
LEMMA RemovedEntry ==
    ASSUME NEW E, NEW s \in Seq(E), NEW i \in DOMAIN s
    PROVE  /\ RemoveAt(s, i) \in Seq(E)
           /\ Len(RemoveAt(s, i)) = Len(s) - 1
           /\ Range(RemoveAt(s, i)) \subseteq Range(s)
           /\ IsInjective(s) => /\ IsInjective(RemoveAt(s, i))
                                /\ s[i] \notin Range(RemoveAt(s, i))
<1> DEFINE t == RemoveAt(s, i)
           a == SubSeq(s, 1, i - 1)
           b == SubSeq(s, i + 1, Len(s))
<1>1. i \in 1..Len(s) /\ Len(s) \in Nat
  OBVIOUS
<1>2. /\ a \in Seq(E) /\ Len(a) = i - 1
      /\ b \in Seq(E) /\ Len(b) = Len(s) - i
  BY <1>1
<1>3. /\ \A k \in 1..(i - 1) : a[k] = s[k]
      /\ \A k \in 1..(Len(s) - i) : b[k] = s[k + i]
  BY <1>1
<1>0. t = a \o b
  BY DEF RemoveAt
<1> HIDE DEF t, a, b
<1>4. t \in Seq(E) /\ Len(t) = Len(s) - 1
  BY <1>0, <1>1, <1>2
<1>5. ASSUME NEW k \in 1..(Len(s) - 1) PROVE t[k] = IF k < i THEN s[k] ELSE s[k + 1]
  <2>0. k \in 1..(Len(a) + Len(b))
    BY <1>1, <1>2
  <2>1. t[k] = IF k <= Len(a) THEN a[k] ELSE b[k - Len(a)]
    BY <1>0, <1>2, <2>0
  <2>2. CASE k < i
    BY <1>1, <1>2, <1>3, <2>1, <2>2
  <2>3. CASE ~(k < i)
    <3>1. k - Len(a) \in 1..(Len(s) - i) /\ k - Len(a) + i = k + 1 /\ ~(k <= Len(a))
      BY <1>1, <1>2, <2>3
    <3>2. b[k - Len(a)] = s[k - Len(a) + i]
      BY <1>3, <3>1
    <3> QED BY <2>1, <2>3, <3>1, <3>2
  <2> QED BY <2>2, <2>3
<1>6. Range(t) \subseteq Range(s)
  BY <1>1, <1>4, <1>5 DEF Range
<1>7. ASSUME IsInjective(s) PROVE IsInjective(t) /\ s[i] \notin Range(t)
  <2>1. \A k, l \in 1..Len(s) : s[k] = s[l] => k = l
    BY <1>7 DEF IsInjective
  <2>2. IsInjective(t)
    BY <1>1, <1>4, <1>5, <2>1 DEF IsInjective
  <2>3. s[i] \notin Range(t)
    BY <1>1, <1>4, <1>5, <2>1 DEF Range
  <2> QED BY <2>2, <2>3
<1> QED BY <1>4, <1>6, <1>7 DEF t

\* The queue without its first entry.
LEMMA FirstEntryGone ==
    ASSUME NEW E, NEW s \in Seq(E), s # <<>>, IsInjective(s)
    PROVE  /\ Tail(s) \in Seq(E)
           /\ IsInjective(Tail(s))
           /\ Range(Tail(s)) = Range(s) \ {Head(s)}
           /\ Head(s) \in Range(s)
<1> DEFINE t == Tail(s)
<1>1. Len(s) \in Nat \ {0} /\ Head(s) = s[1]
  OBVIOUS
<1>2. t \in Seq(E) /\ Len(t) = Len(s) - 1
  OBVIOUS
<1>3. \A k \in 1..(Len(s) - 1) : t[k] = s[k + 1]
  OBVIOUS
<1> HIDE DEF t
<1>4. \A k, l \in 1..Len(s) : s[k] = s[l] => k = l
  BY DEF IsInjective
<1>5. IsInjective(t)
  BY <1>1, <1>2, <1>3, <1>4 DEF IsInjective
<1>6. Range(t) \subseteq Range(s) \ {Head(s)}
  BY <1>1, <1>2, <1>3, <1>4 DEF Range
<1>7. ASSUME NEW k \in 2..Len(s) PROVE s[k] \in Range(t)
  <2>1. k - 1 \in 1..(Len(s) - 1) /\ t[k - 1] = s[k]
    BY <1>1, <1>3
  <2> QED BY <1>2, <2>1 DEF Range
<1>8. Range(s) \subseteq Range(t) \cup {Head(s)}
  BY <1>1, <1>7 DEF Range
<1>9. Head(s) \in Range(s)
  BY <1>1 DEF Range
<1> QED BY <1>2, <1>5, <1>6, <1>8, <1>9 DEF t

-----------------------------------------------------------------------------
(* Pools and gates                                                         *)

\* What TypeOK says of a pool, and what counting in it needs.
Pools ==
    {p \in [active : SUBSET Requests, queue : Seq(Requests), row : Rows] :
        /\ IsFiniteSet(p.active)
        /\ IsFiniteSet(Range(p.queue))
        /\ Range(p.queue) \cap p.active = {}
        /\ IsInjective(p.queue)}

Gates ==
    [paused : BOOLEAN, marker : Markers, max : Concurrencies,
     guard : [Requests -> Guards], reloading : BOOLEAN]

\* Sets of active requests are counted by numbers, that grow with the set.
LEMMA Counting ==
    ASSUME NEW A, IsFiniteSet(A), NEW B \in SUBSET A
    PROVE  /\ IsFiniteSet(B)
           /\ Cardinality(A) \in Nat
           /\ Cardinality(B) \in Nat
           /\ Cardinality(B) <= Cardinality(A)
BY FS_Subset, FS_CardinalityType

\* A slot given to one more request.
LEMMA OneMore ==
    ASSUME NEW A, IsFiniteSet(A), NEW r, r \notin A
    PROVE  /\ Cardinality(A) \in Nat
           /\ Cardinality(A \cup {r}) = Cardinality(A) + 1
BY FS_AddElement, FS_CardinalityType

\* And so do those of them that are in a set, if it has the request.
LEMMA OneMoreOf ==
    ASSUME NEW A, IsFiniteSet(A), NEW S, NEW r \in S, r \notin A
    PROVE  /\ Cardinality(A \cap S) \in Nat
           /\ Cardinality((A \cup {r}) \cap S) = Cardinality(A \cap S) + 1
<1>1. IsFiniteSet(A \cap S) /\ r \notin A \cap S
  BY Counting
<1>2. (A \cup {r}) \cap S = (A \cap S) \cup {r}
  OBVIOUS
<1> QED BY <1>1, <1>2, OneMore

\* The limits of a runtime's slots are numbers.
LEMMA LimitsAreNumbers ==
    ASSUME NEW g \in Gates
    PROVE  g.max \in Nat \ {0} /\ StandardSlots(g) \in Nat
<1>1. g.max \in Nat \ {0} /\ ReservedSlots \in Nat
  BY SettingsAssumption DEF Gates
<1>2. ReservedSlots < g.max => g.max - ReservedSlots \in Nat
  BY <1>1
<1> QED BY <1>1, <1>2 DEF StandardSlots

\* With fewer active requests there is room for all that there was room for.
LEMMA RoomShrinks ==
    ASSUME NEW g \in Gates, NEW p, NEW q, NEW r,
           IsFiniteSet(q.active), p.active \subseteq q.active, RoomFor(g, q, r)
    PROVE  RoomFor(g, p, r)
<1>1. StandardSlots(g) \in Nat /\ g.max \in Nat
  BY LimitsAreNumbers
<1>2. /\ Cardinality(p.active) \in Nat /\ Cardinality(q.active) \in Nat
      /\ Cardinality(p.active) <= Cardinality(q.active)
  BY Counting
<1>3. IsFiniteSet(q.active \cap Standard) /\ p.active \cap Standard \subseteq q.active \cap Standard
  BY Counting
<1>4. /\ Cardinality(p.active \cap Standard) \in Nat
      /\ Cardinality(q.active \cap Standard) \in Nat
      /\ Cardinality(p.active \cap Standard) <= Cardinality(q.active \cap Standard)
  BY <1>3, Counting
<1> QED BY <1>1, <1>2, <1>4 DEF RoomFor

\* If nextQueuedRequest finds nobody, nobody in the queue may be admitted.
LEMMA NobodyIsNext ==
    ASSUME NEW g, NEW p \in Pools, Candidates(g, p) = {},
           NEW r \in Range(p.queue)
    PROVE  ~Eligible(g, p, r)
<1>1. p.queue \in Seq(Requests)
  BY DEF Pools
<1>2. PICK i \in DOMAIN p.queue : p.queue[i] = r
  BY DEF Range
<1>3. r \in Requests
  BY <1>1, <1>2
<1>4. Takeable(g, p, Foreground \cup Interactive) = {} /\ Takeable(g, p, Standard) = {}
  BY DEF Candidates
<1>5. i \notin Takeable(g, p, Foreground \cup Interactive) /\ i \notin Takeable(g, p, Standard)
  BY <1>4
<1> QED BY <1>2, <1>3, <1>5 DEF Takeable, Requests

-----------------------------------------------------------------------------
(* Admissions from the queue                                               *)

\* One turn of the loop gives r a slot, and q is the pool after it.
Admits(g, p, q, r) ==
    /\ r \in Range(p.queue)
    /\ Eligible(g, p, r)
    /\ q \in Pools
    /\ q.active = p.active \cup {r}
    /\ Range(q.queue) \subseteq Range(p.queue)
    /\ Len(q.queue) <= Len(p.queue)
    /\ r \in Standard => q.row = 0
    /\ q.row <= p.row + 1
    /\ \A s \in Range(p.queue) \cap Standard :
          ~adaptive /\ Eligible(g, p, s) /\ r \notin Standard => p.row < 4

\* One turn of the admission loop admits one request.
LEMMA OneAdmission ==
    ASSUME NEW g \in Gates, NEW p \in Pools, Candidates(g, p) # {}
    PROVE  \E r : Admits(g, p, AdmitNext(g, p), r)
<1> DEFINE i == Min(Candidates(g, p))
           r == p.queue[i]
           q == AdmitNext(g, p)
<1>1. /\ p \in [active : SUBSET Requests, queue : Seq(Requests), row : Rows]
      /\ IsFiniteSet(p.active) /\ IsFiniteSet(Range(p.queue))
      /\ Range(p.queue) \cap p.active = {}
      /\ IsInjective(p.queue)
  BY DEF Pools
<1>2. Candidates(g, p) \subseteq DOMAIN p.queue /\ Candidates(g, p) \in SUBSET Nat
  <2>1. DOMAIN p.queue \subseteq Nat
    BY <1>1
  <2> QED BY <2>1 DEF Candidates, Takeable
<1>3. i \in Candidates(g, p)
  <2>1. \E n \in Candidates(g, p) : \A m \in Candidates(g, p) : n <= m
    BY <1>2, Least
  <2> QED BY <2>1 DEF Min
<1>4. /\ i \in DOMAIN p.queue /\ r \in Range(p.queue) /\ r \in Requests
      /\ r \notin p.active
  BY <1>1, <1>2, <1>3 DEF Range
<1>5. Eligible(g, p, r)
  BY <1>3 DEF Candidates, Takeable
<1>6. ASSUME ~adaptive, r \notin Standard, NEW s \in Range(p.queue) \cap Standard,
             Eligible(g, p, s)
      PROVE  p.row < 4
  <2>1. Takeable(g, p, Standard) # {}
    BY <1>6 DEF Takeable, Range
  <2>2. i \notin Takeable(g, p, Standard)
    BY <1>6 DEF Takeable
  <2> QED BY <1>3, <1>6, <2>1, <2>2 DEF Candidates
<1>7. q = [active |-> p.active \cup {r}, queue |-> RemoveAt(p.queue, i),
           row |-> IF r \in Standard THEN 0 ELSE IF p.row < 5 THEN p.row + 1 ELSE 5]
  BY <1>1 DEF AdmitNext, AdmitAt, Activate
<1> HIDE DEF i, q
<1>8. /\ RemoveAt(p.queue, i) \in Seq(Requests)
      /\ Len(RemoveAt(p.queue, i)) <= Len(p.queue)
      /\ Range(RemoveAt(p.queue, i)) \subseteq Range(p.queue)
      /\ IsInjective(RemoveAt(p.queue, i))
      /\ r \notin Range(RemoveAt(p.queue, i))
  <2>1. p.queue \in Seq(Requests) /\ Len(p.queue) \in Nat
    BY <1>1
  <2> QED BY <1>1, <1>4, <2>1, RemovedEntry
<1> HIDE DEF r
<1>9. p.row \in 0..5
  BY <1>1 DEF Rows
<1>10. q.row \in Rows /\ q.row <= p.row + 1 /\ (r \in Standard => q.row = 0)
  BY <1>7, <1>9 DEF Rows
<1>11. IsFiniteSet(p.active \cup {r}) /\ IsFiniteSet(Range(RemoveAt(p.queue, i)))
  BY <1>1, <1>8, FS_AddElement, FS_Subset
<1>12. q \in Pools
  BY <1>1, <1>4, <1>7, <1>8, <1>10, <1>11 DEF Pools
<1>13. Admits(g, p, q, r)
  BY <1>4, <1>5, <1>6, <1>7, <1>8, <1>10, <1>12 DEF Admits
<1> QED BY <1>13 DEF q

\* The pool stays one.
LEMMA AdmissionKeepsPools ==
    ASSUME NEW g \in Gates, NEW p \in Pools
    PROVE  AdmitNext(g, p) \in Pools
<1>1. CASE Candidates(g, p) = {}
  BY <1>1 DEF AdmitNext
<1>2. CASE Candidates(g, p) # {}
  BY <1>2, OneAdmission DEF Admits
<1> QED BY <1>1, <1>2

\* f is the loop of admitQueuedRequests, turn by turn.
AdmittedBy(f, g, p) ==
    /\ f \in [0..g.max -> Pools]
    /\ f[0] = p
    /\ \A n \in 1..g.max : f[n] = AdmitNext(g, f[n - 1])
    /\ AdmitQueued(g, p) = f[g.max]

\* The admission loop has its turns, for every pool and every limit.
LEMMA AdmissionLoop ==
    ASSUME NEW g \in Gates, NEW p \in Pools
    PROVE  \E f : AdmittedBy(f, g, p)
<1> DEFINE N == g.max
           step == [nq \in (1..N) \X Pools |-> AdmitNext(g, nq[2])]
           Body(h) == [n \in 0..N |->
                         IF n = 0 THEN {p} ELSE {AdmitNext(g, q) : q \in h[n - 1]}]
<1>1. N \in Nat
  BY LimitsAreNumbers
<1>2. step \in [(1..N) \X Pools -> Pools]
  BY AdmissionKeepsPools
<1>3. \A n \in 1..N, q \in Pools : step[<<n, q>>] = AdmitNext(g, q)
  OBVIOUS
<1> HIDE DEF N, step
<1>4. PICK f : Solves(f, N, Pools, p, step)
  BY <1>1, <1>2, Recursion
<1>5. f \in [0..N -> Pools] /\ f[0] = p
  BY <1>4 DEF Solves
<1>6. ASSUME NEW n \in 1..N PROVE f[n] = AdmitNext(g, f[n - 1])
  <2>1. n - 1 \in 0..N
    BY <1>1
  <2>2. f[n] = step[<<n, f[n - 1]>>]
    BY <1>4 DEF Solves
  <2> QED BY <1>3, <1>5, <2>1, <2>2
<1>7. ASSUME NEW h, h = Body(h) PROVE h[N] = {f[N]}
  <2> DEFINE T == {n \in 0..N : h[n] = {f[n]}}
  <2>1. 0 \in T
    BY <1>1, <1>5, <1>7
  <2>2. ASSUME NEW n \in 1..N, n - 1 \in T PROVE n \in T
    <3>1. n \in 0..N /\ n # 0
      BY <1>1
    <3>2. Body(h)[n] = {AdmitNext(g, q) : q \in h[n - 1]}
      BY <3>1
    <3>3. h[n - 1] = {f[n - 1]}
      BY <2>2
    <3>4. h[n] = Body(h)[n]
      BY <1>7
    <3> HIDE DEF Body
    <3>5. h[n] = {AdmitNext(g, f[n - 1])}
      BY <3>2, <3>3, <3>4
    <3> QED BY <1>6, <3>1, <3>5
  <2> HIDE DEF T
  <2>3. 0..N \subseteq T
    BY <1>1, <2>1, <2>2, UpTo
  <2>4. N \in T
    BY <1>1, <2>3
  <2> QED BY <2>4 DEF T
<1> DEFINE F == [n \in 0..N |-> {f[n]}]
<1>8. F = Body(F)
  <2>1. ASSUME NEW n \in 0..N PROVE F[n] = Body(F)[n]
    <3>1. CASE n = 0
      BY <1>5, <3>1
    <3>2. CASE n # 0
      <4>1. n \in 1..N /\ n - 1 \in 0..N
        BY <1>1, <3>2
      <4>2. F[n - 1] = {f[n - 1]}
        BY <4>1
      <4> QED BY <1>6, <3>2, <4>1, <4>2
    <3> QED BY <3>1, <3>2
  <2>2. Body(F) = [n \in 0..N |-> Body(F)[n]]
    OBVIOUS
  <2>3. F = [n \in 0..N |-> F[n]]
    OBVIOUS
  <2> HIDE DEF F, Body
  <2> QED BY <2>1, <2>2, <2>3
<1>9. AdmitQueued(g, p) = f[N]
  <2> DEFINE k == CHOOSE h : h = Body(h)
  <2>1. k = Body(k)
    BY <1>8
  <2>2. k[N] = {f[N]}
    BY <1>7, <2>1
  <2>3. AdmitQueued(g, p) = CHOOSE q \in k[N] : TRUE
    BY DEF AdmitQueued, N
  <2> QED BY <2>2, <2>3
<1>10. AdmittedBy(f, g, p)
  BY <1>5, <1>6, <1>9 DEF AdmittedBy, N
<1> QED BY <1>10

\* What a number of turns makes of the pool p.
Turn(g, p, q, n) ==
    /\ q \in Pools
    /\ p.active \subseteq q.active
    /\ Range(q.queue) \subseteq Range(p.queue)
    /\ Len(q.queue) <= Len(p.queue)
    /\ q = p \/ (~g.paused /\ g.marker = "none")
    /\ q.active = p.active \/ Cardinality(q.active) <= g.max
    /\ \/ q.active \cap Standard = p.active \cap Standard
       \/ Cardinality(q.active \cap Standard) <= StandardSlots(g)
    /\ \/ \A r \in Range(q.queue) : ~Eligible(g, q, r)
       \/ Cardinality(q.active) >= n
    /\ \/ adaptive
       \/ q.active = p.active
       \/ q.row <= 4
       \/ Range(q.queue) \cap Standard = {}
       \/ Cardinality(q.active \cap Standard) >= StandardSlots(g)

\* A turn of the loop keeps what the turns before it have established.
LEMMA NextTurn ==
    ASSUME NEW g \in Gates, NEW p \in Pools, NEW q, NEW n \in Nat, Turn(g, p, q, n)
    PROVE  Turn(g, p, AdmitNext(g, q), n + 1)
<1> DEFINE t == AdmitNext(g, q)
<1>1. q \in Pools /\ IsFiniteSet(q.active) /\ q.row \in 0..5
  BY DEF Turn, Pools, Rows
<1>2. CASE Candidates(g, q) = {}
  <2>1. t = q
    BY <1>2 DEF AdmitNext
  <2>2. \A r \in Range(q.queue) : ~Eligible(g, q, r)
    BY <1>1, <1>2, NobodyIsNext
  <2> QED BY <2>1, <2>2 DEF Turn
<1>3. CASE Candidates(g, q) # {}
  <2>1. PICK r : Admits(g, q, t, r)
    BY <1>1, <1>3, OneAdmission
  <2> HIDE DEF t
  <2>2. /\ t \in Pools /\ t.active = q.active \cup {r} /\ r \notin q.active
        /\ r \in Range(q.queue) /\ Eligible(g, q, r)
        /\ Range(t.queue) \subseteq Range(q.queue) /\ Len(t.queue) <= Len(q.queue)
    BY <1>1, <2>1 DEF Admits, Pools
  <2>3. /\ Cardinality(q.active) \in Nat /\ Cardinality(q.active \cap Standard) \in Nat
        /\ Cardinality(t.active) = Cardinality(q.active) + 1
        /\ r \in Standard =>
             Cardinality(t.active \cap Standard) = Cardinality(q.active \cap Standard) + 1
        /\ r \notin Standard => t.active \cap Standard = q.active \cap Standard
    <3>1. IsFiniteSet(q.active) /\ r \notin q.active /\ t.active = q.active \cup {r}
      BY <1>1, <2>2
    <3>2. /\ Cardinality(q.active) \in Nat /\ Cardinality(q.active \cap Standard) \in Nat
          /\ Cardinality(t.active) = Cardinality(q.active) + 1
      BY <3>1, OneMore, Counting
    <3>3. ASSUME r \in Standard
          PROVE  Cardinality(t.active \cap Standard) = Cardinality(q.active \cap Standard) + 1
      BY <3>1, <3>3, OneMoreOf
    <3> QED BY <3>1, <3>2, <3>3
  <2>4. g.max \in Nat /\ StandardSlots(g) \in Nat
    BY LimitsAreNumbers
  <2>5. /\ ~g.paused /\ g.marker = "none" /\ Cardinality(q.active) < g.max
        /\ r \in Standard => Cardinality(q.active \cap Standard) < StandardSlots(g)
    BY <2>2 DEF Eligible, RoomFor
  <2>6. Len(t.queue) <= Len(p.queue)
    <3>1. Len(t.queue) \in Nat /\ Len(q.queue) \in Nat /\ Len(p.queue) \in Nat
      BY <1>1, <2>2 DEF Pools
    <3> QED BY <2>2, <3>1 DEF Turn
  <2>7. Cardinality(t.active) <= g.max
    BY <2>3, <2>4, <2>5
  <2>8. \/ t.active \cap Standard = p.active \cap Standard
        \/ Cardinality(t.active \cap Standard) <= StandardSlots(g)
    <3>1. CASE r \in Standard
      BY <2>3, <2>4, <2>5, <3>1
    <3>2. CASE r \notin Standard
      BY <2>3, <3>2 DEF Turn
    <3> QED BY <3>1, <3>2
  <2>9. \/ \A s \in Range(t.queue) : ~Eligible(g, t, s)
        \/ Cardinality(t.active) >= n + 1
    <3>1. Cardinality(q.active) >= n
      BY <2>2 DEF Turn
    <3> QED BY <2>3, <3>1
  <2>10. \/ adaptive
         \/ t.row <= 4
         \/ Range(t.queue) \cap Standard = {}
         \/ Cardinality(t.active \cap Standard) >= StandardSlots(g)
    <3>1. SUFFICES ASSUME ~adaptive, NEW s \in Range(t.queue) \cap Standard, r \notin Standard,
                          ~(Cardinality(t.active \cap Standard) >= StandardSlots(g))
                   PROVE  t.row <= 4
      <4>1. r \in Standard => t.row = 0
        BY <2>1 DEF Admits
      <4> QED BY <4>1
    <3>2. Cardinality(q.active \cap Standard) < StandardSlots(g)
      BY <2>3, <2>4, <3>1
    <3>3. Eligible(g, q, s)
      BY <2>5, <3>1, <3>2 DEF Eligible, RoomFor
    <3>4. q.row < 4 /\ t.row <= q.row + 1 /\ t.row \in 0..5
      BY <2>1, <2>2, <3>1, <3>3 DEF Admits, Pools, Rows
    <3> QED BY <1>1, <3>4
  <2>11. p.active \subseteq t.active /\ Range(t.queue) \subseteq Range(p.queue)
    BY <2>2 DEF Turn
  <2>12. Turn(g, p, t, n + 1)
    BY <2>2, <2>5, <2>6, <2>7, <2>8, <2>9, <2>10, <2>11 DEF Turn
  <2> QED BY <2>12 DEF t
<1> QED BY <1>2, <1>3

\* admitQueuedRequests: nobody who may be admitted stays in the queue.
LEMMA Admitting ==
    ASSUME NEW g \in Gates, NEW p \in Pools
    PROVE  /\ Turn(g, p, AdmitQueued(g, p), g.max)
           /\ \A r \in Range(AdmitQueued(g, p).queue) : ~Eligible(g, AdmitQueued(g, p), r)
<1> DEFINE q == AdmitQueued(g, p)
<1>1. g.max \in Nat
  BY LimitsAreNumbers
<1>2. PICK f : AdmittedBy(f, g, p)
  BY AdmissionLoop
<1>3. /\ f[0] = p
      /\ \A n \in 1..g.max : f[n] = AdmitNext(g, f[n - 1])
      /\ q = f[g.max]
  BY <1>2 DEF AdmittedBy
<1> HIDE DEF q
<1> DEFINE T == {n \in 0..g.max : Turn(g, p, f[n], n)}
<1>4. 0 \in T
  <2>1. Turn(g, p, p, 0)
    BY Counting DEF Turn, Pools
  <2> QED BY <1>1, <1>3, <2>1
<1>5. ASSUME NEW n \in 1..g.max, n - 1 \in T PROVE n \in T
  <2>1. Turn(g, p, f[n - 1], n - 1) /\ n - 1 \in Nat
    BY <1>1, <1>5
  <2>2. Turn(g, p, AdmitNext(g, f[n - 1]), (n - 1) + 1)
    BY <2>1, NextTurn
  <2>3. (n - 1) + 1 = n /\ n \in 0..g.max
    BY <1>1
  <2> QED BY <1>3, <2>2, <2>3
<1> HIDE DEF T
<1>6. 0..g.max \subseteq T
  BY <1>1, <1>4, <1>5, UpTo
<1>7. Turn(g, p, q, g.max)
  <2>1. g.max \in T
    BY <1>1, <1>6
  <2> QED BY <1>3, <2>1 DEF T
<1>8. ASSUME Cardinality(q.active) >= g.max, NEW r PROVE ~Eligible(g, q, r)
  <2>1. Cardinality(q.active) \in Nat
    BY <1>7, Counting DEF Turn, Pools
  <2> QED BY <1>1, <1>8, <2>1 DEF Eligible, RoomFor
<1> QED BY <1>7, <1>8 DEF Turn, q

-----------------------------------------------------------------------------
(* The slots                                                               *)

\* The waiting room of legacy mode.
WaitingRoomIsKept ==
    ~adaptive =>
        /\ Len(pool.queue) <= MaxQueued
        /\ Cardinality(Range(pool.queue) \cap Standard) <= MaxQueued - ReservedQueue

SlotsInv ==
    /\ adaptive \in BOOLEAN
    /\ gate \in Gates
    /\ pool \in Pools
    /\ NoEligibleWaits
    /\ WaitingRoomIsKept

\* The steps of ReserveIsKept and of FourOvertakes.
ReserveStep ==
    /\ pool'.active \subseteq pool.active
       \/ Cardinality(pool'.active) <= gate'.max
    /\ pool'.active \cap Standard \subseteq pool.active
       \/ Cardinality(pool'.active \cap Standard) <= StandardSlots(gate')
    /\ ~adaptive => Len(pool'.queue) <= MaxQueued
    /\ ~adaptive =>
         Cardinality(Range(pool'.queue) \cap Standard) <= MaxQueued - ReservedQueue

OvertakesStep ==
    ~adaptive /\ ~gate.reloading =>
        \A i \in pool'.active \ (pool.active \cup Standard), s \in Standard:
            /\ s \in Range(pool.queue) \cap Range(pool'.queue)
            /\ RoomFor(gate', [pool' EXCEPT !.active = @ \ {i}], s)
            => pool'.row <= 4

\* What the proofs about all of the steps conclude.
SlotsKept ==
    /\ SlotsInv'
    /\ ReserveStep
    /\ OvertakesStep
    /\ gate.marker # "none" /\ gate'.marker # "none" => pool'.active \subseteq pool.active

\* What a pool consists of.
LEMMA PoolFacts ==
    ASSUME NEW p \in Pools
    PROVE  /\ p \in [active : SUBSET Requests, queue : Seq(Requests), row : Rows]
           /\ p.active \subseteq Requests /\ p.queue \in Seq(Requests) /\ p.row \in 0..5
           /\ Len(p.queue) \in Nat
           /\ IsFiniteSet(p.active) /\ Cardinality(p.active) \in Nat
           /\ IsFiniteSet(Range(p.queue))
           /\ Range(p.queue) \cap p.active = {}
           /\ IsInjective(p.queue)
           /\ Cardinality(p.active \cap Standard) \in Nat
           /\ Cardinality(Range(p.queue) \cap Standard) \in Nat
<1>1. IsFiniteSet(p.active) /\ IsFiniteSet(Range(p.queue))
  BY DEF Pools
<1>2. p.active \cap Standard \subseteq p.active /\ Range(p.queue) \cap Standard \subseteq Range(p.queue)
  OBVIOUS
<1>3. /\ Cardinality(p.active) \in Nat /\ Cardinality(p.active \cap Standard) \in Nat
      /\ Cardinality(Range(p.queue) \cap Standard) \in Nat
  BY <1>1, <1>2, Counting
<1> QED BY <1>1, <1>3 DEF Pools, Rows

\* A queue that lost entries is within the bounds it was within.
LEMMA ShorterQueue ==
    ASSUME WaitingRoomIsKept, adaptive' = adaptive, pool \in Pools, pool' \in Pools,
           Len(pool'.queue) <= Len(pool.queue),
           Range(pool'.queue) \subseteq Range(pool.queue)
    PROVE  WaitingRoomIsKept'
<1>1. /\ Len(pool.queue) \in Nat /\ Len(pool'.queue) \in Nat
      /\ IsFiniteSet(Range(pool.queue) \cap Standard)
  BY PoolFacts, Counting
<1>2. Range(pool'.queue) \cap Standard \subseteq Range(pool.queue) \cap Standard
  OBVIOUS
<1>3. /\ Cardinality(Range(pool.queue) \cap Standard) \in Nat
      /\ Cardinality(Range(pool'.queue) \cap Standard) \in Nat
      /\ Cardinality(Range(pool'.queue) \cap Standard)
           <= Cardinality(Range(pool.queue) \cap Standard)
  BY <1>1, <1>2, Counting
<1>4. MaxQueued \in Nat /\ MaxQueued - ReservedQueue \in Nat
  BY SettingsAssumption
<1> QED BY <1>1, <1>3, <1>4 DEF WaitingRoomIsKept

\* A turn that ends in admissions: p is the pool before them.
LEMMA AdmittingStep ==
    ASSUME SlotsInv, NEW p \in Pools, gate' \in Gates, adaptive' = adaptive,
           p.active \subseteq pool.active,
           Range(p.queue) \subseteq Range(pool.queue),
           Len(p.queue) <= Len(pool.queue),
           pool' = AdmitQueued(gate', p)
    PROVE  SlotsKept
<1>1. /\ Turn(gate', p, pool', gate'.max)
      /\ \A r \in Range(pool'.queue) : ~Eligible(gate', pool', r)
  BY Admitting
<1>2. /\ pool' \in Pools
      /\ p.active \subseteq pool'.active
      /\ Range(pool'.queue) \subseteq Range(p.queue)
      /\ Len(pool'.queue) <= Len(p.queue)
      /\ pool' = p \/ (~gate'.paused /\ gate'.marker = "none")
      /\ pool'.active = p.active \/ Cardinality(pool'.active) <= gate'.max
      /\ \/ pool'.active \cap Standard = p.active \cap Standard
         \/ Cardinality(pool'.active \cap Standard) <= StandardSlots(gate')
      /\ \/ adaptive
         \/ pool'.active = p.active
         \/ pool'.row <= 4
         \/ Range(pool'.queue) \cap Standard = {}
         \/ Cardinality(pool'.active \cap Standard) >= StandardSlots(gate')
  BY <1>1 DEF Turn
<1>3. pool \in Pools /\ WaitingRoomIsKept
  BY DEF SlotsInv
<1>4. WaitingRoomIsKept'
  <2>1. Len(pool'.queue) \in Nat /\ Len(p.queue) \in Nat /\ Len(pool.queue) \in Nat
    BY <1>2, <1>3, PoolFacts
  <2>2. Len(pool'.queue) <= Len(pool.queue)
    BY <1>2, <2>1
  <2>3. Range(pool'.queue) \subseteq Range(pool.queue)
    BY <1>2
  <2> QED BY <1>2, <1>3, <2>2, <2>3, ShorterQueue
<1>5. NoEligibleWaits'
  BY <1>1 DEF NoEligibleWaits, Eligible
<1>6. SlotsInv'
  BY <1>2, <1>4, <1>5 DEF SlotsInv
<1>7. ReserveStep
  BY <1>2, <1>4 DEF ReserveStep, WaitingRoomIsKept
<1>8. OvertakesStep
  <2>1. SUFFICES ASSUME ~adaptive,
                        NEW i \in pool'.active \ (pool.active \cup Standard),
                        NEW s \in Standard,
                        s \in Range(pool'.queue),
                        RoomFor(gate', [pool' EXCEPT !.active = @ \ {i}], s)
                 PROVE  pool'.row <= 4
    BY DEF OvertakesStep
  <2>2. [pool' EXCEPT !.active = @ \ {i}].active = pool'.active \ {i}
    BY <1>2 DEF Pools
  <2>3. (pool'.active \ {i}) \cap Standard = pool'.active \cap Standard
    OBVIOUS
  <2>4. Cardinality(pool'.active \cap Standard) < StandardSlots(gate')
    BY <2>1, <2>2, <2>3 DEF RoomFor
  <2>5. Cardinality(pool'.active \cap Standard) \in Nat /\ StandardSlots(gate') \in Nat
    BY <1>2, PoolFacts, LimitsAreNumbers
  <2> QED BY <1>2, <2>1, <2>4, <2>5
<1> QED BY <1>2, <1>6, <1>7, <1>8 DEF SlotsKept

\* A turn that only closes the gate, or only leaves the end of a reload to be
\* notified.
LEMMA ClosingStep ==
    ASSUME SlotsInv, gate' \in Gates, adaptive' = adaptive, pool' = pool,
           gate'.paused \/ gate'.reloading \/ gate' = gate
    PROVE  SlotsKept
<1>1. NoEligibleWaits'
  BY DEF SlotsInv, NoEligibleWaits, Eligible, RoomFor
<1>2. WaitingRoomIsKept'
  BY DEF SlotsInv, WaitingRoomIsKept
<1>3. SlotsInv'
  BY <1>1, <1>2 DEF SlotsInv
<1> QED BY <1>2, <1>3 DEF SlotsKept, ReserveStep, OvertakesStep, WaitingRoomIsKept

\* acquireSlot.
LEMMA AcquireStep ==
    ASSUME SlotsInv, NEW r \in Requests, Acquire(r)
    PROVE  SlotsKept
<1>1. /\ gate \in Gates /\ pool \in Pools /\ NoEligibleWaits /\ WaitingRoomIsKept
      /\ gate' = gate /\ adaptive' = adaptive
      /\ gate.marker = "none" /\ r \notin pool.active /\ r \notin Range(pool.queue)
  BY DEF SlotsInv, Acquire, Active, Queued
<1>2. /\ pool \in [active : SUBSET Requests, queue : Seq(Requests), row : Rows]
      /\ pool.row \in 0..5
      /\ IsFiniteSet(pool.active) /\ IsFiniteSet(Range(pool.queue))
      /\ Range(pool.queue) \cap pool.active = {}
      /\ IsInjective(pool.queue)
  BY <1>1, PoolFacts
<1>3. gate.max \in Nat /\ StandardSlots(gate) \in Nat
  BY <1>1, LimitsAreNumbers
<1>4. CASE Eligible(gate, pool, r)
  <2>1. pool' = Activate(pool, r)
    BY <1>4 DEF Acquire
  <2>2. /\ pool' \in [active : SUBSET Requests, queue : Seq(Requests), row : Rows]
        /\ pool'.active = pool.active \cup {r}
        /\ pool'.queue = pool.queue
    <3> DEFINE row == IF r \in Standard THEN 0 ELSE IF pool.row < 5 THEN pool.row + 1 ELSE 5
    <3>1. pool' = [active |-> pool.active \cup {r}, queue |-> pool.queue, row |-> row]
      BY <1>2, <2>1 DEF Activate
    <3>2. row \in Rows
      BY <1>2 DEF Rows
    <3> HIDE DEF row
    <3> QED BY <1>2, <3>1, <3>2
  <2>3. IsFiniteSet(pool'.active)
    BY <1>2, <2>2, FS_AddElement
  <2>4. pool' \in Pools
    BY <1>1, <1>2, <2>2, <2>3, Zenon DEF Pools
  <2>5. RoomFor(gate, pool, r)
    BY <1>4 DEF Eligible
  <2>6. /\ Cardinality(pool.active) \in Nat /\ Cardinality(pool.active \cap Standard) \in Nat
        /\ Cardinality(pool.active \cup {r}) = Cardinality(pool.active) + 1
        /\ r \in Standard => Cardinality((pool.active \cup {r}) \cap Standard)
                               = Cardinality(pool.active \cap Standard) + 1
        /\ r \notin Standard => (pool.active \cup {r}) \cap Standard = pool.active \cap Standard
    <3>1. IsFiniteSet(pool.active) /\ r \notin pool.active
      BY <1>1, <1>2
    <3>2. /\ Cardinality(pool.active) \in Nat /\ Cardinality(pool.active \cap Standard) \in Nat
          /\ Cardinality(pool.active \cup {r}) = Cardinality(pool.active) + 1
      BY <3>1, OneMore, Counting
    <3>3. ASSUME r \in Standard
          PROVE  Cardinality((pool.active \cup {r}) \cap Standard)
                   = Cardinality(pool.active \cap Standard) + 1
      BY <3>1, <3>3, OneMoreOf
    <3> QED BY <3>1, <3>2, <3>3
  <2>7. Cardinality(pool'.active) <= gate.max
    BY <1>3, <2>2, <2>5, <2>6 DEF RoomFor
  <2>8. pool'.active \cap Standard \subseteq pool.active
        \/ Cardinality(pool'.active \cap Standard) <= StandardSlots(gate)
    <3>1. CASE r \in Standard
      BY <1>3, <2>2, <2>5, <2>6, <3>1 DEF RoomFor
    <3>2. CASE r \notin Standard
      BY <2>2, <2>6, <3>2
    <3> QED BY <3>1, <3>2
  <2>9. \A s : RoomFor(gate, pool', s) => RoomFor(gate, pool, s)
    BY <1>1, <2>2, <2>3, RoomShrinks
  <2>10. NoEligibleWaits'
    BY <1>1, <2>2, <2>9 DEF NoEligibleWaits, Eligible
  <2>11. WaitingRoomIsKept'
    BY <1>1, <2>2 DEF WaitingRoomIsKept
  <2>12. SlotsInv'
    BY <1>1, <2>4, <2>10, <2>11 DEF SlotsInv
  <2>13. ReserveStep
    BY <1>1, <2>7, <2>8, <2>11 DEF ReserveStep, WaitingRoomIsKept
  <2>14. OvertakesStep
    <3>1. SUFFICES ASSUME ~adaptive, ~gate.reloading,
                          NEW i \in pool'.active \ (pool.active \cup Standard),
                          NEW s \in Range(pool.queue),
                          RoomFor(gate', [pool' EXCEPT !.active = @ \ {i}], s)
                   PROVE  FALSE
      BY DEF OvertakesStep
    <3>2. [pool' EXCEPT !.active = @ \ {i}].active = pool.active
      BY <1>1, <2>2, <3>1
    <3>3. RoomFor(gate, pool, s)
      BY <1>1, <3>1, <3>2 DEF RoomFor
    <3> QED BY <1>1, <3>1, <3>3 DEF NoEligibleWaits, Eligible
  <2> QED BY <1>1, <2>12, <2>13, <2>14 DEF SlotsKept
<1>5. CASE ~Eligible(gate, pool, r)
  <2>1. pool' = [pool EXCEPT !.queue = Append(@, r)] /\ ~QueueFull(r)
    BY <1>5 DEF Acquire
  <2>2. pool' = [active |-> pool.active, queue |-> Append(pool.queue, r), row |-> pool.row]
    BY <1>2, <2>1
  <2>3. /\ pool'.queue \in Seq(Requests)
        /\ Len(pool'.queue) = Len(pool.queue) + 1
        /\ Range(pool'.queue) = Range(pool.queue) \cup {r}
        /\ IsInjective(pool'.queue)
    <3> DEFINE s == pool.queue
    <3>1. s \in Seq(Requests) /\ IsInjective(s) /\ r \notin Range(s)
      BY <1>1, <1>2
    <3> HIDE DEF s
    <3>2. /\ Append(s, r) \in Seq(Requests)
          /\ Len(Append(s, r)) = Len(s) + 1
          /\ Range(Append(s, r)) = Range(s) \cup {r}
          /\ IsInjective(Append(s, r))
      BY <3>1, AppendedEntry
    <3> QED BY <2>2, <3>2 DEF s
  <2>4. IsFiniteSet(Range(pool'.queue))
    BY <1>2, <2>3, FS_AddElement
  <2>5. pool' \in Pools
    BY <1>1, <1>2, <2>2, <2>3, <2>4 DEF Pools
  <2>6. NoEligibleWaits'
    <3>1. \A s : RoomFor(gate, pool', s) => RoomFor(gate, pool, s)
      BY <2>2 DEF RoomFor
    <3> QED BY <1>1, <1>5, <2>3, <3>1 DEF NoEligibleWaits, Eligible
  <2>7. WaitingRoomIsKept'
    <3>1. SUFFICES ASSUME ~adaptive PROVE WaitingRoomIsKept'
      BY <1>1 DEF WaitingRoomIsKept
    <3>2. /\ ~(Len(pool.queue) >= MaxQueued)
          /\ r \in Standard =>
               ~(Cardinality(Range(pool.queue) \cap Standard) >= MaxQueued - ReservedQueue)
      BY <2>1, <3>1 DEF QueueFull
    <3>3. MaxQueued \in Nat /\ MaxQueued - ReservedQueue \in Nat /\ Len(pool.queue) \in Nat
      BY <1>1, PoolFacts, SettingsAssumption
    <3>4. /\ Cardinality(Range(pool.queue) \cap Standard) \in Nat
          /\ r \in Standard => Cardinality((Range(pool.queue) \cup {r}) \cap Standard)
                                 = Cardinality(Range(pool.queue) \cap Standard) + 1
          /\ r \notin Standard => (Range(pool.queue) \cup {r}) \cap Standard
                                    = Range(pool.queue) \cap Standard
      <4>1. IsFiniteSet(Range(pool.queue)) /\ r \notin Range(pool.queue)
        BY <1>1, <1>2
      <4>2. Cardinality(Range(pool.queue) \cap Standard) \in Nat
        BY <4>1, Counting
      <4>3. ASSUME r \in Standard
            PROVE  Cardinality((Range(pool.queue) \cup {r}) \cap Standard)
                     = Cardinality(Range(pool.queue) \cap Standard) + 1
        BY <4>1, <4>3, OneMoreOf
      <4> QED BY <4>1, <4>2, <4>3
    <3>5. Len(pool'.queue) <= MaxQueued
      BY <2>3, <3>2, <3>3
    <3>6. Cardinality(Range(pool'.queue) \cap Standard) <= MaxQueued - ReservedQueue
      <4>1. CASE r \in Standard
        BY <2>3, <3>2, <3>3, <3>4, <4>1
      <4>2. CASE r \notin Standard
        BY <1>1, <2>3, <3>1, <3>4, <4>2 DEF WaitingRoomIsKept
      <4> QED BY <4>1, <4>2
    <3> QED BY <3>5, <3>6 DEF WaitingRoomIsKept
  <2>8. SlotsInv'
    BY <1>1, <2>5, <2>6, <2>7 DEF SlotsInv
  <2>9. ReserveStep /\ OvertakesStep
    BY <1>1, <2>2, <2>7 DEF ReserveStep, OvertakesStep, WaitingRoomIsKept
  <2> QED BY <1>1, <2>8, <2>9 DEF SlotsKept
<1> QED BY <1>4, <1>5

\* A pool whose queue lost entries.
LEMMA LessQueued ==
    ASSUME NEW p \in Pools, NEW S
    PROVE  LET q == [p EXCEPT !.queue = Kept(@, S)]
           IN /\ q \in Pools
              /\ q.active = p.active /\ q.row = p.row
              /\ Range(q.queue) \subseteq Range(p.queue)
              /\ Len(q.queue) <= Len(p.queue)
<1>1. /\ p \in [active : SUBSET Requests, queue : Seq(Requests), row : Rows]
      /\ p.queue \in Seq(Requests)
      /\ IsFiniteSet(p.active) /\ IsFiniteSet(Range(p.queue))
      /\ Range(p.queue) \cap p.active = {}
      /\ IsInjective(p.queue)
  BY PoolFacts
<1> DEFINE k == Kept(p.queue, S)
           q == [p EXCEPT !.queue = k]
<1>2. /\ k \in Seq(Requests)
      /\ Range(k) = Range(p.queue) \cap S
      /\ Len(k) <= Len(p.queue)
      /\ IsInjective(k)
  BY <1>1, KeptEntries
<1> HIDE DEF k
<1>3. IsFiniteSet(Range(k))
  BY <1>1, <1>2, FS_Subset
<1>4. q = [active |-> p.active, queue |-> k, row |-> p.row]
  BY <1>1
<1>5. q \in Pools
  BY <1>1, <1>2, <1>3, <1>4 DEF Pools
<1> QED BY <1>2, <1>4, <1>5 DEF k

\* A queued request leaves.
LEMMA LeaveStep ==
    ASSUME SlotsInv, NEW r \in Requests, Leave(r)
    PROVE  SlotsKept
<1>1. /\ gate \in Gates /\ pool \in Pools /\ NoEligibleWaits /\ WaitingRoomIsKept
      /\ gate' = gate /\ adaptive' = adaptive
      /\ pool' = [pool EXCEPT !.queue = Kept(@, Requests \ {r})]
  BY DEF SlotsInv, Leave
<1>2. /\ pool' \in Pools
      /\ pool'.active = pool.active
      /\ Range(pool'.queue) \subseteq Range(pool.queue)
      /\ Len(pool'.queue) <= Len(pool.queue)
  BY <1>1, LessQueued
<1>3. NoEligibleWaits'
  <2>1. \A s : RoomFor(gate, pool', s) => RoomFor(gate, pool, s)
    BY <1>2 DEF RoomFor
  <2> QED BY <1>1, <1>2, <2>1 DEF NoEligibleWaits, Eligible
<1>4. WaitingRoomIsKept'
  BY <1>1, <1>2, ShorterQueue
<1>5. SlotsInv'
  BY <1>1, <1>2, <1>3, <1>4 DEF SlotsInv
<1> QED BY <1>1, <1>2, <1>4, <1>5 DEF SlotsKept, ReserveStep, OvertakesStep, WaitingRoomIsKept

\* releaseSlot.
LEMMA ReleaseStep ==
    ASSUME SlotsInv, NEW r \in Requests, Release(r)
    PROVE  SlotsKept
<1> DEFINE p == [pool EXCEPT !.active = @ \ {r}]
<1>1. /\ gate' \in Gates /\ pool \in Pools /\ adaptive' = adaptive
      /\ pool' = AdmitQueued(gate', p)
  BY DEF SlotsInv, Release
<1>2. /\ pool \in [active : SUBSET Requests, queue : Seq(Requests), row : Rows]
      /\ IsFiniteSet(pool.active) /\ IsFiniteSet(Range(pool.queue))
      /\ Range(pool.queue) \cap pool.active = {}
      /\ IsInjective(pool.queue)
      /\ Len(pool.queue) \in Nat
  BY <1>1, PoolFacts
<1>3. p = [active |-> pool.active \ {r}, queue |-> pool.queue, row |-> pool.row]
  <2>1. pool \in [active : SUBSET Requests, queue : Seq(Requests), row : Rows]
    BY <1>2
  <2> DEFINE A == pool.active \ {r}
  <2>2. p = [pool EXCEPT !.active = A]
    OBVIOUS
  <2> HIDE DEF A, p
  <2>3. p = [active |-> A, queue |-> pool.queue, row |-> pool.row]
    BY <2>1, <2>2
  <2> QED BY <2>3 DEF A
<1>4. IsFiniteSet(pool.active \ {r})
  BY <1>2, FS_RemoveElement
<1> HIDE DEF p
<1>5. p \in Pools
  BY <1>2, <1>3, <1>4 DEF Pools
<1>6. /\ p.active \subseteq pool.active
      /\ Range(p.queue) \subseteq Range(pool.queue)
      /\ Len(p.queue) <= Len(pool.queue)
  BY <1>2, <1>3
<1> QED BY <1>1, <1>5, <1>6, AdmittingStep

\* A turn that changes nothing in the pool before it admits.
LEMMA OpeningStep ==
    ASSUME SlotsInv, gate' \in Gates, adaptive' = adaptive, pool' = AdmitQueued(gate', pool)
    PROVE  SlotsKept
<1>1. pool \in Pools /\ Len(pool.queue) \in Nat
  BY PoolFacts DEF SlotsInv
<1> QED BY <1>1, AdmittingStep

\* nudgeAdmissionQueues.
LEMMA NudgingStep ==
    ASSUME SlotsInv, gate' \in Gates, adaptive' = adaptive, pool' = Nudge(gate', pool)
    PROVE  SlotsKept
<1> DEFINE S == {r \in Requests : gate'.guard[r] # "held"}
           p == [pool EXCEPT !.queue = Kept(@, S)]
<1>1. pool \in Pools /\ adaptive \in BOOLEAN
  BY DEF SlotsInv
<1>2. CASE adaptive
  <2>1. pool' = AdmitQueued(gate', p)
    BY <1>2 DEF Nudge
  <2> HIDE DEF S
  <2>2. /\ p \in Pools
        /\ p.active = pool.active
        /\ Range(p.queue) \subseteq Range(pool.queue)
        /\ Len(p.queue) <= Len(pool.queue)
    BY <1>1, LessQueued
  <2> HIDE DEF p
  <2> QED BY <2>1, <2>2, AdmittingStep
<1>3. CASE ~adaptive
  <2>1. [pool EXCEPT !.queue = pool.queue] = pool
    BY <1>1 DEF Pools
  <2>2. pool' = AdmitQueued(gate', pool)
    BY <1>3, <2>1 DEF Nudge
  <2> QED BY <2>2, OpeningStep
<1> QED BY <1>2, <1>3

\* ResumeGivesUp marks and pauses in one turn.
MarkAndPause ==
    /\ \E m \in Markers :
         gate' = [gate EXCEPT !.marker = m, !.paused = TRUE,
                              !.reloading = @ \/ m # gate.marker]
    /\ UNCHANGED <<adaptive, pool>>

AnySlotStep ==
    \/ RequestStep
    \/ Pause \/ Resume \/ Reloaded \/ MarkAndPause
    \/ \E m \in Markers : SetMarker(m)
    \/ UNCHANGED slotVars

\* Every step of the slots keeps what is said of the slots.
LEMMA EverySlotStep ==
    ASSUME SlotsInv, AnySlotStep
    PROVE  SlotsKept
<1>1. gate \in Gates /\ pool \in Pools
  BY DEF SlotsInv
<1>2. ASSUME NEW r \in Requests, Acquire(r) \/ Leave(r) \/ Release(r) PROVE SlotsKept
  BY <1>2, AcquireStep, LeaveStep, ReleaseStep
<1>3. ASSUME NEW max \in Concurrencies, ChangeLimits(max) PROVE SlotsKept
  <2>1. gate' \in Gates
    BY <1>1, <1>3 DEF ChangeLimits, Gates
  <2> QED BY <1>3, <2>1, OpeningStep DEF ChangeLimits
<1>4. ASSUME NEW r \in Guarded, NEW guard \in Guards, ChangeGuard(r, guard) PROVE SlotsKept
  <2>1. gate' \in Gates
    <3>1. gate.guard \in [Requests -> Guards]
      BY <1>1 DEF Gates
    <3>2. [gate.guard EXCEPT ![r] = guard] \in [Requests -> Guards]
      BY <3>1
    <3>3. gate' = [gate EXCEPT !.guard = [gate.guard EXCEPT ![r] = guard]]
      BY <1>1, <1>4 DEF ChangeGuard, Gates
    <3> QED BY <1>1, <3>2, <3>3 DEF Gates
  <2> QED BY <1>4, <2>1, NudgingStep DEF ChangeGuard
<1>5. ASSUME Pause PROVE SlotsKept
  <2>1. gate' \in Gates /\ gate'.paused
    BY <1>1, <1>5 DEF Pause, Gates
  <2> QED BY <1>5, <2>1, ClosingStep DEF Pause
<1>6. ASSUME Resume PROVE SlotsKept
  <2>1. gate' \in Gates
    BY <1>1, <1>6 DEF Resume, Gates
  <2> QED BY <1>6, <2>1, OpeningStep DEF Resume
<1>7. ASSUME Reloaded PROVE SlotsKept
  <2>1. gate' \in Gates
    BY <1>1, <1>7 DEF Reloaded, Gates
  <2> QED BY <1>7, <2>1, NudgingStep DEF Reloaded
<1>8. ASSUME MarkAndPause PROVE SlotsKept
  <2>1. gate' \in Gates /\ gate'.paused
    <3>1. PICK m \in Markers :
            gate' = [gate EXCEPT !.marker = m, !.paused = TRUE,
                                 !.reloading = @ \/ m # gate.marker]
      BY <1>8 DEF MarkAndPause
    <3>2. (gate.reloading \/ m # gate.marker) \in BOOLEAN
      OBVIOUS
    <3> QED BY <1>1, <3>1, <3>2 DEF Gates
  <2> QED BY <1>8, <2>1, ClosingStep DEF MarkAndPause
<1>9. ASSUME NEW m \in Markers, SetMarker(m) PROVE SlotsKept
  <2>1. gate' \in Gates /\ gate'.reloading
    BY <1>1, <1>9 DEF SetMarker, Gates
  <2> QED BY <1>9, <2>1, ClosingStep DEF SetMarker
<1>10. ASSUME UNCHANGED slotVars PROVE SlotsKept
  BY <1>1, <1>10, ClosingStep DEF slotVars
<1> QED BY <1>2, <1>3, <1>4, <1>5, <1>6, <1>7, <1>8, <1>9, <1>10 DEF AnySlotStep, RequestStep

\* The pool is empty at first.
LEMMA SlotsInit ==
    ASSUME Init
    PROVE  SlotsInv
<1>1. pool = [active |-> {}, queue |-> <<>>, row |-> 0] /\ adaptive \in BOOLEAN
  BY DEF Init
<1>2. gate \in Gates
  BY DEF Init, Gates, Guards, Markers
<1>3. Range(pool.queue) = {} /\ IsInjective(pool.queue)
  BY <1>1 DEF Range, IsInjective
<1>4. IsFiniteSet({}) /\ Cardinality({}) = 0
  BY FS_EmptySet
<1>5. pool \in Pools
  <2>1. {} \in SUBSET Requests /\ <<>> \in Seq(Requests) /\ 0 \in Rows
    BY DEF Rows
  <2>2. pool \in [active : SUBSET Requests, queue : Seq(Requests), row : Rows]
    BY <1>1, <2>1
  <2>3. IsFiniteSet(pool.active) /\ IsFiniteSet(Range(pool.queue)) /\ pool.active = {}
    BY <1>1, <1>3, <1>4
  <2> QED BY <1>3, <2>2, <2>3 DEF Pools
<1>6. WaitingRoomIsKept
  <2>1. MaxQueued \in Nat /\ MaxQueued - ReservedQueue \in Nat
    BY SettingsAssumption
  <2>2. Len(pool.queue) = 0 /\ Range(pool.queue) \cap Standard = {}
    BY <1>1, <1>3
  <2>3. Cardinality(Range(pool.queue) \cap Standard) = 0
    BY <1>4, <2>2
  <2> QED BY <2>1, <2>2, <2>3 DEF WaitingRoomIsKept
<1> QED BY <1>1, <1>2, <1>3, <1>5, <1>6 DEF SlotsInv, NoEligibleWaits

\* The slots keep their types.
LEMMA SlotsTyped ==
    ASSUME SlotsInv
    PROVE  TypeOK
<1>1. /\ pool.active \subseteq Requests /\ pool.row \in Rows
      /\ pool.queue \in Seq(Requests)
      /\ Range(pool.queue) \cap pool.active = {}
      /\ IsInjective(pool.queue)
  BY PoolFacts DEF SlotsInv, Rows
<1>2. Range(pool.queue) \subseteq Requests
  BY <1>1 DEF Range
<1> QED BY <1>1, <1>2 DEF SlotsInv, TypeOK, Gates

-----------------------------------------------------------------------------
(* Evictions, waiters, watchdogs and maintenance                           *)

OperationsTyped ==
    /\ eviction \in {"idle", "planned", "draining", "queued", "stopping"}
    /\ waiter \in BOOLEAN
    /\ watchdog \in {"idle", "queued", "draining", "stopping", "starting"}
    /\ maintenance \in
        {"idle", "suspending", "draining", "queued", "stopping",
         "resuming", "loading", "loadQueued", "starting", "loaded", "failed"}
    /\ lifecycle \in Seq(Owners)
    /\ IsInjective(lifecycle)
    /\ aborted \in BOOLEAN

\* Who is in the lifecycle queue, and who works because it is at its head.
LifecycleInv ==
    /\ "eviction" \in Range(lifecycle) <=> eviction \in {"queued", "stopping"}
    /\ "watchdog" \in Range(lifecycle) <=> watchdog # "idle"
    /\ "suspend" \in Range(lifecycle) <=> maintenance \in {"queued", "stopping"}
    /\ "resume" \in Range(lifecycle) <=> maintenance \in {"loadQueued", "starting"}
    /\ eviction = "stopping" => Holds("eviction")
    /\ watchdog \in {"draining", "stopping", "starting"} => Holds("watchdog")
    /\ maintenance = "stopping" => Holds("suspend")
    /\ maintenance = "starting" => Holds("resume")

\* From the latch of its record to its stop, maintenance turns requests away,
\* and once it has seen the runtime drained it stays so.
MaintenanceInv ==
    /\ maintenance \in {"suspending", "draining", "queued", "stopping"} =>
         gate.marker = "suspended"
    /\ maintenance \in {"queued", "stopping"} => Idle

OperationsInv == OperationsTyped /\ LifecycleInv /\ MaintenanceInv

\* op queues behind whoever is there.
LEMMA Queueing ==
    ASSUME OperationsTyped, NEW op \in Owners, op \notin Range(lifecycle),
           lifecycle' = Append(lifecycle, op)
    PROVE  /\ lifecycle' \in Seq(Owners) /\ IsInjective(lifecycle')
           /\ Range(lifecycle') = Range(lifecycle) \cup {op}
           /\ \A o \in Owners : Holds(o) => Holds(o)'
<1>1. lifecycle \in Seq(Owners) /\ IsInjective(lifecycle)
  BY DEF OperationsTyped
<1>2. /\ lifecycle' \in Seq(Owners) /\ IsInjective(lifecycle')
      /\ Range(lifecycle') = Range(lifecycle) \cup {op}
  BY <1>1, AppendedEntry
<1>3. lifecycle # <<>> => lifecycle' # <<>> /\ Head(lifecycle') = Head(lifecycle)
  BY <1>1
<1> QED BY <1>2, <1>3 DEF Holds

\* The lock passes on from op.
LEMMA Passing ==
    ASSUME OperationsTyped, NEW op \in Owners, Holds(op), PassLifecycle
    PROVE  /\ lifecycle' \in Seq(Owners) /\ IsInjective(lifecycle')
           /\ Range(lifecycle') = Range(lifecycle) \ {op}
           /\ \A o \in Owners : Holds(o) => o = op
<1>1. /\ lifecycle \in Seq(Owners) /\ IsInjective(lifecycle)
      /\ lifecycle # <<>> /\ Head(lifecycle) = op
      /\ lifecycle' = Tail(lifecycle)
  BY DEF OperationsTyped, Holds, PassLifecycle
<1>2. /\ lifecycle' \in Seq(Owners) /\ IsInjective(lifecycle')
      /\ Range(lifecycle') = Range(lifecycle) \ {Head(lifecycle)}
  BY <1>1, FirstEntryGone
<1> QED BY <1>1, <1>2 DEF Holds

\* What every operation but maintenance does to the slots.
MarkerStep ==
    \/ RequestStep
    \/ Pause \/ Resume \/ Reloaded
    \/ UNCHANGED slotVars

\* A step of the requests changes no marker of the gate.
LEMMA MarkerKept ==
    ASSUME gate \in Gates, MarkerStep
    PROVE  gate'.marker = gate.marker
<1>1. ASSUME NEW max \in Concurrencies, ChangeLimits(max) PROVE gate'.marker = gate.marker
  BY <1>1 DEF ChangeLimits, Gates
<1>2. ASSUME NEW r, NEW guard, ChangeGuard(r, guard) PROVE gate'.marker = gate.marker
  BY <1>2 DEF ChangeGuard, Gates
<1>3. ASSUME NEW r, Acquire(r) \/ Leave(r) \/ Release(r) PROVE gate'.marker = gate.marker
  BY <1>3 DEF Acquire, Leave, Release
<1>4. ASSUME Pause \/ Resume \/ Reloaded PROVE gate'.marker = gate.marker
  BY <1>4 DEF Pause, Resume, Reloaded, Gates
<1> QED BY <1>1, <1>2, <1>3, <1>4 DEF MarkerStep, RequestStep, slotVars

\* The steps of the others.
OtherStep ==
    \/ Slots \/ Plan \/ WaiterPauses \/ WatchdogFires
    \/ EvictionStep \/ WaiterEnds \/ WatchdogStep

\* Only suspensions, resumptions and maintenance change a marker.
LEMMA OthersKeepMarkers ==
    ASSUME OtherStep
    PROVE  MarkerStep /\ maintenance' = maintenance
<1>1. CASE Slots
  BY <1>1 DEF Slots, MarkerStep, operations
<1>2. CASE Plan \/ WaiterPauses \/ WatchdogFires \/ WaiterEnds
  BY <1>2 DEF Plan, WaiterPauses, WatchdogFires, WaiterEnds, MarkerStep
<1>3. CASE EvictionStep
  BY <1>3 DEF EvictionStep, PlanIsStale, DrainVictim, VictimTimesOut, VictimDrained,
              StopVictim, VictimStopped, MarkerStep
<1>4. CASE WatchdogStep
  BY <1>4 DEF WatchdogStep, WatchdogDrains, WatchdogStops, WatchdogStarts, WatchdogEnds,
              MarkerStep
<1> QED BY <1>1, <1>2, <1>3, <1>4 DEF OtherStep

\* Every step of an operation is, for the slots, one of theirs.
LEMMA EveryStepIsASlotStep ==
    ASSUME PausesNext, gate \in Gates
    PROVE  AnySlotStep
<1>1. CASE OtherStep
  BY <1>1, OthersKeepMarkers DEF MarkerStep, AnySlotStep
<1>2. CASE Suspend \/ ResumeBegins \/ ResumeEnds
  BY <1>2 DEF Suspend, ResumeBegins, ResumeEnds, AnySlotStep, Markers
<1>3. CASE SuspendDrains \/ ResumeUnpauses
  BY <1>3 DEF SuspendDrains, ResumeUnpauses, AnySlotStep
<1>4. CASE SuspendTimesOut \/ SuspendDrained \/ SuspendStops \/ SuspendEnds
  BY <1>4 DEF SuspendTimesOut, SuspendDrained, SuspendStops, SuspendEnds, AnySlotStep, slotVars
<1>5. CASE ResumeLoads \/ ResumeStarts \/ ResumeLoaded \/ ResumeFails
  BY <1>5 DEF ResumeLoads, ResumeStarts, ResumeLoaded, ResumeFails, AnySlotStep, slotVars
<1>6. CASE ResumeGivesUp
  <2>1. gate.marker \in Markers /\ "suspended" \in Markers
    BY DEF Gates, Markers
  <2>2. MarkAndPause
    BY <1>6, <2>1 DEF ResumeGivesUp, MarkAndPause
  <2> QED BY <2>2 DEF AnySlotStep
<1> QED BY <1>1, <1>2, <1>3, <1>4, <1>5, <1>6
     DEF PausesNext, Begin, OtherStep, MaintenanceStep

LockInv == OperationsTyped /\ LifecycleInv

\* Steps that leave the lifecycle queue alone.
LEMMA QueueKept ==
    ASSUME LockInv,
           \/ Slots \/ Plan \/ PlanIsStale \/ DrainVictim \/ VictimTimesOut
           \/ VictimDrained /\ lifecycle' = lifecycle
           \/ StopVictim \/ WaiterPauses \/ WaiterEnds
           \/ WatchdogDrains \/ WatchdogStops \/ WatchdogStarts
           \/ Suspend \/ SuspendDrains \/ SuspendTimesOut \/ SuspendStops
           \/ ResumeBegins \/ ResumeUnpauses \/ ResumeStarts \/ ResumeEnds
           \/ ResumeFails \/ ResumeGivesUp
    PROVE  LockInv'
<1>1. CASE Slots
  BY <1>1 DEF LockInv, OperationsTyped, LifecycleInv, Holds, Slots, operations
<1>2. CASE Plan
  BY <1>2 DEF LockInv, OperationsTyped, LifecycleInv, Holds, Plan, AdmissionLockIsFree
<1>3. CASE PlanIsStale
  BY <1>3 DEF LockInv, OperationsTyped, LifecycleInv, Holds, PlanIsStale
<1>4. CASE DrainVictim
  BY <1>4 DEF LockInv, OperationsTyped, LifecycleInv, Holds, DrainVictim
<1>5. CASE VictimTimesOut
  BY <1>5 DEF LockInv, OperationsTyped, LifecycleInv, Holds, VictimTimesOut
<1>6. CASE VictimDrained /\ lifecycle' = lifecycle
  <2>1. eviction = "draining" /\ eviction' \in {"queued", "idle"}
    BY <1>6 DEF VictimDrained
  <2>2. eviction' = "idle" /\ aborted' = aborted
    <3>1. ASSUME AbortAndQueue("eviction") PROVE FALSE
      <4>1. lifecycle \in Seq(Owners) /\ Len(lifecycle) \in Nat
        BY DEF LockInv, OperationsTyped
      <4>2. lifecycle = Append(lifecycle, "eviction")
        BY <1>6, <3>1 DEF AbortAndQueue, QueueLifecycle
      <4>3. Len(Append(lifecycle, "eviction")) = Len(lifecycle) + 1
        BY <4>1
      <4> QED BY <4>1, <4>2, <4>3
    <3> QED BY <1>6, <3>1 DEF VictimDrained
  <2>3. UNCHANGED <<waiter, watchdog, maintenance>>
    BY <1>6 DEF VictimDrained
  <2> QED BY <1>6, <2>1, <2>2, <2>3 DEF LockInv, OperationsTyped, LifecycleInv, Holds
<1>7. CASE StopVictim
  BY <1>7 DEF LockInv, OperationsTyped, LifecycleInv, Holds, StopVictim
<1>8. CASE WaiterPauses
  BY <1>8 DEF LockInv, OperationsTyped, LifecycleInv, Holds, WaiterPauses
<1>9. CASE WaiterEnds
  BY <1>9 DEF LockInv, OperationsTyped, LifecycleInv, Holds, WaiterEnds
<1>10. CASE WatchdogDrains
  BY <1>10 DEF LockInv, OperationsTyped, LifecycleInv, Holds, WatchdogDrains
<1>11. CASE WatchdogStops
  BY <1>11 DEF LockInv, OperationsTyped, LifecycleInv, Holds, WatchdogStops
<1>12. CASE WatchdogStarts
  BY <1>12 DEF LockInv, OperationsTyped, LifecycleInv, Holds, WatchdogStarts
<1>13. CASE Suspend
  BY <1>13 DEF LockInv, OperationsTyped, LifecycleInv, Holds, Suspend, Maintenance, KeepLifecycle
<1>14. CASE SuspendDrains
  BY <1>14 DEF LockInv, OperationsTyped, LifecycleInv, Holds, SuspendDrains, Maintenance, KeepLifecycle
<1>15. CASE SuspendTimesOut
  BY <1>15 DEF LockInv, OperationsTyped, LifecycleInv, Holds, SuspendTimesOut, Maintenance, KeepLifecycle
<1>16. CASE SuspendStops
  BY <1>16 DEF LockInv, OperationsTyped, LifecycleInv, Holds, SuspendStops, Maintenance, KeepLifecycle
<1>17. CASE ResumeBegins
  BY <1>17 DEF LockInv, OperationsTyped, LifecycleInv, Holds, ResumeBegins, Maintenance, KeepLifecycle
<1>18. CASE ResumeUnpauses
  BY <1>18 DEF LockInv, OperationsTyped, LifecycleInv, Holds, ResumeUnpauses, Maintenance, KeepLifecycle
<1>19. CASE ResumeStarts
  BY <1>19 DEF LockInv, OperationsTyped, LifecycleInv, Holds, ResumeStarts, Maintenance, KeepLifecycle
<1>20. CASE ResumeEnds
  BY <1>20 DEF LockInv, OperationsTyped, LifecycleInv, Holds, ResumeEnds, Maintenance, KeepLifecycle
<1>21. CASE ResumeFails
  BY <1>21 DEF LockInv, OperationsTyped, LifecycleInv, Holds, ResumeFails, Maintenance, KeepLifecycle
<1>22. CASE ResumeGivesUp
  BY <1>22 DEF LockInv, OperationsTyped, LifecycleInv, Holds, ResumeGivesUp, Maintenance, KeepLifecycle
<1> QED BY <1>1, <1>2, <1>3, <1>4, <1>5, <1>6, <1>7, <1>8, <1>9, <1>10, <1>11, <1>12, <1>13, <1>14, <1>15, <1>16, <1>17, <1>18, <1>19, <1>20, <1>21, <1>22

\* Steps that queue for the lock.
LEMMA QueueGrows ==
    ASSUME LockInv,
           \/ VictimDrained /\ lifecycle' # lifecycle
           \/ WatchdogFires \/ SuspendDrained \/ ResumeLoads
    PROVE  LockInv'
<1>1. CASE VictimDrained /\ lifecycle' # lifecycle
  <2>1. /\ eviction = "draining" /\ eviction' = "queued"
        /\ lifecycle' = Append(lifecycle, "eviction")
        /\ aborted' \in BOOLEAN
        /\ UNCHANGED <<waiter, watchdog, maintenance>>
    BY <1>1 DEF VictimDrained, AbortAndQueue, QueueLifecycle, LockInv, OperationsTyped
  <2>2. "eviction" \in Owners /\ "eviction" \notin Range(lifecycle)
    BY <2>1 DEF Owners, LockInv, LifecycleInv
  <2>3. /\ lifecycle' \in Seq(Owners) /\ IsInjective(lifecycle')
        /\ Range(lifecycle') = Range(lifecycle) \cup {"eviction"}
        /\ \A o \in Owners : Holds(o) => Holds(o)'
    BY <2>1, <2>2, Queueing DEF LockInv
  <2> QED BY <2>1, <2>3 DEF LockInv, OperationsTyped, LifecycleInv, Owners
<1>2. CASE WatchdogFires
  <2>1. /\ watchdog = "idle" /\ watchdog' = "queued"
        /\ lifecycle' = Append(lifecycle, "watchdog")
        /\ aborted' \in BOOLEAN
        /\ UNCHANGED <<eviction, waiter, maintenance>>
    BY <1>2 DEF WatchdogFires, QueueLifecycle, LockInv, OperationsTyped
  <2>2. "watchdog" \in Owners /\ "watchdog" \notin Range(lifecycle)
    BY <2>1 DEF Owners, LockInv, LifecycleInv
  <2>3. /\ lifecycle' \in Seq(Owners) /\ IsInjective(lifecycle')
        /\ Range(lifecycle') = Range(lifecycle) \cup {"watchdog"}
        /\ \A o \in Owners : Holds(o) => Holds(o)'
    BY <2>1, <2>2, Queueing DEF LockInv
  <2> QED BY <2>1, <2>3 DEF LockInv, OperationsTyped, LifecycleInv, Owners
<1>3. CASE SuspendDrained
  <2>1. /\ maintenance = "draining" /\ maintenance' = "queued"
        /\ lifecycle' = Append(lifecycle, "suspend")
        /\ aborted' \in BOOLEAN
        /\ UNCHANGED <<eviction, waiter, watchdog>>
    BY <1>3 DEF SuspendDrained, Maintenance, AbortAndQueue, QueueLifecycle, LockInv, OperationsTyped
  <2>2. "suspend" \in Owners /\ "suspend" \notin Range(lifecycle)
    BY <2>1 DEF Owners, LockInv, LifecycleInv
  <2>3. /\ lifecycle' \in Seq(Owners) /\ IsInjective(lifecycle')
        /\ Range(lifecycle') = Range(lifecycle) \cup {"suspend"}
        /\ \A o \in Owners : Holds(o) => Holds(o)'
    BY <2>1, <2>2, Queueing DEF LockInv
  <2> QED BY <2>1, <2>3 DEF LockInv, OperationsTyped, LifecycleInv, Owners
<1>4. CASE ResumeLoads
  <2>1. /\ maintenance = "loading" /\ maintenance' = "loadQueued"
        /\ lifecycle' = Append(lifecycle, "resume")
        /\ aborted' \in BOOLEAN
        /\ UNCHANGED <<eviction, waiter, watchdog>>
    BY <1>4 DEF ResumeLoads, Maintenance, QueueLifecycle, LockInv, OperationsTyped
  <2>2. "resume" \in Owners /\ "resume" \notin Range(lifecycle)
    BY <2>1 DEF Owners, LockInv, LifecycleInv
  <2>3. /\ lifecycle' \in Seq(Owners) /\ IsInjective(lifecycle')
        /\ Range(lifecycle') = Range(lifecycle) \cup {"resume"}
        /\ \A o \in Owners : Holds(o) => Holds(o)'
    BY <2>1, <2>2, Queueing DEF LockInv
  <2> QED BY <2>1, <2>3 DEF LockInv, OperationsTyped, LifecycleInv, Owners
<1> QED BY <1>1, <1>2, <1>3, <1>4

\* Steps that pass the lock on.
LEMMA QueueShrinks ==
    ASSUME LockInv, VictimStopped \/ WatchdogEnds \/ SuspendEnds \/ ResumeLoaded
    PROVE  LockInv'
<1>1. CASE VictimStopped
  <2>1. /\ eviction = "stopping" /\ eviction' = "idle"
        /\ PassLifecycle /\ aborted' = aborted
        /\ UNCHANGED <<waiter, watchdog, maintenance>>
    BY <1>1 DEF VictimStopped
  <2>2. "eviction" \in Owners /\ Holds("eviction")
    BY <2>1 DEF Owners, LockInv, LifecycleInv
  <2>3. /\ lifecycle' \in Seq(Owners) /\ IsInjective(lifecycle')
        /\ Range(lifecycle') = Range(lifecycle) \ {"eviction"}
        /\ \A o \in Owners : Holds(o) => o = "eviction"
    BY <2>1, <2>2, Passing DEF LockInv
  <2> QED BY <2>1, <2>3 DEF LockInv, OperationsTyped, LifecycleInv, Owners
<1>2. CASE WatchdogEnds
  <2>1. /\ watchdog \in {"draining", "stopping", "starting"} /\ watchdog' = "idle"
        /\ PassLifecycle /\ aborted' = aborted
        /\ UNCHANGED <<eviction, waiter, maintenance>>
    BY <1>2 DEF WatchdogEnds
  <2>2. "watchdog" \in Owners /\ Holds("watchdog")
    BY <2>1 DEF Owners, LockInv, LifecycleInv
  <2>3. /\ lifecycle' \in Seq(Owners) /\ IsInjective(lifecycle')
        /\ Range(lifecycle') = Range(lifecycle) \ {"watchdog"}
        /\ \A o \in Owners : Holds(o) => o = "watchdog"
    BY <2>1, <2>2, Passing DEF LockInv
  <2> QED BY <2>1, <2>3 DEF LockInv, OperationsTyped, LifecycleInv, Owners
<1>3. CASE SuspendEnds
  <2>1. /\ maintenance = "stopping" /\ maintenance' = "idle"
        /\ PassLifecycle /\ aborted' = aborted
        /\ UNCHANGED <<eviction, waiter, watchdog>>
    BY <1>3 DEF SuspendEnds, Maintenance
  <2>2. "suspend" \in Owners /\ Holds("suspend")
    BY <2>1 DEF Owners, LockInv, LifecycleInv
  <2>3. /\ lifecycle' \in Seq(Owners) /\ IsInjective(lifecycle')
        /\ Range(lifecycle') = Range(lifecycle) \ {"suspend"}
        /\ \A o \in Owners : Holds(o) => o = "suspend"
    BY <2>1, <2>2, Passing DEF LockInv
  <2> QED BY <2>1, <2>3 DEF LockInv, OperationsTyped, LifecycleInv, Owners
<1>4. CASE ResumeLoaded
  <2>1. /\ maintenance = "starting" /\ maintenance' \in {"loaded", "failed"}
        /\ PassLifecycle /\ aborted' = aborted
        /\ UNCHANGED <<eviction, waiter, watchdog>>
    BY <1>4 DEF ResumeLoaded, Maintenance
  <2>2. "resume" \in Owners /\ Holds("resume")
    BY <2>1 DEF Owners, LockInv, LifecycleInv
  <2>3. /\ lifecycle' \in Seq(Owners) /\ IsInjective(lifecycle')
        /\ Range(lifecycle') = Range(lifecycle) \ {"resume"}
        /\ \A o \in Owners : Holds(o) => o = "resume"
    BY <2>1, <2>2, Passing DEF LockInv
  <2> QED BY <2>1, <2>3 DEF LockInv, OperationsTyped, LifecycleInv, Owners
<1> QED BY <1>1, <1>2, <1>3, <1>4

\* Every step keeps the lifecycle lock.
LEMMA LockKept ==
    ASSUME LockInv, [PausesNext]_pauseVars
    PROVE  LockInv'
<1>1. CASE UNCHANGED pauseVars
  BY <1>1 DEF LockInv, OperationsTyped, LifecycleInv, Holds, pauseVars, operations
<1>2. CASE PausesNext
  BY <1>2, QueueKept, QueueGrows, QueueShrinks
     DEF PausesNext, Begin, EvictionStep, WatchdogStep, MaintenanceStep
<1> QED BY <1>1, <1>2

\* Nobody is admitted while maintenance drains and stops the runtime.
LEMMA MaintenanceKept ==
    ASSUME SlotsInv, SlotsKept, MaintenanceInv, [PausesNext]_pauseVars
    PROVE  MaintenanceInv'
<1>1. gate \in Gates
  BY DEF SlotsInv
<1>2. ASSUME MarkerStep, maintenance' = maintenance PROVE MaintenanceInv'
  <2>1. gate'.marker = gate.marker
    BY <1>1, <1>2, MarkerKept
  <2>2. ASSUME maintenance \in {"queued", "stopping"} PROVE Idle'
    <3>1. gate.marker = "suspended" /\ pool.active = {}
      BY <2>2 DEF MaintenanceInv, Idle
    <3> QED BY <2>1, <3>1 DEF SlotsKept, Idle
  <2> QED BY <1>2, <2>1, <2>2 DEF MaintenanceInv
<1>3. CASE UNCHANGED pauseVars
  BY <1>2, <1>3 DEF pauseVars, operations, MarkerStep
<1>4. CASE OtherStep
  BY <1>2, <1>4, OthersKeepMarkers
<1>5. CASE Suspend
  <2>1. maintenance' = "suspending" /\ gate'.marker = "suspended"
    BY <1>1, <1>5 DEF Suspend, Maintenance, SetMarker, Gates
  <2> QED BY <2>1 DEF MaintenanceInv
<1>6. CASE SuspendDrains
  <2>1. maintenance = "suspending" /\ maintenance' = "draining" /\ Pause
    BY <1>6 DEF SuspendDrains, Maintenance
  <2>2. gate'.marker = gate.marker
    BY <1>1, <2>1, MarkerKept DEF MarkerStep
  <2> QED BY <2>1, <2>2 DEF MaintenanceInv
<1>7. CASE SuspendDrained \/ SuspendStops
  BY <1>7 DEF SuspendDrained, SuspendStops, Maintenance, slotVars, MaintenanceInv, Idle
<1>8. CASE \/ SuspendTimesOut \/ SuspendEnds \/ ResumeBegins \/ ResumeUnpauses \/ ResumeLoads
           \/ ResumeStarts \/ ResumeLoaded \/ ResumeEnds \/ ResumeFails \/ ResumeGivesUp
  BY <1>8 DEF SuspendTimesOut, SuspendEnds, ResumeBegins, ResumeUnpauses, ResumeLoads,
              ResumeStarts, ResumeLoaded, ResumeEnds, ResumeFails, ResumeGivesUp,
              Maintenance, MaintenanceInv
<1> QED BY <1>3, <1>4, <1>5, <1>6, <1>7, <1>8
        DEF PausesNext, Begin, OtherStep, MaintenanceStep

-----------------------------------------------------------------------------
PausesInv == SlotsInv /\ LockInv /\ MaintenanceInv

\* The invariant of slots, lock and maintenance is inductive.
LEMMA PausesStep ==
    ASSUME PausesInv, [PausesNext]_pauseVars
    PROVE  PausesInv' /\ SlotsKept
<1>1. SlotsKept
  <2>1. CASE PausesNext
    BY <2>1, EveryStepIsASlotStep, EverySlotStep DEF PausesInv, SlotsInv
  <2>2. CASE UNCHANGED pauseVars
    BY <2>2, EverySlotStep DEF PausesInv, pauseVars, AnySlotStep
  <2> QED BY <2>1, <2>2
<1>2. SlotsInv'
  BY <1>1 DEF SlotsKept
<1> QED BY <1>1, <1>2, LockKept, MaintenanceKept DEF PausesInv

\* It holds at first.
LEMMA PausesInitInv ==
    ASSUME PausesInit
    PROVE  PausesInv
<1>1. SlotsInv
  BY SlotsInit DEF PausesInit
<1>2. lifecycle \in Seq(Owners) /\ IsInjective(lifecycle) /\ Range(lifecycle) = {}
  BY DEF PausesInit, IsInjective, Range
<1>3. LockInv
  BY <1>2 DEF PausesInit, LockInv, OperationsTyped, LifecycleInv
<1>4. MaintenanceInv
  BY DEF PausesInit, MaintenanceInv
<1> QED BY <1>1, <1>3, <1>4 DEF PausesInv

(***************************************************************************)
(* The invariant of a runtime that is used, evicted, watched and           *)
(* maintained at a time (runtime-manager.mjs, model-maintenance-control).  *)
(***************************************************************************)
THEOREM PausesInvariant == PausesSpec => []PausesInv
<1>1. PausesInv /\ [PausesNext]_pauseVars => PausesInv'
  BY PausesStep
<1> QED BY PausesInitInv, <1>1, PTL DEF PausesSpec

(***************************************************************************)
(* Slots, queue and operations are what their declarations say: in         *)
(* particular nobody is active and queued at once, or queued twice, and    *)
(* no operation queues twice for the lifecycle lock.                       *)
(***************************************************************************)
THEOREM PausesTyping == PausesSpec => []PausesTypeOK
<1>1. PausesInv => PausesTypeOK
  <2>1. SUFFICES ASSUME PausesInv PROVE PausesTypeOK
    OBVIOUS
  <2>2. TypeOK
    BY <2>1, SlotsTyped DEF PausesInv
  <2>3. Range(lifecycle) \subseteq Owners
    BY <2>1 DEF PausesInv, LockInv, OperationsTyped, Range
  <2> QED BY <2>1, <2>2, <2>3 DEF PausesInv, LockInv, OperationsTyped, PausesTypeOK
<1> QED BY PausesInvariant, <1>1, PTL

(***************************************************************************)
(* No lost wake-up, whatever pauses, resumes and reloads the runtime: a    *)
(* request never stays queued that could have a slot.                      *)
(***************************************************************************)
THEOREM NobodyIsForgotten == PausesSpec => []NoEligibleWaits
<1>1. PausesInv => NoEligibleWaits
  BY DEF PausesInv, SlotsInv
<1> QED BY PausesInvariant, <1>1, PTL

(***************************************************************************)
(* Maintenance never stops a runtime that serves a request, although       *)
(* others may clear the pause it drained under: its record turns requests  *)
(* away from before it drains until after it has stopped.                  *)
(***************************************************************************)
THEOREM MaintenanceIsPatient == PausesSpec => []MaintenanceSparesRequests
<1>1. PausesInv => MaintenanceSparesRequests
  BY DEF PausesInv, MaintenanceInv, MaintenanceSparesRequests
<1> QED BY PausesInvariant, <1>1, PTL

(***************************************************************************)
(* Of an eviction, a watchdog and an operation of maintenance, at most one *)
(* drains under the lifecycle lock, stops or starts the runtime at a time  *)
(* (withRuntimeLifecycleLock).                                             *)
(***************************************************************************)
LifecycleIsExclusive ==
    LET evicts == eviction = "stopping"
        watches == watchdog \in {"draining", "stopping", "starting"}
        maintains == maintenance \in {"stopping", "starting"}
    IN ~(evicts /\ watches) /\ ~(evicts /\ maintains) /\ ~(watches /\ maintains)

THEOREM OneOperationAtATime == PausesSpec => []LifecycleIsExclusive
<1>1. PausesInv => LifecycleIsExclusive
  BY DEF PausesInv, LockInv, LifecycleInv, Holds, LifecycleIsExclusive
<1> QED BY PausesInvariant, <1>1, PTL

(***************************************************************************)
(* Slots and queue positions kept for interactive requests are not given   *)
(* to standard ones, and a lowered limit is not exceeded further, in any   *)
(* turn and by no number of admissions in it.                              *)
(***************************************************************************)
THEOREM ReserveIsSafe == PausesSpec => ReserveIsKept
<1>1. PausesInv /\ [PausesNext]_pauseVars => ReserveStep
  BY PausesStep DEF SlotsKept
<1>2. PausesInv /\ [PausesNext]_pauseVars => [ReserveStep]_slotVars
  BY <1>1
<1>3. PausesSpec => [][ReserveStep]_slotVars
  BY PausesInvariant, <1>2, PTL DEF PausesSpec
<1> QED BY <1>3 DEF ReserveIsKept, ReserveStep

(***************************************************************************)
(* At most four interactive requests in a row overtake a standard one that *)
(* could have had the slot, in any turn and by no number of admissions.    *)
(***************************************************************************)
THEOREM OvertakingIsBounded == PausesSpec => FourOvertakes
<1>1. PausesInv /\ [PausesNext]_pauseVars => OvertakesStep
  BY PausesStep DEF SlotsKept
<1>2. PausesInv /\ [PausesNext]_pauseVars => [OvertakesStep]_slotVars
  BY <1>1
<1>3. PausesSpec => [][OvertakesStep]_slotVars
  BY PausesInvariant, <1>2, PTL DEF PausesSpec
<1> QED BY <1>3 DEF FourOvertakes, OvertakesStep

(***************************************************************************)
(* The same of the slots alone, when anybody pauses, resumes and marks the *)
(* runtime at any time.                                                    *)
(***************************************************************************)
THEOREM SlotsAlone == Spec => []NoEligibleWaits /\ ReserveIsKept /\ FourOvertakes
<1>1. SlotsInv /\ [Next]_slotVars => SlotsKept
  BY EverySlotStep DEF Next, AnySlotStep
<1>2. SlotsInv /\ [Next]_slotVars => SlotsInv' /\ [ReserveStep]_slotVars /\ [OvertakesStep]_slotVars
  BY <1>1 DEF SlotsKept
<1>3. SlotsInv => NoEligibleWaits
  BY DEF SlotsInv
<1>4. Init => SlotsInv
  BY SlotsInit
<1>5. Spec => []NoEligibleWaits /\ [][ReserveStep]_slotVars /\ [][OvertakesStep]_slotVars
  BY <1>2, <1>3, <1>4, PTL DEF Spec
<1> QED BY <1>5 DEF ReserveIsKept, ReserveStep, FourOvertakes, OvertakesStep
===============================================================================
