------------------------ MODULE RequestSchedulerProofs ------------------------
(***************************************************************************)
(* The scheduler for any connections, groups and settings.                 *)
(*                                                                         *)
(* Nearly every step ends in a pump over all groups, so the proofs are     *)
(* about what the pump makes of a table R of requests and of the state s   *)
(* of a group (PumpsGroup): it moves waiters to the leases, leaves nobody  *)
(* that could still move (Settled), and sets the timer to the first        *)
(* deadline (Timed).  The clocks are related to the histories that the     *)
(* properties speak of by ClocksInv.                                       *)
(***************************************************************************)
EXTENDS RequestScheduler, SubsequencesProofs, FiniteSetTheorems

\* An absent connection is in no group, and any other one is in some.
Connected(R) ==
    \A r \in Requests : /\ R[r].phase = "absent" => R[r] = Absent
                        /\ R[r].phase # "absent" => R[r].group \in Groups

\* A group that is not known has no lists.
Known(s) == ~s.known => s.waiters = <<>> /\ s.leases = <<>>

Tables(R, G) ==
    /\ R \in [Requests -> ReqStates]
    /\ Connected(R)
    /\ G \in [Groups -> GroupStates]
    /\ \A g \in Groups : Lists(R, G[g], g) /\ Known(G[g])

\* Nobody in the group could move on.
Settled(R, s, g, m) ==
    /\ Promoted(R, s, m) = {}
    /\ \A r \in Requests : R[r].group = g /\ R[r].phase = "parked" => ~ReadyFor(R, s, m, r)

\* Somebody in the group has not started.
Pending(R, s) == s.waiters # <<>> \/ \E r \in Range(s.leases) : R[r].phase # "running"

\* The timer fires at the first deadline that can change anything.
Timed(R, s, m) ==
    m = "adaptive" /\ Pending(R, s) =>
        \A d \in Deadlines(s.clocks) : s.timer # Unset /\ s.timer <= d

Attended(R, s, g, m) ==
    /\ Timed(R, s, m)
    /\ s.timer = 0 \/ Settled(R, s, g, m)

\* A clock is what its history has left of the cooldown; while the group
\* recovers, the next start is due an interval after the last one.
ClocksInv(c, h) ==
    /\ h.foreground + c.foreground = IdleTime
    /\ h.interactive + c.interactive = IdleTime
    /\ IdleFor(c) >= RampTime \/ h.start + c.next >= RampInterval

Histories == [foreground : 0..HistoryTime, interactive : 0..HistoryTime,
              start : 0..RampInterval]

SchedulerInv ==
    /\ mode \in {"adaptive", "off"} /\ closed \in BOOLEAN /\ microNudge \in BOOLEAN
    /\ history \in [Groups -> Histories]
    /\ Tables(req, groups)
    /\ \A g \in Groups : ClocksInv(groups[g].clocks, history[g])
    /\ RoomIsBounded
    /\ ~closed /\ ~microNudge => \A g \in Groups : Attended(req, groups[g], g, mode)

-----------------------------------------------------------------------------
(* Clocks.                                                                 *)

\* The maximum of two numbers, as Math.max gives it.
LEMMA MaxOfTwo ==
    ASSUME NEW a \in Int, NEW b \in Int
    PROVE  Max({a, b}) = IF a >= b THEN a ELSE b
BY DEF Max

\* And the minimum of two, as Math.min gives it.
LEMMA MinOfTwo ==
    ASSUME NEW a \in Int, NEW b \in Int
    PROVE  Min({a, b}) = IF a <= b THEN a ELSE b
BY DEF Min

\* A non-empty set of numbers has its minimum.
LEMMA MinOfNumbers ==
    ASSUME NEW T \in SUBSET Nat, T # {}
    PROVE  Min(T) \in T /\ \A n \in T : Min(T) <= n
BY Least DEF Min

\* The length of the ramp.
LEMMA RampLength ==
    /\ RampTime \in Nat /\ RampInterval \in Nat /\ MaxBackground \in Nat \ {0}
    /\ IdleTime \in Nat /\ HistoryTime = IdleTime + RampTime /\ MaxQueued \in Nat
    /\ \A k \in 0..MaxBackground : k * RampInterval \in 0..RampTime
<1>1. /\ RampInterval \in Nat /\ MaxBackground \in Nat \ {0} /\ IdleTime \in Nat
      /\ MaxQueued \in Nat
  BY SettingsAssumption
<1>2. RampTime \in Nat /\ RampTime = RampInterval * MaxBackground
  BY <1>1 DEF RampTime
<1>3. ASSUME NEW k \in 0..MaxBackground PROVE k * RampInterval \in 0..RampTime
  <2>1. k * RampInterval <= MaxBackground * RampInterval
    BY <1>1
  <2>2. k * RampInterval \in Nat
    BY <1>1
  <2> QED BY <1>1, <1>2, <2>1, <2>2
<1> QED BY <1>1, <1>2, <1>3 DEF HistoryTime

\* How long a group has been idle, from its clocks.
LEMMA Idleness ==
    ASSUME NEW c \in Clocks
    PROVE  /\ c.foreground \in -RampTime..IdleTime
           /\ c.interactive \in -RampTime..IdleTime
           /\ c.next \in 0..RampInterval
           /\ IdleFor(c) \in -IdleTime..RampTime
           /\ IdleFor(c) = IF c.foreground >= c.interactive
                           THEN -c.foreground ELSE -c.interactive
<1>1. /\ c.foreground \in -RampTime..IdleTime
      /\ c.interactive \in -RampTime..IdleTime
      /\ c.next \in 0..RampInterval
  BY DEF Clocks
<1>2. Max({c.foreground, c.interactive})
        = IF c.foreground >= c.interactive THEN c.foreground ELSE c.interactive
  <2>1. c.foreground \in Int /\ c.interactive \in Int
    BY <1>1, RampLength
  <2> QED BY <2>1, MaxOfTwo
<1> QED BY <1>1, <1>2, RampLength DEF IdleFor

\* Quotients of natural numbers, of which the ramp is made.
LEMMA Division ==
    ASSUME NEW n \in Nat, NEW d \in Nat \ {0}
    PROVE  /\ n \div d \in Nat
           /\ (n \div d) * d <= n
           /\ n < (n \div d + 1) * d
<1> DEFINE q == n \div d
           rest == n % d
<1>1. q \in Nat /\ rest \in 0..(d - 1)
  <2>1. q \in Int /\ q >= 0
    OBVIOUS
  <2>2. rest \in 0..(d - 1)
    OBVIOUS
  <2> QED BY <2>1, <2>2
<1>2. n = d * q + rest
  OBVIOUS
<1> HIDE DEF q, rest
<1>3. q * d = d * q /\ d * q \in Int /\ (q + 1) * d = d * q + d
  BY <1>1
<1>4. q * d <= n /\ n < (q + 1) * d
  BY <1>1, <1>2, <1>3
<1> QED BY <1>1, <1>4 DEF q

\* A quotient does not shrink when its dividend grows, and stays until the
\* dividend reaches the next multiple.
LEMMA Quotients ==
    ASSUME NEW n \in Nat, NEW k \in Nat, NEW d \in Nat \ {0}, n <= k
    PROVE  /\ n \div d <= k \div d
           /\ k < (n \div d + 1) * d => k \div d = n \div d
<1> DEFINE p == n \div d
           q == k \div d
<1>1. p \in Nat /\ p * d <= n /\ n < (p + 1) * d
  BY Division
<1>2. q \in Nat /\ q * d <= k /\ k < (q + 1) * d
  BY Division
<1> HIDE DEF p, q
<1>3. p <= q
  <2>1. CASE q + 1 <= p
    <3>1. (q + 1) * d <= p * d
      BY <1>1, <1>2, <2>1
    <3> QED BY <1>1, <1>2, <3>1
  <2> QED BY <1>1, <1>2, <2>1
<1>4. ASSUME k < (p + 1) * d PROVE q = p
  <2>1. CASE p + 1 <= q
    <3>1. (p + 1) * d <= q * d
      BY <1>1, <1>2, <2>1
    <3>2. (p + 1) * d \in Int /\ q * d \in Int
      BY <1>1, <1>2
    <3> QED BY <1>2, <1>4, <3>1, <3>2
  <2> QED BY <1>1, <1>2, <1>3, <2>1
<1> QED BY <1>3, <1>4 DEF p, q

\* Time that a group has been idle after its cooldown.
Recovered(c) == IF IdleFor(c) > 0 THEN IdleFor(c) ELSE 0

\* The capacity is between one and its limit, and grows by one each interval.
LEMMA CapacityIs ==
    ASSUME NEW c \in Clocks
    PROVE  /\ Recovered(c) \in Nat
           /\ CapacityAt(c) \in 1..MaxBackground
           /\ RampInterval = 0 => CapacityAt(c) = MaxBackground
           /\ RampInterval # 0 => CapacityAt(c) =
                IF 1 + Recovered(c) \div RampInterval < MaxBackground
                THEN 1 + Recovered(c) \div RampInterval ELSE MaxBackground
<1>1. IdleFor(c) \in Int
  BY Idleness, RampLength
<1>2. Max({0, IdleFor(c)}) = Recovered(c) /\ Recovered(c) \in Nat
  <2>1. Max({0, IdleFor(c)}) = IF 0 >= IdleFor(c) THEN 0 ELSE IdleFor(c)
    BY <1>1, MaxOfTwo
  <2> QED BY <1>1, <2>1 DEF Recovered
<1>3. CASE RampInterval = 0
  BY <1>2, <1>3, RampLength DEF CapacityAt
<1>4. CASE RampInterval # 0
  <2> DEFINE q == Recovered(c) \div RampInterval
  <2>1. q \in Nat
    BY <1>2, <1>4, RampLength, Division
  <2>2. CapacityAt(c) = Min({MaxBackground, 1 + q})
    BY <1>2, <1>4 DEF CapacityAt
  <2> HIDE DEF q
  <2>3. Min({MaxBackground, 1 + q}) = IF MaxBackground <= 1 + q THEN MaxBackground ELSE 1 + q
    BY <2>1, RampLength, MinOfTwo
  <2>4. /\ CapacityAt(c) \in 1..MaxBackground
        /\ CapacityAt(c) = IF 1 + q < MaxBackground THEN 1 + q ELSE MaxBackground
    BY <2>1, <2>2, <2>3, RampLength
  <2> QED BY <1>2, <1>4, <2>4 DEF q
<1> QED BY <1>3, <1>4

\* The time until the next step of the ramp.
NextStep(c) == CapacityAt(c) * RampInterval - IdleFor(c)

\* It is never due already, and the capacity stays until then.
LEMMA CapacityStays ==
    ASSUME NEW c \in Clocks, NEW k \in Clocks,
           IdleFor(k) \in {IdleFor(c), IdleFor(c) + 1}
    PROVE  /\ RampInterval > 0 /\ CapacityAt(c) < MaxBackground
                => /\ NextStep(c) \in Nat \ {0}
                   /\ NextStep(c) > 1 => CapacityAt(k) = CapacityAt(c)
           /\ RampInterval = 0 \/ CapacityAt(c) = MaxBackground
                => CapacityAt(k) = CapacityAt(c)
<1> DEFINE n == Recovered(c)
           l == Recovered(k)
           p == n \div RampInterval
           q == l \div RampInterval
<1>1. /\ IdleFor(c) \in Int /\ IdleFor(k) \in Int
      /\ n \in Nat /\ l \in Nat /\ CapacityAt(c) \in 1..MaxBackground
      /\ CapacityAt(k) \in 1..MaxBackground
      /\ RampInterval \in Nat /\ MaxBackground \in Nat \ {0}
  BY Idleness, CapacityIs, RampLength
<1>2. n <= l /\ IdleFor(c) <= n /\ l <= IF IdleFor(c) < 0 THEN 0 ELSE IdleFor(c) + 1
  BY <1>1 DEF Recovered
<1>3. CASE RampInterval = 0
  BY <1>3, CapacityIs
<1>4. CASE RampInterval # 0
  <2>1. /\ p \in Nat /\ p * RampInterval <= n /\ n < (p + 1) * RampInterval
        /\ q \in Nat /\ p <= q
        /\ l < (p + 1) * RampInterval => q = p
    BY <1>1, <1>2, <1>4, Division, Quotients
  <2>2. /\ CapacityAt(c) = IF 1 + p < MaxBackground THEN 1 + p ELSE MaxBackground
        /\ CapacityAt(k) = IF 1 + q < MaxBackground THEN 1 + q ELSE MaxBackground
    BY <1>4, CapacityIs
  <2> HIDE DEF n, l, p, q
  <2>3. CASE CapacityAt(c) = MaxBackground
    <3>1. CapacityAt(k) = MaxBackground
      BY <1>1, <2>1, <2>2, <2>3
    <3> QED BY <1>1, <2>3, <3>1
  <2>4. CASE CapacityAt(c) # MaxBackground
    <3>1. CapacityAt(c) = p + 1
      BY <1>1, <2>1, <2>2, <2>4
    <3> DEFINE x == (p + 1) * RampInterval
    <3>2. x \in Int /\ NextStep(c) = x - IdleFor(c) /\ n < x /\ (l < x => q = p) /\ x > 0
      BY <1>1, <2>1, <3>1 DEF NextStep
    <3> HIDE DEF x
    <3>3. NextStep(c) \in Nat \ {0}
      BY <1>1, <1>2, <3>2
    <3>4. ASSUME NextStep(c) > 1 PROVE CapacityAt(k) = CapacityAt(c)
      <4>1. l < x
        BY <1>1, <1>2, <3>2, <3>4
      <4> QED BY <2>2, <3>2, <4>1
    <3> QED BY <1>4, <2>4, <3>3, <3>4
  <2> QED BY <2>3, <2>4
<1> QED BY <1>3, <1>4

\* One unit of time.
LEMMA ClocksElapse ==
    ASSUME NEW c \in Clocks
    PROVE  /\ Elapsed(c) \in Clocks
           /\ Elapsed(c).foreground =
                IF c.foreground > -RampTime THEN c.foreground - 1 ELSE -RampTime
           /\ Elapsed(c).interactive =
                IF c.interactive > -RampTime THEN c.interactive - 1 ELSE -RampTime
           /\ Elapsed(c).next = IF c.next > 0 THEN c.next - 1 ELSE 0
           /\ IdleFor(Elapsed(c)) \in {IdleFor(c), IdleFor(c) + 1}
<1> DEFINE f == Max({c.foreground - 1, -RampTime})
           i == Max({c.interactive - 1, -RampTime})
           n == Max({c.next - 1, 0})
<1>1. /\ c.foreground \in -RampTime..IdleTime
      /\ c.interactive \in -RampTime..IdleTime
      /\ c.next \in 0..RampInterval
      /\ RampTime \in Nat /\ IdleTime \in Nat /\ RampInterval \in Nat
  BY Idleness, RampLength
<1>2. f = IF c.foreground > -RampTime THEN c.foreground - 1 ELSE -RampTime
  BY <1>1, MaxOfTwo
<1>3. i = IF c.interactive > -RampTime THEN c.interactive - 1 ELSE -RampTime
  BY <1>1, MaxOfTwo
<1>4. n = IF c.next > 0 THEN c.next - 1 ELSE 0
  BY <1>1, MaxOfTwo
<1>5. Elapsed(c) = [foreground |-> f, interactive |-> i, next |-> n]
  BY DEF Elapsed
<1> HIDE DEF f, i, n
<1>6. f \in -RampTime..IdleTime /\ i \in -RampTime..IdleTime /\ n \in 0..RampInterval
  BY <1>1, <1>2, <1>3, <1>4
<1>7. /\ Elapsed(c) \in Clocks
      /\ Elapsed(c).foreground = f /\ Elapsed(c).interactive = i /\ Elapsed(c).next = n
  BY <1>5, <1>6 DEF Clocks
<1>8. /\ IdleFor(c) = IF c.foreground >= c.interactive
                      THEN -c.foreground ELSE -c.interactive
      /\ IdleFor(Elapsed(c)) = IF f >= i THEN -f ELSE -i
  BY <1>7, Idleness
<1>9. IdleFor(Elapsed(c)) \in {IdleFor(c), IdleFor(c) + 1}
  BY <1>1, <1>2, <1>3, <1>8
<1> QED BY <1>2, <1>3, <1>4, <1>7, <1>9

Ramping(c) == RampInterval > 0 /\ CapacityAt(c) < MaxBackground

\* The deadlines that pump() takes its timer from lie in the future, and are these.
LEMMA DeadlinesAre ==
    ASSUME NEW c \in Clocks
    PROVE  /\ Deadlines(c) \subseteq Nat \ {0}
           /\ c.foreground > 0 => c.foreground \in Deadlines(c)
           /\ c.interactive > 0 => c.interactive \in Deadlines(c)
           /\ c.next > 0 => c.next \in Deadlines(c)
           /\ Ramping(c) => NextStep(c) \in Deadlines(c)
           /\ \A d \in Deadlines(c) :
                \/ d \in {c.foreground, c.interactive, c.next}
                \/ Ramping(c) /\ d = NextStep(c)
<1> DEFINE next == IF Ramping(c) THEN {NextStep(c)} ELSE {}
<1>1. Deadlines(c) = {d \in {c.foreground, c.interactive, c.next} \cup next : d > 0}
  BY DEF Deadlines, Ramping, NextStep
<1>2. Ramping(c) => NextStep(c) \in Nat \ {0}
  BY CapacityStays DEF Ramping
<1>3. c.foreground \in Int /\ c.interactive \in Int /\ c.next \in Int
  BY Idleness, RampLength
<1>4. Deadlines(c) \subseteq Nat \ {0}
  BY <1>1, <1>2, <1>3
<1> QED BY <1>1, <1>2, <1>4

\* What the clocks say to the requests.
SameReadiness(c, k) ==
    /\ k.foreground > 0 <=> c.foreground > 0
    /\ k.interactive > 0 <=> c.interactive > 0
    /\ k.next = 0 <=> c.next = 0
    /\ CapacityAt(k) = CapacityAt(c)

\* Nothing changes before a deadline.
LEMMA UntilDeadline ==
    ASSUME NEW c \in Clocks, \A d \in Deadlines(c) : d > 1
    PROVE  /\ SameReadiness(c, Elapsed(c))
           /\ \A d \in Deadlines(Elapsed(c)) : \E e \in Deadlines(c) : e <= d + 1
<1> DEFINE k == Elapsed(c)
<1>1. /\ c.foreground \in Int /\ c.interactive \in Int /\ c.next \in Nat
      /\ RampTime \in Nat /\ RampInterval \in Nat
      /\ MaxBackground \in Nat /\ CapacityAt(c) \in 1..MaxBackground
  BY Idleness, RampLength, CapacityIs
<1>2. /\ k \in Clocks
      /\ k.foreground = IF c.foreground > -RampTime THEN c.foreground - 1 ELSE -RampTime
      /\ k.interactive = IF c.interactive > -RampTime THEN c.interactive - 1 ELSE -RampTime
      /\ k.next = IF c.next > 0 THEN c.next - 1 ELSE 0
      /\ IdleFor(k) \in {IdleFor(c), IdleFor(c) + 1}
  BY ClocksElapse
<1> HIDE DEF k
<1>3. /\ c.foreground > 0 => c.foreground > 1
      /\ c.interactive > 0 => c.interactive > 1
      /\ c.next > 0 => c.next > 1
      /\ Ramping(c) => NextStep(c) > 1
  BY DeadlinesAre
<1>4. CapacityAt(k) = CapacityAt(c)
  <2>1. CASE Ramping(c)
    BY <1>2, <1>3, <2>1, CapacityStays DEF Ramping
  <2>2. CASE ~Ramping(c)
    <3>1. RampInterval = 0 \/ CapacityAt(c) = MaxBackground
      BY <1>1, <2>2 DEF Ramping
    <3> QED BY <1>2, <3>1, CapacityStays
  <2> QED BY <2>1, <2>2
<1>5. SameReadiness(c, k)
  BY <1>1, <1>2, <1>3, <1>4 DEF SameReadiness
<1>6. ASSUME NEW d \in Deadlines(k) PROVE \E e \in Deadlines(c) : e <= d + 1
  <2>1. d \in Nat \ {0}
    BY <1>2, DeadlinesAre
  <2>2. \/ d \in {k.foreground, k.interactive, k.next}
        \/ Ramping(k) /\ d = NextStep(k)
    BY <1>2, DeadlinesAre
  <2>3. CASE d = k.foreground
    <3>1. c.foreground > 0 /\ c.foreground <= d + 1
      BY <1>1, <1>2, <2>1, <2>3
    <3> QED BY <3>1, DeadlinesAre
  <2>4. CASE d = k.interactive
    <3>1. c.interactive > 0 /\ c.interactive <= d + 1
      BY <1>1, <1>2, <2>1, <2>4
    <3> QED BY <3>1, DeadlinesAre
  <2>5. CASE d = k.next
    <3>1. c.next > 0 /\ c.next <= d + 1
      BY <1>1, <1>2, <2>1, <2>5
    <3> QED BY <3>1, DeadlinesAre
  <2>6. CASE Ramping(k) /\ d = NextStep(k)
    <3>1. Ramping(c) /\ NextStep(k) = CapacityAt(c) * RampInterval - IdleFor(k)
      BY <1>4, <2>6 DEF Ramping, NextStep
    <3>2. CapacityAt(c) * RampInterval \in Int /\ IdleFor(c) \in Int
      BY <1>1, Idleness, RampLength
    <3>3. NextStep(c) <= d + 1
      BY <1>2, <2>6, <3>1, <3>2 DEF NextStep
    <3> QED BY <3>1, <3>3, DeadlinesAre
  <2> QED BY <2>2, <2>3, <2>4, <2>5, <2>6
<1> QED BY <1>5, <1>6 DEF k

-----------------------------------------------------------------------------
(* A group.                                                                *)

\* The lists of a group are disjoint, and have no repetitions.
Separate(s) ==
    /\ IsInjective(s.waiters) /\ IsInjective(s.leases)
    /\ Range(s.waiters) \cap Range(s.leases) = {}

\* What the pump makes of a group: t of s.
PumpsGroup(R, s, t, m) ==
    /\ t \in GroupStates
    /\ Range(t.waiters) = Range(s.waiters) \ Promoted(R, s, m)
    /\ Range(t.leases) = Range(s.leases) \cup Promoted(R, s, m)
    /\ IsInjective(t.waiters) /\ IsInjective(t.leases)
    /\ Known(t)
    /\ \/ t.clocks = s.clocks
       \/ /\ t.clocks = Quiet /\ IdleFor(s.clocks) = RampTime
          /\ Range(t.leases) = {} /\ Range(t.waiters) = {}
    /\ Timed(R, t, m)

\* An empty list of a group has nobody in it.
LEMMA EmptyList ==
    /\ <<>> \in Seq(Requests) /\ Range(<<>>) = {} /\ IsInjective(<<>>)
    /\ \A q \in Seq(Requests) : Range(q) = {} <=> q = <<>>
<1>1. <<>> \in Seq(Requests) /\ Range(<<>>) = {} /\ IsInjective(<<>>)
  BY DEF Range, IsInjective
<1>2. ASSUME NEW q \in Seq(Requests), q # <<>> PROVE q[1] \in Range(q)
  BY <1>2 DEF Range
<1> QED BY <1>1, <1>2

\* The delays that pump() asks a timer for; a group is forgotten only when the
\* time that its clocks could still matter for is over.
LEMMA TimerRange ==
    ASSUME NEW c \in Clocks
    PROVE  /\ ForgetIn(c) \in 0..(IdleTime + RampTime + RampInterval)
           /\ ForgetIn(c) = 0 => IdleFor(c) = RampTime
           /\ Deadlines(c) # {} => /\ Min(Deadlines(c)) \in 0..(IdleTime + RampTime + RampInterval)
                                   /\ \A d \in Deadlines(c) : Min(Deadlines(c)) <= d
<1>1. /\ c.foreground \in -RampTime..IdleTime /\ c.interactive \in -RampTime..IdleTime
      /\ c.next \in 0..RampInterval /\ IdleFor(c) \in -IdleTime..RampTime
      /\ RampTime \in Nat /\ IdleTime \in Nat /\ RampInterval \in Nat
  BY Idleness, RampLength
<1>2. ForgetIn(c) = IF RampTime - IdleFor(c) >= c.next THEN RampTime - IdleFor(c) ELSE c.next
  BY <1>1, MaxOfTwo DEF ForgetIn
<1>3. ASSUME NEW d \in Deadlines(c) PROVE d <= IdleTime + RampTime + RampInterval
  <2>1. d \in {c.foreground, c.interactive, c.next} \/ (Ramping(c) /\ d = NextStep(c))
    BY DeadlinesAre
  <2>2. CASE d \in {c.foreground, c.interactive, c.next}
    BY <1>1, <2>2
  <2>3. CASE Ramping(c) /\ d = NextStep(c)
    <3>1. CapacityAt(c) \in 0..MaxBackground
      BY CapacityIs, RampLength
    <3>2. CapacityAt(c) * RampInterval \in 0..RampTime
      BY <3>1, RampLength
    <3> QED BY <1>1, <2>3, <3>2 DEF NextStep
  <2> QED BY <2>1, <2>2, <2>3
<1>4. ASSUME Deadlines(c) # {}
      PROVE  /\ Min(Deadlines(c)) \in Deadlines(c)
             /\ \A d \in Deadlines(c) : Min(Deadlines(c)) <= d
  <2>1. Deadlines(c) \in SUBSET Nat
    BY DeadlinesAre
  <2> QED BY <1>4, <2>1, MinOfNumbers
<1>5. Deadlines(c) # {} => Min(Deadlines(c)) \in 0..(IdleTime + RampTime + RampInterval)
  <2>1. ASSUME NEW d \in Deadlines(c) PROVE d \in 0..(IdleTime + RampTime + RampInterval)
    <3>1. d \in Nat
      BY DeadlinesAre
    <3> QED BY <1>1, <1>3, <3>1
  <2> QED BY <1>4, <2>1
<1> QED BY <1>1, <1>2, <1>4, <1>5

\* A new group, and one that was forgotten, has been quiet for the whole ramp.
LEMMA QuietIs == Quiet \in Clocks /\ IdleFor(Quiet) = RampTime /\ NewGroup \in GroupStates
<1>1. Quiet \in Clocks
  BY RampLength DEF Quiet, Clocks
<1>2. IdleFor(Quiet) = RampTime
  <2>1. Quiet.foreground = -RampTime /\ Quiet.interactive = -RampTime
    BY DEF Quiet
  <2> QED BY <1>1, <2>1, Idleness, RampLength
<1>3. Unset \in Unset..(IdleTime + RampTime + RampInterval)
  BY RampLength DEF Unset
<1>4. NewGroup \in GroupStates
  BY <1>1, <1>3, EmptyList DEF NewGroup, GroupStates
<1> QED BY <1>1, <1>2, <1>4

\* A group with other lists and another timer.
WithLists(s, l, w, x) == [s EXCEPT !.leases = l, !.waiters = w, !.timer = x]

\* The other fields of a group stay when its lists and its timer change.
LEMMA Relisted ==
    ASSUME NEW s \in GroupStates, NEW l \in Seq(Requests), NEW w \in Seq(Requests),
           NEW x \in Unset..(IdleTime + RampTime + RampInterval)
    PROVE  /\ WithLists(s, l, w, x) \in GroupStates
           /\ WithLists(s, l, w, x).known = s.known
           /\ WithLists(s, l, w, x).waiters = w
           /\ WithLists(s, l, w, x).leases = l
           /\ WithLists(s, l, w, x).clocks = s.clocks
           /\ WithLists(s, l, w, x).timer = x
<1> DEFINE T == Unset..(IdleTime + RampTime + RampInterval)
           t == [s EXCEPT !.leases = l, !.waiters = w, !.timer = x]
<1>1. /\ s \in [known : BOOLEAN, waiters : Seq(Requests), leases : Seq(Requests),
                clocks : Clocks, timer : T]
      /\ x \in T
  BY DEF GroupStates
<1> HIDE DEF T
<1>2. /\ t.known = s.known /\ t.waiters = w /\ t.leases = l
      /\ t.clocks = s.clocks /\ t.timer = x
  BY <1>1
<1>3. t \in [known : BOOLEAN, waiters : Seq(Requests), leases : Seq(Requests),
            clocks : Clocks, timer : T]
  BY <1>1
<1> QED BY <1>2, <1>3 DEF GroupStates, WithLists, T

\* pump() makes of a known group what it should, whatever it decides about the
\* timer and about forgetting the group.
LEMMA GroupPumped ==
    ASSUME NEW R \in [Requests -> ReqStates], NEW s \in GroupStates, s.known, Separate(s), NEW m
    PROVE  PumpsGroup(R, s, PumpGroup(R, s, m), m)
<1> DEFINE up == Promoted(R, s, m)
           leases == s.leases \o Kept(s.waiters, up)
           waiters == Kept(s.waiters, Requests \ up)
           P(x) == WithLists(s, leases, waiters, x)
           t == PumpGroup(R, s, m)
<1>0. /\ s.waiters \in Seq(Requests) /\ s.leases \in Seq(Requests) /\ s.clocks \in Clocks
      /\ s.known \in BOOLEAN
  BY DEF GroupStates
<1>1. up \subseteq Range(s.waiters) /\ Range(s.waiters) \subseteq Requests
  BY <1>0 DEF Promoted, Range
<1> HIDE DEF up
<1>2. /\ Kept(s.waiters, up) \in Seq(Requests)
      /\ Range(Kept(s.waiters, up)) = up
      /\ IsInjective(Kept(s.waiters, up))
  <2>1. Range(s.waiters) \cap up = up
    BY <1>1
  <2> QED BY <1>0, <2>1, KeptEntries DEF Separate
<1>3. /\ waiters \in Seq(Requests)
      /\ Range(waiters) = Range(s.waiters) \ up
      /\ IsInjective(waiters)
  <2>1. Range(s.waiters) \cap (Requests \ up) = Range(s.waiters) \ up
    BY <1>1
  <2> QED BY <1>0, <2>1, KeptEntries DEF Separate
<1>4. /\ leases \in Seq(Requests)
      /\ Range(leases) = Range(s.leases) \cup up
      /\ IsInjective(leases)
  <2>1. Range(s.leases) \cap up = {}
    BY <1>1 DEF Separate
  <2> QED BY <1>0, <1>2, <2>1, Joined DEF Separate
<1> DEFINE pending == waiters # <<>> \/ \E r \in Range(leases) : R[r].phase # "running"
<1>5. t = IF leases = <<>> /\ waiters = <<>>
          THEN IF ForgetIn(s.clocks) = 0 THEN NewGroup ELSE P(ForgetIn(s.clocks))
          ELSE IF pending /\ m = "adaptive" /\ Deadlines(s.clocks) # {}
               THEN P(Min(Deadlines(s.clocks)))
               ELSE P(Unset)
  BY DEF PumpGroup, WithLists, up
<1> HIDE DEF leases, waiters, t
<1>6. ASSUME NEW x \in Unset..(IdleTime + RampTime + RampInterval)
      PROVE  /\ P(x) \in GroupStates
             /\ P(x).known = s.known /\ P(x).waiters = waiters /\ P(x).leases = leases
             /\ P(x).clocks = s.clocks /\ P(x).timer = x
  <2>1. leases \in Seq(Requests) /\ waiters \in Seq(Requests)
    BY <1>3, <1>4
  <2> DEFINE y == WithLists(s, leases, waiters, x)
  <2>2. /\ y \in GroupStates
        /\ y.known = s.known /\ y.waiters = waiters /\ y.leases = leases
        /\ y.clocks = s.clocks /\ y.timer = x
    <3> HIDE DEF y
    <3>1. y \in GroupStates
      BY <2>1, Relisted DEF y
    <3>2. y.known = s.known
      BY <2>1, Relisted DEF y
    <3>3. y.waiters = waiters /\ y.leases = leases
      BY <2>1, Relisted DEF y
    <3>4. y.clocks = s.clocks
      BY <2>1, Relisted DEF y
    <3>5. y.timer = x
      BY <2>1, Relisted DEF y
    <3> QED BY <3>1, <3>2, <3>3, <3>4, <3>5
  <2> QED BY <2>2
<1>7. ASSUME NEW x \in Unset..(IdleTime + RampTime + RampInterval), t = P(x),
             m = "adaptive" /\ pending => \A d \in Deadlines(s.clocks) : x # Unset /\ x <= d
      PROVE  PumpsGroup(R, s, t, m)
  <2>2. t \in GroupStates
    BY <1>6, <1>7
  <2>3. /\ t.known = s.known /\ t.waiters = waiters /\ t.leases = leases
        /\ t.clocks = s.clocks /\ t.timer = x
    BY <1>6, <1>7
  <2>4. Timed(R, t, m)
    BY <1>7, <2>3 DEF Timed, Pending
  <2> QED BY <1>3, <1>4, <2>2, <2>3, <2>4 DEF PumpsGroup, Known, up
<1> HIDE DEF P
<1>8. ASSUME leases = <<>> /\ waiters = <<>> /\ ForgetIn(s.clocks) = 0
      PROVE  PumpsGroup(R, s, t, m)
  <2>1. t = NewGroup
    BY <1>5, <1>8
  <2>2. /\ ~t.known /\ t.waiters = <<>> /\ t.leases = <<>> /\ t.clocks = Quiet
    BY <2>1 DEF NewGroup
  <2>3. IdleFor(s.clocks) = RampTime
    BY <1>0, <1>8, TimerRange
  <2>4. Timed(R, t, m)
    BY <2>2, EmptyList DEF Timed, Pending
  <2>5. Range(s.waiters) \ up = {} /\ Range(s.leases) \cup up = {}
    BY <1>3, <1>4, <1>8, EmptyList
  <2>6. t \in GroupStates
    BY <2>1, QuietIs
  <2> QED BY <2>2, <2>3, <2>4, <2>5, <2>6, EmptyList DEF PumpsGroup, Known, up
<1>9. ASSUME leases = <<>> /\ waiters = <<>> /\ ForgetIn(s.clocks) # 0
      PROVE  PumpsGroup(R, s, t, m)
  <2>1. t = P(ForgetIn(s.clocks))
    BY <1>5, <1>9
  <2>2. ForgetIn(s.clocks) \in Unset..(IdleTime + RampTime + RampInterval)
    BY <1>0, TimerRange, RampLength DEF Unset
  <2>3. ~pending
    BY <1>9, EmptyList
  <2> QED BY <1>7, <2>1, <2>2, <2>3
<1>10. ASSUME ~(leases = <<>> /\ waiters = <<>>),
              pending /\ m = "adaptive" /\ Deadlines(s.clocks) # {}
       PROVE  PumpsGroup(R, s, t, m)
  <2>1. t = P(Min(Deadlines(s.clocks)))
    BY <1>5, <1>10
  <2>2. /\ Min(Deadlines(s.clocks)) \in 0..(IdleTime + RampTime + RampInterval)
        /\ \A d \in Deadlines(s.clocks) : Min(Deadlines(s.clocks)) <= d
    BY <1>0, <1>10, TimerRange
  <2>3. /\ Min(Deadlines(s.clocks)) \in Unset..(IdleTime + RampTime + RampInterval)
        /\ Min(Deadlines(s.clocks)) # Unset
    BY <2>2, RampLength DEF Unset
  <2> QED BY <1>7, <2>1, <2>2, <2>3
<1>11. ASSUME ~(leases = <<>> /\ waiters = <<>>),
              ~(pending /\ m = "adaptive" /\ Deadlines(s.clocks) # {})
       PROVE  PumpsGroup(R, s, t, m)
  <2>1. t = P(Unset)
    BY <1>5, <1>11
  <2>2. Unset \in Unset..(IdleTime + RampTime + RampInterval)
    BY RampLength DEF Unset
  <2> QED BY <1>7, <1>11, <2>1, <2>2
<1>12. PumpsGroup(R, s, t, m)
  BY <1>8, <1>9, <1>10, <1>11
<1> QED BY <1>12 DEF t

-----------------------------------------------------------------------------
(* After the pump nobody is left that could move.                          *)

SameClasses(R, S) == \A r \in Requests : S[r].class = R[r].class

Those(R, q, class) == {r \in Range(q) : R[r].class = class}

\* The entries of a class in a list, and their number.
LEMMA OfClassIs ==
    ASSUME NEW R, NEW q \in Seq(Requests), IsInjective(q), NEW class
    PROVE  /\ OfClass(R, q, class) \in Seq(Requests)
           /\ IsInjective(OfClass(R, q, class))
           /\ Range(OfClass(R, q, class)) = Those(R, q, class)
           /\ IsFiniteSet(Those(R, q, class))
           /\ Len(OfClass(R, q, class)) = Cardinality(Those(R, q, class))
<1> DEFINE C == {r \in Requests : R[r].class = class}
           k == Kept(q, C)
<1>1. k \in Seq(Requests) /\ IsInjective(k) /\ Range(k) = Range(q) \cap C
  BY KeptEntries
<1>2. Range(q) \cap C = Those(R, q, class)
  BY DEF Range, Those
<1> HIDE DEF C
<1>3. IsFiniteSet(Range(k)) /\ Cardinality(Range(k)) = Len(k)
  BY <1>1, Counted
<1>4. OfClass(R, q, class) = k
  BY DEF OfClass, C
<1> QED BY <1>1, <1>2, <1>3, <1>4

\* Who is of a higher class, and what the clocks say, is all that Held reads.
LEMMA HeldAlike ==
    ASSUME NEW R, NEW S, NEW s \in GroupStates, NEW t \in GroupStates, NEW class,
           SameClasses(R, S), Range(t.leases) \cup Range(t.waiters)
                                = Range(s.leases) \cup Range(s.waiters),
           t.clocks.foreground > 0 <=> s.clocks.foreground > 0,
           t.clocks.interactive > 0 <=> s.clocks.interactive > 0
    PROVE  Held(S, t, class) <=> Held(R, s, class)
<1>1. Range(s.leases) \cup Range(s.waiters) \subseteq Requests
  BY DEF GroupStates, Range
<1> QED BY <1>1 DEF Held, SameClasses

\* The standard waiters that are promoted are the first ones, up to the capacity.
LEMMA FirstOnes ==
    ASSUME NEW q \in Seq(Requests), IsInjective(q), NEW room \in Int, room < Len(q), room > 0
    PROVE  LET first == {q[i] : i \in {j \in DOMAIN q : j <= room}}
           IN IsFiniteSet(first) /\ Cardinality(first) = room
<1> DEFINE p == SubSeq(q, 1, room)
           first == {q[i] : i \in {j \in DOMAIN q : j <= room}}
<1>1. Len(q) \in Nat /\ DOMAIN q = 1..Len(q)
  OBVIOUS
<1>2. p \in Seq(Requests) /\ Len(p) = room /\ DOMAIN p = 1..room
  BY <1>1
<1>3. \A i \in 1..room : p[i] = q[i]
  BY <1>1
<1> HIDE DEF p
<1>4. IsInjective(p)
  BY <1>1, <1>2, <1>3 DEF IsInjective
<1>5. {j \in DOMAIN q : j <= room} = 1..room
  BY <1>1
<1>6. Range(p) = first
  BY <1>2, <1>3, <1>5 DEF Range
<1> QED BY <1>2, <1>4, <1>6, Counted

\* One pass of pump() is enough: whoever is still waiting after it would not be
\* promoted by another one.
LEMMA Fixpoint ==
    ASSUME NEW R \in [Requests -> ReqStates], NEW S \in [Requests -> ReqStates],
           SameClasses(R, S), NEW s \in GroupStates, NEW t \in GroupStates, NEW m,
           Separate(s), PumpsGroup(R, s, t, m)
    PROVE  Promoted(S, t, m) = {}
<1> DEFINE up == Promoted(R, s, m)
<1>1. SUFFICES ASSUME NEW r \in Promoted(S, t, m) PROVE FALSE
  OBVIOUS
<1>2. r \in Range(s.waiters) /\ r \notin up /\ r \in Requests
  <2>1. r \in Range(t.waiters)
    BY <1>1 DEF Promoted
  <2>2. Range(s.waiters) \subseteq Requests
    BY DEF GroupStates, Range
  <2> QED BY <2>1, <2>2 DEF PumpsGroup
<1>3. m = "adaptive"
  BY <1>2 DEF Promoted
<1>4. t.clocks = s.clocks
  <2>1. r \in Range(t.waiters)
    BY <1>1 DEF Promoted
  <2> QED BY <2>1 DEF PumpsGroup
<1>5. up \subseteq Range(s.waiters)
  BY DEF Promoted
<1>6. ~Held(R, s, R[r].class) /\ (R[r].class = "standard" => s.clocks.next = 0)
  <2>1. /\ ~Held(S, t, S[r].class)
        /\ S[r].class = "standard" => t.clocks.next = 0
    BY <1>1, <1>3 DEF Promoted
  <2>2. Range(t.leases) \cup Range(t.waiters) = Range(s.leases) \cup Range(s.waiters)
    BY <1>5 DEF PumpsGroup
  <2>3. S[r].class = R[r].class
    BY <1>2 DEF SameClasses
  <2> QED BY <1>4, <2>1, <2>2, <2>3, HeldAlike
<1>7. R[r].class = "standard"
  BY <1>2, <1>3, <1>6 DEF Promoted
<1> DEFINE standard == OfClass(R, s.waiters, "standard")
           old == OfClass(R, s.leases, "standard")
           new == OfClass(S, t.leases, "standard")
           left == OfClass(S, t.waiters, "standard")
           cap == CapacityAt(s.clocks)
           room == cap - Len(old)
           first == {standard[i] : i \in {j \in DOMAIN standard : j <= room}}
<1>8. /\ s.waiters \in Seq(Requests) /\ s.leases \in Seq(Requests)
      /\ t.waiters \in Seq(Requests) /\ t.leases \in Seq(Requests)
      /\ IsInjective(s.waiters) /\ IsInjective(s.leases)
      /\ IsInjective(t.waiters) /\ IsInjective(t.leases)
      /\ s.clocks \in Clocks
  BY DEF GroupStates, Separate, PumpsGroup
<1>9. /\ standard \in Seq(Requests) /\ IsInjective(standard)
      /\ Range(standard) = Those(R, s.waiters, "standard")
      /\ Len(standard) \in Nat
  <2>1. /\ standard \in Seq(Requests) /\ IsInjective(standard)
        /\ Range(standard) = Those(R, s.waiters, "standard")
    BY <1>8, OfClassIs
  <2> QED BY <2>1
<1>10. /\ old \in Seq(Requests) /\ Len(old) \in Nat
       /\ IsFiniteSet(Those(R, s.leases, "standard"))
       /\ Len(old) = Cardinality(Those(R, s.leases, "standard"))
  <2>1. /\ old \in Seq(Requests)
        /\ IsFiniteSet(Those(R, s.leases, "standard"))
        /\ Len(old) = Cardinality(Those(R, s.leases, "standard"))
    BY <1>8, OfClassIs
  <2> QED BY <2>1
<1>11. /\ new \in Seq(Requests) /\ Len(new) \in Nat
       /\ IsFiniteSet(Those(S, t.leases, "standard"))
       /\ Len(new) = Cardinality(Those(S, t.leases, "standard"))
  <2>1. /\ new \in Seq(Requests)
        /\ IsFiniteSet(Those(S, t.leases, "standard"))
        /\ Len(new) = Cardinality(Those(S, t.leases, "standard"))
    BY <1>8, OfClassIs
  <2> QED BY <2>1
<1>12. cap \in Int
  BY <1>8, CapacityIs, RampLength
<1>13. cap > Len(new)
  <2>1. r \in {left[i] : i \in {j \in DOMAIN left : j <= CapacityAt(t.clocks) - Len(new)}}
    <3>1. S[r].class = "standard"
      BY <1>2, <1>7 DEF SameClasses
    <3> QED BY <1>1, <1>3, <3>1 DEF Promoted
  <2>2. left \in Seq(Requests)
    BY <1>8, OfClassIs
  <2> HIDE DEF left, new, cap
  <2>3. PICK i \in DOMAIN left : i <= CapacityAt(t.clocks) - Len(new)
    BY <2>1
  <2>4. i \in Nat \ {0}
    BY <2>2
  <2>5. CapacityAt(t.clocks) = cap
    BY <1>4 DEF cap
  <2> QED BY <1>11, <1>12, <2>3, <2>4, <2>5
<1>14. /\ first \subseteq up /\ r \notin first /\ first \subseteq Range(standard)
  <2>1. first \subseteq Range(standard)
    BY DEF Range
  <2>2. ASSUME NEW q \in first PROVE q \in up
    <3>1. q \in Range(s.waiters) /\ R[q].class = "standard"
      BY <1>9, <2>1 DEF Those
    <3> QED BY <1>3, <1>6, <1>7, <3>1 DEF Promoted
  <2> QED BY <1>2, <2>1, <2>2
<1>15. room < Len(standard)
  <2>1. r \in Range(standard)
    BY <1>2, <1>7, <1>9 DEF Those
  <2> HIDE DEF standard, room
  <2>2. PICK i \in 1..Len(standard) : r = standard[i]
    BY <1>9, <2>1 DEF Range
  <2>3. ~(i <= room)
    BY <1>9, <1>14, <2>2
  <2>4. room \in Int
    BY <1>10, <1>12 DEF room
  <2> QED BY <1>9, <2>2, <2>3, <2>4
<1> DEFINE A == Those(R, s.leases, "standard")
           B == Those(S, t.leases, "standard")
<1>16. A \subseteq B /\ first \subseteq B /\ A \cap first = {}
  <2>1. Range(t.leases) = Range(s.leases) \cup up
    BY DEF PumpsGroup
  <2>2. Range(s.leases) \subseteq Requests /\ Range(s.waiters) \subseteq Requests
    BY <1>8 DEF Range
  <2>3. A \subseteq B
    BY <2>1, <2>2 DEF SameClasses, Those
  <2>4. first \subseteq B
    <3>1. \A q \in first : q \in Range(s.waiters) /\ R[q].class = "standard" /\ q \in up
      BY <1>9, <1>14 DEF Those
    <3> HIDE DEF first, up
    <3> QED BY <2>1, <2>2, <3>1 DEF SameClasses, Those
  <2>5. A \cap first = {}
    BY <1>9, <1>14 DEF Separate, Those
  <2> QED BY <2>3, <2>4, <2>5
<1>17. CASE room <= 0
  <2>1. Cardinality(A) <= Cardinality(B)
    BY <1>11, <1>16, FS_Subset
  <2> HIDE DEF A, B, old, new, cap, first
  <2>2. Len(old) <= Len(new)
    BY <1>10, <1>11, <2>1 DEF A, B
  <2> QED BY <1>10, <1>11, <1>12, <1>13, <1>17, <2>2
<1>18. CASE room > 0
  <2>1. IsFiniteSet(first) /\ Cardinality(first) = room
    <3>1. room \in Int
      BY <1>10, <1>12
    <3> HIDE DEF standard, room
    <3> QED BY <1>9, <1>15, <1>18, <3>1, FirstOnes
  <2> HIDE DEF A, B, old, new, cap, first
  <2>2. Cardinality(A \cup first) = Cardinality(A) + Cardinality(first)
        /\ IsFiniteSet(A \cup first)
    <3>1. Cardinality({}) = 0
      BY FS_EmptySet
    <3>2. IsFiniteSet(A) /\ Cardinality(A) \in Nat /\ Cardinality(first) \in Nat
      BY <1>10, <2>1, FS_CardinalityType DEF A
    <3>3. /\ IsFiniteSet(A \cup first)
          /\ Cardinality(A \cup first) = Cardinality(A) + Cardinality(first) - Cardinality(A \cap first)
      BY <2>1, <3>2, FS_Union
    <3>4. Cardinality(A \cap first) = 0
      BY <1>16, <3>1
    <3> QED BY <3>2, <3>3, <3>4
  <2>3. Cardinality(A \cup first) <= Cardinality(B)
    BY <1>11, <1>16, FS_Subset DEF B
  <2>4. Len(old) = Cardinality(A) /\ Len(new) = Cardinality(B)
    BY <1>10, <1>11 DEF A, B
  <2> QED BY <1>10, <1>11, <1>12, <1>13, <2>1, <2>2, <2>3, <2>4
<1>19. room \in Int
  BY <1>10, <1>12
<1> QED BY <1>17, <1>18, <1>19

-----------------------------------------------------------------------------
(* All groups.                                                             *)

\* The same requests run.
SameRunning(R, S) == \A r \in Requests : S[r].phase = "running" <=> R[r].phase = "running"

\* Who could move depends on the classes, the lists, and what the clocks say.
LEMMA ReadyAlike ==
    ASSUME NEW R, NEW S, NEW s \in GroupStates, NEW t \in GroupStates, NEW m,
           SameClasses(R, S), SameRunning(R, S), SameReadiness(s.clocks, t.clocks),
           t.leases = s.leases, t.waiters = s.waiters
    PROVE  /\ Promoted(S, t, m) = Promoted(R, s, m)
           /\ \A r \in Requests : ReadyFor(S, t, m, r) <=> ReadyFor(R, s, m, r)
<1>1. \A q, class : OfClass(S, q, class) = OfClass(R, q, class)
  <2>1. ASSUME NEW class
        PROVE  {r \in Requests : S[r].class = class} = {r \in Requests : R[r].class = class}
    BY DEF SameClasses
  <2> QED BY <2>1 DEF OfClass
<1>2. \A class : Held(S, t, class) <=> Held(R, s, class)
  BY HeldAlike DEF SameReadiness
<1>3. /\ CapacityAt(t.clocks) = CapacityAt(s.clocks)
      /\ t.clocks.next = 0 <=> s.clocks.next = 0
  BY DEF SameReadiness
<1>4. \A r \in Range(s.waiters) : S[r].class = R[r].class
  BY DEF GroupStates, Range, SameClasses
<1>5. Promoted(S, t, m) = Promoted(R, s, m)
  BY <1>1, <1>2, <1>3, <1>4 DEF Promoted
<1>6. ASSUME NEW r \in Requests PROVE ReadyFor(S, t, m, r) <=> ReadyFor(R, s, m, r)
  <2>1. S[r].class = R[r].class /\ (S[r].phase = "running" <=> R[r].phase = "running")
    BY DEF SameClasses, SameRunning
  <2>2. WithinCapacity(S, t, r) <=> WithinCapacity(R, s, r)
    BY <1>1, <1>3 DEF WithinCapacity
  <2> QED BY <1>2, <1>3, <2>1, <2>2 DEF ReadyFor
<1> QED BY <1>5, <1>6

\* Whether somebody has not started depends on the lists and on who runs.
LEMMA PendingAlike ==
    ASSUME NEW R, NEW S, NEW s \in GroupStates, NEW t \in GroupStates, SameRunning(R, S),
           t.leases = s.leases, t.waiters = s.waiters
    PROVE  Pending(S, t) <=> Pending(R, s)
<1>1. Range(s.leases) \subseteq Requests
  BY DEF GroupStates, Range
<1> QED BY <1>1 DEF Pending, SameRunning

\* The lists of a group share nobody.
LEMMA ListsSeparate ==
    ASSUME NEW R, NEW s, NEW g, Lists(R, s, g)
    PROVE  Separate(s)
BY DEF Lists, Separate

\* The pump makes of each group what it should.
LEMMA PumpEach ==
    ASSUME NEW R, NEW G, Tables(R, G), NEW m, NEW g \in Groups
    PROVE  PumpsGroup(R, G[g], Pump(R, G, m)[g], m)
<1> DEFINE s == G[g]
<1>0. Pump(R, G, m)[g] = IF s.known THEN PumpGroup(R, s, m) ELSE s
  BY DEF Pump
<1>1. /\ R \in [Requests -> ReqStates] /\ s \in GroupStates /\ Separate(s) /\ Known(s)
  BY ListsSeparate DEF Tables
<1> HIDE DEF s
<1>2. CASE s.known
  <2>1. PumpsGroup(R, s, PumpGroup(R, s, m), m)
    BY <1>1, <1>2, GroupPumped
  <2> QED BY <1>0, <1>2, <2>1 DEF s
<1>3. CASE ~s.known
  <2>1. s.waiters = <<>> /\ s.leases = <<>>
    BY <1>1, <1>3 DEF Known
  <2>2. Promoted(R, s, m) = {}
    BY <2>1, EmptyList DEF Promoted
  <2>3. Timed(R, s, m)
    BY <2>1, EmptyList DEF Timed, Pending
  <2>4. PumpsGroup(R, s, s, m)
    BY <1>1, <2>2, <2>3 DEF PumpsGroup, Separate
  <2> QED BY <1>0, <1>3, <2>4 DEF s
<1> QED BY <1>2, <1>3

\* What a nudge makes of the tables.
Waiting == {"waiting"} \cup Unstarted

SameOwners(R, S) ==
    \A r \in Requests : /\ S[r].class = R[r].class
                        /\ S[r].group = R[r].group
                        /\ S[r].phase \in Waiting <=> R[r].phase \in Waiting
                        /\ S[r].phase = "running" <=> R[r].phase = "running"

ClocksKept(G, H) ==
    \A g \in Groups : \/ H[g].clocks = G[g].clocks
                      \/ H[g].clocks = Quiet /\ IdleFor(G[g].clocks) = RampTime

NudgedTo(R, G, S, H, m) ==
    /\ Tables(S, H)
    /\ SameOwners(R, S)
    /\ ClocksKept(G, H)
    /\ ~closed => \A g \in Groups : Timed(S, H[g], m) /\ Settled(S, H[g], g, m)

\* The phases of the requests after the grants (S) and after the dispatch (T).
GrantedTo(R, G, S, T, m) ==
    /\ S \in [Requests -> ReqStates]
    /\ T \in [Requests -> ReqStates]
    /\ \A r \in Requests :
         /\ S[r].class = R[r].class /\ S[r].group = R[r].group
         /\ T[r].class = R[r].class /\ T[r].group = R[r].group
         /\ S[r].phase = IF R[r].phase = "waiting" /\ r \in Range(G[R[r].group].leases)
                         THEN "leased" ELSE R[r].phase
         /\ T[r].phase = IF S[r].phase = "parked" /\ ReadyFor(S, G[S[r].group], m, r)
                         THEN "admitting" ELSE S[r].phase
         /\ R[r].phase = "absent" => T[r] = R[r]

\* The promises that a nudge resolves move their requests on, and no others.
LEMMA GrantsAre ==
    ASSUME NEW R \in [Requests -> ReqStates], NEW G, NEW m
    PROVE  GrantedTo(R, G, Granted(R, G), Dispatched(Granted(R, G), G, m), m)
<1> DEFINE S == Granted(R, G)
           T == Dispatched(S, G, m)
<1>1. ASSUME NEW Q \in [Requests -> ReqStates], NEW r \in Requests, NEW p \in Phases
      PROVE  /\ [Q[r] EXCEPT !.phase = p] \in ReqStates
             /\ [Q[r] EXCEPT !.phase = p].phase = p
             /\ [Q[r] EXCEPT !.phase = p].class = Q[r].class
             /\ [Q[r] EXCEPT !.phase = p].group = Q[r].group
  <2>1. Q[r] \in [phase : Phases, class : Classes, group : Groups \cup {NoGroup}]
    BY DEF ReqStates
  <2> QED BY <2>1 DEF ReqStates
<1>2. "leased" \in Phases /\ "admitting" \in Phases
  BY DEF Phases, Unstarted
<1>3. S = [r \in Requests |->
             IF R[r].phase = "waiting" /\ r \in Range(G[R[r].group].leases)
             THEN [R[r] EXCEPT !.phase = "leased"] ELSE R[r]]
  BY DEF Granted
<1>4. S \in [Requests -> ReqStates]
  BY <1>1, <1>2, <1>3
<1>5. \A r \in Requests :
        /\ S[r].class = R[r].class /\ S[r].group = R[r].group
        /\ S[r].phase = IF R[r].phase = "waiting" /\ r \in Range(G[R[r].group].leases)
                        THEN "leased" ELSE R[r].phase
        /\ R[r].phase = "absent" => S[r] = R[r]
  BY <1>1, <1>2, <1>3
<1> HIDE DEF S
<1>6. T = [r \in Requests |->
             IF S[r].phase = "parked" /\ ReadyFor(S, G[S[r].group], m, r)
             THEN [S[r] EXCEPT !.phase = "admitting"] ELSE S[r]]
  BY DEF Dispatched
<1>7. T \in [Requests -> ReqStates]
  BY <1>1, <1>2, <1>4, <1>6
<1>8. \A r \in Requests :
        /\ T[r].class = S[r].class /\ T[r].group = S[r].group
        /\ T[r].phase = IF S[r].phase = "parked" /\ ReadyFor(S, G[S[r].group], m, r)
                        THEN "admitting" ELSE S[r].phase
        /\ S[r].phase = "absent" => T[r] = S[r]
  BY <1>1, <1>2, <1>4, <1>6
<1> HIDE DEF T
<1>9. \A r \in Requests : R[r].phase = "absent" => T[r] = R[r]
  BY <1>5, <1>8
<1>10. \A r \in Requests :
        /\ T[r].class = R[r].class /\ T[r].group = R[r].group
  BY <1>5, <1>8
<1>11. GrantedTo(R, G, S, T, m)
  BY <1>4, <1>5, <1>7, <1>8, <1>9, <1>10 DEF GrantedTo
<1> QED BY <1>11 DEF S, T

\* nudge() leaves the tables right, nobody behind who could move, and a timer in
\* every group that waits for a deadline.
LEMMA Nudged ==
    ASSUME NEW R, NEW G, Tables(R, G), NEW m, Nudge(R, G, m)
    PROVE  NudgedTo(R, G, req', groups', m)
<1>1. CASE closed
  <2>1. req' = R /\ groups' = G
    BY <1>1 DEF Nudge
  <2> QED BY <1>1, <2>1 DEF NudgedTo, SameOwners, ClocksKept
<1>2. CASE ~closed
  <2> DEFINE H == Pump(R, G, m)
             S == Granted(R, H)
             T == Dispatched(S, H, m)
  <2>1. req' = T /\ groups' = H
    BY <1>2 DEF Nudge
  <2>2. /\ R \in [Requests -> ReqStates] /\ Connected(R) /\ G \in [Groups -> GroupStates]
        /\ \A g \in Groups : Lists(R, G[g], g) /\ G[g] \in GroupStates
    BY DEF Tables
  <2>3. \A g \in Groups : PumpsGroup(R, G[g], H[g], m)
    BY PumpEach
  <2>4. H \in [Groups -> GroupStates]
    <3>1. H = [g \in Groups |-> H[g]]
      BY DEF Pump
    <3>2. \A g \in Groups : H[g] \in GroupStates
      BY <2>3 DEF PumpsGroup
    <3> HIDE DEF H
    <3> QED BY <3>1, <3>2
  <2>5. GrantedTo(R, H, S, T, m)
    BY <2>2, GrantsAre
  <2> HIDE DEF H, S, T
  <2>6. ASSUME NEW r \in Requests
        PROVE  /\ S[r].phase = "running" <=> R[r].phase = "running"
               /\ T[r].phase = "running" <=> R[r].phase = "running"
               /\ T[r].phase = "absent" <=> R[r].phase = "absent"
               /\ T[r].phase \in Waiting <=> R[r].phase \in Waiting
               /\ T[r].phase = "waiting" <=>
                    R[r].phase = "waiting" /\ r \notin Range(H[R[r].group].leases)
    BY <2>5 DEF Waiting, Unstarted, GrantedTo
  <2>7. SameClasses(R, S) /\ SameRunning(R, S) /\ SameClasses(R, T) /\ SameRunning(R, T)
        /\ SameClasses(S, T) /\ SameRunning(S, T)
    BY <2>5, <2>6 DEF GrantedTo, SameClasses, SameRunning
  <2>8. SameOwners(R, T)
    BY <2>5, <2>6 DEF GrantedTo, SameOwners
  <2>9. Connected(T)
    BY <2>2, <2>5, <2>6 DEF GrantedTo, Connected
  <2>10. ASSUME NEW g \in Groups PROVE Lists(T, H[g], g) /\ Known(H[g])
    <3> DEFINE up == Promoted(R, G[g], m)
               W == {r \in Requests : R[r].group = g /\ R[r].phase = "waiting"}
               L == {r \in Requests : R[r].group = g /\ R[r].phase # "waiting"}
    <3>1. W = Range(G[g].waiters) /\ L = Range(G[g].leases) /\ up \subseteq W
      BY <2>2 DEF Lists, Promoted
    <3>2. /\ Range(H[g].waiters) = W \ up /\ Range(H[g].leases) = L \cup up
          /\ IsInjective(H[g].waiters) /\ IsInjective(H[g].leases) /\ Known(H[g])
      BY <2>3, <3>1 DEF PumpsGroup
    <3> HIDE DEF up
    <3>3. ASSUME NEW r \in Requests, T[r].group = g
          PROVE  T[r].phase = "waiting" <=> r \in W \ up
      <4>1. R[r].group = g
        BY <2>5, <3>3 DEF GrantedTo
      <4> QED BY <2>6, <3>1, <3>2, <4>1
    <3>4. {r \in Requests : T[r].group = g /\ T[r].phase = "waiting"} = W \ up
      BY <2>5, <3>3 DEF GrantedTo
    <3>5. {r \in Requests : T[r].group = g /\ T[r].phase # "waiting"} = L \cup up
      <4>1. \A r \in Requests : T[r].group = R[r].group
        BY <2>5 DEF GrantedTo
      <4> QED BY <3>1, <3>3, <4>1
    <3> QED BY <3>2, <3>4, <3>5 DEF Lists
  <2>11. Tables(T, H)
    BY <2>4, <2>5, <2>9, <2>10 DEF GrantedTo, Tables
  <2>12. ClocksKept(G, H)
    BY <2>3 DEF PumpsGroup, ClocksKept
  <2>13. ASSUME NEW g \in Groups PROVE Timed(T, H[g], m)
    <3>1. Timed(R, H[g], m)
      BY <2>3 DEF PumpsGroup
    <3>2. Pending(T, H[g]) <=> Pending(R, H[g])
      BY <2>4, <2>7, PendingAlike
    <3> QED BY <3>1, <3>2 DEF Timed
  <2>14. ASSUME NEW g \in Groups PROVE Settled(T, H[g], g, m)
    <3>1. Promoted(T, H[g], m) = {}
      <4>1. Separate(G[g]) /\ G[g] \in GroupStates /\ H[g] \in GroupStates
        BY <2>2, <2>4, ListsSeparate
      <4> QED BY <2>2, <2>3, <2>5, <2>7, <4>1, Fixpoint DEF GrantedTo
    <3>2. ASSUME NEW r \in Requests, T[r].group = g, T[r].phase = "parked"
          PROVE  ~ReadyFor(T, H[g], m, r)
      <4>1. S[r].group = g /\ S[r].phase = "parked" /\ ~ReadyFor(S, H[g], m, r)
        BY <2>5, <3>2 DEF GrantedTo
      <4>2. SameReadiness(H[g].clocks, H[g].clocks)
        BY DEF SameReadiness
      <4>3. ReadyFor(T, H[g], m, r) <=> ReadyFor(S, H[g], m, r)
        BY <2>4, <2>7, <4>2, ReadyAlike
      <4> QED BY <4>1, <4>3
    <3> QED BY <3>1, <3>2 DEF Settled
  <2> QED BY <2>1, <2>8, <2>11, <2>12, <2>13, <2>14 DEF NudgedTo
<1> QED BY <1>1, <1>2

-----------------------------------------------------------------------------
(* What the methods do to the tables before they nudge.                    *)

\* Whoever waits for a start in a class of a group.
Occupants(R, g, class) ==
    {r \in Requests : R[r].group = g /\ R[r].class = class /\ R[r].phase \in Waiting}

RoomFor(R) ==
    \A g \in Groups, class \in Classes : Cardinality(Occupants(R, g, class)) <= Max({1, MaxQueued})

\* Those of a group are the entries of its lists, so they are finitely many.
LEMMA OccupantsAreFinite ==
    ASSUME NEW R, NEW G, Tables(R, G), NEW g \in Groups, NEW class
    PROVE  IsFiniteSet(Occupants(R, g, class))
<1>1. /\ G[g].waiters \in Seq(Requests) /\ G[g].leases \in Seq(Requests) /\ Lists(R, G[g], g)
  BY DEF Tables, GroupStates
<1>2. IsFiniteSet(Range(G[g].waiters)) /\ IsFiniteSet(Range(G[g].leases))
  BY <1>1, Counted DEF Lists
<1>3. Occupants(R, g, class) \subseteq Range(G[g].waiters) \cup Range(G[g].leases)
  BY <1>1 DEF Occupants, Lists
<1> QED BY <1>2, <1>3, FS_Union, FS_Subset

\* The waiting room stays bounded when nobody enters it.
LEMMA RoomShrinks ==
    ASSUME NEW R, NEW G, Tables(R, G), RoomFor(R), NEW S,
           \A g \in Groups, class \in Classes : Occupants(S, g, class) \subseteq Occupants(R, g, class)
    PROVE  RoomFor(S)
<1>1. SUFFICES ASSUME NEW g \in Groups, NEW class \in Classes
               PROVE  Cardinality(Occupants(S, g, class)) <= Max({1, MaxQueued})
  BY DEF RoomFor
<1>2. IsFiniteSet(Occupants(R, g, class))
  BY OccupantsAreFinite
<1>3. IsFiniteSet(Occupants(S, g, class))
      /\ Cardinality(Occupants(S, g, class)) <= Cardinality(Occupants(R, g, class))
  BY <1>2, FS_Subset
<1>4. Cardinality(Occupants(S, g, class)) \in Nat /\ Cardinality(Occupants(R, g, class)) \in Nat
  BY <1>2, <1>3, FS_CardinalityType
<1>5. Max({1, MaxQueued}) \in Int
  BY MaxOfTwo, RampLength
<1>6. Cardinality(Occupants(R, g, class)) <= Max({1, MaxQueued})
  BY DEF RoomFor
<1> QED BY <1>3, <1>4, <1>5, <1>6

\* The invariant in terms of the tables.
Sound(R, G, H) ==
    /\ Tables(R, G)
    /\ RoomFor(R)
    /\ H \in [Groups -> Histories]
    /\ \A g \in Groups : ClocksInv(G[g].clocks, H[g])

\* The invariant is that the tables are sound and, unless a nudge is due, that
\* every group is attended to.
LEMMA SchedulerInvIs ==
    SchedulerInv <=>
        /\ mode \in {"adaptive", "off"} /\ closed \in BOOLEAN /\ microNudge \in BOOLEAN
        /\ Sound(req, groups, history)
        /\ ~closed /\ ~microNudge => \A g \in Groups : Attended(req, groups[g], g, mode)
<1>1. RoomIsBounded <=> RoomFor(req)
  BY DEF RoomIsBounded, RoomFor, Present, Occupants, Waiting
<1> QED BY <1>1 DEF SchedulerInv, Sound

\* The same of the state after a step.
LEMMA SchedulerInvNext ==
    ASSUME mode' \in {"adaptive", "off"}, closed' \in BOOLEAN, microNudge' \in BOOLEAN,
           Sound(req', groups', history'),
           ~closed' /\ ~microNudge' => \A g \in Groups : Attended(req', groups'[g], g, mode')
    PROVE  SchedulerInv'
<1>1. (/\ mode \in {"adaptive", "off"} /\ closed \in BOOLEAN /\ microNudge \in BOOLEAN
       /\ Sound(req, groups, history)
       /\ ~closed /\ ~microNudge => \A g \in Groups : Attended(req, groups[g], g, mode))'
  OBVIOUS
<1> QED BY <1>1, SchedulerInvIs, PTL

\* A group that is forgotten loses clocks that had run out anyway.
LEMMA ForgottenClocks ==
    ASSUME NEW c \in Clocks, NEW h \in Histories, ClocksInv(c, h), IdleFor(c) = RampTime
    PROVE  ClocksInv(Quiet, h)
<1>1. /\ c.foreground \in -RampTime..IdleTime /\ c.interactive \in -RampTime..IdleTime
      /\ IdleFor(c) = IF c.foreground >= c.interactive THEN -c.foreground ELSE -c.interactive
      /\ RampTime \in Nat /\ IdleTime \in Nat
  BY Idleness, RampLength
<1>2. c.foreground = -RampTime /\ c.interactive = -RampTime
  BY <1>1
<1>3. Quiet.foreground = -RampTime /\ Quiet.interactive = -RampTime
  BY DEF Quiet
<1> QED BY <1>1, <1>2, <1>3, QuietIs DEF ClocksInv

\* A method that ends in a nudge keeps the invariant if what it does before
\* the nudge leaves the tables sound.
LEMMA NudgeKeeps ==
    ASSUME NEW R, NEW G, NEW m, Sound(R, G, history'), Nudge(R, G, m),
           m \in {"adaptive", "off"}, mode' = m, closed \in BOOLEAN, closed' = closed,
           microNudge' \in BOOLEAN
    PROVE  SchedulerInv'
<1>1. NudgedTo(R, G, req', groups', m)
  BY Nudged DEF Sound
<1>2. Tables(R, G) /\ Tables(req', groups') /\ SameOwners(R, req') /\ ClocksKept(G, groups')
  BY <1>1 DEF NudgedTo, Sound
<1>3. \A g \in Groups, class \in Classes : Occupants(req', g, class) = Occupants(R, g, class)
  BY <1>2 DEF SameOwners, Occupants
<1>4. RoomFor(req')
  BY <1>3 DEF Sound, RoomFor
<1>5. ASSUME NEW g \in Groups PROVE ClocksInv(groups'[g].clocks, history'[g])
  <2>1. /\ G[g].clocks \in Clocks /\ history'[g] \in Histories
        /\ ClocksInv(G[g].clocks, history'[g])
    BY <1>2 DEF Sound, Tables, GroupStates
  <2> QED BY <1>2, <2>1, ForgottenClocks DEF ClocksKept
<1>6. Sound(req', groups', history')
  BY <1>2, <1>4, <1>5 DEF Sound
<1>7. ~closed' => \A g \in Groups : Attended(req', groups'[g], g, mode')
  BY <1>1 DEF NudgedTo, Attended
<1> QED BY <1>6, <1>7, SchedulerInvNext

\* An entry leaves its list, and its connection is free again.
LEMMA Left ==
    ASSUME NEW R, NEW G, Tables(R, G), NEW r \in Requests, NEW g \in Groups,
           R[r].group = g, R[r].phase # "absent",
           NEW s \in GroupStates, Known(s),
           Range(s.waiters) = Range(G[g].waiters) \ {r}, IsInjective(s.waiters),
           Range(s.leases) = Range(G[g].leases) \ {r}, IsInjective(s.leases)
    PROVE  Tables([R EXCEPT ![r] = Absent], [G EXCEPT ![g] = s])
<1> DEFINE S == [R EXCEPT ![r] = Absent]
           H == [G EXCEPT ![g] = s]
<1>1. Absent \in ReqStates /\ Absent.phase = "absent" /\ Absent.group \notin Groups
  BY SettingsAssumption DEF Absent, ReqStates, Phases, Classes
<1>2. R \in [Requests -> ReqStates] /\ Connected(R) /\ G \in [Groups -> GroupStates]
      /\ \A h \in Groups : Lists(R, G[h], h) /\ Known(G[h])
  BY DEF Tables
<1>3. /\ S \in [Requests -> ReqStates] /\ H \in [Groups -> GroupStates]
      /\ S[r] = Absent /\ \A q \in Requests \ {r} : S[q] = R[q]
      /\ H[g] = s /\ \A h \in Groups \ {g} : H[h] = G[h]
  BY <1>1, <1>2
<1> HIDE DEF S, H
<1>4. Connected(S)
  BY <1>1, <1>2, <1>3 DEF Connected
<1>5. ASSUME NEW h \in Groups PROVE Lists(S, H[h], h) /\ Known(H[h])
  <2>1. CASE h = g
    <3>1. {q \in Requests : S[q].group = g /\ S[q].phase = "waiting"}
             = {q \in Requests : R[q].group = g /\ R[q].phase = "waiting"} \ {r}
      BY <1>1, <1>3
    <3>2. {q \in Requests : S[q].group = g /\ S[q].phase # "waiting"}
             = {q \in Requests : R[q].group = g /\ R[q].phase # "waiting"} \ {r}
      BY <1>1, <1>3
    <3>3. Lists(R, G[g], g)
      BY <1>2
    <3> QED BY <1>3, <2>1, <3>1, <3>2, <3>3 DEF Lists
  <2>2. CASE h # g
    <3>1. {q \in Requests : S[q].group = h /\ S[q].phase = "waiting"}
             = {q \in Requests : R[q].group = h /\ R[q].phase = "waiting"}
      BY <1>1, <1>3, <2>2
    <3>2. {q \in Requests : S[q].group = h /\ S[q].phase # "waiting"}
             = {q \in Requests : R[q].group = h /\ R[q].phase # "waiting"}
      BY <1>1, <1>3, <2>2
    <3>3. Lists(R, G[h], h) /\ Known(G[h]) /\ H[h] = G[h]
      BY <1>2, <1>3, <2>2
    <3> QED BY <3>1, <3>2, <3>3 DEF Lists
  <2> QED BY <2>1, <2>2
<1>6. Tables(S, H)
  BY <1>3, <1>4, <1>5 DEF Tables
<1> QED BY <1>6 DEF S, H

\* The owner of a lease moves on.
Moved(R, r, p) == [R EXCEPT ![r].phase = p]

\* It stays in the lists of its group.
LEMMA MovedOn ==
    ASSUME NEW R, NEW G, Tables(R, G), NEW r \in Requests, NEW p \in Unstarted \cup {"running"},
           R[r].phase \in Unstarted \cup {"running"}
    PROVE  /\ Tables(Moved(R, r, p), G)
           /\ Moved(R, r, p)[r].phase = p
           /\ \A q \in Requests : /\ Moved(R, r, p)[q].class = R[q].class
                                  /\ Moved(R, r, p)[q].group = R[q].group
                                  /\ q # r => Moved(R, r, p)[q].phase = R[q].phase
<1> DEFINE S == [R EXCEPT ![r].phase = p]
<1>1. R \in [Requests -> ReqStates] /\ Connected(R) /\ G \in [Groups -> GroupStates]
      /\ \A h \in Groups : Lists(R, G[h], h) /\ Known(G[h])
  BY DEF Tables
<1>2. p \in Phases /\ p \notin {"absent", "waiting"} /\ R[r].phase \notin {"absent", "waiting"}
  BY DEF Phases, Unstarted
<1>3. /\ [R[r] EXCEPT !.phase = p] \in ReqStates
      /\ [R[r] EXCEPT !.phase = p].phase = p
      /\ [R[r] EXCEPT !.phase = p].class = R[r].class
      /\ [R[r] EXCEPT !.phase = p].group = R[r].group
  <2>1. R[r] \in [phase : Phases, class : Classes, group : Groups \cup {NoGroup}]
    BY <1>1 DEF ReqStates
  <2> QED BY <1>2, <2>1 DEF ReqStates
<1>4. S = [q \in Requests |-> IF q = r THEN [R[r] EXCEPT !.phase = p] ELSE R[q]]
  BY <1>1
<1> HIDE DEF S
<1>5. /\ S \in [Requests -> ReqStates] /\ S[r].phase = p
      /\ \A q \in Requests : /\ S[q].class = R[q].class /\ S[q].group = R[q].group
                             /\ q # r => S[q] = R[q]
  BY <1>1, <1>3, <1>4
<1>6. Connected(S)
  BY <1>1, <1>2, <1>5 DEF Connected
<1>7. ASSUME NEW h \in Groups PROVE Lists(S, G[h], h)
  <2>1. {q \in Requests : S[q].group = h /\ S[q].phase = "waiting"}
             = {q \in Requests : R[q].group = h /\ R[q].phase = "waiting"}
    BY <1>2, <1>5
  <2>2. {q \in Requests : S[q].group = h /\ S[q].phase # "waiting"}
             = {q \in Requests : R[q].group = h /\ R[q].phase # "waiting"}
    BY <1>2, <1>5
  <2> QED BY <1>1, <2>1, <2>2 DEF Lists
<1>8. Tables(S, G)
  BY <1>1, <1>5, <1>6, <1>7 DEF Tables
<1>9. S = Moved(R, r, p)
  BY DEF S, Moved
<1> QED BY <1>5, <1>8, <1>9

\* Groups change, and their lists do not.
LEMMA Regrouped ==
    ASSUME NEW R, NEW G, Tables(R, G), NEW H \in [Groups -> GroupStates],
           \A g \in Groups : /\ H[g].leases = G[g].leases /\ H[g].waiters = G[g].waiters
                             /\ G[g].known => H[g].known
    PROVE  Tables(R, H)
BY DEF Tables, Lists, Known

\* Nobody moves, and no clock: whoever was attended to still is.
LEMMA AttendedAlike ==
    ASSUME NEW R, NEW S, NEW s \in GroupStates, NEW t \in GroupStates, NEW g, NEW m,
           SameClasses(R, S), SameRunning(R, S), t.leases = s.leases, t.waiters = s.waiters,
           \A r \in Requests : S[r].group = g /\ S[r].phase = "parked"
                                  => R[r].group = g /\ R[r].phase = "parked",
           t.clocks = s.clocks, t.timer = s.timer, Attended(R, s, g, m)
    PROVE  Attended(S, t, g, m)
<1>1. SameReadiness(s.clocks, t.clocks)
  BY DEF SameReadiness
<1>2. /\ Promoted(S, t, m) = Promoted(R, s, m)
      /\ \A r \in Requests : ReadyFor(S, t, m, r) <=> ReadyFor(R, s, m, r)
  BY <1>1, ReadyAlike
<1>3. Pending(S, t) <=> Pending(R, s)
  BY PendingAlike
<1>4. Timed(S, t, m)
  BY <1>3 DEF Attended, Timed
<1>5. Settled(R, s, g, m) => Settled(S, t, g, m)
  BY <1>2 DEF Settled
<1> QED BY <1>4, <1>5 DEF Attended

\* One unit of time, for a group: what was attended to still is.
LEMMA AttendedElapse ==
    ASSUME NEW R, NEW s \in GroupStates, NEW t \in GroupStates, NEW g \in Groups, NEW m,
           Lists(R, s, g), t.leases = s.leases, t.waiters = s.waiters,
           t.clocks = Elapsed(s.clocks),
           t.timer = IF s.timer > 0 THEN s.timer - 1 ELSE s.timer,
           Attended(R, s, g, m)
    PROVE  Attended(R, t, g, m)
<1>1. /\ s.clocks \in Clocks /\ s.timer \in Unset..(IdleTime + RampTime + RampInterval)
      /\ Range(s.leases) \subseteq Requests
  BY DEF GroupStates, Range
<1>2. s.timer \in Int /\ t.timer \in Int
  BY <1>1, RampLength DEF Unset
<1>3. SameClasses(R, R) /\ SameRunning(R, R)
  BY DEF SameClasses, SameRunning
<1>4. CASE m # "adaptive"
  <2>1. Timed(R, t, m)
    BY <1>4 DEF Timed
  <2>2. Promoted(R, t, m) = Promoted(R, s, m)
    BY <1>4 DEF Promoted
  <2>3. \A r \in Requests : ReadyFor(R, t, m, r) <=> ReadyFor(R, s, m, r)
    BY <1>4 DEF ReadyFor
  <2>4. Settled(R, s, g, m) => Settled(R, t, g, m)
    BY <2>2, <2>3 DEF Settled
  <2>5. s.timer = 0 => t.timer = 0
    OBVIOUS
  <2> QED BY <2>1, <2>4, <2>5 DEF Attended
<1>5. CASE ~Pending(R, s)
  <2>1. ~Pending(R, t)
    BY <1>3, <1>5, PendingAlike
  <2>2. Promoted(R, t, m) = {}
    BY <1>5, EmptyList DEF Pending, Promoted
  <2>3. \A r \in Requests : ~(R[r].group = g /\ R[r].phase = "parked")
    BY <1>5 DEF Pending, Lists
  <2> QED BY <2>1, <2>2, <2>3 DEF Attended, Timed, Settled
<1>6. CASE m = "adaptive" /\ Pending(R, s)
  <2>1. \A d \in Deadlines(s.clocks) : s.timer # Unset /\ s.timer <= d /\ d \in Nat \ {0}
    BY <1>1, <1>6, DeadlinesAre DEF Attended, Timed
  <2>2. t.clocks \in Clocks /\ \A d \in Deadlines(t.clocks) : d \in Nat \ {0}
    BY <1>1, ClocksElapse, DeadlinesAre
  <2>3. CASE s.timer \in {0, 1}
    <3>1. t.timer = 0 /\ Unset # 0
      BY <2>3 DEF Unset
    <3>2. \A d \in Deadlines(t.clocks) : t.timer # Unset /\ t.timer <= d
      BY <2>2, <3>1
    <3>3. Timed(R, t, m)
      BY <3>2 DEF Timed
    <3> QED BY <3>1, <3>3 DEF Attended
  <2>4. CASE s.timer \notin {0, 1}
    <3>1. s.timer = Unset \/ s.timer > 1
      BY <1>1, <1>2, <2>4, RampLength DEF Unset
    <3>2. \A d \in Deadlines(s.clocks) : d > 1
      BY <1>2, <2>1, <3>1
    <3>3. /\ SameReadiness(s.clocks, t.clocks)
          /\ \A d \in Deadlines(t.clocks) : \E e \in Deadlines(s.clocks) : e <= d + 1
      BY <1>1, <3>2, UntilDeadline
    <3>4. ASSUME NEW d \in Deadlines(t.clocks) PROVE t.timer # Unset /\ t.timer <= d
      <4>1. PICK e \in Deadlines(s.clocks) : e <= d + 1
        BY <3>3
      <4>2. s.timer > 1 /\ s.timer <= e /\ e \in Nat /\ d \in Nat
        BY <2>1, <2>2, <3>1
      <4> QED BY <1>2, <4>1, <4>2 DEF Unset
    <3>5. Settled(R, s, g, m)
      BY <2>4 DEF Attended
    <3>6. Settled(R, t, g, m)
      BY <1>3, <3>3, <3>5, ReadyAlike DEF Settled
    <3> QED BY <3>4, <3>6 DEF Attended, Timed
  <2> QED BY <2>3, <2>4
<1> QED BY <1>4, <1>5, <1>6

-----------------------------------------------------------------------------
(* The clocks and their histories.                                         *)

\* One unit of time.
LEMMA ClocksInvElapse ==
    ASSUME NEW c \in Clocks, NEW h \in Histories, ClocksInv(c, h), NEW k \in Histories,
           k.foreground = Min({h.foreground + 1, HistoryTime}),
           k.interactive = Min({h.interactive + 1, HistoryTime}),
           k.start = Min({h.start + 1, RampInterval})
    PROVE  ClocksInv(Elapsed(c), k)
<1>1. /\ c.foreground \in -RampTime..IdleTime /\ c.interactive \in -RampTime..IdleTime
      /\ c.next \in 0..RampInterval
      /\ RampTime \in Nat /\ IdleTime \in Nat /\ RampInterval \in Nat
      /\ HistoryTime = IdleTime + RampTime /\ IdleFor(c) \in Int
  BY Idleness, RampLength
<1>2. /\ h.foreground \in 0..HistoryTime /\ h.interactive \in 0..HistoryTime
      /\ h.start \in 0..RampInterval
  BY DEF Histories
<1>3. /\ k.foreground = IF h.foreground + 1 <= HistoryTime THEN h.foreground + 1 ELSE HistoryTime
      /\ k.interactive = IF h.interactive + 1 <= HistoryTime THEN h.interactive + 1 ELSE HistoryTime
      /\ k.start = IF h.start + 1 <= RampInterval THEN h.start + 1 ELSE RampInterval
  BY <1>1, <1>2, MinOfTwo
<1> DEFINE e == Elapsed(c)
<1>4. /\ e.foreground = IF c.foreground > -RampTime THEN c.foreground - 1 ELSE -RampTime
      /\ e.interactive = IF c.interactive > -RampTime THEN c.interactive - 1 ELSE -RampTime
      /\ e.next = IF c.next > 0 THEN c.next - 1 ELSE 0
      /\ IdleFor(e) \in {IdleFor(c), IdleFor(c) + 1}
  BY ClocksElapse
<1> HIDE DEF e
<1>5. k.foreground + e.foreground = IdleTime
  BY <1>1, <1>2, <1>3, <1>4 DEF ClocksInv
<1>6. k.interactive + e.interactive = IdleTime
  BY <1>1, <1>2, <1>3, <1>4 DEF ClocksInv
<1>7. IdleFor(e) >= RampTime \/ k.start + e.next >= RampInterval
  BY <1>1, <1>2, <1>3, <1>4 DEF ClocksInv
<1> QED BY <1>5, <1>6, <1>7 DEF ClocksInv, e

\* A start is recorded, and paces the next one while the group recovers.
LEMMA ClocksInvStart ==
    ASSUME NEW c \in Clocks, NEW h \in Histories, ClocksInv(c, h), NEW class \in Classes,
           NEW k \in Histories, k.foreground = h.foreground, k.interactive = h.interactive,
           k.start = IF class = "standard" THEN 0 ELSE h.start
    PROVE  AfterStart(c, class) \in Clocks /\ ClocksInv(AfterStart(c, class), k)
<1>1. RampInterval \in 0..RampInterval /\ RampInterval \in Nat /\ RampTime \in Nat
      /\ IdleFor(c) \in Int
  BY Idleness, RampLength
<1>2. CASE class = "standard" /\ IdleFor(c) < RampTime
  <2> DEFINE e == [c EXCEPT !.next = RampInterval]
  <2>1. /\ e \in Clocks /\ e.next = RampInterval
        /\ e.foreground = c.foreground /\ e.interactive = c.interactive
    BY <1>1 DEF Clocks
  <2>2. AfterStart(c, class) = e
    BY <1>2 DEF AfterStart
  <2> HIDE DEF e
  <2>3. k.start + e.next >= RampInterval
    BY <1>1, <1>2, <2>1
  <2> QED BY <2>1, <2>2, <2>3 DEF ClocksInv
<1>3. CASE class = "standard" /\ ~(IdleFor(c) < RampTime)
  <2>1. AfterStart(c, class) = c /\ IdleFor(c) >= RampTime
    BY <1>1, <1>3 DEF AfterStart
  <2> QED BY <2>1 DEF ClocksInv
<1>4. CASE class # "standard"
  <2>1. AfterStart(c, class) = c
    BY <1>4 DEF AfterStart
  <2> QED BY <1>4, <2>1 DEF ClocksInv
<1> QED BY <1>2, <1>3, <1>4

\* A lease of a higher class that ends starts its cooldown, and ends the pacing.
LEMMA ClocksInvRelease ==
    ASSUME NEW c \in Clocks, NEW h \in Histories, ClocksInv(c, h), NEW class \in Classes
    PROVE  /\ AfterRelease(c, class) \in Clocks
           /\ class = "standard" => ClocksInv(AfterRelease(c, class), h)
           /\ class # "standard" =>
                /\ [h EXCEPT ![class] = 0, !.start = RampInterval] \in Histories
                /\ ClocksInv(AfterRelease(c, class), [h EXCEPT ![class] = 0, !.start = RampInterval])
<1>1. /\ RampInterval \in Nat /\ RampTime \in Nat /\ IdleTime \in Nat /\ HistoryTime \in Nat
      /\ 0 \in 0..RampInterval /\ RampInterval \in 0..RampInterval
      /\ IdleTime \in -RampTime..IdleTime /\ 0 \in 0..HistoryTime
  BY RampLength
<1>2. CASE class = "standard"
  BY <1>2 DEF AfterRelease
<1> DEFINE e == [c EXCEPT ![class] = IdleTime, !.next = 0]
           k == [h EXCEPT ![class] = 0, !.start = RampInterval]
<1>3. CASE class = "foreground"
  <2>1. /\ e \in Clocks /\ e.next = 0
        /\ e.foreground = IdleTime /\ e.interactive = c.interactive
    BY <1>1, <1>3 DEF Clocks
  <2>2. /\ k \in Histories /\ k.start = RampInterval
        /\ k.foreground = 0 /\ k.interactive = h.interactive
    BY <1>1, <1>3 DEF Histories
  <2>3. AfterRelease(c, class) = e
    BY <1>3 DEF AfterRelease
  <2> HIDE DEF e, k
  <2>4. ClocksInv(e, k)
    BY <1>1, <2>1, <2>2 DEF ClocksInv
  <2> QED BY <1>3, <2>1, <2>2, <2>3, <2>4 DEF k
<1>4. CASE class = "interactive"
  <2>1. /\ e \in Clocks /\ e.next = 0
        /\ e.interactive = IdleTime /\ e.foreground = c.foreground
    BY <1>1, <1>4 DEF Clocks
  <2>2. /\ k \in Histories /\ k.start = RampInterval
        /\ k.interactive = 0 /\ k.foreground = h.foreground
    BY <1>1, <1>4 DEF Histories
  <2>3. AfterRelease(c, class) = e
    BY <1>4 DEF AfterRelease
  <2> HIDE DEF e, k
  <2>4. ClocksInv(e, k)
    BY <1>1, <2>1, <2>2 DEF ClocksInv
  <2> QED BY <1>4, <2>1, <2>2, <2>3, <2>4 DEF k
<1> QED BY <1>2, <1>3, <1>4 DEF Classes

-----------------------------------------------------------------------------
(* Every step keeps the invariant.                                         *)

\* The calls on a group leave its other fields alone.
LEMMA Fields ==
    ASSUME NEW s \in GroupStates
    PROVE  /\ [s EXCEPT !.known = TRUE] \in GroupStates
           /\ [s EXCEPT !.timer = Unset] \in GroupStates
           /\ \A w \in Seq(Requests) : /\ [s EXCEPT !.known = TRUE, !.waiters = w] \in GroupStates
                                       /\ [s EXCEPT !.waiters = w] \in GroupStates
           /\ \A c \in Clocks : [s EXCEPT !.clocks = c] \in GroupStates
           /\ \A l \in Seq(Requests), c \in Clocks :
                [s EXCEPT !.leases = l, !.clocks = c] \in GroupStates
<1> DEFINE T == Unset..(IdleTime + RampTime + RampInterval)
<1>1. /\ s \in [known : BOOLEAN, waiters : Seq(Requests), leases : Seq(Requests),
                clocks : Clocks, timer : T]
      /\ Unset \in T
  BY RampLength DEF GroupStates, Unset
<1> HIDE DEF T
<1>2. [s EXCEPT !.known = TRUE] \in [known : BOOLEAN, waiters : Seq(Requests),
            leases : Seq(Requests), clocks : Clocks, timer : T]
  BY <1>1
<1>3. [s EXCEPT !.timer = Unset] \in [known : BOOLEAN, waiters : Seq(Requests),
            leases : Seq(Requests), clocks : Clocks, timer : T]
  BY <1>1
<1>4. ASSUME NEW w \in Seq(Requests)
      PROVE  /\ [s EXCEPT !.known = TRUE, !.waiters = w] \in [known : BOOLEAN,
                   waiters : Seq(Requests), leases : Seq(Requests), clocks : Clocks, timer : T]
             /\ [s EXCEPT !.waiters = w] \in [known : BOOLEAN,
                   waiters : Seq(Requests), leases : Seq(Requests), clocks : Clocks, timer : T]
  BY <1>1
<1>5. ASSUME NEW c \in Clocks
      PROVE  [s EXCEPT !.clocks = c] \in [known : BOOLEAN, waiters : Seq(Requests),
                   leases : Seq(Requests), clocks : Clocks, timer : T]
  BY <1>1
<1>6. ASSUME NEW l \in Seq(Requests), NEW c \in Clocks
      PROVE  [s EXCEPT !.leases = l, !.clocks = c] \in [known : BOOLEAN,
                   waiters : Seq(Requests), leases : Seq(Requests), clocks : Clocks, timer : T]
  BY <1>1
<1> QED BY <1>2, <1>3, <1>4, <1>5, <1>6 DEF GroupStates, T

\* A refused call only leaves a known group.
LEMMA StepRefuse ==
    ASSUME SchedulerInv, NEW class \in Classes, NEW g \in Groups, Refuse(class, g)
    PROVE  SchedulerInv'
<1>1. /\ mode \in {"adaptive", "off"} /\ closed \in BOOLEAN /\ microNudge \in BOOLEAN
      /\ Sound(req, groups, history)
      /\ ~closed /\ ~microNudge => \A h \in Groups : Attended(req, groups[h], h, mode)
  BY SchedulerInvIs
<1>2. /\ groups' = [groups EXCEPT ![g].known = TRUE]
      /\ mode' = mode /\ closed' = closed /\ req' = req
      /\ microNudge' = microNudge /\ history' = history
  BY DEF Refuse
<1>3. groups \in [Groups -> GroupStates]
  BY <1>1 DEF Sound, Tables
<1>4. /\ groups' \in [Groups -> GroupStates]
      /\ \A h \in Groups : /\ groups'[h].leases = groups[h].leases
                           /\ groups'[h].waiters = groups[h].waiters
                           /\ groups'[h].clocks = groups[h].clocks
                           /\ groups'[h].timer = groups[h].timer
                           /\ groups[h].known => groups'[h].known
  <2> DEFINE s == [groups[g] EXCEPT !.known = TRUE]
  <2>1. s \in GroupStates /\ groups[g] \in GroupStates
    BY <1>3, Fields
  <2>2. /\ s.leases = groups[g].leases /\ s.waiters = groups[g].waiters /\ s.known = TRUE
        /\ s.clocks = groups[g].clocks /\ s.timer = groups[g].timer
    BY <2>1 DEF GroupStates
  <2>3. groups' = [groups EXCEPT ![g] = s]
    BY <1>2
  <2> HIDE DEF s
  <2>4. groups' \in [Groups -> GroupStates]
    BY <1>3, <2>1, <2>3
  <2>5. ASSUME NEW h \in Groups PROVE groups'[h] = IF h = g THEN s ELSE groups[h]
    BY <1>3, <2>3
  <2> QED BY <2>2, <2>4, <2>5
<1>5. Tables(req, groups')
  BY <1>1, <1>4, Regrouped DEF Sound
<1>6. Sound(req, groups', history)
  BY <1>1, <1>4, <1>5 DEF Sound
<1>7. ASSUME NEW h \in Groups, Attended(req, groups[h], h, mode)
      PROVE  Attended(req, groups'[h], h, mode)
  <2>1. SameClasses(req, req) /\ SameRunning(req, req)
    BY DEF SameClasses, SameRunning
  <2>2. groups[h] \in GroupStates /\ groups'[h] \in GroupStates
    BY <1>3, <1>4
  <2> QED BY <1>4, <1>7, <2>1, <2>2, AttendedAlike
<1> QED BY <1>1, <1>2, <1>6, <1>7, SchedulerInvNext

\* A request that moves on by itself, and starts nothing.
LEMMA StepMoves ==
    ASSUME SchedulerInv, NEW r \in Requests, NEW p \in {"leased", "admitting"},
           req[r].phase \in {"leased", "admitting"}, req' = Moved(req, r, p),
           UNCHANGED <<mode, closed, groups, microNudge, history>>
    PROVE  SchedulerInv'
<1>1. /\ mode \in {"adaptive", "off"} /\ closed \in BOOLEAN /\ microNudge \in BOOLEAN
      /\ Sound(req, groups, history)
      /\ ~closed /\ ~microNudge => \A h \in Groups : Attended(req, groups[h], h, mode)
  BY SchedulerInvIs
<1>2. Tables(req, groups)
  BY <1>1 DEF Sound
<1>3. p \in Unstarted \cup {"running"} /\ req[r].phase \in Unstarted \cup {"running"}
  BY DEF Unstarted
<1>4. /\ Tables(req', groups)
      /\ req'[r].phase = p
      /\ \A q \in Requests : /\ req'[q].class = req[q].class
                             /\ req'[q].group = req[q].group
                             /\ q # r => req'[q].phase = req[q].phase
  BY <1>2, <1>3, MovedOn
<1>5. \A g \in Groups, class \in Classes : Occupants(req', g, class) \subseteq Occupants(req, g, class)
  <2>1. req[r].phase \in Waiting
    BY DEF Waiting, Unstarted
  <2> QED BY <1>4, <2>1 DEF Occupants
<1>6. Sound(req', groups, history)
  <2>1. RoomFor(req')
    BY <1>1, <1>2, <1>5, RoomShrinks DEF Sound
  <2> QED BY <1>1, <1>4, <2>1 DEF Sound
<1>7. ASSUME NEW h \in Groups, Attended(req, groups[h], h, mode)
      PROVE  Attended(req', groups[h], h, mode)
  <2>1. SameClasses(req, req') /\ SameRunning(req, req')
    BY <1>4 DEF SameClasses, SameRunning
  <2>2. \A q \in Requests : req'[q].group = h /\ req'[q].phase = "parked"
                              => req[q].group = h /\ req[q].phase = "parked"
    BY <1>4
  <2>3. groups[h] \in GroupStates
    BY <1>2 DEF Tables
  <2> QED BY <1>7, <2>1, <2>2, <2>3, AttendedAlike
<1> QED BY <1>1, <1>6, <1>7, SchedulerInvNext

\* The owner of a lease asks whether it may go on: it does, or parks.
LEMMA StepResume ==
    ASSUME SchedulerInv, NEW r \in Requests, Resume(r)
    PROVE  SchedulerInv'
<1>1. /\ mode \in {"adaptive", "off"} /\ closed \in BOOLEAN /\ microNudge \in BOOLEAN
      /\ Sound(req, groups, history)
  BY SchedulerInvIs
<1>2. CASE ReadyFor(req, groups[req[r].group], mode, r)
  <2>1. req' = Moved(req, r, "admitting") /\ groups' = groups
    BY <1>2 DEF Resume, Moved
  <2>2. req[r].phase = "leased" /\ UNCHANGED <<mode, closed, microNudge, history>>
    BY DEF Resume
  <2> QED BY <2>1, <2>2, StepMoves
<1>3. CASE ~ReadyFor(req, groups[req[r].group], mode, r)
  <2> DEFINE R == Moved(req, r, "parked")
  <2>1. Nudge(R, groups, mode)
    BY <1>3 DEF Resume, Moved
  <2>2. req[r].phase = "leased" /\ UNCHANGED <<mode, closed, microNudge, history>>
    BY DEF Resume
  <2>3. "parked" \in Unstarted /\ req[r].phase \in Unstarted
    BY <2>2 DEF Unstarted
  <2>4. /\ Tables(R, groups)
        /\ \A q \in Requests : /\ R[q].class = req[q].class
                               /\ R[q].group = req[q].group
                               /\ q # r => R[q].phase = req[q].phase
    BY <1>1, <2>3, MovedOn DEF Sound
  <2> HIDE DEF R
  <2>5. \A g \in Groups, class \in Classes : Occupants(R, g, class) \subseteq Occupants(req, g, class)
    BY <2>3, <2>4 DEF Occupants, Waiting
  <2>6. RoomFor(R)
    BY <1>1, <2>5, RoomShrinks DEF Sound
  <2>7. Sound(R, groups, history')
    BY <1>1, <2>2, <2>4, <2>6 DEF Sound
  <2> QED BY <1>1, <2>1, <2>2, <2>7, NudgeKeeps
<1> QED BY <1>2, <1>3

\* The guard of loading or of the slot queue sends a request back.
LEMMA StepDefer ==
    ASSUME SchedulerInv, NEW r \in Requests, Defer(r)
    PROVE  SchedulerInv'
BY StepMoves DEF Defer, Moved

\* A list of requests without one of them.
LEMMA WithoutOne ==
    ASSUME NEW q \in Seq(Requests), IsInjective(q), NEW r
    PROVE  /\ Without(q, r) \in Seq(Requests)
           /\ Range(Without(q, r)) = Range(q) \ {r}
           /\ IsInjective(Without(q, r))
<1>1. Range(q) \subseteq Requests
  BY DEF Range
<1>2. Range(q) \cap (Requests \ {r}) = Range(q) \ {r}
  BY <1>1
<1> QED BY <1>2, KeptEntries DEF Without

\* Nobody enters the waiting room when a connection is given up.
LEMMA RoomOfOthers ==
    ASSUME NEW R \in [Requests -> ReqStates], NEW r \in Requests, NEW g, NEW class
    PROVE  Occupants([R EXCEPT ![r] = Absent], g, class) \subseteq Occupants(R, g, class)
<1>1. Absent.phase \notin Waiting
  BY DEF Absent, Waiting, Unstarted
<1> QED BY <1>1 DEF Occupants

\* A caller gives up before it has a lease.
LEMMA StepAbandon ==
    ASSUME SchedulerInv, NEW r \in Requests, Abandon(r)
    PROVE  SchedulerInv'
<1> DEFINE g == req[r].group
           s == [groups[g] EXCEPT !.waiters = Without(groups[g].waiters, r)]
           R == [req EXCEPT ![r] = Absent]
           G == [groups EXCEPT ![g] = s]
<1>1. /\ mode \in {"adaptive", "off"} /\ closed \in BOOLEAN /\ microNudge \in BOOLEAN
      /\ Sound(req, groups, history)
  BY SchedulerInvIs
<1>2. /\ req[r].phase = "waiting" /\ Nudge(R, G, mode)
      /\ UNCHANGED <<mode, closed, microNudge, history>>
  BY DEF Abandon
<1>3. /\ Tables(req, groups) /\ req \in [Requests -> ReqStates]
      /\ groups \in [Groups -> GroupStates] /\ g \in Groups
      /\ groups[g] \in GroupStates /\ Lists(req, groups[g], g) /\ Known(groups[g])
  BY <1>1, <1>2 DEF Sound, Tables, Connected
<1> HIDE DEF g
<1>4. /\ groups[g].waiters \in Seq(Requests) /\ groups[g].clocks \in Clocks
      /\ IsInjective(groups[g].waiters) /\ IsInjective(groups[g].leases)
      /\ r \in Range(groups[g].waiters)
  BY <1>2, <1>3 DEF GroupStates, Lists, g
<1>5. /\ Without(groups[g].waiters, r) \in Seq(Requests)
      /\ Range(Without(groups[g].waiters, r)) = Range(groups[g].waiters) \ {r}
      /\ IsInjective(Without(groups[g].waiters, r))
  BY <1>4, WithoutOne
<1>6. /\ s \in GroupStates
      /\ s.waiters = Without(groups[g].waiters, r) /\ s.leases = groups[g].leases
      /\ s.known = groups[g].known /\ s.clocks = groups[g].clocks
  <2>1. s \in GroupStates
    BY <1>3, <1>5, Fields
  <2>2. s.waiters = Without(groups[g].waiters, r)
    BY <1>3 DEF GroupStates
  <2>3. s.leases = groups[g].leases /\ s.known = groups[g].known /\ s.clocks = groups[g].clocks
    BY <1>3 DEF GroupStates
  <2> QED BY <2>1, <2>2, <2>3
<1> HIDE DEF s
<1>7. Known(s)
  BY <1>3, <1>4, <1>6, EmptyList DEF Known
<1>8. Range(s.leases) = Range(groups[g].leases) \ {r}
  <2>1. r \notin Range(groups[g].leases)
    BY <1>2, <1>3 DEF Lists
  <2> QED BY <1>6, <2>1
<1>9. req[r].group = g
  BY DEF g
<1>10. Tables(R, G)
  BY <1>2, <1>3, <1>4, <1>5, <1>6, <1>7, <1>8, <1>9, Left
<1>11. RoomFor(R)
  <2>1. \A h \in Groups, class \in Classes : Occupants(R, h, class) \subseteq Occupants(req, h, class)
    BY <1>3, RoomOfOthers
  <2> HIDE DEF R
  <2> QED BY <1>1, <2>1, RoomShrinks DEF Sound
<1>12. \A h \in Groups : G[h].clocks = groups[h].clocks
  BY <1>3, <1>6
<1>13. Sound(R, G, history')
  BY <1>1, <1>2, <1>10, <1>11, <1>12 DEF Sound
<1> HIDE DEF R, G
<1> QED BY <1>1, <1>2, <1>13, NudgeKeeps

\* A request with a lease ends.
LEMMA StepFinish ==
    ASSUME SchedulerInv, NEW r \in Requests, Finish(r)
    PROVE  SchedulerInv'
<1> DEFINE g == req[r].group
           class == req[r].class
           s == [groups[g] EXCEPT !.leases = Without(groups[g].leases, r),
                                  !.clocks = AfterRelease(groups[g].clocks, class)]
           R == [req EXCEPT ![r] = Absent]
           G == [groups EXCEPT ![g] = s]
           H == IF class = "standard" THEN history
                ELSE [history EXCEPT ![g] = [history[g] EXCEPT ![class] = 0, !.start = RampInterval]]
<1>1. /\ mode \in {"adaptive", "off"} /\ closed \in BOOLEAN /\ microNudge \in BOOLEAN
      /\ Sound(req, groups, history)
  BY SchedulerInvIs
<1>2. req[r].phase \in Unstarted \cup {"running"} /\ UNCHANGED <<mode, closed, microNudge>>
  BY DEF Finish
<1>3. /\ Tables(req, groups) /\ req \in [Requests -> ReqStates]
      /\ groups \in [Groups -> GroupStates] /\ g \in Groups /\ class \in Classes
      /\ groups[g] \in GroupStates /\ Lists(req, groups[g], g) /\ Known(groups[g])
      /\ history \in [Groups -> Histories] /\ history[g] \in Histories
      /\ ClocksInv(groups[g].clocks, history[g])
  <2>1. /\ Tables(req, groups) /\ req \in [Requests -> ReqStates]
        /\ groups \in [Groups -> GroupStates] /\ history \in [Groups -> Histories]
    BY <1>1 DEF Sound, Tables
  <2>2. class \in Classes
    BY <2>1 DEF ReqStates
  <2>3. g \in Groups
    BY <1>2, <2>1 DEF Tables, Connected, Unstarted
  <2> HIDE DEF g, class
  <2> QED BY <1>1, <2>1, <2>2, <2>3 DEF Sound, Tables
<1>4. Nudge(R, G, mode) /\ history' = H
  <2>1. Nudge(R, G, mode)
    BY DEF Finish
  <2>2. history' = H
    BY DEF Finish
  <2> QED BY <2>1, <2>2
<1>5. /\ req[r].group = g /\ req[r].phase \notin {"absent", "waiting"}
  BY <1>2 DEF Unstarted
<1> HIDE DEF g, class
<1>6. /\ groups[g].leases \in Seq(Requests) /\ groups[g].clocks \in Clocks
      /\ IsInjective(groups[g].waiters) /\ IsInjective(groups[g].leases)
      /\ r \in Range(groups[g].leases) /\ r \notin Range(groups[g].waiters)
  BY <1>3, <1>5 DEF GroupStates, Lists
<1>7. /\ Without(groups[g].leases, r) \in Seq(Requests)
      /\ Range(Without(groups[g].leases, r)) = Range(groups[g].leases) \ {r}
      /\ IsInjective(Without(groups[g].leases, r))
  BY <1>6, WithoutOne
<1>8. /\ AfterRelease(groups[g].clocks, class) \in Clocks
      /\ H \in [Groups -> Histories]
      /\ ClocksInv(AfterRelease(groups[g].clocks, class), H[g])
      /\ \A h \in Groups \ {g} : H[h] = history[h]
  <2>1. /\ AfterRelease(groups[g].clocks, class) \in Clocks
        /\ class = "standard" => ClocksInv(AfterRelease(groups[g].clocks, class), history[g])
        /\ class # "standard" =>
             /\ [history[g] EXCEPT ![class] = 0, !.start = RampInterval] \in Histories
             /\ ClocksInv(AfterRelease(groups[g].clocks, class),
                          [history[g] EXCEPT ![class] = 0, !.start = RampInterval])
    BY <1>3, <1>6, ClocksInvRelease
  <2> DEFINE k == [history[g] EXCEPT ![class] = 0, !.start = RampInterval]
  <2> HIDE DEF k
  <2>2. CASE class = "standard"
    BY <1>3, <2>1, <2>2
  <2>3. CASE class # "standard"
    <3>1. k \in Histories /\ ClocksInv(AfterRelease(groups[g].clocks, class), k)
      BY <2>1, <2>3 DEF k
    <3>2. H = [history EXCEPT ![g] = k]
      BY <2>3 DEF k
    <3> HIDE DEF H
    <3> QED BY <1>3, <2>1, <3>1, <3>2
  <2> QED BY <2>2, <2>3
<1> HIDE DEF H
<1>9. /\ s \in GroupStates
      /\ s.waiters = groups[g].waiters /\ s.leases = Without(groups[g].leases, r)
      /\ s.known = groups[g].known /\ s.clocks = AfterRelease(groups[g].clocks, class)
  <2>1. s \in GroupStates
    BY <1>3, <1>7, <1>8, Fields
  <2>2. s.leases = Without(groups[g].leases, r)
    BY <1>3 DEF GroupStates
  <2>3. s.waiters = groups[g].waiters /\ s.known = groups[g].known
    BY <1>3 DEF GroupStates
  <2>4. s.clocks = AfterRelease(groups[g].clocks, class)
    BY <1>3 DEF GroupStates
  <2> QED BY <2>1, <2>2, <2>3, <2>4
<1> HIDE DEF s
<1>10. Known(s)
  BY <1>3, <1>6, <1>9, EmptyList DEF Known
<1>11. Range(s.waiters) = Range(groups[g].waiters) \ {r}
  BY <1>6, <1>9
<1>12. Tables(R, G)
  BY <1>3, <1>5, <1>6, <1>7, <1>9, <1>10, <1>11, Left
<1>13. RoomFor(R)
  <2>1. \A h \in Groups, c \in Classes : Occupants(R, h, c) \subseteq Occupants(req, h, c)
    BY <1>3, RoomOfOthers
  <2> HIDE DEF R
  <2> QED BY <1>1, <2>1, RoomShrinks DEF Sound
<1>14. ASSUME NEW h \in Groups PROVE ClocksInv(G[h].clocks, H[h])
  <2>1. CASE h = g
    BY <1>3, <1>8, <1>9, <2>1
  <2>2. CASE h # g
    <3>1. G[h] = groups[h] /\ H[h] = history[h]
      BY <1>3, <1>8, <2>2
    <3> QED BY <1>1, <3>1 DEF Sound
  <2> QED BY <2>1, <2>2
<1>15. Sound(R, G, history')
  BY <1>4, <1>8, <1>12, <1>13, <1>14 DEF Sound
<1> HIDE DEF R, G
<1> QED BY <1>1, <1>2, <1>4, <1>15, NudgeKeeps

\* A request starts, which leaves a nudge to come.
LEMMA StepStart ==
    ASSUME SchedulerInv, NEW r \in Requests, Start(r)
    PROVE  SchedulerInv'
<1> DEFINE g == req[r].group
           class == req[r].class
           s == [groups[g] EXCEPT !.clocks = AfterStart(groups[g].clocks, class)]
           k == [history[g] EXCEPT !.start = IF class = "standard" THEN 0 ELSE history[g].start]
<1>1. /\ mode \in {"adaptive", "off"} /\ closed \in BOOLEAN /\ microNudge \in BOOLEAN
      /\ Sound(req, groups, history)
  BY SchedulerInvIs
<1>2. /\ req[r].phase = "admitting" /\ req' = Moved(req, r, "running")
      /\ mode' = mode /\ closed' = closed /\ microNudge' = TRUE
  BY DEF Start, Moved
<1>3. /\ groups' = [groups EXCEPT ![g] = s] /\ history' = [history EXCEPT ![g] = k]
  BY DEF Start
<1>4. /\ Tables(req, groups) /\ req \in [Requests -> ReqStates]
      /\ groups \in [Groups -> GroupStates] /\ history \in [Groups -> Histories]
  BY <1>1 DEF Sound, Tables
<1>5. g \in Groups /\ class \in Classes
  BY <1>2, <1>4 DEF Tables, Connected, ReqStates
<1> HIDE DEF g, class
<1>6. /\ groups[g] \in GroupStates /\ history[g] \in Histories
      /\ ClocksInv(groups[g].clocks, history[g]) /\ groups[g].clocks \in Clocks
  BY <1>1, <1>4, <1>5 DEF Sound, GroupStates
<1>7. /\ k \in Histories /\ k.foreground = history[g].foreground
      /\ k.interactive = history[g].interactive
      /\ k.start = IF class = "standard" THEN 0 ELSE history[g].start
  <2>1. 0 \in 0..RampInterval
    BY RampLength
  <2> QED BY <1>6, <2>1 DEF Histories
<1> HIDE DEF k
<1>8. AfterStart(groups[g].clocks, class) \in Clocks /\ ClocksInv(AfterStart(groups[g].clocks, class), k)
  BY <1>5, <1>6, <1>7, ClocksInvStart
<1>9. /\ s \in GroupStates
      /\ s.waiters = groups[g].waiters /\ s.leases = groups[g].leases
      /\ s.known = groups[g].known /\ s.clocks = AfterStart(groups[g].clocks, class)
  <2>1. s \in GroupStates
    BY <1>6, <1>8, Fields
  <2>2. s.waiters = groups[g].waiters /\ s.leases = groups[g].leases /\ s.known = groups[g].known
    BY <1>6 DEF GroupStates
  <2>3. s.clocks = AfterStart(groups[g].clocks, class)
    BY <1>6 DEF GroupStates
  <2> QED BY <2>1, <2>2, <2>3
<1> HIDE DEF s
<1>10. /\ Tables(req', groups)
       /\ \A q \in Requests : /\ req'[q].class = req[q].class
                              /\ req'[q].group = req[q].group
                              /\ q # r => req'[q].phase = req[q].phase
       /\ req'[r].phase = "running"
  <2>1. req[r].phase \in Unstarted \cup {"running"} /\ "running" \in Unstarted \cup {"running"}
    BY <1>2 DEF Unstarted
  <2> QED BY <1>2, <1>4, <2>1, MovedOn
<1>11. RoomFor(req')
  <2>1. "running" \notin Waiting
    BY DEF Waiting, Unstarted
  <2>2. \A h \in Groups, c \in Classes : Occupants(req', h, c) \subseteq Occupants(req, h, c)
    BY <1>10, <2>1 DEF Occupants
  <2> QED BY <1>1, <1>4, <2>2, RoomShrinks DEF Sound
<1>12. /\ groups' \in [Groups -> GroupStates]
       /\ \A h \in Groups : groups'[h] = IF h = g THEN s ELSE groups[h]
  BY <1>3, <1>4, <1>9
<1>13. Tables(req', groups')
  BY <1>9, <1>10, <1>12, Regrouped
<1>14. history' \in [Groups -> Histories]
       /\ \A h \in Groups : history'[h] = IF h = g THEN k ELSE history[h]
  BY <1>3, <1>4, <1>7
<1>15. \A h \in Groups : ClocksInv(groups'[h].clocks, history'[h])
  BY <1>1, <1>8, <1>9, <1>12, <1>14 DEF Sound
<1>16. Sound(req', groups', history')
  BY <1>11, <1>13, <1>14, <1>15 DEF Sound
<1> QED BY <1>1, <1>2, <1>16, SchedulerInvNext

\* The nudge that a start has left.
LEMMA StepMicroNudge ==
    ASSUME SchedulerInv, MicroNudge
    PROVE  SchedulerInv'
<1>1. /\ mode \in {"adaptive", "off"} /\ closed \in BOOLEAN
      /\ Sound(req, groups, history)
  BY SchedulerInvIs
<1>2. /\ Nudge(req, groups, mode) /\ microNudge' = FALSE
      /\ UNCHANGED <<mode, closed, history>>
  BY DEF MicroNudge
<1> QED BY <1>1, <1>2, NudgeKeeps

\* A timer fires.
LEMMA StepTimerFires ==
    ASSUME SchedulerInv, NEW g \in Groups, TimerFires(g)
    PROVE  SchedulerInv'
<1> DEFINE s == [groups[g] EXCEPT !.timer = Unset]
           G == [groups EXCEPT ![g] = s]
<1>1. /\ mode \in {"adaptive", "off"} /\ closed \in BOOLEAN /\ microNudge \in BOOLEAN
      /\ Sound(req, groups, history)
  BY SchedulerInvIs
<1>2. Nudge(req, G, mode) /\ UNCHANGED <<mode, closed, microNudge, history>>
  BY DEF TimerFires
<1>3. groups \in [Groups -> GroupStates] /\ Tables(req, groups)
  BY <1>1 DEF Sound, Tables
<1>4. /\ s \in GroupStates
      /\ s.waiters = groups[g].waiters /\ s.leases = groups[g].leases
      /\ s.known = groups[g].known /\ s.clocks = groups[g].clocks
  <2>1. groups[g] \in GroupStates
    BY <1>3
  <2>2. s \in GroupStates
    BY <2>1, Fields
  <2>3. /\ s.waiters = groups[g].waiters /\ s.leases = groups[g].leases
        /\ s.known = groups[g].known /\ s.clocks = groups[g].clocks
    BY <2>1 DEF GroupStates
  <2> QED BY <2>2, <2>3
<1> HIDE DEF s
<1>5. /\ G \in [Groups -> GroupStates]
      /\ \A h \in Groups : G[h] = IF h = g THEN s ELSE groups[h]
  BY <1>3, <1>4
<1> HIDE DEF G
<1>6. Tables(req, G)
  BY <1>3, <1>4, <1>5, Regrouped
<1>7. Sound(req, G, history')
  BY <1>1, <1>2, <1>4, <1>5, <1>6 DEF Sound
<1> QED BY <1>1, <1>2, <1>7, NudgeKeeps

\* A configuration reload publishes a mode.
LEMMA StepRefresh ==
    ASSUME SchedulerInv, NEW m \in Modes, Refresh(m)
    PROVE  SchedulerInv'
<1>1. closed \in BOOLEAN /\ microNudge \in BOOLEAN /\ Sound(req, groups, history)
  BY SchedulerInvIs
<1>2. /\ Nudge(req, groups, m) /\ mode' = m
      /\ UNCHANGED <<closed, microNudge, history>>
  BY DEF Refresh
<1>3. m \in {"adaptive", "off"}
  BY SettingsAssumption
<1> QED BY <1>1, <1>2, <1>3, NudgeKeeps

\* The scheduler is closed.
LEMMA StepClose ==
    ASSUME SchedulerInv, Close
    PROVE  SchedulerInv'
<1> DEFINE R == [r \in Requests |-> IF req[r].phase = "waiting" THEN Absent ELSE req[r]]
           e(s) == [s EXCEPT !.waiters = <<>>, !.timer = Unset]
           G == [g \in Groups |-> e(groups[g])]
<1>1. /\ mode \in {"adaptive", "off"} /\ closed \in BOOLEAN /\ microNudge \in BOOLEAN
      /\ Sound(req, groups, history)
  BY SchedulerInvIs
<1>2. closed' = TRUE /\ req' = R /\ groups' = G /\ UNCHANGED <<mode, microNudge, history>>
  BY DEF Close
<1>3. /\ Tables(req, groups) /\ req \in [Requests -> ReqStates] /\ Connected(req)
      /\ groups \in [Groups -> GroupStates]
      /\ \A g \in Groups : Lists(req, groups[g], g) /\ Known(groups[g])
  BY <1>1 DEF Sound, Tables
<1>4. Absent \in ReqStates /\ Absent.phase = "absent" /\ Absent.group \notin Groups
  BY SettingsAssumption DEF Absent, ReqStates, Phases, Classes
<1>5. /\ R \in [Requests -> ReqStates]
      /\ \A r \in Requests : R[r] = IF req[r].phase = "waiting" THEN Absent ELSE req[r]
  BY <1>3, <1>4
<1> HIDE DEF R
<1>6. ASSUME NEW s \in GroupStates
      PROVE  /\ e(s) \in GroupStates
             /\ e(s).waiters = <<>> /\ e(s).leases = s.leases
             /\ e(s).known = s.known /\ e(s).clocks = s.clocks
  <2> DEFINE w == [s EXCEPT !.waiters = <<>>]
  <2>1. w \in GroupStates /\ w.waiters = <<>> /\ w.leases = s.leases
        /\ w.known = s.known /\ w.clocks = s.clocks
    <3>1. w \in GroupStates
      BY Fields, EmptyList
    <3>2. /\ w.waiters = <<>> /\ w.leases = s.leases
          /\ w.known = s.known /\ w.clocks = s.clocks
      BY DEF GroupStates
    <3> QED BY <3>1, <3>2
  <2>2. e(s) = [w EXCEPT !.timer = Unset]
    OBVIOUS
  <2> HIDE DEF w, e
  <2>3. [w EXCEPT !.timer = Unset] \in GroupStates
    BY <2>1, Fields
  <2>4. /\ [w EXCEPT !.timer = Unset].waiters = w.waiters
        /\ [w EXCEPT !.timer = Unset].leases = w.leases
        /\ [w EXCEPT !.timer = Unset].known = w.known
        /\ [w EXCEPT !.timer = Unset].clocks = w.clocks
    BY <2>1 DEF GroupStates
  <2> QED BY <2>1, <2>2, <2>3, <2>4
<1> HIDE DEF e
<1>7. /\ G \in [Groups -> GroupStates]
      /\ \A g \in Groups : /\ G[g].waiters = <<>> /\ G[g].leases = groups[g].leases
                           /\ G[g].known = groups[g].known /\ G[g].clocks = groups[g].clocks
  BY <1>3, <1>6
<1> HIDE DEF G
<1>8. Connected(R)
  BY <1>3, <1>4, <1>5 DEF Connected
<1>9. ASSUME NEW g \in Groups PROVE Lists(R, G[g], g) /\ Known(G[g])
  <2>1. {r \in Requests : R[r].group = g /\ R[r].phase = "waiting"} = {}
    BY <1>4, <1>5
  <2>2. {r \in Requests : R[r].group = g /\ R[r].phase # "waiting"}
           = {r \in Requests : req[r].group = g /\ req[r].phase # "waiting"}
    BY <1>4, <1>5
  <2>3. Lists(req, groups[g], g) /\ Known(groups[g])
    BY <1>3
  <2> QED BY <1>7, <2>1, <2>2, <2>3, EmptyList DEF Lists, Known
<1>10. Tables(R, G)
  BY <1>5, <1>7, <1>8, <1>9 DEF Tables
<1>11. RoomFor(R)
  <2>1. Absent.phase \notin Waiting
    BY DEF Absent, Waiting, Unstarted
  <2>2. \A g \in Groups, class \in Classes : Occupants(R, g, class) \subseteq Occupants(req, g, class)
    BY <1>5, <2>1 DEF Occupants
  <2> QED BY <1>1, <1>3, <2>2, RoomShrinks DEF Sound
<1>12. Sound(R, G, history)
  BY <1>1, <1>7, <1>10, <1>11 DEF Sound
<1> QED BY <1>1, <1>2, <1>12, SchedulerInvNext

\* One unit of time passes.
LEMMA StepTick ==
    ASSUME SchedulerInv, Tick
    PROVE  SchedulerInv'
<1> DEFINE e(s) == [s EXCEPT !.clocks = Elapsed(s.clocks),
                             !.timer = IF s.timer > 0 THEN s.timer - 1 ELSE s.timer]
           l(h) == [foreground  |-> Min({h.foreground + 1, HistoryTime}),
                    interactive |-> Min({h.interactive + 1, HistoryTime}),
                    start       |-> Min({h.start + 1, RampInterval})]
<1>1. /\ mode \in {"adaptive", "off"} /\ closed \in BOOLEAN /\ microNudge \in BOOLEAN
      /\ Sound(req, groups, history)
      /\ ~closed /\ ~microNudge => \A h \in Groups : Attended(req, groups[h], h, mode)
  BY SchedulerInvIs
<1>2. /\ groups' = [g \in Groups |-> e(groups[g])]
      /\ history' = [g \in Groups |-> l(history[g])]
      /\ mode' = mode /\ closed' = closed /\ req' = req /\ microNudge' = microNudge
  BY DEF Tick
<1>3. /\ Tables(req, groups) /\ groups \in [Groups -> GroupStates]
      /\ history \in [Groups -> Histories]
      /\ \A g \in Groups : Lists(req, groups[g], g) /\ ClocksInv(groups[g].clocks, history[g])
  BY <1>1 DEF Sound, Tables
<1>4. ASSUME NEW s \in GroupStates
      PROVE  /\ e(s) \in GroupStates
             /\ e(s).waiters = s.waiters /\ e(s).leases = s.leases /\ e(s).known = s.known
             /\ e(s).clocks = Elapsed(s.clocks)
             /\ e(s).timer = IF s.timer > 0 THEN s.timer - 1 ELSE s.timer
  <2> DEFINE T == Unset..(IdleTime + RampTime + RampInterval)
             x == IF s.timer > 0 THEN s.timer - 1 ELSE s.timer
  <2>1. /\ s \in [known : BOOLEAN, waiters : Seq(Requests), leases : Seq(Requests),
                  clocks : Clocks, timer : T]
        /\ Elapsed(s.clocks) \in Clocks
    BY ClocksElapse DEF GroupStates
  <2>2. x \in T
    BY <2>1, RampLength DEF Unset
  <2> HIDE DEF T, x
  <2>3. e(s) = [s EXCEPT !.clocks = Elapsed(s.clocks), !.timer = x]
    BY DEF x
  <2>4. [s EXCEPT !.clocks = Elapsed(s.clocks), !.timer = x]
           \in [known : BOOLEAN, waiters : Seq(Requests), leases : Seq(Requests),
                clocks : Clocks, timer : T]
    BY <2>1, <2>2
  <2>5. /\ e(s).waiters = s.waiters /\ e(s).leases = s.leases /\ e(s).known = s.known
        /\ e(s).clocks = Elapsed(s.clocks) /\ e(s).timer = x
    BY <2>1, <2>3
  <2> QED BY <2>3, <2>4, <2>5 DEF GroupStates, T, x
<1> HIDE DEF e
<1>5. ASSUME NEW h \in Histories
      PROVE  /\ l(h) \in Histories
             /\ l(h).foreground = Min({h.foreground + 1, HistoryTime})
             /\ l(h).interactive = Min({h.interactive + 1, HistoryTime})
             /\ l(h).start = Min({h.start + 1, RampInterval})
  <2>1. /\ h.foreground \in 0..HistoryTime /\ h.interactive \in 0..HistoryTime
        /\ h.start \in 0..RampInterval /\ HistoryTime \in Nat /\ RampInterval \in Nat
    BY RampLength DEF Histories
  <2>2. /\ Min({h.foreground + 1, HistoryTime}) \in 0..HistoryTime
        /\ Min({h.interactive + 1, HistoryTime}) \in 0..HistoryTime
        /\ Min({h.start + 1, RampInterval}) \in 0..RampInterval
    <3>1. Min({h.foreground + 1, HistoryTime})
            = IF h.foreground + 1 <= HistoryTime THEN h.foreground + 1 ELSE HistoryTime
      BY <2>1, MinOfTwo
    <3>2. Min({h.interactive + 1, HistoryTime})
            = IF h.interactive + 1 <= HistoryTime THEN h.interactive + 1 ELSE HistoryTime
      BY <2>1, MinOfTwo
    <3>3. Min({h.start + 1, RampInterval})
            = IF h.start + 1 <= RampInterval THEN h.start + 1 ELSE RampInterval
      BY <2>1, MinOfTwo
    <3> QED BY <2>1, <3>1, <3>2, <3>3
  <2> QED BY <2>2 DEF Histories
<1> HIDE DEF l
<1>6. /\ groups' \in [Groups -> GroupStates]
      /\ \A g \in Groups : /\ groups'[g].waiters = groups[g].waiters
                           /\ groups'[g].leases = groups[g].leases
                           /\ groups'[g].known = groups[g].known
                           /\ groups'[g].clocks = Elapsed(groups[g].clocks)
                           /\ groups'[g].timer = IF groups[g].timer > 0 THEN groups[g].timer - 1
                                                 ELSE groups[g].timer
  BY <1>2, <1>3, <1>4
<1>7. /\ history' \in [Groups -> Histories]
      /\ \A g \in Groups : history'[g] = l(history[g])
  BY <1>2, <1>3, <1>5
<1>8. Tables(req, groups')
  BY <1>3, <1>6, Regrouped
<1>9. ASSUME NEW g \in Groups PROVE ClocksInv(groups'[g].clocks, history'[g])
  <2>1. groups[g].clocks \in Clocks /\ history[g] \in Histories /\ history'[g] \in Histories
    BY <1>3, <1>7 DEF GroupStates
  <2>2. /\ history'[g].foreground = Min({history[g].foreground + 1, HistoryTime})
        /\ history'[g].interactive = Min({history[g].interactive + 1, HistoryTime})
        /\ history'[g].start = Min({history[g].start + 1, RampInterval})
    BY <1>5, <1>7, <2>1
  <2>3. ClocksInv(Elapsed(groups[g].clocks), history'[g])
    BY <1>3, <2>1, <2>2, ClocksInvElapse
  <2> QED BY <1>6, <2>3
<1>10. Sound(req', groups', history')
  BY <1>1, <1>2, <1>7, <1>8, <1>9 DEF Sound
<1>11. ASSUME NEW g \in Groups, Attended(req, groups[g], g, mode)
       PROVE  Attended(req', groups'[g], g, mode')
  <2>1. groups[g] \in GroupStates /\ groups'[g] \in GroupStates /\ Lists(req, groups[g], g)
    BY <1>3, <1>6
  <2>2. Attended(req, groups'[g], g, mode)
    BY <1>6, <1>11, <2>1, AttendedElapse
  <2> QED BY <1>2, <2>2
<1> QED BY <1>1, <1>2, <1>10, <1>11, SchedulerInvNext

\* A connection enters the waiting room.
LEMMA Entered ==
    ASSUME NEW R, NEW G, Tables(R, G), RoomFor(R), NEW r \in Requests, R[r] = Absent,
           NEW class \in Classes, NEW g \in Groups,
           Cardinality(Occupants(R, g, class)) < MaxQueued
             \/ Cardinality(Occupants(R, g, class)) = 0,
           NEW s \in GroupStates, s.known,
           s.waiters = Append(G[g].waiters, r), s.leases = G[g].leases
    PROVE  /\ Tables([R EXCEPT ![r] = [phase |-> "waiting", class |-> class, group |-> g]],
                     [G EXCEPT ![g] = s])
           /\ RoomFor([R EXCEPT ![r] = [phase |-> "waiting", class |-> class, group |-> g]])
<1> DEFINE x == [phase |-> "waiting", class |-> class, group |-> g]
           S == [R EXCEPT ![r] = x]
           H == [G EXCEPT ![g] = s]
<1>1. /\ x \in ReqStates /\ x.phase = "waiting" /\ x.group = g /\ x.class = class
      /\ Absent.phase = "absent" /\ Absent.group \notin Groups
  BY SettingsAssumption DEF Absent, ReqStates, Phases
<1>2. R \in [Requests -> ReqStates] /\ Connected(R) /\ G \in [Groups -> GroupStates]
      /\ \A h \in Groups : Lists(R, G[h], h) /\ Known(G[h])
  BY DEF Tables
<1> HIDE DEF x
<1>3. /\ S \in [Requests -> ReqStates] /\ H \in [Groups -> GroupStates]
      /\ S[r] = x /\ \A q \in Requests \ {r} : S[q] = R[q]
      /\ H[g] = s /\ \A h \in Groups \ {g} : H[h] = G[h]
  BY <1>1, <1>2
<1> HIDE DEF S, H
<1>4. Connected(S)
  BY <1>1, <1>2, <1>3 DEF Connected
<1>5. ASSUME NEW h \in Groups PROVE Lists(S, H[h], h) /\ Known(H[h])
  <2>1. CASE h = g
    <3>1. {q \in Requests : S[q].group = g /\ S[q].phase = "waiting"}
             = {q \in Requests : R[q].group = g /\ R[q].phase = "waiting"} \cup {r}
      BY <1>1, <1>3
    <3>2. {q \in Requests : S[q].group = g /\ S[q].phase # "waiting"}
             = {q \in Requests : R[q].group = g /\ R[q].phase # "waiting"}
      BY <1>1, <1>3
    <3>3. Lists(R, G[g], g) /\ G[g].waiters \in Seq(Requests)
      BY <1>2 DEF GroupStates
    <3>4. r \notin Range(G[g].waiters)
      BY <1>1, <3>3 DEF Lists
    <3>5. Range(s.waiters) = Range(G[g].waiters) \cup {r} /\ IsInjective(s.waiters)
      BY <3>3, <3>4, AppendedEntry DEF Lists
    <3> QED BY <1>3, <2>1, <3>1, <3>2, <3>3, <3>5 DEF Lists, Known
  <2>2. CASE h # g
    <3>1. {q \in Requests : S[q].group = h /\ S[q].phase = "waiting"}
             = {q \in Requests : R[q].group = h /\ R[q].phase = "waiting"}
      BY <1>1, <1>3, <2>2
    <3>2. {q \in Requests : S[q].group = h /\ S[q].phase # "waiting"}
             = {q \in Requests : R[q].group = h /\ R[q].phase # "waiting"}
      BY <1>1, <1>3, <2>2
    <3>3. Lists(R, G[h], h) /\ Known(G[h]) /\ H[h] = G[h]
      BY <1>2, <1>3, <2>2
    <3> QED BY <3>1, <3>2, <3>3 DEF Lists
  <2> QED BY <2>1, <2>2
<1>6. Tables(S, H)
  BY <1>3, <1>4, <1>5 DEF Tables
<1>7. ASSUME NEW h \in Groups, NEW c \in Classes
      PROVE  Cardinality(Occupants(S, h, c)) <= Max({1, MaxQueued})
  <2>1. IsFiniteSet(Occupants(R, h, c)) /\ Cardinality(Occupants(R, h, c)) \in Nat
    BY OccupantsAreFinite, FS_CardinalityType
  <2>2. /\ Max({1, MaxQueued}) = IF 1 >= MaxQueued THEN 1 ELSE MaxQueued
        /\ MaxQueued \in Nat
    <3>1. 1 \in Int /\ MaxQueued \in Int /\ MaxQueued \in Nat
      BY RampLength
    <3> QED BY <3>1, MaxOfTwo
  <2>3. Cardinality(Occupants(R, h, c)) <= Max({1, MaxQueued})
    BY DEF RoomFor
  <2>4. CASE h = g /\ c = class
    <3>1. Occupants(S, h, c) = Occupants(R, h, c) \cup {r}
      BY <1>1, <1>3, <2>4 DEF Occupants, Waiting
    <3>2. r \notin Occupants(R, h, c)
      BY <1>1 DEF Occupants
    <3>3. Cardinality(Occupants(S, h, c)) = Cardinality(Occupants(R, h, c)) + 1
      BY <2>1, <3>1, <3>2, FS_AddElement
    <3> QED BY <2>1, <2>2, <2>4, <3>3
  <2>5. CASE ~(h = g /\ c = class)
    <3>1. Occupants(S, h, c) = Occupants(R, h, c)
      BY <1>1, <1>3, <2>5 DEF Occupants
    <3> QED BY <2>3, <3>1
  <2> QED BY <2>4, <2>5
<1>8. Tables(S, H) /\ RoomFor(S)
  BY <1>6, <1>7 DEF RoomFor
<1> QED BY <1>8 DEF S, H, x

\* A request is admitted, or leaves at once when there is no waiting room.
LEMMA StepAdmit ==
    ASSUME SchedulerInv, NEW class \in Classes, NEW g \in Groups, NEW r \in Requests,
           Admit(r, class, g)
    PROVE  SchedulerInv'
<1> DEFINE R == [req EXCEPT ![r] = [phase |-> "waiting", class |-> class, group |-> g]]
           k == [groups[g] EXCEPT !.known = TRUE]
           s == [groups[g] EXCEPT !.known = TRUE, !.waiters = Append(groups[g].waiters, r)]
           K == [groups EXCEPT ![g] = k]
           G == [groups EXCEPT ![g] = s]
<1>1. /\ mode \in {"adaptive", "off"} /\ closed \in BOOLEAN /\ microNudge \in BOOLEAN
      /\ Sound(req, groups, history)
  BY SchedulerInvIs
<1>2. /\ req[r] = Absent /\ ~Overflows(g, class)
      /\ UNCHANGED <<mode, closed, microNudge, history>>
      /\ Nudge(req, K, mode) \/ Nudge(R, G, mode)
  <2>1. [groups EXCEPT ![g].known = TRUE] = K
    OBVIOUS
  <2>2. [groups EXCEPT ![g].known = TRUE, ![g].waiters = Append(@, r)] = G
    <3>1. groups \in [Groups -> GroupStates]
      BY <1>1 DEF Sound, Tables
    <3>2. k.waiters = groups[g].waiters
      BY <3>1 DEF GroupStates
    <3> QED BY <3>1, <3>2
  <2> HIDE DEF R, K, G
  <2> QED BY <2>1, <2>2 DEF Admit, R
<1>3. /\ Tables(req, groups) /\ groups \in [Groups -> GroupStates] /\ groups[g] \in GroupStates
      /\ RoomFor(req)
  BY <1>1 DEF Sound, Tables
<1>4. /\ k \in GroupStates /\ k.known
      /\ k.waiters = groups[g].waiters /\ k.leases = groups[g].leases
      /\ k.clocks = groups[g].clocks
  <2>1. k \in GroupStates
    BY <1>3, Fields
  <2>2. /\ k.known /\ k.waiters = groups[g].waiters /\ k.leases = groups[g].leases
        /\ k.clocks = groups[g].clocks
    BY <1>3 DEF GroupStates
  <2> QED BY <2>1, <2>2
<1>5. /\ s \in GroupStates /\ s.known
      /\ s.waiters = Append(groups[g].waiters, r) /\ s.leases = groups[g].leases
      /\ s.clocks = groups[g].clocks
  <2>1. Append(groups[g].waiters, r) \in Seq(Requests)
    BY <1>3 DEF GroupStates
  <2>2. s \in GroupStates
    BY <1>3, <2>1, Fields
  <2>3. /\ s.known /\ s.waiters = Append(groups[g].waiters, r) /\ s.leases = groups[g].leases
        /\ s.clocks = groups[g].clocks
    BY <1>3 DEF GroupStates
  <2> QED BY <2>2, <2>3
<1> HIDE DEF k, s
<1>6. CASE Nudge(req, K, mode)
  <2>1. /\ K \in [Groups -> GroupStates]
        /\ \A h \in Groups : K[h] = IF h = g THEN k ELSE groups[h]
    BY <1>3, <1>4
  <2> HIDE DEF K
  <2>2. Tables(req, K)
    BY <1>3, <1>4, <2>1, Regrouped
  <2>3. Sound(req, K, history')
    BY <1>1, <1>2, <1>4, <2>1, <2>2 DEF Sound
  <2> QED BY <1>1, <1>2, <1>6, <2>3, NudgeKeeps
<1>7. CASE Nudge(R, G, mode)
  <2>1. /\ Cardinality(Occupants(req, g, class)) \in Nat
        /\ Queued(g, class) = Cardinality(Occupants(req, g, class))
    <3>1. Queued(g, class) = Cardinality(Occupants(req, g, class))
      BY DEF Queued, Present, Occupants, Waiting
    <3> QED BY <1>3, <3>1, OccupantsAreFinite, FS_CardinalityType
  <2>2. \/ Cardinality(Occupants(req, g, class)) < MaxQueued
        \/ Cardinality(Occupants(req, g, class)) = 0
    BY <1>2, <2>1, RampLength DEF Overflows
  <2>3. Tables(R, G) /\ RoomFor(R)
    BY <1>2, <1>3, <1>5, <2>2, Entered
  <2>4. \A h \in Groups : G[h].clocks = groups[h].clocks
    BY <1>3, <1>5
  <2> HIDE DEF R, G
  <2>5. Sound(R, G, history')
    BY <1>1, <1>2, <2>3, <2>4 DEF Sound
  <2> QED BY <1>1, <1>2, <1>7, <2>5, NudgeKeeps
<1> QED BY <1>2, <1>6, <1>7

\* Nobody is connected at first, and nothing is remembered.
LEMMA InitSchedulerInv == Init => SchedulerInv
<1> SUFFICES ASSUME Init PROVE SchedulerInv
  OBVIOUS
<1>1. /\ mode = "adaptive" /\ closed = FALSE /\ microNudge = FALSE
      /\ req = [r \in Requests |-> Absent]
      /\ groups = [g \in Groups |-> NewGroup]
      /\ history = [g \in Groups |-> [foreground |-> HistoryTime,
                                      interactive |-> HistoryTime, start |-> RampInterval]]
  BY DEF Init
<1>2. Absent \in ReqStates /\ Absent.phase = "absent" /\ Absent.group \notin Groups
  BY SettingsAssumption DEF Absent, ReqStates, Phases, Classes
<1>3. NewGroup \in GroupStates /\ NewGroup.waiters = <<>> /\ NewGroup.leases = <<>>
      /\ NewGroup.clocks = Quiet
  BY QuietIs DEF NewGroup
<1>4. req \in [Requests -> ReqStates] /\ Connected(req)
  BY <1>1, <1>2 DEF Connected
<1>5. groups \in [Groups -> GroupStates]
  BY <1>1, <1>3
<1>6. ASSUME NEW g \in Groups
      PROVE  /\ Lists(req, groups[g], g) /\ Known(groups[g])
             /\ Attended(req, groups[g], g, mode)
  <2>1. groups[g] = NewGroup /\ \A r \in Requests : req[r].group # g
    BY <1>1, <1>2
  <2>2. Lists(req, groups[g], g)
    BY <1>3, <2>1, EmptyList DEF Lists
  <2>3. Timed(req, groups[g], mode)
    BY <1>3, <2>1, EmptyList DEF Timed, Pending
  <2>4. Settled(req, groups[g], g, mode)
    BY <1>3, <2>1, EmptyList DEF Settled, Promoted
  <2> QED BY <1>3, <2>1, <2>2, <2>3, <2>4 DEF Known, Attended
<1>7. RoomFor(req)
  <2>1. ASSUME NEW g \in Groups, NEW class \in Classes
        PROVE  Cardinality(Occupants(req, g, class)) <= Max({1, MaxQueued})
    <3>1. Occupants(req, g, class) = {}
      BY <1>1, <1>2 DEF Occupants
    <3>2. 1 \in Int /\ MaxQueued \in Int
      BY RampLength
    <3>3. Max({1, MaxQueued}) = IF 1 >= MaxQueued THEN 1 ELSE MaxQueued
      BY <3>2, MaxOfTwo
    <3> QED BY <3>1, <3>2, <3>3, FS_EmptySet
  <2> QED BY <2>1 DEF RoomFor
<1>8. history \in [Groups -> Histories]
      /\ \A g \in Groups : ClocksInv(groups[g].clocks, history[g])
  <2>1. /\ HistoryTime \in 0..HistoryTime /\ RampInterval \in 0..RampInterval
        /\ HistoryTime = IdleTime + RampTime /\ RampTime \in Nat /\ IdleTime \in Nat
        /\ RampInterval \in Nat
    BY RampLength
  <2>2. history \in [Groups -> Histories]
    BY <1>1, <2>1 DEF Histories
  <2>3. ASSUME NEW g \in Groups PROVE ClocksInv(groups[g].clocks, history[g])
    <3>1. /\ groups[g].clocks = Quiet
          /\ history[g].foreground = HistoryTime /\ history[g].interactive = HistoryTime
      BY <1>1, <1>3
    <3>2. Quiet.foreground = -RampTime /\ Quiet.interactive = -RampTime
      BY DEF Quiet
    <3> QED BY <2>1, <3>1, <3>2, QuietIs DEF ClocksInv
  <2> QED BY <2>2, <2>3
<1>9. Sound(req, groups, history)
  BY <1>4, <1>5, <1>6, <1>7, <1>8 DEF Sound, Tables
<1> QED BY <1>1, <1>6, <1>9, SchedulerInvIs

\* A step that changes nothing.
LEMMA StepStutters ==
    ASSUME SchedulerInv, UNCHANGED vars
    PROVE  SchedulerInv'
<1>1. /\ mode \in {"adaptive", "off"} /\ closed \in BOOLEAN /\ microNudge \in BOOLEAN
      /\ Sound(req, groups, history)
      /\ ~closed /\ ~microNudge => \A h \in Groups : Attended(req, groups[h], h, mode)
  BY SchedulerInvIs
<1>2. /\ mode' = mode /\ closed' = closed /\ req' = req /\ groups' = groups
      /\ microNudge' = microNudge /\ history' = history
  BY DEF vars
<1> QED BY <1>1, <1>2, SchedulerInvNext

\* The invariant is inductive.
LEMMA StepSchedulerInv == SchedulerInv /\ [Next]_vars => SchedulerInv'
<1> SUFFICES ASSUME SchedulerInv, [Next]_vars PROVE SchedulerInv'
  OBVIOUS
<1>1. CASE \E class \in Classes, g \in Groups : Refuse(class, g)
  BY <1>1, StepRefuse
<1>2. CASE \E class \in Classes, g \in Groups, r \in Requests : Admit(r, class, g)
  BY <1>2, StepAdmit
<1>3. CASE \E r \in Requests : Abandon(r)
  BY <1>3, StepAbandon
<1>4. CASE \E r \in Requests : Resume(r)
  BY <1>4, StepResume
<1>5. CASE \E r \in Requests : Start(r)
  BY <1>5, StepStart
<1>6. CASE \E r \in Requests : Defer(r)
  BY <1>6, StepDefer
<1>7. CASE \E r \in Requests : Finish(r)
  BY <1>7, StepFinish
<1>8. CASE \E g \in Groups : TimerFires(g)
  BY <1>8, StepTimerFires
<1>9. CASE \E m \in Modes : Refresh(m)
  BY <1>9, StepRefresh
<1>10. CASE MicroNudge \/ Close \/ Tick
  BY <1>10, StepMicroNudge, StepClose, StepTick
<1>11. CASE UNCHANGED vars
  BY <1>11, StepStutters
<1> QED BY <1>1, <1>2, <1>3, <1>4, <1>5, <1>6, <1>7, <1>8, <1>9, <1>10, <1>11 DEF Next

\* The lists, the clocks, the room and the timers of the scheduler are in the
\* relation that its methods rely on, in every state.
THEOREM SchedulerInvariant == Spec => []SchedulerInv
BY InitSchedulerInv, StepSchedulerInv, PTL DEF Spec

-----------------------------------------------------------------------------
(* The properties.                                                         *)

\* The scheduler keeps its types: the lists of a group name each of its
\* connections once, in the phase that the list is for.
THEOREM SchedulerTyping == Spec => []TypeOK
<1>1. SchedulerInv => TypeOK
  BY DEF SchedulerInv, Tables, Histories, TypeOK
<1> QED BY <1>1, SchedulerInvariant, PTL

\* The waiting room of a class in a group never holds more than it should.
THEOREM RoomStaysBounded == Spec => []RoomIsBounded
<1>1. SchedulerInv => RoomIsBounded
  BY DEF SchedulerInv
<1> QED BY <1>1, SchedulerInvariant, PTL

\* Whoever could move on has a nudge coming.
THEOREM WakeupsAreNotLost == Spec => []NoLostWakeup
<1>1. SchedulerInv => NoLostWakeup
  <2> SUFFICES ASSUME SchedulerInv, NEW r \in Requests, ~closed, ~microNudge,
                      \/ req[r].phase = "waiting" /\ r \in Promoted(req, groups[req[r].group], mode)
                      \/ /\ req[r].phase = "parked"
                         /\ ReadyFor(req, groups[req[r].group], mode, r)
               PROVE  groups[req[r].group].timer = 0
    BY DEF SchedulerInv, NoLostWakeup
  <2>1. req[r].group \in Groups
    BY DEF SchedulerInv, Tables, Connected
  <2>2. Attended(req, groups[req[r].group], req[r].group, mode)
    BY <2>1 DEF SchedulerInv
  <2> QED BY <2>2 DEF Attended, Settled
<1> QED BY <1>1, SchedulerInvariant, PTL

\* A nudge starts nobody.
LEMMA NudgeStartsNobody ==
    ASSUME NEW R \in [Requests -> ReqStates], NEW G, NEW m, Nudge(R, G, m), NEW r \in Requests,
           req'[r].phase = "running"
    PROVE  R[r].phase = "running"
<1>1. CASE closed
  BY <1>1 DEF Nudge
<1>2. CASE ~closed
  <2> DEFINE H == Pump(R, G, m)
             S == Granted(R, H)
             T == Dispatched(S, H, m)
  <2>1. req' = T
    BY <1>2 DEF Nudge
  <2>2. GrantedTo(R, H, S, T, m)
    BY GrantsAre
  <2> HIDE DEF H, S, T
  <2> QED BY <2>1, <2>2 DEF GrantedTo
<1> QED BY <1>1, <1>2

\* Only markStarted starts a request.
LEMMA OnlyStarts ==
    ASSUME SchedulerInv, [Next]_vars, NEW r \in Requests, Starting(r)
    PROVE  Start(r)
<1>1. /\ req \in [Requests -> ReqStates] /\ req[r].phase # "running"
      /\ req'[r].phase = "running"
  BY DEF SchedulerInv, Tables, Starting
<1>2. Absent \in ReqStates /\ Absent.phase = "absent"
  BY DEF Absent, ReqStates, Phases, Classes
<1>3. ASSUME NEW class \in Classes, NEW g \in Groups, Refuse(class, g) PROVE FALSE
  BY <1>1, <1>3 DEF Refuse
<1>4. ASSUME NEW class \in Classes, NEW g \in Groups, NEW q \in Requests, Admit(q, class, g)
      PROVE  FALSE
  <2> DEFINE x == [phase |-> "waiting", class |-> class, group |-> g]
             R == [req EXCEPT ![q] = x]
  <2>1. x \in ReqStates /\ x.phase = "waiting"
    BY DEF ReqStates, Phases
  <2>2. (\E G : Nudge(req, G, mode)) \/ (\E G : Nudge(R, G, mode))
    BY <1>4 DEF Admit
  <2> HIDE DEF x
  <2>3. R \in [Requests -> ReqStates] /\ R[r].phase # "running"
    BY <1>1, <2>1
  <2> HIDE DEF R
  <2> QED BY <1>1, <2>2, <2>3, NudgeStartsNobody
<1>5. ASSUME NEW q \in Requests, Abandon(q) \/ Finish(q) PROVE FALSE
  <2> DEFINE R == [req EXCEPT ![q] = Absent]
  <2>1. \E G : Nudge(R, G, mode)
    BY <1>5 DEF Abandon, Finish
  <2>2. R \in [Requests -> ReqStates] /\ R[r].phase # "running"
    BY <1>1, <1>2
  <2> HIDE DEF R
  <2> QED BY <1>1, <2>1, <2>2, NudgeStartsNobody
<1>6. ASSUME NEW q \in Requests, Resume(q) \/ Defer(q) PROVE FALSE
  <2> DEFINE x(p) == [req[q] EXCEPT !.phase = p]
             R(p) == [req EXCEPT ![q] = x(p)]
  <2>1. ASSUME NEW p \in Unstarted PROVE R(p) \in [Requests -> ReqStates] /\ R(p)[r].phase # "running"
    <3>1. req[q] \in [phase : Phases, class : Classes, group : Groups \cup {NoGroup}]
      BY <1>1 DEF ReqStates
    <3>2. p \in Phases /\ p # "running"
      BY DEF Phases, Unstarted
    <3>3. x(p) \in ReqStates /\ x(p).phase # "running"
      BY <3>1, <3>2 DEF ReqStates
    <3> HIDE DEF x
    <3> QED BY <1>1, <3>3
  <2>2. "leased" \in Unstarted /\ "parked" \in Unstarted /\ "admitting" \in Unstarted
    BY DEF Unstarted
  <2>3. req' \in {R("leased"), R("admitting")} \/ Nudge(R("parked"), groups, mode)
    BY <1>6 DEF Resume, Defer
  <2> HIDE DEF R
  <2> QED BY <1>1, <2>1, <2>2, <2>3, NudgeStartsNobody
<1>7. ASSUME NEW q \in Requests, Start(q) PROVE q = r
  BY <1>1, <1>7 DEF Start
<1>8. ASSUME NEW g \in Groups, TimerFires(g) PROVE FALSE
  <2>1. \E G : Nudge(req, G, mode)
    BY <1>8 DEF TimerFires
  <2> QED BY <1>1, <2>1, NudgeStartsNobody
<1>9. ASSUME NEW m \in Modes, Refresh(m) PROVE FALSE
  BY <1>1, <1>9, NudgeStartsNobody DEF Refresh
<1>10. ASSUME MicroNudge PROVE FALSE
  BY <1>1, <1>10, NudgeStartsNobody DEF MicroNudge
<1>11. ASSUME Close PROVE FALSE
  <2>1. req'[r] = IF req[r].phase = "waiting" THEN Absent ELSE req[r]
    BY <1>11 DEF Close
  <2> QED BY <1>1, <1>2, <2>1
<1>12. ASSUME Tick \/ UNCHANGED vars PROVE FALSE
  BY <1>1, <1>12 DEF Tick, vars
<1> QED
  BY <1>3, <1>4, <1>5, <1>6, <1>7, <1>8, <1>9, <1>10, <1>11, <1>12 DEF Next

\* What a start finds in adaptive mode.
LEMMA StartsWhenReady ==
    ASSUME SchedulerInv, [Next]_vars, NEW r \in Requests, Starting(r), mode = "adaptive"
    PROVE  LET g == req[r].group
           IN /\ g \in Groups /\ req[r].class \in Classes
              /\ groups[g].clocks \in Clocks /\ history[g] \in Histories
              /\ ClocksInv(groups[g].clocks, history[g])
              /\ Lists(req, groups[g], g)
              /\ ~Held(req, groups[g], req[r].class)
              /\ req[r].class = "standard" => groups[g].clocks.next = 0
<1> DEFINE g == req[r].group
<1>1. Start(r)
  BY OnlyStarts
<1>2. req[r].phase = "admitting" /\ ReadyFor(req, groups[g], mode, r)
  BY <1>1 DEF Start
<1>3. /\ req \in [Requests -> ReqStates] /\ Connected(req)
      /\ groups \in [Groups -> GroupStates] /\ history \in [Groups -> Histories]
      /\ \A h \in Groups : ClocksInv(groups[h].clocks, history[h]) /\ Lists(req, groups[h], h)
  BY DEF SchedulerInv, Tables
<1>4. g \in Groups /\ req[r].class \in Classes
  BY <1>2, <1>3 DEF Connected, ReqStates
<1>5. ~Held(req, groups[g], req[r].class) /\ (req[r].class = "standard" => groups[g].clocks.next = 0)
  BY <1>2 DEF ReadyFor
<1> HIDE DEF g
<1>6. /\ g \in Groups /\ req[r].class \in Classes
      /\ groups[g].clocks \in Clocks /\ history[g] \in Histories
      /\ ClocksInv(groups[g].clocks, history[g])
      /\ Lists(req, groups[g], g)
      /\ ~Held(req, groups[g], req[r].class)
      /\ req[r].class = "standard" => groups[g].clocks.next = 0
  BY <1>3, <1>4, <1>5 DEF GroupStates
<1> QED BY <1>6 DEF g

\* Nobody starts while anybody of a higher class is in the group, or before the
\* cooldowns of the higher classes have passed.
StartIsInOrder ==
    \A r \in Requests : (Starting(r) /\ mode = "adaptive") =>
          LET g == req[r].group
              rank == Rank[req[r].class]
          IN /\ \A q \in Requests : req[q].group = g => Rank[req[q].class] <= rank
             /\ rank < 2 => history[g].foreground >= IdleTime
             /\ rank < 1 => history[g].interactive >= IdleTime

\* A step of the scheduler starts requests in that order.
LEMMA StepStartsInOrder == SchedulerInv /\ [Next]_vars => [StartIsInOrder]_vars
<1> SUFFICES ASSUME SchedulerInv, [Next]_vars, NEW r \in Requests, Starting(r), mode = "adaptive"
             PROVE  LET g == req[r].group
                        rank == Rank[req[r].class]
                    IN /\ \A q \in Requests : req[q].group = g => Rank[req[q].class] <= rank
                       /\ rank < 2 => history[g].foreground >= IdleTime
                       /\ rank < 1 => history[g].interactive >= IdleTime
  BY DEF StartIsInOrder
<1> DEFINE g == req[r].group
           class == req[r].class
           rank == Rank[class]
<1>1. /\ g \in Groups /\ class \in Classes /\ groups[g].clocks \in Clocks
      /\ ClocksInv(groups[g].clocks, history[g]) /\ Lists(req, groups[g], g)
      /\ ~Held(req, groups[g], class) /\ history[g] \in Histories
  BY StartsWhenReady
<1>2. \A q \in Requests : req[q].class \in Classes
  BY DEF SchedulerInv, Tables, ReqStates
<1>3. \A c \in Classes : Rank[c] \in 0..2
  BY DEF Classes, Rank
<1>4. /\ rank < 2 => class # "foreground"
      /\ rank < 1 => class = "standard"
  BY <1>1 DEF Classes, Rank
<1> HIDE DEF g, class
<1>5. ASSUME NEW q \in Requests, req[q].group = g PROVE Rank[req[q].class] <= rank
  <2>1. q \in Range(groups[g].leases) \cup Range(groups[g].waiters)
    BY <1>1, <1>5 DEF Lists
  <2>2. ~(Rank[req[q].class] > Rank[class])
    BY <1>1, <2>1 DEF Held
  <2> QED BY <1>1, <1>2, <1>3, <2>2
<1>6. /\ groups[g].clocks.foreground \in Int /\ groups[g].clocks.interactive \in Int
      /\ IdleTime \in Nat /\ HistoryTime \in Nat
      /\ history[g].foreground \in Int /\ history[g].interactive \in Int
  <2>1. IdleTime \in Nat /\ RampTime \in Nat /\ HistoryTime \in Nat
    BY RampLength
  <2>2. history[g].foreground \in 0..HistoryTime /\ history[g].interactive \in 0..HistoryTime
    BY <1>1 DEF Histories
  <2> QED BY <1>1, <2>1, <2>2, Idleness
<1>7. rank < 2 => history[g].foreground >= IdleTime
  <2> SUFFICES ASSUME rank < 2 PROVE history[g].foreground >= IdleTime
    OBVIOUS
  <2>1. ~(groups[g].clocks.foreground > 0)
    BY <1>1, <1>4 DEF Held
  <2> QED BY <1>1, <1>6, <2>1 DEF ClocksInv
<1>8. rank < 1 => history[g].interactive >= IdleTime
  <2> SUFFICES ASSUME rank < 1 PROVE history[g].interactive >= IdleTime
    OBVIOUS
  <2>1. ~(groups[g].clocks.interactive > 0)
    BY <1>1, <1>4 DEF Held
  <2> QED BY <1>1, <1>6, <2>1 DEF ClocksInv
<1> QED BY <1>5, <1>7, <1>8 DEF g, class

\* Whoever starts, starts in the order of the classes.
THEOREM ClassesStartInOrder == Spec => StartsInOrder
<1>1. Spec => [][StartIsInOrder]_vars
  BY SchedulerInvariant, StepStartsInOrder, PTL DEF Spec
<1> QED BY <1>1 DEF StartsInOrder, StartIsInOrder

\* A background request starts an interval after the last one, or in a group
\* that has recovered.
StartIsPaced ==
    \A r \in Requests :
          (Starting(r) /\ req[r].class = "standard" /\ mode = "adaptive") =>
             LET g == req[r].group
             IN QuietTime(g) >= HistoryTime \/ history[g].start >= RampInterval

\* A step of the scheduler paces the starts while a group recovers.
LEMMA StepRecoveryIsPaced == SchedulerInv /\ [Next]_vars => [StartIsPaced]_vars
<1> SUFFICES ASSUME SchedulerInv, [Next]_vars, NEW r \in Requests, Starting(r),
                    req[r].class = "standard", mode = "adaptive"
             PROVE  LET g == req[r].group
                    IN QuietTime(g) >= HistoryTime \/ history[g].start >= RampInterval
  BY DEF StartIsPaced
<1> DEFINE g == req[r].group
<1>1. /\ g \in Groups /\ groups[g].clocks \in Clocks /\ history[g] \in Histories
      /\ ClocksInv(groups[g].clocks, history[g]) /\ groups[g].clocks.next = 0
  BY StartsWhenReady
<1> HIDE DEF g
<1> DEFINE c == groups[g].clocks
           h == history[g]
<1>2. /\ c.foreground \in Int /\ c.interactive \in Int
      /\ IdleFor(c) = IF c.foreground >= c.interactive THEN -c.foreground ELSE -c.interactive
      /\ IdleTime \in Nat /\ RampTime \in Nat /\ RampInterval \in Nat
      /\ HistoryTime = IdleTime + RampTime
  BY <1>1, Idleness, RampLength
<1>3. h.foreground \in Int /\ h.interactive \in Int /\ h.start \in Int
  <2>1. /\ h.foreground \in 0..HistoryTime /\ h.interactive \in 0..HistoryTime
        /\ h.start \in 0..RampInterval
    BY <1>1 DEF Histories
  <2> QED BY <1>2, <2>1
<1>4. QuietTime(g) = IF h.foreground <= h.interactive THEN h.foreground ELSE h.interactive
  BY <1>3, MinOfTwo DEF QuietTime
<1>5. /\ c.next = 0
      /\ h.foreground + c.foreground = IdleTime
      /\ h.interactive + c.interactive = IdleTime
      /\ IdleFor(c) >= RampTime \/ h.start + c.next >= RampInterval
  BY <1>1 DEF ClocksInv
<1> HIDE DEF c, h
<1>6. QuietTime(g) >= HistoryTime \/ h.start >= RampInterval
  BY <1>2, <1>3, <1>4, <1>5
<1> QED BY <1>6 DEF g, h

\* While a group recovers, its background requests start one interval apart.
THEOREM BackgroundIsPaced == Spec => RecoveryIsPaced
<1>1. Spec => [][StartIsPaced]_vars
  BY SchedulerInvariant, StepRecoveryIsPaced, PTL DEF Spec
<1> QED BY <1>1 DEF RecoveryIsPaced, StartIsPaced
===============================================================================
