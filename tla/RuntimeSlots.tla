----------------------------- MODULE RuntimeSlots -----------------------------
(***************************************************************************)
(* The request slots of one runtime: acquireSlot and what it calls in      *)
(* src/src/runtime-manager.mjs.                                            *)
(*                                                                         *)
(* Every method here runs in one turn of the event loop, so each is one    *)
(* action, together with the admission of queued requests it ends in.  A   *)
(* turn works on the pool (slots and queue) under a gate (pause,           *)
(* maintenance marker, limits and guards); AdmitQueued is that work.       *)
(*                                                                         *)
(* The guards a caller passes (canAdmit, canWait) come from the scheduler  *)
(* and the rate limits, which call nudgeAdmissionQueues in the turn in     *)
(* which one of them changes.  Left out: shutdown, a change of the         *)
(* scheduling mode while requests are queued, a guard that throws.         *)
(***************************************************************************)
EXTENDS Naturals, Sequences, FiniteSets, SequencesExt, Subsequences

CONSTANTS
    Foreground, Interactive, Standard,  \* requests, by their class
    Guarded,        \* bound: the requests whose guards change
    Concurrencies,  \* maxConcurrency, as reloads publish it
    ReservedSlots,  \* interactiveReservedSlots
    MaxQueued,      \* maxQueuedRequests
    ReservedQueue   \* interactiveReservedQueueSlots, at most MaxQueued - 1

ASSUME SettingsAssumption ==
    /\ Concurrencies \subseteq Nat \ {0}
    /\ ReservedSlots \in Nat
    /\ MaxQueued \in Nat
    /\ ReservedQueue \in 0..MaxQueued

VARIABLES
    adaptive,   \* requests come in adaptive mode (strictPriority, with guards)
    gate,       \* what decides on admissions besides the pool
    pool        \* active requests, queue, interactive admissions in a row

slotVars == <<adaptive, gate, pool>>

-----------------------------------------------------------------------------
Requests == Foreground \cup Interactive \cup Standard

\* ready: canAdmit.   limited: only canWait.   held: neither, the scheduler
\* prefers another class.   In legacy mode there are no guards.
Guards == {"ready", "limited", "held"}

\* suspended, resuming: a maintenance record; both turn requests away.
Markers == {"none", "suspended", "resuming"}

\* Four, and one that stands for more.
Rows == 0..5

TypeOK ==
    /\ adaptive \in BOOLEAN
    /\ gate \in [paused : BOOLEAN, marker : Markers, max : Concurrencies,
                 guard : [Requests -> Guards], reloading : BOOLEAN]
    /\ pool.active \subseteq Requests
    /\ pool.row \in Rows
    /\ Range(pool.queue) \subseteq Requests \ pool.active
    /\ IsInjective(pool.queue)

Init ==
    /\ adaptive \in BOOLEAN
    /\ \E max \in Concurrencies:
        gate = [paused |-> FALSE, marker |-> "none", max |-> max,
                guard |-> [r \in Requests |-> "ready"], reloading |-> FALSE]
    /\ pool = [active |-> {}, queue |-> <<>>, row |-> 0]

-----------------------------------------------------------------------------
(* One turn.  g and p are a gate and a pool at a point of it.              *)

\* Slots for standard requests: one slot at least is never reserved.
StandardSlots(g) == IF ReservedSlots < g.max THEN g.max - ReservedSlots ELSE 1

\* Mutant: a maintenance record only turns new requests away.
RoomBesidePause(g, p, r) ==
    /\ ~g.paused
    /\ Cardinality(p.active) < g.max
    /\ r \in Standard => Cardinality(p.active \cap Standard) < StandardSlots(g)

\* canAdmitRequest: a foreground request counts as an interactive one.
RoomFor(g, p, r) ==
    /\ g.marker = "none"
    /\ ~g.paused
    /\ Cardinality(p.active) < g.max
    /\ r \in Standard => Cardinality(p.active \cap Standard) < StandardSlots(g)

Eligible(g, p, r) == RoomFor(g, p, r) /\ (adaptive => g.guard[r] = "ready")

\* activateSlot
Activate(p, r) ==
    [p EXCEPT !.active = @ \cup {r},
              !.row = IF r \in Standard THEN 0 ELSE IF @ < 5 THEN @ + 1 ELSE 5]

\* takeEligible: the places in the queue it may take an entry of S from.
Takeable(g, p, S) ==
    {i \in DOMAIN p.queue: p.queue[i] \in S /\ Eligible(g, p, p.queue[i])}

\* Mutant: interactive requests always go first.
CandidatesUnfair(g, p) ==
    LET interactive == Takeable(g, p, Foreground \cup Interactive)
    IN IF interactive # {} THEN interactive ELSE Takeable(g, p, Standard)

\* Mutant: five interactive requests in a row.
CandidatesOffByOne(g, p) ==
    LET interactive == Takeable(g, p, Foreground \cup Interactive)
        standard == Takeable(g, p, Standard)
    IN IF (p.row <= 4 /\ interactive # {}) \/ standard = {} THEN interactive ELSE standard

\* nextQueuedRequest: the places among which the first one is next.
Candidates(g, p) ==
    LET foreground == Takeable(g, p, Foreground)
        interactive == Takeable(g, p, Foreground \cup Interactive)
        standard == Takeable(g, p, Standard)
    IN IF adaptive /\ foreground # {} THEN foreground
       ELSE IF (p.row < 4 /\ interactive # {}) \/ standard = {} THEN interactive
       ELSE standard

\* Mutant: an admitted entry stays in the queue.
AdmitTwice(p, i) == Activate(p, p.queue[i])

\* One turn of the loop: the entry leaves the queue and gets a slot.
AdmitAt(p, i) == [Activate(p, p.queue[i]) EXCEPT !.queue = RemoveAt(@, i)]

AdmitNext(g, p) ==
    IF Candidates(g, p) = {} THEN p ELSE AdmitAt(p, Min(Candidates(g, p)))

\* admitQueuedRequests: until the slots or the eligible entries run out.  There
\* is one pool after each turn; it is in a set so that TLC computes it once.
AdmitQueued(g, p) ==
    LET after[n \in 0..g.max] ==
            IF n = 0 THEN {p} ELSE {AdmitNext(g, q): q \in after[n - 1]}
    IN CHOOSE q \in after[g.max]: TRUE

\* nudgeAdmissionQueues: held entries leave for the scheduler first.
Nudge(g, p) ==
    AdmitQueued(g, [p EXCEPT !.queue =
        IF adaptive THEN Kept(@, {r \in Requests: g.guard[r] # "held"}) ELSE @])

-----------------------------------------------------------------------------
(* Requests                                                                *)

Active(r) == r \in pool.active
Queued(r) == r \in Range(pool.queue)

\* Mutant: the queue positions kept for interactive requests are not kept.
QueueFullUnreserved(r) == Len(pool.queue) >= MaxQueued

\* Adaptive waiting rooms are bounded per class, legacy ones as a whole.
QueueFull(r) ==
    LET waiting(S) == Cardinality(Range(pool.queue) \cap S)
    IN IF adaptive
       THEN \E class \in {Foreground, Interactive, Standard}:
                r \in class /\ waiting(class) >= MaxQueued
       ELSE \/ Len(pool.queue) >= MaxQueued
            \/ r \in Standard /\ waiting(Standard) >= MaxQueued - ReservedQueue

\* acquireSlot: at once, or in the queue, unless it has to turn r away.
Acquire(r) ==
    /\ ~Active(r) /\ ~Queued(r)
    /\ gate.marker = "none"
    /\ IF Eligible(gate, pool, r)
       THEN pool' = Activate(pool, r)
       ELSE /\ adaptive => gate.guard[r] # "held"
            /\ ~QueueFull(r)
            /\ pool' = [pool EXCEPT !.queue = Append(@, r)]
    /\ UNCHANGED <<adaptive, gate>>

\* A queued request times out, or its client hangs up.
Leave(r) ==
    /\ Queued(r)
    /\ pool' = [pool EXCEPT !.queue = Kept(@, Requests \ {r})]
    /\ UNCHANGED <<adaptive, gate>>

\* Mutant: only the freed slot is filled, by the oldest entry.
ReleaseToOldest(r) ==
    /\ Active(r)
    /\ LET freed == [pool EXCEPT !.active = @ \ {r}]
       IN pool' = IF pool.queue # <<>> /\ Eligible(gate, freed, Head(pool.queue))
                  THEN AdmitAt(freed, 1) ELSE freed
    /\ UNCHANGED <<adaptive, gate>>

\* releaseSlot
Release(r) ==
    /\ Active(r)
    /\ pool' = AdmitQueued(gate, [pool EXCEPT !.active = @ \ {r}])
    /\ UNCHANGED <<adaptive, gate>>

-----------------------------------------------------------------------------
(* The gate.  Operators that other actions are built from change one field *)
(* and the pool; what calls them is in RuntimePauses.                      *)

\* pauseRuntime
Pause ==
    /\ gate' = [gate EXCEPT !.paused = TRUE]
    /\ UNCHANGED <<adaptive, pool>>

\* resumeRuntime: whoever paused.
Resume ==
    /\ gate' = [gate EXCEPT !.paused = FALSE]
    /\ pool' = AdmitQueued(gate', pool)
    /\ UNCHANGED adaptive

\* A reload that only changes a maintenance record: the manager adopts it,
\* and its listeners are notified later.
SetMarker(m) ==
    /\ gate' = [gate EXCEPT !.marker = m, !.reloading = TRUE]
    /\ UNCHANGED <<adaptive, pool>>

\* rateLimitRegistry.sync, the last step of every reload.
Reloaded ==
    /\ gate.reloading
    /\ gate' = [gate EXCEPT !.reloading = FALSE]
    /\ pool' = Nudge(gate', pool)
    /\ UNCHANGED adaptive

\* A reload of the slot limits; active requests stay.
ChangeLimits(max) ==
    /\ max # gate.max
    /\ gate' = [gate EXCEPT !.max = max]
    /\ pool' = AdmitQueued(gate', pool)
    /\ UNCHANGED adaptive

\* The scheduler or a rate limit changes its mind about r.
ChangeGuard(r, guard) ==
    /\ adaptive
    /\ guard # gate.guard[r]
    /\ gate' = [gate EXCEPT !.guard[r] = guard]
    /\ pool' = Nudge(gate', pool)
    /\ UNCHANGED adaptive

-----------------------------------------------------------------------------
RequestStep ==
    \/ \E r \in Requests: Acquire(r) \/ Leave(r) \/ Release(r)
    \/ \E max \in Concurrencies: ChangeLimits(max)
    \/ \E r \in Guarded, guard \in Guards: ChangeGuard(r, guard)

\* Any caller may pause, resume or reload at any time.
Next ==
    \/ RequestStep
    \/ Pause
    \/ Resume
    \/ Reloaded
    \/ \E m \in Markers: ~gate.reloading /\ SetMarker(m)

Spec == Init /\ [][Next]_slotVars

\* A request that has a slot ends.
RequestFairness == \A r \in Requests: WF_slotVars(Release(r))

FairSpec == Spec /\ RequestFairness

-----------------------------------------------------------------------------
(***************************************************************************)
(* No lost wake-up: a request never stays queued that could have a slot    *)
(* (admitQueuedRequests after every change of the pool or the gate).  Only *)
(* between a reload and its notification may one wait for that.            *)
(***************************************************************************)
NoEligibleWaits ==
    gate.reloading \/ \A r \in Range(pool.queue): ~Eligible(gate, pool, r)

(***************************************************************************)
(* Slots and queue positions kept for interactive requests are not given   *)
(* to standard ones, neither at once nor from the queue, and a lowered     *)
(* limit is not exceeded further ("reserving one position for interactive" *)
(* docs/architecture.md:334).                                              *)
(***************************************************************************)
ReserveIsKept ==
    [][/\ pool'.active \subseteq pool.active
          \/ Cardinality(pool'.active) <= gate'.max
       /\ pool'.active \cap Standard \subseteq pool.active
          \/ Cardinality(pool'.active \cap Standard) <= StandardSlots(gate')
       /\ ~adaptive => Len(pool'.queue) <= MaxQueued
       /\ ~adaptive =>
            Cardinality(Range(pool'.queue) \cap Standard) <= MaxQueued - ReservedQueue]_slotVars

(***************************************************************************)
(* "That slot scheduler allows four interactive overtakes before an        *)
(* eligible standard request" (docs/architecture.md:364): an interactive   *)
(* request that is admitted past a standard one, which could have had its  *)
(* slot, is at most the fourth in a row.  (Not so in the few turns between *)
(* a reload and its notification, in which a newcomer may be first.)       *)
(***************************************************************************)
FourOvertakes ==
    [][~adaptive /\ ~gate.reloading =>
        \A i \in pool'.active \ (pool.active \cup Standard), s \in Standard:
            /\ s \in Range(pool.queue) \cap Range(pool'.queue)
            /\ RoomFor(gate', [pool' EXCEPT !.active = @ \ {i}], s)
            => pool'.row <= 4]_slotVars

(***************************************************************************)
(* In legacy mode a standard request gets through, however many            *)
(* interactive ones keep coming, if maintenance is over some day and the   *)
(* runtime never stays paused for good.                                    *)
(***************************************************************************)
StandardGetsThrough ==
    ~adaptive /\ <>[](gate.marker = "none" /\ ~gate.reloading) /\ []<>~gate.paused =>
        \A s \in Standard: Queued(s) ~> ~Queued(s)
=============================================================================
