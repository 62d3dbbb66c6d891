--------------------------- MODULE RequestScheduler ---------------------------
(***************************************************************************)
(* Adaptive admission of inference requests by priority class:             *)
(* RequestScheduler of src/src/request-scheduler.mjs, with the steps by    *)
(* which a connected request of src/src/server.mjs uses it.                *)
(*                                                                         *)
(* One process, one event loop: every method runs to its end in one turn,  *)
(* so each is one action, together with the nudge (the pump over all       *)
(* groups) it ends in.  Deadlines are kept as the time that remains until  *)
(* them.  A deadline that lies RampTime or more in the past behaves as one *)
(* that was never set, so clocks stop there and time itself is unbounded.  *)
(*                                                                         *)
(* Left out: rate-limiter scopes shared between groups; unmanaged          *)
(* backends, whose wait predicate starts the request inside the pump; the  *)
(* slot queue of a runtime, which is when an "admitting" request starts.   *)
(***************************************************************************)
EXTENDS Integers, Sequences, FiniteSets, FiniteSetsExt, SequencesExt, Subsequences

CONSTANTS
    Requests,       \* connections that can be in use at once
    Groups,         \* compute groups
    NoGroup,        \* the group of no request
    Modes,          \* modes that configuration reloads publish
    MaxQueued,      \* settings: maxQueuedRequests
    MaxBackground,  \* settings: backgroundMaxConcurrency
    RampInterval,   \* settings: rampIntervalMs
    IdleTime        \* settings: foregroundIdleMs

ASSUME SettingsAssumption ==
    /\ NoGroup \notin Groups
    /\ Modes \subseteq {"adaptive", "off"}
    /\ MaxQueued \in Nat
    /\ MaxBackground \in Nat \ {0}
    /\ RampInterval \in Nat
    /\ IdleTime \in Nat

VARIABLES
    mode,        \* "adaptive", or "off" (interrupt mode differs only elsewhere)
    closed,      \* close() was called
    req,         \* [phase, class, group] of each connection
    groups,      \* this.groups
    microNudge,  \* markStarted has queued a nudge as a microtask
    history      \* per group: time since the last higher-class leases and the
                 \* last paced start; read by the properties only

vars == <<mode, closed, req, groups, microNudge, history>>

-----------------------------------------------------------------------------
Classes == {"standard", "interactive", "foreground"}

Rank == [standard |-> 0, interactive |-> 1, foreground |-> 2]

\* waiting:   in state.waiters.            leased: admit() resolved, owner to resume.
\* parked:    in dispatchWaiters.          admitting: ready; loading or in a slot queue.
\* running:   markStarted was called.
Unstarted == {"leased", "parked", "admitting"}
Phases == Unstarted \cup {"absent", "waiting", "running"}

Absent == [phase |-> "absent", class |-> "standard", group |-> NoGroup]

RampTime == RampInterval * MaxBackground

HistoryTime == IdleTime + RampTime

Unset == -1

\* The clocks of a group: time left of the two cooldowns and before the next
\* paced start; negative cooldowns are time since.
Quiet == [foreground |-> -RampTime, interactive |-> -RampTime, next |-> 0]

NewGroup == [known |-> FALSE, waiters |-> <<>>, leases |-> <<>>,
             clocks |-> Quiet, timer |-> Unset]

Clocks == [foreground : -RampTime..IdleTime, interactive : -RampTime..IdleTime,
           next : 0..RampInterval]

ReqStates == [phase : Phases, class : Classes, group : Groups \cup {NoGroup}]

GroupStates == [known : BOOLEAN, waiters : Seq(Requests), leases : Seq(Requests),
                clocks : Clocks, timer : Unset..(IdleTime + RampTime + RampInterval)]

\* The lists of group g in state s have those that wait and that hold leases
\* in it, once each.
Lists(R, s, g) ==
    /\ {r \in Requests : R[r].group = g /\ R[r].phase = "waiting"} = Range(s.waiters)
    /\ {r \in Requests : R[r].group = g /\ R[r].phase # "waiting"} = Range(s.leases)
    /\ IsInjective(s.waiters) /\ IsInjective(s.leases)

TypeOK ==
    /\ mode \in {"adaptive", "off"}
    /\ closed \in BOOLEAN
    /\ req \in [Requests -> ReqStates]
    /\ groups \in [Groups -> GroupStates]
    /\ \A g \in Groups : Lists(req, groups[g], g)
    /\ microNudge \in BOOLEAN
    /\ history \in [Groups -> [foreground : 0..HistoryTime, interactive : 0..HistoryTime,
                               start : 0..RampInterval]]

-----------------------------------------------------------------------------
\* A list of requests after r has left it.
Without(list, r) == Kept(list, Requests \ {r})

(* held, capacity, readyFor.  The parameters R, s and m are the requests, a   *)
(* group and the mode at a point of a turn.                                   *)

\* Time since the last cooldown ended, negative while it lasts.
IdleFor(c) == -Max({c.foreground, c.interactive})

CapacityAt(c) ==
    IF RampInterval = 0 THEN MaxBackground
    ELSE Min({MaxBackground, 1 + Max({0, IdleFor(c)}) \div RampInterval})

Held(R, s, class) ==
    \/ \E r \in Range(s.leases) \cup Range(s.waiters) : Rank[R[r].class] > Rank[class]
    \/ class # "foreground" /\ s.clocks.foreground > 0
    \/ class = "standard" /\ s.clocks.interactive > 0

OfClass(R, seq, class) == Kept(seq, {r \in Requests : R[r].class = class})

\* The first standard leases of a group, up to its capacity, may start.
WithinCapacity(R, s, r) ==
    LET standard == OfClass(R, s.leases, "standard")
    IN \E i \in DOMAIN standard : standard[i] = r /\ i <= CapacityAt(s.clocks)

ReadyFor(R, s, m, r) ==
    \/ m # "adaptive"
    \/ R[r].phase = "running"
    \/ /\ ~Held(R, s, R[r].class)
       /\ R[r].class = "standard" => s.clocks.next = 0 /\ WithinCapacity(R, s, r)

-----------------------------------------------------------------------------
(* The pump. *)

\* The waiters of a group that get a lease.  A promotion changes neither who
\* is present in the group nor the clocks, so a class moves together; of
\* standard, only the first ones move, up to the capacity.
Promoted(R, s, m) ==
    LET standard == OfClass(R, s.waiters, "standard")
        room     == CapacityAt(s.clocks) - Len(OfClass(R, s.leases, "standard"))
        first    == {standard[i] : i \in {j \in DOMAIN standard : j <= room}}
    IN {r \in Range(s.waiters) :
          \/ m # "adaptive"
          \/ /\ ~Held(R, s, R[r].class)
             /\ R[r].class = "standard" => s.clocks.next = 0 /\ r \in first}

\* Mutant of Deadlines: no timer for the next step of the ramp.
DeadlinesWithoutRamp(c) ==
    {d \in {c.foreground, c.interactive, c.next} : d > 0}

\* The times left until a pending request of the group may become eligible.
Deadlines(c) ==
    LET nextStep == IF RampInterval > 0 /\ CapacityAt(c) < MaxBackground
                    THEN {CapacityAt(c) * RampInterval - IdleFor(c)} ELSE {}
    IN {d \in {c.foreground, c.interactive, c.next} \cup nextStep : d > 0}

\* Mutant of ForgetIn: a group without requests is forgotten at once.
ForgetInAtOnce(c) == 0

\* The time left until a group without requests may be forgotten.
ForgetIn(c) == Max({RampTime - IdleFor(c), c.next})

PumpGroup(R, s, m) ==
    LET up      == Promoted(R, s, m)
        leases  == s.leases \o Kept(s.waiters, up)
        waiters == Kept(s.waiters, Requests \ up)
        pending == \/ waiters # <<>>
                   \/ \E r \in Range(leases) : R[r].phase # "running"
        pumped(t) == [s EXCEPT !.leases = leases, !.waiters = waiters, !.timer = t]
    IN IF leases = <<>> /\ waiters = <<>>
       THEN IF ForgetIn(s.clocks) = 0 THEN NewGroup ELSE pumped(ForgetIn(s.clocks))
       ELSE IF pending /\ m = "adaptive" /\ Deadlines(s.clocks) # {}
            THEN pumped(Min(Deadlines(s.clocks)))
            ELSE pumped(Unset)

Pump(R, G, m) ==
    [g \in Groups |-> IF G[g].known THEN PumpGroup(R, G[g], m) ELSE G[g]]

\* The promise of whoever was promoted is resolved.
Granted(R, G) ==
    [r \in Requests |->
        IF R[r].phase = "waiting" /\ r \in Range(G[R[r].group].leases)
        THEN [R[r] EXCEPT !.phase = "leased"] ELSE R[r]]

\* The dispatch waiters that are ready are resolved.
Dispatched(R, G, m) ==
    [r \in Requests |->
        IF R[r].phase = "parked" /\ ReadyFor(R, G[R[r].group], m, r)
        THEN [R[r] EXCEPT !.phase = "admitting"] ELSE R[r]]

\* nudge(): promote in every group, then dispatch.
Nudge(R, G, m) ==
    IF closed THEN req' = R /\ groups' = G
    ELSE LET pumped == Pump(R, G, m)
         IN /\ req' = Dispatched(Granted(R, pumped), pumped, m)
            /\ groups' = pumped

-----------------------------------------------------------------------------
Init ==
    /\ mode = "adaptive"
    /\ closed = FALSE
    /\ req = [r \in Requests |-> Absent]
    /\ groups = [g \in Groups |-> NewGroup]
    /\ microNudge = FALSE
    /\ history = [g \in Groups |-> [foreground |-> HistoryTime,
                                    interactive |-> HistoryTime, start |-> RampInterval]]

Present(g, class, phases) ==
    {r \in Requests : req[r].group = g /\ req[r].class = class /\ req[r].phase \in phases}

\* Mutant of Queued: a lease that has not started leaves the waiting room.
QueuedWaiters(g, class) == Cardinality(Present(g, class, {"waiting"}))

Queued(g, class) == Cardinality(Present(g, class, {"waiting"} \cup Unstarted))

\* The waiting room of the class is full: the call only leaves a known group.
Overflows(g, class) == Queued(g, class) >= MaxQueued /\ Queued(g, class) > 0

Refuse(class, g) ==
    /\ mode = "adaptive" /\ ~closed
    /\ Overflows(g, class)
    /\ groups' = [groups EXCEPT ![g].known = TRUE]
    /\ UNCHANGED <<mode, closed, req, microNudge, history>>

\* admit(): push and nudge; without any waiting room a request that was not
\* promoted at once is removed again.
Admit(r, class, g) ==
    /\ mode = "adaptive" /\ ~closed
    /\ req[r] = Absent
    /\ ~Overflows(g, class)
    /\ LET R == [req EXCEPT ![r] = [phase |-> "waiting", class |-> class, group |-> g]]
           G == [groups EXCEPT ![g].known = TRUE, ![g].waiters = Append(@, r)]
       IN IF MaxQueued = 0 /\ r \notin Promoted(R, G[g], mode)
          THEN Nudge(req, [groups EXCEPT ![g].known = TRUE], mode)
          ELSE Nudge(R, G, mode)
    /\ UNCHANGED <<mode, closed, microNudge, history>>

\* Mutant of Abandon: the abort listener leaves the entry in the list.
AbandonUnlisted(r) ==
    /\ req[r].phase = "waiting"
    /\ Nudge([req EXCEPT ![r] = Absent], groups, mode)
    /\ UNCHANGED <<mode, closed, microNudge, history>>

\* The caller disconnects, or its queue timeout expires, before it has a lease.
Abandon(r) ==
    /\ req[r].phase = "waiting"
    /\ Nudge([req EXCEPT ![r] = Absent],
             [groups EXCEPT ![req[r].group].waiters = Without(@, r)], mode)
    /\ UNCHANGED <<mode, closed, microNudge, history>>

\* The owner of a lease calls waitFor(readyForAdmission).
Resume(r) ==
    /\ req[r].phase = "leased"
    /\ ~closed
    /\ IF ReadyFor(req, groups[req[r].group], mode, r)
       THEN req' = [req EXCEPT ![r].phase = "admitting"] /\ UNCHANGED groups
       ELSE /\ MaxQueued > 0
            /\ Nudge([req EXCEPT ![r].phase = "parked"], groups, mode)
    /\ UNCHANGED <<mode, closed, microNudge, history>>

\* markStarted: starts are paced until the ramp is over.
AfterStart(c, class) ==
    IF class = "standard" /\ IdleFor(c) < RampTime THEN [c EXCEPT !.next = RampInterval] ELSE c

\* Mutant of Start: the answer of waitFor is used after the owner was suspended.
StartUnchecked(r) ==
    LET g == req[r].group IN
    /\ req[r].phase = "admitting"
    /\ ~closed
    /\ req' = [req EXCEPT ![r].phase = "running"]
    /\ groups' = [groups EXCEPT ![g].clocks = AfterStart(@, req[r].class)]
    /\ history' = [history EXCEPT ![g].start =
                       IF req[r].class = "standard" THEN 0 ELSE @]
    /\ microNudge' = TRUE
    /\ UNCHANGED <<mode, closed>>

\* A slot is free and canAdmit() holds in the same turn: the request starts.
Start(r) ==
    LET g == req[r].group IN
    /\ req[r].phase = "admitting"
    /\ ~closed /\ ReadyFor(req, groups[g], mode, r)
    /\ req' = [req EXCEPT ![r].phase = "running"]
    /\ groups' = [groups EXCEPT ![g].clocks = AfterStart(@, req[r].class)]
    /\ history' = [history EXCEPT ![g].start =
                       IF req[r].class = "standard" THEN 0 ELSE @]
    /\ microNudge' = TRUE
    /\ UNCHANGED <<mode, closed>>

\* The guard of loading or of the slot queue fails: back to the scheduler.
Defer(r) ==
    /\ req[r].phase = "admitting"
    /\ ~closed /\ ~ReadyFor(req, groups[req[r].group], mode, r)
    /\ req' = [req EXCEPT ![r].phase = "leased"]
    /\ UNCHANGED <<mode, closed, groups, microNudge, history>>

\* lease.release() of a higher class starts its cooldown and ends the pacing.
AfterRelease(c, class) ==
    IF class = "standard" THEN c ELSE [c EXCEPT ![class] = IdleTime, !.next = 0]

\* Mutant of Finish: a release that does not nudge.
FinishSilently(r) ==
    LET g == req[r].group
        class == req[r].class IN
    /\ req[r].phase \in Unstarted \cup {"running"}
    /\ req' = [req EXCEPT ![r] = Absent]
    /\ groups' = [groups EXCEPT ![g].leases = Without(@, r),
                                ![g].clocks = AfterRelease(@, class)]
    /\ history' = IF class = "standard" THEN history
                  ELSE [history EXCEPT ![g][class] = 0, ![g].start = RampInterval]
    /\ UNCHANGED <<mode, closed, microNudge>>

\* A request with a lease ends: served, failed, timed out or disconnected.
Finish(r) ==
    LET g == req[r].group
        class == req[r].class IN
    /\ req[r].phase \in Unstarted \cup {"running"}
    /\ Nudge([req EXCEPT ![r] = Absent],
             [groups EXCEPT ![g].leases = Without(@, r),
                            ![g].clocks = AfterRelease(@, class)], mode)
    /\ history' = IF class = "standard" THEN history
                  ELSE [history EXCEPT ![g][class] = 0, ![g].start = RampInterval]
    /\ UNCHANGED <<mode, closed, microNudge>>

\* The microtask of markStarted.
MicroNudge ==
    /\ microNudge
    /\ microNudge' = FALSE
    /\ Nudge(req, groups, mode)
    /\ UNCHANGED <<mode, closed, history>>

\* The timer of a group fires.  Nothing clears it before the pump.
TimerFires(g) ==
    /\ groups[g].timer = 0
    /\ Nudge(req, [groups EXCEPT ![g].timer = Unset], mode)
    /\ UNCHANGED <<mode, closed, microNudge, history>>

\* A configuration reload publishes the mode, and its limiter sync nudges.
Refresh(m) ==
    /\ m # mode /\ ~closed
    /\ mode' = m
    /\ Nudge(req, groups, m)
    /\ UNCHANGED <<closed, microNudge, history>>

\* close(): timers are cleared; whoever waits for a lease is rejected.
Close ==
    /\ ~closed
    /\ closed' = TRUE
    /\ req' = [r \in Requests |-> IF req[r].phase = "waiting" THEN Absent ELSE req[r]]
    /\ groups' = [g \in Groups |-> [groups[g] EXCEPT !.waiters = <<>>, !.timer = Unset]]
    /\ UNCHANGED <<mode, microNudge, history>>

Elapsed(c) == [foreground  |-> Max({c.foreground - 1, -RampTime}),
               interactive |-> Max({c.interactive - 1, -RampTime}),
               next        |-> Max({c.next - 1, 0})]

\* One unit of time; a timer that is due may fire late.
Tick ==
    /\ groups' = [g \in Groups |->
                    [groups[g] EXCEPT !.clocks = Elapsed(@),
                                      !.timer = IF @ > 0 THEN @ - 1 ELSE @]]
    /\ history' = [g \in Groups |->
                     [foreground  |-> Min({history[g].foreground + 1, HistoryTime}),
                      interactive |-> Min({history[g].interactive + 1, HistoryTime}),
                      start       |-> Min({history[g].start + 1, RampInterval})]]
    /\ UNCHANGED <<mode, closed, req, microNudge>>

Next ==
    \/ \E class \in Classes, g \in Groups :
           Refuse(class, g) \/ \E r \in Requests : Admit(r, class, g)
    \/ \E r \in Requests :
           Abandon(r) \/ Resume(r) \/ Start(r) \/ Defer(r) \/ Finish(r)
    \/ \E g \in Groups : TimerFires(g)
    \/ \E m \in Modes : Refresh(m)
    \/ MicroNudge \/ Close \/ Tick

Spec == Init /\ [][Next]_vars

\* The event loop runs what is ready, time passes, a slot is granted to a
\* request that stays ready, and whoever runs comes to an end.
Fairness ==
    /\ WF_vars(Tick) /\ WF_vars(MicroNudge)
    /\ \A g \in Groups : WF_vars(TimerFires(g))
    /\ \A r \in Requests :
           /\ WF_vars(Resume(r)) /\ WF_vars(Start(r)) /\ WF_vars(Defer(r))
           /\ WF_vars(req[r].phase = "running" /\ Finish(r))

FairSpec == Spec /\ Fairness
-----------------------------------------------------------------------------
(* Properties. *)

Starting(r) == req[r].phase # "running" /\ req'[r].phase = "running"

\* A request starts only when nobody of a higher class waits or runs in its
\* group and the cooldown of every higher class has passed, whatever happened
\* while its owner was suspended and however often the group was forgotten.
StartsInOrder ==
    [][\A r \in Requests : (Starting(r) /\ mode = "adaptive") =>
          LET g == req[r].group
              rank == Rank[req[r].class]
          IN /\ \A q \in Requests : req[q].group = g => Rank[req[q].class] <= rank
             /\ rank < 2 => history[g].foreground >= IdleTime
             /\ rank < 1 => history[g].interactive >= IdleTime]_vars

\* Time since somebody of a higher class last held a lease.
QuietTime(g) == Min({history[g].foreground, history[g].interactive})

\* While a group recovers, background requests start one interval apart: also
\* when the group falls idle in between, and when several became ready at once.
RecoveryIsPaced ==
    [][\A r \in Requests :
          (Starting(r) /\ req[r].class = "standard" /\ mode = "adaptive") =>
             LET g == req[r].group
             IN QuietTime(g) >= HistoryTime \/ history[g].start >= RampInterval]_vars

\* The waiting room of a class in a group is bounded, leases that have not
\* started included, and an empty room never refuses a request it can run.
RoomIsBounded ==
    \A g \in Groups, class \in Classes :
        Cardinality(Present(g, class, {"waiting"} \cup Unstarted)) <= Max({1, MaxQueued})

\* No lost wake-up: whoever could move on without any further event has a nudge
\* coming, from the timer of its group or from a microtask.
NoLostWakeup ==
    \A r \in Requests :
        LET s == groups[req[r].group] IN
        (/\ ~closed
         /\ \/ req[r].phase = "waiting" /\ r \in Promoted(req, s, mode)
            \/ req[r].phase = "parked" /\ ReadyFor(req, s, mode, r))
        => microNudge \/ s.timer = 0

\* Background work resumes: once demand of the higher classes has ceased for
\* good, no background request stays in the waiting room.
BackgroundResumes ==
    (<>[](~closed /\ \A q \in Requests : req[q].class = "standard")) =>
        \A r \in Requests :
            (req[r].phase \in {"waiting"} \cup Unstarted)
                ~> (req[r].phase \in {"absent", "running"})

\* docs/request-scheduling.md: after the cooldown "background concurrency starts
\* at one and grows toward backgroundMaxConcurrency by one every rampIntervalMs".
ConcurrencyFollowsRamp ==
    [][\A r \in Requests :
          (Starting(r) /\ req[r].class = "standard" /\ mode = "adaptive") =>
             LET g == req[r].group
                 running == {q \in Requests : req[q].group = g /\ req[q].phase = "running"}
             IN Cardinality(running) + 1 <= CapacityAt(groups[g].clocks)]_vars

=============================================================================
