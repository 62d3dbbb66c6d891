---------------------------- MODULE BackendsProofs ----------------------------
(***************************************************************************)
(* The audio server and the image and music servers implement GpuSlot for  *)
(* every set of requests; with them, every backend keeps its slot.  The    *)
(* video server has no slot, but never two models in memory.               *)
(*                                                                         *)
(* Of the audio server it has to be proved that the busy flag still means  *)
(* the request that raised it: three steps lower it, of two threads, and   *)
(* two of them may come when it was raised again for somebody else.  Of    *)
(* the diffusers' lock, that the request which releases it is the one that *)
(* holds it, and that nobody else's thread runs by then.                   *)
(***************************************************************************)
EXTENDS MCBackends, MediaBridgeProofs

-----------------------------------------------------------------------------
(* The video server.                                                       *)
(***************************************************************************)
(* Neither of its properties is inductive.  What keeps a second model out  *)
(* of memory is where a process may stand when the next one is about to    *)
(* start, and four parties move it there: the request that uses it, the    *)
(* next request, the idle reaper, and the process itself.  WarmInv follows *)
(* one process from its start to its end through all of their hands.       *)
(***************************************************************************)
\* The places in which a request holds the lock.
Holding == {"drain", "spawn", "render", "once", "undo"}

\* A process that somebody is terminating, or has terminated.
Terminating(p) == ending[p] \in {"killing", "reaped", "stuck"}

\* Nobody but p has weights in memory, and p no longer once it is reaped.
OnlyTerminating(p) ==
    /\ p \in WarmRequests
    /\ Terminating(p)
    /\ groups \subseteq {p}
    /\ ending[p] = "reaped" => groups = {}

\* The worker: it is whole, and its request has begun to use it.
WorkerInv ==
    proc # None =>
        /\ releasing = None
        /\ ending[proc] = "no"
        /\ key = want[proc]
        /\ groups \subseteq {proc}
        /\ at[proc] \in {"render", "ended"}

\* The worker being released: there is no other one meanwhile.
ReleaseInv ==
    releasing # None => proc = None /\ OnlyTerminating(releasing)

\* What a request knows from where it is.
WarmRequestInv(r) ==
    /\ lock = r <=> at[r] \in Holding
    /\ at[r] \in {"idle", "validate", "drain", "spawn"} => ending[r] = "no"
    /\ at[r] \in {"drain", "undo"} =>
         /\ proc = None
         /\ releasing \in {None, awaits[r]}
         /\ OnlyTerminating(awaits[r])
    /\ at[r] = "spawn" => proc = None /\ releasing = None /\ groups = {}
    /\ at[r] = "render" => proc # None /\ want[proc] = want[r]
    /\ at[r] = "once" =>
         proc = None /\ releasing = None /\ ending[r] = "no" /\ groups \subseteq {r}

\* Weights in memory are somebody's, or could not be removed.
GroupInv ==
    groups # {} =>
        \/ proc # None \/ releasing # None \/ quarantined
        \/ \E r \in WarmRequests: at[r] \in {"once", "undo"}

StuckInv == \A p \in WarmRequests: ending[p] = "stuck" => quarantined

IdlerInv == \A p \in idlerWaits: Terminating(p)

WarmInv ==
    /\ WarmTypeOK
    /\ WorkerInv
    /\ ReleaseInv
    /\ \A r \in WarmRequests: WarmRequestInv(r)
    /\ GroupInv
    /\ StuckInv
    /\ IdlerInv
    /\ OneModelInMemory

NoneIsNoRequest == None \notin WarmRequests

\* The server starts with nothing in memory.
LEMMA WarmInitInv == ASSUME NoneIsNoRequest, WarmInit PROVE WarmInv
BY DEF NoneIsNoRequest, WarmInit, WarmInv, WarmTypeOK, WorkerInv, ReleaseInv, WarmRequestInv, GroupInv,
       StuckInv, IdlerInv, OneModelInMemory, Holding, Places

\* What the first turn of a release leaves behind: there is no worker any more,
\* but one process that somebody terminates.
ReleaseBegun ==
    /\ proc' = None
    /\ releasing' \in WarmRequests
    /\ OnlyTerminating(releasing)'
    /\ ending' \in [WarmRequests -> {"no", "killing", "reaped", "stuck"}]
    /\ \A p \in WarmRequests: p # releasing' => ending'[p] = ending[p]
    /\ \A p \in WarmRequests: Terminating(p) => ending'[p] = ending[p]
    /\ \A p \in WarmRequests: ending'[p] = "stuck" => ending[p] = "stuck"
    /\ at[releasing'] \notin {"idle", "validate", "drain", "spawn", "once"}
    /\ \A r \in WarmRequests: at[r] \in {"drain", "undo"} => releasing' = releasing

\* It takes the worker, whose request has done with it, or joins the release
\* under way.
LEMMA ReleaseBegins ==
    ASSUME NoneIsNoRequest, WarmInv, ToRelease, BeginRelease, groups' = groups
    PROVE  ReleaseBegun
<1> USE DEF ReleaseBegun
<1> USE DEF NoneIsNoRequest, WarmInv, WarmTypeOK, Terminating, OnlyTerminating, WorkerInv,
        ReleaseInv, WarmRequestInv
<1>1. CASE releasing = None
  <2>1. proc \in WarmRequests
    BY <1>1 DEF ToRelease
  <2>2. /\ releasing' = proc
        /\ proc' = None
        /\ ending' = [ending EXCEPT ![proc] = "killing"]
    BY <1>1 DEF BeginRelease
  <2> QED BY <2>1, <2>2
<1>2. CASE releasing # None
  <2>1. releasing \in WarmRequests /\ UNCHANGED <<releasing, proc, ending>>
    BY <1>2 DEF BeginRelease
  <2> QED BY <1>2, <2>1
<1> QED BY <1>1, <1>2

\* Every step keeps the invariant.
LEMMA WarmStepInv ==
    ASSUME NoneIsNoRequest, WarmInv, [WarmNext]_warmVars
    PROVE  WarmInv'
<1> USE DEF NoneIsNoRequest, WarmInv, WarmTypeOK, Places, Holding, Terminating, OnlyTerminating,
        WorkerInv, ReleaseInv, WarmRequestInv, GroupInv, StuckInv, IdlerInv,
        OneModelInMemory, Place, requestVars, workerVars, processVars
<1>1. CASE UNCHANGED warmVars
  BY <1>1 DEF warmVars
<1>2. CASE IdlerWakes
  <2>1. UNCHANGED <<requestVars, key, quarantined, leaders, groups>>
    BY <1>2 DEF IdlerWakes
  <2>2. CASE lock = None /\ ToRelease
    <3>1. BeginRelease /\ idlerWaits' = idlerWaits \cup {releasing'}
      BY <1>2, <2>2 DEF IdlerWakes
    <3>2. ReleaseBegun /\ idler' = FALSE
      BY <2>1, <2>2, <3>1, ReleaseBegins DEF BeginRelease
    <3>3. WorkerInv' /\ ReleaseInv'
      BY <2>1, <3>2 DEF ReleaseBegun
    <3>4. ASSUME NEW r \in WarmRequests PROVE WarmRequestInv(r)'
      BY <2>1, <2>2, <3>2 DEF ReleaseBegun
    <3>5. GroupInv' /\ StuckInv' /\ OneModelInMemory'
      BY <2>1, <3>2 DEF ReleaseBegun
    <3>6. WarmTypeOK'
      <4>1. idlerWaits' \subseteq WarmRequests
        BY <3>1, <3>2 DEF ReleaseBegun
      <4>2. idler' \in BOOLEAN
        BY <3>2
      <4>3. proc' \in WarmRequests \cup {None} /\ releasing' \in WarmRequests \cup {None}
        BY <3>2 DEF ReleaseBegun
      <4>4. ending' \in [WarmRequests -> {"no", "killing", "reaped", "stuck"}]
        BY <3>2 DEF ReleaseBegun
      <4> QED BY <2>1, <4>1, <4>2, <4>3, <4>4
    <3>7. IdlerInv'
      BY <3>1, <3>2 DEF ReleaseBegun
    <3> QED BY <3>3, <3>4, <3>5, <3>6, <3>7
  <2>3. CASE ~(lock = None /\ ToRelease)
    <3>1. UNCHANGED <<idlerWaits, releasing, proc, ending>> /\ idler' = FALSE
      BY <1>2, <2>3 DEF IdlerWakes
    <3> QED BY <2>1, <3>1
  <2> QED BY <2>2, <2>3
<1>3. ASSUME NEW r \in WarmRequests, Arrive(r) PROVE WarmInv'
  BY <1>3 DEF Arrive
<1>4. ASSUME NEW r \in WarmRequests, Refused(r) PROVE WarmInv'
  BY <1>4 DEF Refused
<1>5. ASSUME NEW r \in WarmRequests, Enter(r) PROVE WarmInv'
  <2>1. /\ at[r] = "validate"
        /\ validation' = None
        /\ UNCHANGED <<want, quarantined, leaders, groups>>
    BY <1>5 DEF Enter
  <2>2. CASE quarantined \/ lock # None
    BY <1>5, <2>1, <2>2 DEF Enter
  <2>3. CASE ~quarantined /\ lock = None
    <3>1. lock' = r
      BY <1>5, <2>3 DEF Enter
    <3>2. ASSUME ToRelease, AwaitRelease(r, "drain"), UNCHANGED <<key, idlerWaits>>
          PROVE  WarmInv'
      <4>1. ReleaseBegun /\ idler' = FALSE
        BY <2>1, <3>2, ReleaseBegins DEF AwaitRelease, BeginRelease
      <4>2. at' = [at EXCEPT ![r] = "drain"] /\ awaits' = [awaits EXCEPT ![r] = releasing']
        BY <3>2 DEF AwaitRelease
      <4>3. WorkerInv' /\ ReleaseInv'
        BY <2>1, <4>1, <4>2 DEF ReleaseBegun
      <4>4. ASSUME NEW q \in WarmRequests PROVE WarmRequestInv(q)'
        <5>1. CASE q = r
          BY <2>1, <3>1, <4>1, <4>2, <5>1 DEF ReleaseBegun
        <5>2. CASE q # r
          BY <2>1, <2>3, <3>1, <4>1, <4>2, <5>2 DEF ReleaseBegun
        <5> QED BY <5>1, <5>2
      <4>5. GroupInv' /\ StuckInv' /\ OneModelInMemory' /\ IdlerInv'
        BY <2>1, <3>2, <4>1, <4>2 DEF ReleaseBegun
      <4>6. WarmTypeOK'
        BY <2>1, <3>1, <3>2, <4>1, <4>2 DEF ReleaseBegun
      <4> QED BY <4>3, <4>4, <4>5, <4>6
    <3>3. ASSUME ~ToRelease, Place(r, "spawn"), idler' = FALSE,
                 UNCHANGED <<awaits, proc, key, idlerWaits, releasing, ending>>
          PROVE  WarmInv'
      <4>1. proc = None /\ releasing = None
        BY <3>3 DEF ToRelease
      <4>2. groups = {}
        BY <2>3, <4>1
      <4>3. ASSUME NEW q \in WarmRequests PROVE WarmRequestInv(q)'
        <5>1. CASE q = r
          BY <2>1, <2>3, <3>1, <3>3, <4>1, <4>2, <5>1
        <5>2. CASE q # r
          BY <2>1, <2>3, <3>1, <3>3, <4>1, <4>2, <5>2
        <5> QED BY <5>1, <5>2
      <4>4. WorkerInv' /\ ReleaseInv'
        BY <2>1, <2>3, <3>1, <3>3, <4>1, <4>2
      <4>5. GroupInv' /\ StuckInv' /\ OneModelInMemory' /\ IdlerInv'
        BY <2>1, <2>3, <3>1, <3>3, <4>1, <4>2
      <4>6. WarmTypeOK'
        BY <2>1, <2>3, <3>1, <3>3, <4>1, <4>2
      <4> QED BY <4>3, <4>4, <4>5, <4>6
    <3>4. ASSUME releasing = None, proc # None, key = want[r], Place(r, "render"),
                 idler' = FALSE,
                 UNCHANGED <<awaits, proc, key, idlerWaits, releasing, ending>>
          PROVE  WarmInv'
      <4>1. ASSUME NEW q \in WarmRequests PROVE WarmRequestInv(q)'
        <5>1. CASE q = r
          BY <2>1, <2>3, <3>1, <3>4, <5>1
        <5>2. CASE q # r
          BY <2>1, <2>3, <3>1, <3>4, <5>2
        <5> QED BY <5>1, <5>2
      <4>2. WorkerInv' /\ ReleaseInv'
        BY <2>1, <2>3, <3>1, <3>4
      <4>3. GroupInv' /\ StuckInv' /\ OneModelInMemory' /\ IdlerInv'
        BY <2>1, <2>3, <3>1, <3>4
      <4>4. WarmTypeOK'
        BY <2>1, <2>3, <3>1, <3>4
      <4> QED BY <4>1, <4>2, <4>3, <4>4
    <3> QED BY <1>5, <2>3, <3>2, <3>3, <3>4 DEF Enter, WrongWeights, MustRebuild, ToRelease
  <2> QED BY <2>2, <2>3
<1>6. ASSUME NEW r \in WarmRequests, Drained(r) PROVE WarmInv'
  BY <1>6 DEF Drained, EndRelease, Leave
<1>7. ASSUME NEW r \in WarmRequests, Spawned(r) PROVE WarmInv'
  BY <1>7 DEF Spawned
<1>8. ASSUME NEW r \in WarmRequests, SpawnFails(r) PROVE WarmInv'
  BY <1>8 DEF SpawnFails, Leave
<1>9. ASSUME NEW r \in WarmRequests, Rendered(r) PROVE WarmInv'
  BY <1>9 DEF Rendered, Leave
<1>10. ASSUME NEW r \in WarmRequests, RenderReleases(r) PROVE WarmInv'
  <2>1. ToRelease /\ BeginRelease
    BY <1>10 DEF RenderReleases, AwaitRelease, ToRelease
  <2>2. /\ UNCHANGED <<lock, validation, want, key, idlerWaits, quarantined, leaders, groups>>
        /\ at' = [at EXCEPT ![r] = "undo"]
        /\ awaits' = [awaits EXCEPT ![r] = releasing']
    BY <1>10 DEF RenderReleases, AwaitRelease
  <2>3. ReleaseBegun /\ idler' = FALSE
    BY <2>1, <2>2, ReleaseBegins DEF BeginRelease
  <2>4. at[r] = "render" /\ lock = r
    BY <1>10 DEF RenderReleases
  <2>5. ASSUME NEW q \in WarmRequests PROVE WarmRequestInv(q)'
    <3>1. CASE q = r
      BY <2>2, <2>3, <2>4, <3>1 DEF ReleaseBegun
    <3>2. CASE q # r
      BY <2>2, <2>3, <2>4, <3>2 DEF ReleaseBegun
    <3> QED BY <3>1, <3>2
  <2>6. WorkerInv' /\ ReleaseInv'
    BY <2>2, <2>3 DEF ReleaseBegun
  <2>7. GroupInv' /\ StuckInv' /\ OneModelInMemory' /\ IdlerInv'
    BY <2>2, <2>3 DEF ReleaseBegun
  <2>8. WarmTypeOK'
    BY <2>2, <2>3 DEF ReleaseBegun
  <2> QED BY <2>5, <2>6, <2>7, <2>8
<1>11. ASSUME NEW r \in WarmRequests, OnceEnds(r) PROVE WarmInv'
  BY <1>11 DEF OnceEnds
<1>12. ASSUME NEW r \in WarmRequests, Undone(r) PROVE WarmInv'
  BY <1>12 DEF Undone, EndRelease, Leave
<1>13. ASSUME NEW r \in WarmRequests, IdlerResumes(r) PROVE WarmInv'
  BY <1>13 DEF IdlerResumes, EndRelease
<1>14. ASSUME NEW r \in WarmRequests, Terminated(r) PROVE WarmInv'
  BY <1>14 DEF Terminated
<1>15. ASSUME NEW r \in WarmRequests, Stuck(r) PROVE WarmInv'
  BY <1>15 DEF Stuck
<1>16. ASSUME NEW r \in WarmRequests, Exits(r) PROVE WarmInv'
  BY <1>16 DEF Exits
<1> QED
  BY <1>1, <1>2, <1>3, <1>4, <1>5, <1>6, <1>7, <1>8, <1>9, <1>10, <1>11, <1>12, <1>13, <1>14, <1>15, <1>16 DEF WarmNext, ServerStep

\* Every state of the server satisfies WarmInv.
LEMMA WarmInductive ==
    ASSUME NoneIsNoRequest
    PROVE  WarmSpec => []WarmInv
<1>1. WarmInit => WarmInv
  BY WarmInitInv
<1>2. WarmInv /\ [WarmNext]_warmVars => WarmInv'
  BY WarmStepInv
<1> QED BY <1>1, <1>2, PTL DEF WarmSpec

-----------------------------------------------------------------------------
(***************************************************************************)
(* The state keeps its shape; in particular the processes that still have  *)
(* a leader are among those that hold memory.                              *)
(***************************************************************************)
THEOREM Typing ==
    ASSUME NoneIsNoRequest
    PROVE  WarmSpec => []WarmTypeOK
<1>1. WarmInv => WarmTypeOK
  BY DEF WarmInv
<1> QED BY <1>1, WarmInductive, PTL

(***************************************************************************)
(* Two models are never in memory together, although the request that      *)
(* starts a worker, the one before it, the idle reaper and a failed start  *)
(* each terminate processes on their own (run_job, release_warm).          *)
(***************************************************************************)
THEOREM OneModel ==
    ASSUME NoneIsNoRequest
    PROVE  WarmSpec => []OneModelInMemory
<1>1. WarmInv => OneModelInMemory
  BY DEF WarmInv
<1> QED BY <1>1, WarmInductive, PTL

(***************************************************************************)
(* A render goes to a worker that was built for its weights and that       *)
(* nobody releases: neither the reaper nor another request takes the       *)
(* worker between the check of its key and the end of the render.          *)
(***************************************************************************)
THEOREM RendersOwn ==
    ASSUME NoneIsNoRequest
    PROVE  WarmSpec => []RendersItsOwnWeights
<1>1. WarmInv => RendersItsOwnWeights
  BY DEF WarmInv, RendersItsOwnWeights, WarmRequestInv, WorkerInv, WarmTypeOK, Holding
<1> QED BY <1>1, WarmInductive, PTL

-----------------------------------------------------------------------------
(* The audio server.                                                       *)

\* A queued or running job.
HasJob(r) == job[r] \in {"queued", "running", "ending"}

SpeechTypes ==
    /\ busy \in BOOLEAN
    /\ generation \in Nat
    /\ lease \in [SpeechRequests -> Nat]
    /\ route \in [SpeechRequests -> Speech!Routes]
    /\ job \in [SpeechRequests -> Speech!Jobs]

\* Whoever may still send or have work on the GPU has the current lease.
Leased(r) ==
    /\ lease[r] <= generation
    /\ route[r] = "idle" => job[r] = "none"
    /\ route[r] = "admitted" => job[r] = "none" /\ busy /\ lease[r] = generation
    /\ r \in queued => job[r] = "queued"
    /\ HasJob(r) => busy /\ lease[r] = generation

\* The current lease is r's and nobody else's.
HoldsLease(r) == \A q \in SpeechRequests: lease[q] = generation <=> q = r

SpeechInv ==
    /\ SpeechTypes
    /\ \A r \in SpeechRequests: Leased(r)
    /\ busy => \E r \in SpeechRequests: HoldsLease(r)

\* An idle server satisfies it.
LEMMA SpeechInitInv == Speech!Init => SpeechInv
<1> SUFFICES ASSUME Speech!Init PROVE SpeechInv
  OBVIOUS
<1>1. SpeechTypes
  BY DEF Speech!Init, SpeechTypes, Speech!Routes, Speech!Jobs
<1>2. ASSUME NEW r \in SpeechRequests PROVE Leased(r)
  <2>1. lease[r] = 0 /\ generation = 0 /\ r \notin queued
    BY DEF Speech!Init
  <2>2. route[r] = "idle" /\ job[r] = "none"
    BY DEF Speech!Init
  <2> QED BY <2>1, <2>2 DEF Leased, HasJob
<1>3. ~busy
  BY DEF Speech!Init
<1> QED BY <1>1, <1>2, <1>3 DEF SpeechInv

\* Every step keeps it.  Only a new lease and a lowered flag are not obvious:
\* the first exceeds all others, and the second needs that the lease which
\* lowers the flag is the only current one, and its job no longer at work.
LEMMA SpeechStepInv == SpeechInv /\ [Speech!Next]_Speech!speechVars => SpeechInv'
<1> SUFFICES ASSUME SpeechInv, [Speech!Next]_Speech!speechVars PROVE SpeechInv'
  OBVIOUS
<1> USE DEF SpeechInv, SpeechTypes, Leased, HoldsLease, HasJob, Speech!Routes, Speech!Jobs, Speech!Goto, Speech!Job
<1>1. CASE UNCHANGED Speech!speechVars
  BY <1>1 DEF Speech!speechVars
<1>2. ASSUME NEW r \in SpeechRequests, Speech!Busy(r) PROVE SpeechInv'
  BY <1>2 DEF Speech!Busy
<1>3. ASSUME NEW r \in SpeechRequests, Speech!EnsureIdle(r) PROVE SpeechInv'
  <2>1. HoldsLease(r)'
    BY <1>3 DEF Speech!EnsureIdle
  <2> QED BY <1>3, <2>1 DEF Speech!EnsureIdle, Speech!LoopIsFree
<1>4. ASSUME NEW r \in SpeechRequests, Speech!Submit(r) PROVE SpeechInv'
  <2>1. lease' = lease
    BY <1>4 DEF Speech!Submit
  <2> QED BY <1>4, <2>1 DEF Speech!Submit
<1>5. ASSUME NEW r \in SpeechRequests, Speech!SubmitFails(r) PROVE SpeechInv'
  BY <1>5 DEF Speech!SubmitFails, Speech!ClearBusy
<1>6. ASSUME NEW r \in SpeechRequests, Speech!Answer(r) PROVE SpeechInv'
  <2>1. CASE busy' = busy
    BY <1>6, <2>1 DEF Speech!Answer
  <2>2. CASE busy' # busy
    <3>1. busy /\ lease[r] = generation /\ ~busy'
      BY <1>6, <2>2 DEF Speech!Answer, Speech!ClearBusy
    <3>2. \A q \in SpeechRequests: ~HasJob(q) /\ route[q] # "admitted"
      BY <1>6, <3>1 DEF Speech!Answer, Speech!LoopIsFree
    <3>3. ASSUME NEW q \in SpeechRequests PROVE Leased(q)'
      BY <1>6, <3>2 DEF Speech!Answer
    <3>4. SpeechTypes'
      <4>1. busy' \in BOOLEAN
        BY <1>6 DEF Speech!Answer, Speech!ClearBusy
      <4> QED BY <1>6, <4>1 DEF Speech!Answer
    <3> QED BY <3>1, <3>3, <3>4
  <2> QED BY <2>1, <2>2
<1>7. ASSUME NEW r \in SpeechRequests, Speech!Consume(r) PROVE SpeechInv'
  BY <1>7 DEF Speech!Consume
<1>8. ASSUME NEW r \in SpeechRequests, Speech!HangUp(r) PROVE SpeechInv'
  BY <1>8 DEF Speech!HangUp
<1>9. ASSUME NEW r \in SpeechRequests, Speech!Take(r) PROVE SpeechInv'
  BY <1>9 DEF Speech!Take
<1>10. ASSUME NEW r \in SpeechRequests, Speech!Produce(r) PROVE SpeechInv'
  BY <1>10 DEF Speech!Produce
<1>11. ASSUME NEW r \in SpeechRequests, Speech!Generated(r) PROVE SpeechInv'
  BY <1>11 DEF Speech!Generated
<1>12. ASSUME NEW r \in SpeechRequests, Speech!PutEnd(r) PROVE SpeechInv'
  BY <1>12 DEF Speech!PutEnd
<1>13. ASSUME NEW r \in SpeechRequests, Speech!DoneCallback(r) PROVE SpeechInv'
  BY <1>13 DEF Speech!DoneCallback, Speech!ClearBusy
<1> QED
  BY <1>1, <1>2, <1>3, <1>4, <1>5, <1>6, <1>7, <1>8, <1>9, <1>10, <1>11, <1>12,
     <1>13 DEF Speech!Next, Speech!RouteStep, Speech!WorkerStep

-----------------------------------------------------------------------------
(* The refinement.                                                         *)

Jobbing == {r \in SpeechRequests: HasJob(r)}

\* A raised flag stands for the one request with the current lease.
LEMMA HolderIs ==
    ASSUME NEW r \in SpeechRequests, busy, HoldsLease(r)
    PROVE  Speech!Holder = r
BY DEF Speech!Holder, HoldsLease

\* ... which is any request that has that lease.
LEMMA LeaseHolds ==
    ASSUME SpeechInv, busy, NEW r \in SpeechRequests, lease[r] = generation
    PROVE  Speech!Holder = r
BY HolderIs DEF SpeechInv, HoldsLease

\* ClearBusy gives the slot back for a request that is not at work, or leaves
\* it as it is.
LEMMA ClearBusyReleases ==
    ASSUME SpeechInv, NEW r \in SpeechRequests, ~HasJob(r), Speech!ClearBusy(r) \/ UNCHANGED busy,
           UNCHANGED <<generation, lease>>, Jobbing' = Jobbing
    PROVE  Speech!Slot!Release(r) \/ UNCHANGED Speech!Slot!vars
<1>1. CASE busy' = busy
  BY <1>1 DEF Speech!Holder, Speech!Slot!vars, Jobbing, HasJob
<1>2. CASE busy' # busy
  <2>1. busy /\ lease[r] = generation /\ ~busy'
    BY <1>2 DEF Speech!ClearBusy, SpeechInv, SpeechTypes
  <2>2. Speech!Holder = r
    BY <2>1, LeaseHolds
  <2>3. Speech!Holder' = NoOne
    BY <2>1 DEF Speech!Holder
  <2> QED BY <2>2, <2>3 DEF Speech!Slot!Release, Jobbing, HasJob
<1> QED BY <1>1, <1>2

\* Every step is a step of the abstract slot, or leaves it as it is.
LEMMA SpeechSimulated == SpeechInv /\ [Speech!Next]_Speech!speechVars => [Speech!Slot!Next]_(Speech!Slot!vars)
<1> SUFFICES ASSUME SpeechInv, [Speech!Next]_Speech!speechVars PROVE Speech!Slot!Next \/ UNCHANGED Speech!Slot!vars
  OBVIOUS
<1> USE DEF SpeechInv, SpeechTypes, Leased, HasJob, Speech!Jobs, Jobbing, Speech!Goto, Speech!Job
<1>1. ASSUME UNCHANGED <<busy, generation, lease>>, Jobbing' = Jobbing
      PROVE  UNCHANGED Speech!Slot!vars
  BY <1>1 DEF Speech!Slot!vars, Speech!Holder
<1>2. CASE UNCHANGED Speech!speechVars
  BY <1>1, <1>2 DEF Speech!speechVars
<1>3. ASSUME NEW r \in SpeechRequests,
             Speech!Busy(r) \/ Speech!Consume(r) \/ Speech!HangUp(r) \/ Speech!Take(r) \/ Speech!Produce(r)
      PROVE  UNCHANGED Speech!Slot!vars
  <2>1. Jobbing' = Jobbing
    BY <1>3 DEF Speech!Busy, Speech!Consume, Speech!HangUp, Speech!Take, Speech!Produce
  <2> QED BY <1>1, <1>3, <2>1 DEF Speech!Busy, Speech!Consume, Speech!HangUp, Speech!Take, Speech!Produce
<1>4. ASSUME NEW r \in SpeechRequests, Speech!EnsureIdle(r) PROVE Speech!Slot!Admit(r)
  <2>1. busy' /\ HoldsLease(r)'
    BY <1>4 DEF Speech!EnsureIdle, HoldsLease
  <2>2. Speech!Holder' = r
    BY <2>1 DEF Speech!Holder, HoldsLease
  <2>3. Speech!Holder = NoOne
    BY <1>4 DEF Speech!EnsureIdle, Speech!Holder
  <2>4. Jobbing' = Jobbing
    BY <1>4 DEF Speech!EnsureIdle
  <2> QED BY <2>2, <2>3, <2>4 DEF Speech!Slot!Admit
<1>5. ASSUME NEW r \in SpeechRequests, Speech!Submit(r) PROVE Speech!Slot!Begin(r)
  <2>1. Speech!Holder = r
    BY <1>5, LeaseHolds DEF Speech!Submit
  <2>2. lease' = lease
    BY <1>5 DEF Speech!Submit
  <2>3. Speech!Holder' = Speech!Holder
    <3>1. UNCHANGED <<busy, generation, lease>>
      BY <1>5, <2>2 DEF Speech!Submit
    <3> QED BY <3>1 DEF Speech!Holder
  <2>4. Jobbing' = Jobbing \cup {r}
    BY <1>5 DEF Speech!Submit
  <2> QED BY <2>1, <2>3, <2>4 DEF Speech!Slot!Begin
<1>6. ASSUME NEW r \in SpeechRequests, Speech!SubmitFails(r) PROVE Speech!Slot!Release(r) \/ UNCHANGED Speech!Slot!vars
  BY <1>6, ClearBusyReleases DEF Speech!SubmitFails
<1>7. ASSUME NEW r \in SpeechRequests, Speech!Answer(r) PROVE Speech!Slot!Release(r) \/ UNCHANGED Speech!Slot!vars
  BY <1>7, ClearBusyReleases DEF Speech!Answer
<1>8. ASSUME NEW r \in SpeechRequests, Speech!DoneCallback(r)
      PROVE  Speech!Slot!Release(r) \/ UNCHANGED Speech!Slot!vars
  <2>1. Jobbing' = Jobbing
    BY <1>8 DEF Speech!DoneCallback
  <2> QED BY <1>8, <2>1, ClearBusyReleases DEF Speech!DoneCallback
<1>9. ASSUME NEW r \in SpeechRequests, HasJob(r), job' = [job EXCEPT ![r] = "settled"],
             UNCHANGED <<busy, generation, lease>>
      PROVE  Speech!Slot!End(r)
  <2>1. Jobbing' = Jobbing \ {r}
    BY <1>9
  <2>2. Speech!Holder' = Speech!Holder
    BY <1>9 DEF Speech!Holder
  <2> QED BY <1>9, <2>1, <2>2 DEF Speech!Slot!End
<1>10. ASSUME NEW r \in SpeechRequests, Speech!Generated(r) PROVE Speech!Slot!End(r) \/ UNCHANGED Speech!Slot!vars
  <2>1. CASE Speech!Streams(r)
    <3>1. Jobbing' = Jobbing
      BY <1>10, <2>1 DEF Speech!Generated
    <3> QED BY <1>1, <1>10, <3>1 DEF Speech!Generated
  <2>2. CASE ~Speech!Streams(r)
    BY <1>9, <1>10, <2>2 DEF Speech!Generated
  <2> QED BY <2>1, <2>2
<1>11. ASSUME NEW r \in SpeechRequests, Speech!PutEnd(r) PROVE Speech!Slot!End(r)
  BY <1>9, <1>11 DEF Speech!PutEnd
<1> QED
  BY <1>2, <1>3, <1>4, <1>5, <1>6, <1>7, <1>8, <1>10, <1>11
  DEF Speech!Next, Speech!RouteStep, Speech!WorkerStep, Speech!Slot!Next

\* The busy flag is the slot that GpuSlot promises, for every set of requests:
\* no late done callback and no late error path lowers it under a successor
\* (ensure_idle, clear_busy and submit of ModelHolder).
THEOREM SpeechKeepsTheSlot == Speech!Spec => Speech!KeepsTheSlot
<1>1. Speech!Init => Speech!Slot!Init
  BY DEF Speech!Init, Speech!Slot!Init, Speech!Holder
<1> QED BY <1>1, SpeechInitInv, SpeechStepInv, SpeechSimulated, PTL
        DEF Speech!Spec, Speech!KeepsTheSlot, Speech!Slot!Spec

-----------------------------------------------------------------------------
(* The image and the music server.                                         *)

\* The lock is held from its acquisition to Finish, and only its holder has
\* a thread that may still use CUDA.
Locked(r) ==
    /\ held = r <=> step[r] \in {"watch", "finish"}
    /\ thread[r] \in {"created", "running"} => held = r

DiffusersInv == Diffusers!TypeOK /\ \A r \in Requests: Locked(r)

\* A free lock and no threads satisfy it.
LEMMA DiffusersInitInv == ASSUME Diffusers!Init PROVE DiffusersInv
BY NoOneIsNoRequest DEF Diffusers!Init, DiffusersInv, Diffusers!TypeOK, Locked

\* Every step keeps it.
LEMMA DiffusersStepInv ==
    ASSUME DiffusersInv, [Diffusers!Next]_Diffusers!diffusersVars
    PROVE  DiffusersInv'
<1> USE NoOneIsNoRequest DEF DiffusersInv, Diffusers!TypeOK, Locked
<1>1. CASE UNCHANGED Diffusers!diffusersVars
  BY <1>1 DEF Diffusers!diffusersVars
<1>2. ASSUME NEW r \in Requests, Diffusers!Acquire(r) PROVE DiffusersInv'
  BY <1>2 DEF Diffusers!Acquire
<1>3. ASSUME NEW r \in Requests, Diffusers!StopWatching(r) PROVE DiffusersInv'
  BY <1>3 DEF Diffusers!StopWatching
<1>4. ASSUME NEW r \in Requests, Diffusers!Finish(r) PROVE DiffusersInv'
  BY <1>4 DEF Diffusers!Finish
<1>5. ASSUME NEW r \in Requests, Diffusers!StartThread(r) PROVE DiffusersInv'
  BY <1>5 DEF Diffusers!StartThread
<1>6. ASSUME NEW r \in Requests, Diffusers!ExitThread(r) PROVE DiffusersInv'
  BY <1>6 DEF Diffusers!ExitThread
<1> QED
  BY <1>1, <1>2, <1>3, <1>4, <1>5, <1>6 DEF Diffusers!Next, Diffusers!ServerStep

\* The threads that use CUDA: atWork of GpuSlot.
Threads == {r \in Requests: thread[r] = "running"}

\* Every step is a step of the abstract slot, or leaves it as it is.
LEMMA DiffusersSimulated ==
    ASSUME DiffusersInv, [Diffusers!Next]_Diffusers!diffusersVars
    PROVE  Diffusers!Slot!Next \/ UNCHANGED Diffusers!Slot!vars
<1> USE NoOneIsNoRequest DEF DiffusersInv, Diffusers!TypeOK, Locked, Threads
<1>1. CASE UNCHANGED Diffusers!diffusersVars
  BY <1>1 DEF Diffusers!diffusersVars, Diffusers!Slot!vars
<1>2. ASSUME NEW r \in Requests, Diffusers!Acquire(r) PROVE Diffusers!Slot!Admit(r) \/ UNCHANGED Diffusers!Slot!vars
  <2>1. Threads' = Threads
    BY <1>2 DEF Diffusers!Acquire
  <2> QED BY <1>2, <2>1 DEF Diffusers!Acquire, Diffusers!Slot!Admit, Diffusers!Slot!vars
<1>3. ASSUME NEW r \in Requests, Diffusers!StopWatching(r) PROVE UNCHANGED Diffusers!Slot!vars
  BY <1>3 DEF Diffusers!StopWatching, Diffusers!Slot!vars
<1>4. ASSUME NEW r \in Requests, Diffusers!Finish(r) PROVE Diffusers!Slot!Release(r)
  BY <1>4 DEF Diffusers!Finish, Diffusers!Slot!Release
<1>5. ASSUME NEW r \in Requests, Diffusers!StartThread(r) PROVE Diffusers!Slot!Begin(r)
  <2>1. Threads' = Threads \cup {r}
    BY <1>5 DEF Diffusers!StartThread
  <2> QED BY <1>5, <2>1 DEF Diffusers!StartThread, Diffusers!Slot!Begin
<1>6. ASSUME NEW r \in Requests, Diffusers!ExitThread(r) PROVE Diffusers!Slot!End(r)
  <2>1. Threads' = Threads \ {r}
    BY <1>6 DEF Diffusers!ExitThread
  <2> QED BY <1>6, <2>1 DEF Diffusers!ExitThread, Diffusers!Slot!End
<1> QED
  BY <1>1, <1>2, <1>3, <1>4, <1>5, <1>6 DEF Diffusers!Next, Diffusers!ServerStep, Diffusers!Slot!Next

\* The lock is the slot that GpuSlot promises (finish_worker and the finally
\* clause of the routes), for every set of requests.
THEOREM DiffusersKeepTheSlot == Diffusers!Spec => Diffusers!KeepsTheSlot
<1>1. Diffusers!Init => DiffusersInv
  BY DiffusersInitInv
<1>2. DiffusersInv /\ [Diffusers!Next]_Diffusers!diffusersVars => DiffusersInv'
  BY DiffusersStepInv
<1>3. Diffusers!Init => Diffusers!Slot!Init
  BY DEF Diffusers!Init, Diffusers!Slot!Init
<1>4. DiffusersInv /\ [Diffusers!Next]_Diffusers!diffusersVars => [Diffusers!Slot!Next]_(Diffusers!Slot!vars)
  BY DiffusersSimulated
<1> QED BY <1>1, <1>2, <1>3, <1>4, PTL DEF Diffusers!Spec, Diffusers!KeepsTheSlot, Diffusers!Slot!Spec

-----------------------------------------------------------------------------
(* All backends, as the run has them: a behaviour of MCSpec is one of each.  *)

\* The audio server's variables have their types.
LEMMA SpeechTypeStep ==
    ASSUME Speech!TypeOK, [Speech!Next]_(Speech!speechVars) PROVE Speech!TypeOK'
<1> USE BackendsAssumption DEF Speech!TypeOK, Speech!Routes, Speech!Jobs, Speech!Goto, Speech!Job
<1>1. CASE UNCHANGED Speech!speechVars
  BY <1>1 DEF Speech!speechVars
<1>2. ASSUME NEW r \in SpeechRequests, Speech!RouteStep(r) PROVE Speech!TypeOK'
  <2>1. CASE Speech!Submit(r)
    BY <2>1 DEF Speech!Submit
  <2>2. CASE Speech!SubmitFails(r)
    BY <2>2 DEF Speech!SubmitFails, Speech!ClearBusy
  <2>3. CASE Speech!Answer(r)
    BY <2>3 DEF Speech!Answer, Speech!ClearBusy
  <2>4. CASE Speech!Consume(r)
    <3>1. unread[r] \in 0..QueueChunks /\ unread[r] > 0 /\ QueueChunks \in Nat
      BY <2>4 DEF Speech!Consume
    <3>2. unread[r] - 1 \in 0..QueueChunks
      BY <3>1
    <3>3. unread' = [unread EXCEPT ![r] = unread[r] - 1]
      BY <2>4 DEF Speech!Consume
    <3>4. unread' \in [SpeechRequests -> 0..QueueChunks]
      BY <3>2, <3>3
    <3> QED BY <2>4, <3>4 DEF Speech!Consume
  <2>5. CASE Speech!HangUp(r)
    BY <2>5 DEF Speech!HangUp
  <2> QED BY <1>2, <2>1, <2>2, <2>3, <2>4, <2>5 DEF Speech!RouteStep
<1>3. ASSUME NEW r \in SpeechRequests, Speech!WorkerStep(r) PROVE Speech!TypeOK'
  <2>1. CASE Speech!Take(r)
    BY <2>1 DEF Speech!Take
  <2>2. CASE Speech!Generated(r)
    BY <2>2 DEF Speech!Generated
  <2>3. CASE Speech!PutEnd(r)
    BY <2>3 DEF Speech!PutEnd
  <2>4. CASE Speech!DoneCallback(r)
    BY <2>4 DEF Speech!DoneCallback, Speech!ClearBusy
  <2> QED BY <1>3, <2>1, <2>2, <2>3, <2>4 DEF Speech!WorkerStep
<1>4. ASSUME NEW r \in SpeechRequests, Speech!Busy(r) PROVE Speech!TypeOK'
  BY <1>4 DEF Speech!Busy
<1>5. ASSUME NEW r \in SpeechRequests, Speech!EnsureIdle(r) PROVE Speech!TypeOK'
  BY <1>5 DEF Speech!EnsureIdle
<1>6. ASSUME NEW r \in SpeechRequests, Speech!Produce(r) PROVE Speech!TypeOK'
  BY <1>6 DEF Speech!Produce
<1> QED BY <1>1, <1>2, <1>3, <1>4, <1>5, <1>6 DEF Speech!Next

\* Whichever backend moves, each of them moves as it may or not at all.
LEMMA TurnOfEach ==
    ASSUME [MCNext]_allVars
    PROVE  /\ [Next]_vars
           /\ [WarmNext]_warmVars
           /\ [Speech!Next]_(Speech!speechVars)
           /\ [Diffusers!Next]_(Diffusers!diffusersVars)
<1> USE DEF speechVars, Speech!speechVars, diffusersVars, Diffusers!diffusersVars
<1>1. CASE MediaTurn
  BY <1>1 DEF MediaTurn
<1>2. CASE WarmTurn
  BY <1>2 DEF WarmTurn
<1>3. CASE SpeechTurn
  BY <1>3 DEF SpeechTurn
<1>4. CASE DiffusersTurn
  BY <1>4 DEF DiffusersTurn
<1>5. CASE UNCHANGED allVars
  BY <1>5 DEF allVars
<1> QED BY <1>1, <1>2, <1>3, <1>4, <1>5 DEF MCNext

\* So a behaviour of the run is one of each backend.
LEMMA EachRuns == MCSpec => Spec /\ WarmSpec /\ Speech!Spec /\ Diffusers!Spec
<1>1. MCInit => Init /\ WarmInit /\ Speech!Init /\ Diffusers!Init
  BY DEF MCInit
<1>2. [MCNext]_allVars =>
        /\ [Next]_vars
        /\ [WarmNext]_warmVars
        /\ [Speech!Next]_(Speech!speechVars)
        /\ [Diffusers!Next]_(Diffusers!diffusersVars)
  BY TurnOfEach
<1> QED BY <1>1, <1>2, PTL DEF MCSpec, Spec, WarmSpec, Speech!Spec, Diffusers!Spec

(***************************************************************************)
(* Every variable of every backend has its type; in particular the stream  *)
(* queue of the audio server never holds more than its bound (put).        *)
(***************************************************************************)
THEOREM BackendsTyping == MCSpec => []BackendsTypeOK
<1>1. Spec => []TypeOK
  <2>1. IInv => TypeOK
    BY DEF IInv
  <2> QED BY <2>1, Inductive, PTL
<1>2. WarmSpec => []WarmTypeOK
  BY Typing, BackendsAssumption DEF NoneIsNoRequest
<1>3. Speech!Spec => []Speech!TypeOK
  <2>1. Speech!Init => Speech!TypeOK
    <3>1. 0 \in 0..QueueChunks /\ 0 \in 0..MaxChunks /\ 0 \in Nat
      BY BackendsAssumption
    <3> QED BY <3>1 DEF Speech!Init, Speech!TypeOK, Speech!Routes, Speech!Jobs
  <2>2. Speech!TypeOK /\ [Speech!Next]_(Speech!speechVars) => Speech!TypeOK'
    BY SpeechTypeStep
  <2> QED BY <2>1, <2>2, PTL DEF Speech!Spec
<1>4. Diffusers!Spec => []Diffusers!TypeOK
  <2>1. Diffusers!Init => DiffusersInv
    BY DiffusersInitInv
  <2>2. DiffusersInv /\ [Diffusers!Next]_(Diffusers!diffusersVars) => DiffusersInv'
    BY DiffusersStepInv
  <2>3. DiffusersInv => Diffusers!TypeOK
    BY DEF DiffusersInv
  <2> QED BY <2>1, <2>2, <2>3, PTL DEF Diffusers!Spec
<1>5. TypeOK /\ WarmTypeOK /\ Speech!TypeOK /\ Diffusers!TypeOK => BackendsTypeOK
  BY DEF BackendsTypeOK
<1> QED BY <1>1, <1>2, <1>3, <1>4, <1>5, EachRuns, PTL

(***************************************************************************)
(* The bridge, the audio server and the image and music servers implement  *)
(* GpuSlot, for every set of requests: no backend gives up its slot while  *)
(* the work of its holder has, or may still get, the GPU.                  *)
(***************************************************************************)
THEOREM EveryBackendKeepsItsSlot == MCSpec => BackendsKeepTheSlot
<1>1. KeepsTheSlot /\ Speech!KeepsTheSlot /\ Diffusers!KeepsTheSlot => BackendsKeepTheSlot
  BY DEF BackendsKeepTheSlot
<1> QED BY <1>1, EachRuns, KeepsSlot, SpeechKeepsTheSlot, DiffusersKeepTheSlot
=============================================================================
