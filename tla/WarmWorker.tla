------------------------------ MODULE WarmWorker ------------------------------
(***************************************************************************)
(* The LTX-2.5 video server: the generate route, _run_pipeline and         *)
(* WarmWorker of src/backends/ltx-pipelines/server.py, with the processes  *)
(* they start.  A process group holds the 22B weights as long as one of    *)
(* its processes lives, which can be after its leader has ended.           *)
(*                                                                         *)
(* One asyncio loop: what a coroutine does between two awaits is one       *)
(* action.  A process is named by the request that started it.             *)
(*                                                                         *)
(* Left out: what a request asks for beyond the weights it needs, its      *)
(* files, the log file but for the release it forces; the turn of the loop *)
(* between scheduling the idle reaper and releasing the lock, during which *)
(* no idle time that is configured in earnest runs out.                    *)
(***************************************************************************)

CONSTANTS
    WarmRequests,   \* calls of the generate route
    Keys,       \* module and weights that a warm worker can be built for
    Once,       \* what a request wants that runs in a process of its own
    None        \* no request, no process, no key

VARIABLES
    lock,       \* holder of the single-flight lock
    validation, \* holder of validation_lock
    want,       \* what each request wants: a key, or Once
    at,         \* where each request is suspended
    awaits,     \* the process whose end a request waits for
    proc,       \* WarmWorker.proc
    key,        \* WarmWorker.key
    idler,      \* WarmWorker._reaper sleeps
    idlerWaits, \* processes an idle reaper, cancelled or not, is releasing
    releasing,  \* WarmWorker._releasing, by the process it terminates
    ending,     \* _terminate_process_group of each process
    quarantined,\* QUARANTINED
    leaders,    \* processes that run
    groups      \* process groups with a live member: their weights are in memory

requestVars == <<lock, validation, want, at, awaits>>
workerVars == <<proc, key, idler, idlerWaits, releasing>>
processVars == <<ending, quarantined, leaders, groups>>
warmVars == <<requestVars, workerVars, processVars>>

-----------------------------------------------------------------------------
\* drain: awaits release() before it starts.   undo: awaits release() at its end.
\* spawn: awaits its process.   render, once: a process works for it.
Places == {"idle", "validate", "drain", "spawn", "render", "once", "undo", "ended"}

WarmTypeOK ==
    /\ lock \in WarmRequests \cup {None}
    /\ validation \in WarmRequests \cup {None}
    /\ want \in [WarmRequests -> Keys \cup {Once}]
    /\ at \in [WarmRequests -> Places]
    /\ awaits \in [WarmRequests -> WarmRequests \cup {None}]
    /\ proc \in WarmRequests \cup {None}
    /\ key \in Keys \cup {None}
    /\ idler \in BOOLEAN
    /\ idlerWaits \subseteq WarmRequests
    /\ releasing \in WarmRequests \cup {None}
    /\ ending \in [WarmRequests -> {"no", "killing", "reaped", "stuck"}]
    /\ quarantined \in BOOLEAN
    /\ leaders \subseteq groups
    /\ groups \subseteq WarmRequests

WarmInit ==
    /\ lock = None
    /\ validation = None
    /\ want = [r \in WarmRequests |-> Once]
    /\ at = [r \in WarmRequests |-> "idle"]
    /\ awaits = [r \in WarmRequests |-> None]
    /\ proc = None
    /\ key = None
    /\ idler = FALSE
    /\ idlerWaits = {}
    /\ releasing = None
    /\ ending = [r \in WarmRequests |-> "no"]
    /\ quarantined = FALSE
    /\ leaders = {}
    /\ groups = {}

Place(r, place) == at' = [at EXCEPT ![r] = place]

Leave(r) ==
    /\ Place(r, "ended")
    /\ lock' = None

-----------------------------------------------------------------------------
(* WarmWorker.release()                                                    *)

\* Mutant: a release that the idle reaper has begun is not noticed.
ToReleaseForgets == proc # None

\* Something is being released, or there is a worker to release.
ToRelease == releasing # None \/ proc # None

\* Its first turn: it takes the worker, or joins the release under way.
BeginRelease ==
    /\ idler' = FALSE
    /\ IF releasing = None
       THEN /\ releasing' = proc
            /\ proc' = None
            /\ ending' = [ending EXCEPT ![proc] = "killing"]
       ELSE UNCHANGED <<releasing, proc, ending>>

\* Its last turn, for the caller that awaited the end of process p: the
\* first of them that resumes clears what was released.
EndRelease(p) ==
    /\ ending[p] \in {"reaped", "stuck"}
    /\ IF releasing = p
       THEN releasing' = None /\ key' = None
       ELSE UNCHANGED <<releasing, key>>

\* A request awaits the release that BeginRelease has started or joined.
AwaitRelease(r, place) ==
    /\ BeginRelease
    /\ Place(r, place)
    /\ awaits' = [awaits EXCEPT ![r] = releasing']

-----------------------------------------------------------------------------
(* POST /v1/videos/generations                                             *)

\* Turned away with 409 while another request generates or is validated.
Arrive(r) ==
    /\ at[r] = "idle"
    /\ IF lock = None /\ validation = None
       THEN /\ validation' = r
            /\ Place(r, "validate")
            /\ \E w \in Keys \cup {Once}: want' = [want EXCEPT ![r] = w]
       ELSE Place(r, "ended") /\ UNCHANGED <<validation, want>>
    /\ UNCHANGED <<lock, awaits, workerVars, processVars>>

\* Its payload or its model files are refused.
Refused(r) ==
    /\ at[r] = "validate"
    /\ validation' = None
    /\ Place(r, "ended")
    /\ UNCHANGED <<lock, want, awaits, workerVars, processVars>>

\* Mutant: any warm worker will do.
AnyWeights(r) == FALSE

\* The worker was built for another key.
WrongWeights(r) == key # want[r]

\* The worker holds other weights, or its process is known to have ended.
MustRebuild(r) == proc # None /\ (WrongWeights(r) \/ proc \notin leaders)

\* From the end of validation to the first await under the lock.  The event
\* loop may not have noticed yet that the worker's process has ended.
Enter(r) ==
    /\ at[r] = "validate"
    /\ validation' = None
    /\ IF quarantined \/ lock # None
       THEN Place(r, "ended") /\ UNCHANGED <<lock, awaits, workerVars, ending>>
       ELSE /\ lock' = r
            /\ \/ /\ \/ releasing # None
                     \/ want[r] = Once /\ proc # None
                     \/ want[r] # Once /\ MustRebuild(r)
                  /\ AwaitRelease(r, "drain")
                  /\ UNCHANGED <<key, idlerWaits>>
               \/ /\ ~ToRelease
                  /\ Place(r, "spawn")
                  /\ idler' = FALSE
                  /\ UNCHANGED <<awaits, proc, key, idlerWaits, releasing, ending>>
               \/ /\ releasing = None
                  /\ proc # None
                  /\ want[r] # Once
                  /\ ~WrongWeights(r)
                  /\ Place(r, "render")
                  /\ idler' = FALSE
                  /\ UNCHANGED <<awaits, proc, key, idlerWaits, releasing, ending>>
    /\ UNCHANGED <<want, quarantined, leaders, groups>>

\* The release before its start is over: it goes on, unless the release
\* failed or the request was cancelled meanwhile.
Drained(r) ==
    /\ at[r] = "drain"
    /\ EndRelease(awaits[r])
    /\ \/ /\ ending[awaits[r]] = "reaped"
          /\ Place(r, "spawn")
          /\ UNCHANGED lock
       \/ Leave(r)
    /\ UNCHANGED <<validation, want, awaits, proc, idler, idlerWaits, processVars>>

\* create_subprocess_exec returns, for a warm worker or a per-request run.
Spawned(r) ==
    /\ at[r] = "spawn"
    /\ leaders' = leaders \cup {r}
    /\ groups' = groups \cup {r}
    /\ IF want[r] = Once
       THEN Place(r, "once") /\ UNCHANGED <<proc, key>>
       ELSE Place(r, "render") /\ proc' = r /\ key' = want[r]
    /\ UNCHANGED <<lock, validation, want, awaits, idler, idlerWaits, releasing,
                   ending, quarantined>>

\* It fails, or is cancelled, in which case asyncio ends the process itself.
SpawnFails(r) ==
    /\ at[r] = "spawn"
    /\ Leave(r)
    /\ UNCHANGED <<validation, want, awaits, workerVars, processVars>>

\* Mutant: the idle reaper is not scheduled again.
RenderedUnwatched(r) ==
    /\ at[r] = "render"
    /\ proc \in leaders
    /\ Leave(r)
    /\ UNCHANGED <<validation, want, awaits, workerVars, processVars>>

\* The worker's reply arrives: the worker stays, and its idle reaper sleeps.
Rendered(r) ==
    /\ at[r] = "render"
    /\ proc \in leaders
    /\ Leave(r)
    /\ idler' = TRUE
    /\ UNCHANGED <<validation, want, awaits, proc, key, idlerWaits, releasing, processVars>>

\* Timeout, hang-up, cancellation, an error reply or none, or a log that has
\* grown too long: the worker is released before the request ends.
RenderReleases(r) ==
    /\ at[r] = "render"
    /\ AwaitRelease(r, "undo")
    /\ UNCHANGED <<lock, validation, want, key, idlerWaits, quarantined, leaders, groups>>

\* A per-request run ends or is given up: its group is always terminated.
OnceEnds(r) ==
    /\ at[r] = "once"
    /\ Place(r, "undo")
    /\ awaits' = [awaits EXCEPT ![r] = r]
    /\ ending' = [ending EXCEPT ![r] = "killing"]
    /\ UNCHANGED <<lock, validation, want, workerVars, quarantined, leaders, groups>>

\* The process is reaped, or given up on: the lock is released.
Undone(r) ==
    /\ at[r] = "undo"
    /\ EndRelease(awaits[r])
    /\ Leave(r)
    /\ UNCHANGED <<validation, want, awaits, proc, idler, idlerWaits, processVars>>

-----------------------------------------------------------------------------
(* _release_when_idle: the idle time is over.                              *)

IdlerWakes ==
    /\ idler
    /\ IF lock = None /\ ToRelease
       THEN BeginRelease /\ idlerWaits' = idlerWaits \cup {releasing'}
       ELSE idler' = FALSE /\ UNCHANGED <<idlerWaits, releasing, proc, ending>>
    /\ UNCHANGED <<requestVars, key, quarantined, leaders, groups>>

IdlerResumes(p) ==
    /\ p \in idlerWaits
    /\ EndRelease(p)
    /\ idlerWaits' = idlerWaits \ {p}
    /\ UNCHANGED <<requestVars, proc, idler, processVars>>

-----------------------------------------------------------------------------
(* Processes                                                               *)

\* _terminate_process_group: reaped with its group, or neither signal helps.
Terminated(p) ==
    /\ ending[p] = "killing"
    /\ ending' = [ending EXCEPT ![p] = "reaped"]
    /\ leaders' = leaders \ {p}
    /\ groups' = groups \ {p}
    /\ UNCHANGED <<requestVars, workerVars, quarantined>>

Stuck(p) ==
    /\ ending[p] = "killing"
    /\ p \in leaders
    /\ ending' = [ending EXCEPT ![p] = "stuck"]
    /\ quarantined' = TRUE
    /\ UNCHANGED <<requestVars, workerVars, leaders, groups>>

\* A leader ends by itself; processes it started may outlive it.
Exits(p) ==
    /\ p \in leaders
    /\ leaders' = leaders \ {p}
    /\ groups' \in {groups, groups \ {p}}
    /\ UNCHANGED <<requestVars, workerVars, ending, quarantined>>

-----------------------------------------------------------------------------
ServerStep(r) ==
    \/ Refused(r) \/ Enter(r) \/ Drained(r) \/ Spawned(r) \/ SpawnFails(r)
    \/ Rendered(r) \/ RenderReleases(r) \/ OnceEnds(r) \/ Undone(r)
    \/ IdlerResumes(r) \/ Terminated(r) \/ Stuck(r)

WarmNext == IdlerWakes \/ \E r \in WarmRequests: Arrive(r) \/ ServerStep(r) \/ Exits(r)

WarmSpec == WarmInit /\ [][WarmNext]_warmVars

\* Every task that is ready runs, and renders, kills and idle times end.
WarmFairness ==
    /\ WF_warmVars(IdlerWakes)
    /\ \A r \in WarmRequests: WF_warmVars(ServerStep(r))

FairWarmSpec == WarmSpec /\ WarmFairness

-----------------------------------------------------------------------------
(***************************************************************************)
(* "one generation at a time per runtime, so two 22B transformers never    *)
(* fight for unified memory" (server.py:25-26): never do two process       *)
(* groups hold weights, whatever races with the idle release, and none     *)
(* starts beside a group that could not be killed.                         *)
(***************************************************************************)
OneModelInMemory == \A p, q \in groups: p = q

(***************************************************************************)
(* A render is only ever sent to a worker that was built for the weights   *)
(* it needs, while that worker is nobody's to release.                     *)
(***************************************************************************)
RendersItsOwnWeights ==
    \A r \in WarmRequests: at[r] = "render" =>
        /\ lock = r
        /\ proc # None
        /\ want[proc] = want[r]
        /\ ending[proc] = "no"

(***************************************************************************)
(* No weights stay in memory for good: each process group that starts is   *)
(* gone at last, also after failed renders and without a further request,  *)
(* or the server reports itself quarantined.                               *)
(***************************************************************************)
WeightsAreReleased ==
    \A r \in WarmRequests: r \in groups ~> r \notin groups \/ quarantined
=============================================================================
