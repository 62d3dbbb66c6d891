----------------------------- MODULE RuntimePauses -----------------------------
(***************************************************************************)
(* Who pauses, stops and resumes a runtime that has request slots:         *)
(*   eviction     applyRuntimePolicyPlan (runtime-policy.mjs), as victim   *)
(*   waiter       a legacy request for another runtime, which waits for    *)
(*                this one's capacity (server.mjs)                         *)
(*   watchdog     noteRequestOutcome (runtime-manager.mjs)                 *)
(*   maintenance  suspend and resume (model-maintenance-control.mjs)       *)
(* They share one flag, pausedRuntimes, which any of them clears, and the  *)
(* lifecycle lock of the runtime; eviction and the load of a resume also   *)
(* share the admission lock.                                               *)
(*                                                                         *)
(* What one of them does between two awaits is one action.  The turns in   *)
(* which a lock passes on and a finally clause runs are one with the step  *)
(* that ends the work.  Left out: reloads that change the runtime itself,  *)
(* explicit starts and stops, restartWithActiveRequests (the opt-in to     *)
(* interrupt requests), shutdown, the processes behind stops and starts.   *)
(***************************************************************************)
EXTENDS RuntimeSlots

VARIABLES
    eviction,    \* where applyPlan is, with this runtime as the victim
    waiter,      \* a waiter's loop over blockers has paused this runtime
    watchdog,    \* where the watchdog operation is
    maintenance, \* where the maintenance operation is
    lifecycle,   \* lifecycleQueues: who holds the lock and who waits for it
    aborted      \* the signal of the lifecycle operation in progress

operations == <<eviction, waiter, watchdog, maintenance, lifecycle, aborted>>
pauseVars == <<slotVars, operations>>

-----------------------------------------------------------------------------
Owners == {"eviction", "watchdog", "suspend", "resume"}

\* queued: waits for the lifecycle lock.   stopping, starting: holds it.
PausesTypeOK ==
    /\ TypeOK
    /\ eviction \in {"idle", "planned", "draining", "queued", "stopping"}
    /\ waiter \in BOOLEAN
    /\ watchdog \in {"idle", "queued", "draining", "stopping", "starting"}
    /\ maintenance \in
        {"idle", "suspending", "draining", "queued", "stopping",
         "resuming", "loading", "loadQueued", "starting", "loaded", "failed"}
    /\ Range(lifecycle) \subseteq Owners
    /\ IsInjective(lifecycle)
    /\ aborted \in BOOLEAN

PausesInit ==
    /\ Init
    /\ eviction = "idle"
    /\ waiter = FALSE
    /\ watchdog = "idle"
    /\ maintenance = "idle"
    /\ lifecycle = <<>>
    /\ aborted = FALSE

Idle == pool.active = {}

Holds(op) == lifecycle # <<>> /\ Head(lifecycle) = op

\* withRuntimeLifecycleLock: op queues behind whoever is there.
QueueLifecycle(op) == lifecycle' = Append(lifecycle, op)

PassLifecycle == lifecycle' = Tail(lifecycle)

\* stopWithScope: aborts what holds the lock, then queues for it.
AbortAndQueue(op) ==
    /\ QueueLifecycle(op)
    /\ aborted' = (aborted \/ watchdog \in {"draining", "stopping", "starting"})

-----------------------------------------------------------------------------
(* Eviction, under the admission lock.                                     *)

AdmissionLockIsFree ==
    eviction = "idle" /\ maintenance \notin {"loadQueued", "starting"}

\* The plan takes no runtime with active or queued requests for a victim.
Plan ==
    /\ AdmissionLockIsFree
    /\ Idle
    /\ pool.queue = <<>>
    /\ eviction' = "planned"
    /\ UNCHANGED <<slotVars, waiter, watchdog, maintenance, lifecycle, aborted>>

\* The guards of the plan no longer hold.
PlanIsStale ==
    /\ eviction = "planned"
    /\ eviction' = "idle"
    /\ UNCHANGED <<slotVars, waiter, watchdog, maintenance, lifecycle, aborted>>

DrainVictim ==
    /\ eviction = "planned"
    /\ eviction' = "draining"
    /\ Pause
    /\ UNCHANGED <<waiter, watchdog, maintenance, lifecycle, aborted>>

\* Mutant: a drain without a deadline.
VictimDrainsOn == FALSE

\* drainRuntime throws, outside the try clause that would resume.
VictimTimesOut ==
    /\ eviction = "draining"
    /\ ~Idle
    /\ eviction' = "idle"
    /\ UNCHANGED <<slotVars, waiter, watchdog, maintenance, lifecycle, aborted>>

\* Drained: stop it, unless a guard fails.
VictimDrained ==
    /\ eviction = "draining"
    /\ Idle
    /\ \/ eviction' = "queued" /\ AbortAndQueue("eviction") /\ UNCHANGED slotVars
       \/ eviction' = "idle" /\ Resume /\ UNCHANGED <<lifecycle, aborted>>
    /\ UNCHANGED <<waiter, watchdog, maintenance>>

StopVictim ==
    /\ eviction = "queued"
    /\ Holds("eviction")
    /\ eviction' = "stopping"
    /\ UNCHANGED <<slotVars, waiter, watchdog, maintenance, lifecycle, aborted>>

\* The stop ends, or fails; finally resumeRuntime.
VictimStopped ==
    /\ eviction = "stopping"
    /\ eviction' = "idle"
    /\ PassLifecycle
    /\ Resume
    /\ UNCHANGED <<waiter, watchdog, maintenance, aborted>>

-----------------------------------------------------------------------------
(* A legacy request that waits for another runtime.                        *)

\* It pauses an active blocker that nobody else has paused.
WaiterPauses ==
    /\ ~adaptive
    /\ ~waiter
    /\ ~Idle
    /\ ~gate.paused
    /\ waiter' = TRUE
    /\ Pause
    /\ UNCHANGED <<eviction, watchdog, maintenance, lifecycle, aborted>>

WaiterEnds ==
    /\ waiter
    /\ waiter' = FALSE
    /\ Resume
    /\ UNCHANGED <<eviction, watchdog, maintenance, lifecycle, aborted>>

-----------------------------------------------------------------------------
(* The watchdog                                                            *)

\* The failure threshold is crossed.
WatchdogFires ==
    /\ watchdog = "idle"
    /\ watchdog' = "queued"
    /\ Pause
    /\ QueueLifecycle("watchdog")
    /\ UNCHANGED <<eviction, waiter, maintenance, aborted>>

WatchdogDrains ==
    /\ watchdog = "queued"
    /\ Holds("watchdog")
    /\ watchdog' = "draining"
    /\ aborted' = FALSE
    /\ UNCHANGED <<slotVars, eviction, waiter, maintenance, lifecycle>>

\* Drained: restart, unless there has been progress or the policy changed.
WatchdogStops ==
    /\ watchdog = "draining"
    /\ Idle
    /\ ~aborted
    /\ watchdog' = "stopping"
    /\ UNCHANGED <<slotVars, eviction, waiter, maintenance, lifecycle, aborted>>

WatchdogStarts ==
    /\ watchdog = "stopping"
    /\ ~aborted
    /\ watchdog' = "starting"
    /\ UNCHANGED <<slotVars, eviction, waiter, maintenance, lifecycle, aborted>>

\* It is aborted, deferred, or done, or it fails; finally resumeRuntime.
WatchdogEnds ==
    /\ watchdog \in {"draining", "stopping", "starting"}
    /\ watchdog' = "idle"
    /\ PassLifecycle
    /\ Resume
    /\ UNCHANGED <<eviction, waiter, maintenance, aborted>>

-----------------------------------------------------------------------------
(* Maintenance: one operation at a time.                                   *)

Maintenance(from, to) ==
    /\ maintenance = from
    /\ maintenance' = to
    /\ UNCHANGED <<eviction, waiter, watchdog>>

KeepLifecycle == UNCHANGED <<lifecycle, aborted>>

\* runSuspend: the record is latched and the gateway reloaded.
Suspend ==
    /\ Maintenance("idle", "suspending")
    /\ ~gate.reloading
    /\ SetMarker("suspended")
    /\ KeepLifecycle

SuspendDrains ==
    /\ Maintenance("suspending", "draining")
    /\ ~gate.reloading
    /\ Pause
    /\ KeepLifecycle

\* "A drain timeout leaves routing suspended": the pause stays as well.
SuspendTimesOut ==
    /\ Maintenance("draining", "idle")
    /\ ~Idle
    /\ UNCHANGED slotVars
    /\ KeepLifecycle

SuspendDrained ==
    /\ Maintenance("draining", "queued")
    /\ Idle
    /\ AbortAndQueue("suspend")
    /\ UNCHANGED slotVars

SuspendStops ==
    /\ Maintenance("queued", "stopping")
    /\ Holds("suspend")
    /\ UNCHANGED slotVars
    /\ KeepLifecycle

\* The stop ends, and is verified or not.
SuspendEnds ==
    /\ Maintenance("stopping", "idle")
    /\ PassLifecycle
    /\ UNCHANGED <<slotVars, aborted>>

\* runResume, also without a record if the runtime is not healthy: the record
\* turns requests away, but allows the start.
ResumeBegins ==
    /\ Maintenance("idle", "resuming")
    /\ ~gate.reloading
    /\ SetMarker("resuming")
    /\ KeepLifecycle

ResumeUnpauses ==
    /\ Maintenance("resuming", "loading")
    /\ ~gate.reloading
    /\ Resume
    /\ KeepLifecycle

\* manager.admit, under the admission lock.
ResumeLoads ==
    /\ Maintenance("loading", "loadQueued")
    /\ AdmissionLockIsFree
    /\ QueueLifecycle("resume")
    /\ UNCHANGED <<slotVars, aborted>>

ResumeStarts ==
    /\ Maintenance("loadQueued", "starting")
    /\ Holds("resume")
    /\ UNCHANGED slotVars
    /\ KeepLifecycle

ResumeLoaded ==
    /\ \/ Maintenance("starting", "loaded")
       \/ Maintenance("starting", "failed")
    /\ PassLifecycle
    /\ UNCHANGED <<slotVars, aborted>>

\* removeOwned, once the runtime is healthy, and the last reload.
ResumeEnds ==
    /\ Maintenance("loaded", "idle")
    /\ SetMarker("none")
    /\ KeepLifecycle

\* The load is refused, or the runtime is not healthy.
ResumeFails ==
    /\ \E at \in {"loading", "loaded"}: Maintenance(at, "failed")
    /\ UNCHANGED slotVars
    /\ KeepLifecycle

\* reMarkOwned and its reload, or neither, then pauseRuntime.
ResumeGivesUp ==
    /\ Maintenance("failed", "idle")
    /\ \E m \in {"suspended", gate.marker}:
        gate' = [gate EXCEPT !.marker = m, !.paused = TRUE,
                             !.reloading = @ \/ m # gate.marker]
    /\ UNCHANGED <<adaptive, pool>>
    /\ KeepLifecycle

-----------------------------------------------------------------------------
Slots == (RequestStep \/ Reloaded) /\ UNCHANGED operations

EvictionStep ==
    PlanIsStale \/ DrainVictim \/ VictimTimesOut \/ VictimDrained
        \/ StopVictim \/ VictimStopped

WatchdogStep == WatchdogDrains \/ WatchdogStops \/ WatchdogStarts \/ WatchdogEnds

MaintenanceStep ==
    \/ SuspendDrains \/ SuspendTimesOut \/ SuspendDrained \/ SuspendStops \/ SuspendEnds
    \/ ResumeUnpauses \/ ResumeLoads \/ ResumeStarts \/ ResumeLoaded \/ ResumeEnds
    \/ ResumeFails \/ ResumeGivesUp

\* Plans, failures, waiting requests and operators: nothing obliges them.
Begin == Plan \/ WaiterPauses \/ WatchdogFires \/ Suspend \/ ResumeBegins

PausesNext ==
    Slots \/ Begin \/ EvictionStep \/ WaiterEnds \/ WatchdogStep \/ MaintenanceStep

PausesSpec == PausesInit /\ [][PausesNext]_pauseVars

\* Every await ends, drains at their deadlines; reloads are notified.
PausesFairness ==
    /\ WF_pauseVars(EvictionStep)
    /\ WF_pauseVars(WatchdogStep)
    /\ WF_pauseVars(MaintenanceStep)
    /\ WF_pauseVars(Reloaded /\ UNCHANGED operations)

FairPausesSpec == PausesSpec /\ PausesFairness

-----------------------------------------------------------------------------
(***************************************************************************)
(* Maintenance never stops a runtime that serves a request ("A drain       *)
(* timeout leaves routing suspended but does not stop the busy model",     *)
(* docs/model-maintenance.md:62), although any of the others may clear the *)
(* pause it drained under, and the stop waits for the lifecycle lock.      *)
(***************************************************************************)
MaintenanceSparesRequests == maintenance = "stopping" => Idle

(***************************************************************************)
(* Evictions, restarts and maintenance never wait for each other for good: *)
(* each comes to its end, however the locks are queued for and whatever    *)
(* is aborted meanwhile.                                                   *)
(***************************************************************************)
OperationsEnd ==
    /\ []<>(eviction = "idle")
    /\ []<>(watchdog = "idle")
    /\ []<>(maintenance = "idle")

(***************************************************************************)
(* "Active requests drain before an otherwise permitted eviction" and      *)
(* nothing "ever overrides [...] active-request protection"                *)
(* (docs/architecture.md:203): no eviction stops a runtime that serves a   *)
(* request.  The code drains under a pause that others clear.              *)
(***************************************************************************)
EvictionSparesRequests == eviction = "stopping" => Idle
=============================================================================
