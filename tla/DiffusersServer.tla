---------------------------- MODULE DiffusersServer ----------------------------
(***************************************************************************)
(* The image and the music server share one protocol: run_generate of      *)
(* src/backends/ace-step-diffusers/server.py, and _run of                  *)
(* src/backends/qwen-image-diffusers/server.py.  A request takes the lock, *)
(* starts a thread that uses CUDA and cannot be killed, and keeps the lock *)
(* until that thread has exited, however the request itself ends.          *)
(*                                                                         *)
(* The event loop and the thread interleave; between two awaits the loop   *)
(* is not interrupted.  Left out: parameters and results.                  *)
(***************************************************************************)
CONSTANTS
    Requests,   \* calls of the generate route
    NoOne       \* the holder of the free lock, no request

VARIABLES
    held,       \* app.state.lock, by its holder
    step,       \* where each request is suspended
    thread,     \* its worker thread
    cancelled   \* requests whose cancel event is set

diffusersVars == <<held, step, thread, cancelled>>

TypeOK ==
    /\ held \in Requests \cup {NoOne}
    /\ step \in [Requests -> {"idle", "watch", "finish", "ended"}]
    /\ thread \in [Requests -> {"none", "created", "running", "exited"}]
    /\ cancelled \subseteq Requests

Init ==
    /\ held = NoOne
    /\ step = [r \in Requests |-> "idle"]
    /\ thread = [r \in Requests |-> "none"]
    /\ cancelled = {}

\* A taken lock answers 429; a free one is acquired in the same turn.
Acquire(r) ==
    /\ step[r] = "idle"
    /\ IF held = NoOne
       THEN /\ held' = r
            /\ step' = [step EXCEPT ![r] = "watch"]
            /\ thread' = [thread EXCEPT ![r] = "created"]
       ELSE /\ step' = [step EXCEPT ![r] = "ended"]
            /\ UNCHANGED <<held, thread>>
    /\ UNCHANGED cancelled

\* The task's first turn hands the call to a thread.
StartThread(r) ==
    /\ thread[r] = "created"
    /\ thread' = [thread EXCEPT ![r] = "running"]
    /\ UNCHANGED <<held, step, cancelled>>

\* The thread returns or raises; a set cancel event makes it raise earlier.
ExitThread(r) ==
    /\ thread[r] = "running"
    /\ thread' = [thread EXCEPT ![r] = "exited"]
    /\ UNCHANGED <<held, step, cancelled>>

\* The task is done, or the client is gone, or the request is cancelled.
StopWatching(r) ==
    /\ step[r] = "watch"
    /\ step' = [step EXCEPT ![r] = "finish"]
    /\ cancelled' = IF thread[r] = "exited" THEN cancelled ELSE cancelled \cup {r}
    /\ UNCHANGED <<held, thread>>

\* finish_worker returns once the thread has exited, further cancellations
\* notwithstanding, and the lock is released.
Finish(r) ==
    /\ step[r] = "finish"
    /\ thread[r] = "exited"
    /\ step' = [step EXCEPT ![r] = "ended"]
    /\ held' = NoOne
    /\ UNCHANGED <<thread, cancelled>>

ServerStep(r) == StopWatching(r) \/ Finish(r) \/ StartThread(r) \/ ExitThread(r)

Next == \E r \in Requests: Acquire(r) \/ ServerStep(r)

Spec == Init /\ [][Next]_diffusersVars

\* Coroutines run, and a generation ends, by itself or by its cancel event.
Fairness ==
    \A r \in Requests:
        /\ WF_diffusersVars(StopWatching(r) \/ Finish(r))
        /\ WF_diffusersVars(StartThread(r) \/ ExitThread(r))

FairSpec == Spec /\ Fairness

-----------------------------------------------------------------------------
(***************************************************************************)
(* The lock behaves as the slot of GpuSlot: no request gets it while the   *)
(* thread of an earlier one, whose client may be long gone, uses CUDA      *)
(* (finish_worker and the finally clause of the routes).                   *)
(***************************************************************************)
Slot == INSTANCE GpuSlot WITH
    holder <- held,
    atWork <- {r \in Requests: thread[r] = "running"},
    unhealthy <- FALSE

KeepsTheSlot == Slot!Spec

(***************************************************************************)
(* Every request that got the lock gives it back.                          *)
(***************************************************************************)
LockEnds == \A r \in Requests: held = r ~> held # r
=============================================================================
