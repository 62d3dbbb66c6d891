----------------------------- MODULE SpeechServer -----------------------------
(***************************************************************************)
(* The CUDA audio server: ModelHolder, the speech and transcription routes *)
(* and the streamed voice clone of                                         *)
(* src/backends/spark-audio/lloom_audio_cuda_server.py.                    *)
(*                                                                         *)
(* Two threads meet here: the event loop, on which the routes run, and the *)
(* one worker of the executor.  What each does between two touches of what *)
(* they share is one action; a route keeps the loop from ensure_idle to    *)
(* its submission.  The worker publishes a job's result first and runs its *)
(* done callback, which clears the busy flag, only then: the route that    *)
(* waits for the result may resume in between.                             *)
(*                                                                         *)
(* Left out: request bodies, the model, audio, the staged reference files. *)
(* Assumed of the web framework: a streaming response that was returned is *)
(* iterated, or closed, at last.                                           *)
(***************************************************************************)
EXTENDS Naturals

CONSTANTS
    Requests,     \* calls of the two routes
    NoOne,        \* no request
    QueueChunks,  \* MAX_STREAM_QUEUE_CHUNKS
    MaxChunks     \* bound: chunks that the model yields for one stream

VARIABLES
    busy,       \* _busy
    generation, \* _busy_generation
    lease,      \* the generation each admitted request was given
    route,      \* where each route is
    job,        \* the future of each request in the executor
    queued,     \* futures that the worker has not taken yet
    unread,     \* items in the response's own queue; the end marker is one
    yielded,    \* chunks the model has yielded
    stopped     \* the response's own stop event

speechVars == <<busy, generation, lease, route, job, queued, unread, yielded, stopped>>

-----------------------------------------------------------------------------
\* admitted: holds the event loop between ensure_idle and its submission.
\* waiting: a plain request awaits its result.   streaming: its chunks are read.
Routes == {"idle", "admitted", "waiting", "streaming", "ended"}

\* ending: generation is over and put(None) is tried.
\* settled: the result is published.   done: the done callback has run.
Jobs == {"none", "queued", "running", "ending", "settled", "done"}

TypeOK ==
    /\ busy \in BOOLEAN
    /\ generation \in Nat
    /\ lease \in [Requests -> Nat]
    /\ route \in [Requests -> Routes]
    /\ job \in [Requests -> Jobs]
    /\ queued \subseteq Requests
    /\ unread \in [Requests -> 0..QueueChunks]
    /\ yielded \in [Requests -> 0..MaxChunks]
    /\ stopped \in [Requests -> BOOLEAN]

Init ==
    /\ busy = FALSE
    /\ generation = 0
    /\ lease = [r \in Requests |-> 0]
    /\ route = [r \in Requests |-> "idle"]
    /\ job = [r \in Requests |-> "none"]
    /\ queued = {}
    /\ unread = [r \in Requests |-> 0]
    /\ yielded = [r \in Requests |-> 0]
    /\ stopped = [r \in Requests |-> FALSE]

Goto(r, place) == route' = [route EXCEPT ![r] = place]
Job(r, state) == job' = [job EXCEPT ![r] = state]

LoopIsFree == \A r \in Requests: route[r] # "admitted"

\* clear_busy(lease): a lease that is not the current one clears nothing.
ClearBusy(r) == busy' = (busy /\ lease[r] # generation)

-----------------------------------------------------------------------------
(* The routes                                                              *)

\* ensure_idle raises BusyError: 429.
Busy(r) ==
    /\ LoopIsFree
    /\ route[r] = "idle"
    /\ busy
    /\ Goto(r, "ended")
    /\ UNCHANGED <<busy, generation, lease, job, queued, unread, yielded, stopped>>

\* ensure_idle
EnsureIdle(r) ==
    /\ LoopIsFree
    /\ route[r] = "idle"
    /\ ~busy
    /\ busy' = TRUE
    /\ generation' = generation + 1
    /\ lease' = [lease EXCEPT ![r] = generation']
    /\ Goto(r, "admitted")
    /\ UNCHANGED <<job, queued, unread, yielded, stopped>>

\* run_in_thread or start_stream_job submits the job, under the generation
\* that is current then.
Submit(r) ==
    /\ route[r] = "admitted"
    /\ lease' = [lease EXCEPT ![r] = generation]
    /\ Job(r, "queued")
    /\ queued' = queued \cup {r}
    /\ Goto(r, "waiting") \/ Goto(r, "streaming")
    /\ UNCHANGED <<busy, generation, unread, yielded, stopped>>

\* The speech route fails before that, and gives its lease back.
SubmitFails(r) ==
    /\ route[r] = "admitted"
    /\ Goto(r, "ended")
    /\ ClearBusy(r)
    /\ UNCHANGED <<generation, lease, job, queued, unread, yielded, stopped>>

\* The awaited result is there: a response, or an error, for which the speech
\* route clears its lease and the transcription route does nothing.
Answer(r) ==
    /\ LoopIsFree
    /\ route[r] = "waiting"
    /\ job[r] \in {"settled", "done"}
    /\ Goto(r, "ended")
    /\ ClearBusy(r) \/ UNCHANGED busy
    /\ UNCHANGED <<generation, lease, job, queued, unread, yielded, stopped>>

\* _consume takes an item; the end marker or an error ends it and sets stopped.
Consume(r) ==
    /\ LoopIsFree
    /\ route[r] = "streaming"
    /\ unread[r] > 0
    /\ unread' = [unread EXCEPT ![r] = @ - 1]
    /\ IF unread[r] = 1 /\ job[r] \in {"settled", "done"}
       THEN Goto(r, "ended") /\ stopped' = [stopped EXCEPT ![r] = TRUE]
       ELSE UNCHANGED <<route, stopped>>
    /\ UNCHANGED <<busy, generation, lease, job, queued, yielded>>

\* The client hangs up: _consume is closed.
HangUp(r) ==
    /\ LoopIsFree
    /\ route[r] = "streaming"
    /\ Goto(r, "ended")
    /\ stopped' = [stopped EXCEPT ![r] = TRUE]
    /\ UNCHANGED <<busy, generation, lease, job, queued, unread, yielded>>

-----------------------------------------------------------------------------
(* The worker of the executor                                              *)

Working == {r \in Requests: job[r] \in {"running", "ending", "settled"}}

Take(r) ==
    /\ r \in queued
    /\ Working = {}
    /\ queued' = queued \ {r}
    /\ Job(r, "running")
    /\ UNCHANGED <<busy, generation, lease, route, unread, yielded, stopped>>

Streams(r) == route[r] = "streaming" \/ stopped[r]

\* Mutant: the queue takes one chunk too many.
ProduceTooMany(r) ==
    /\ job[r] = "running"
    /\ Streams(r)
    /\ ~stopped[r]
    /\ yielded[r] < MaxChunks
    /\ yielded' = [yielded EXCEPT ![r] = @ + 1]
    /\ unread' = [unread EXCEPT ![r] = @ + 1]
    /\ UNCHANGED <<busy, generation, lease, route, job, queued, stopped>>

\* A chunk is put in the queue once there is room for it.  (A put that slips
\* in just as stopped is set adds an item that nobody reads: left out.)
Produce(r) ==
    /\ job[r] = "running"
    /\ Streams(r)
    /\ ~stopped[r]
    /\ yielded[r] < MaxChunks
    /\ unread[r] < QueueChunks
    /\ yielded' = [yielded EXCEPT ![r] = @ + 1]
    /\ unread' = [unread EXCEPT ![r] = @ + 1]
    /\ UNCHANGED <<busy, generation, lease, route, job, queued, stopped>>

\* The model is done, has failed, or sees stopped; a plain job just ends.
Generated(r) ==
    /\ job[r] = "running"
    /\ Job(r, IF Streams(r) THEN "ending" ELSE "settled")
    /\ UNCHANGED <<busy, generation, lease, route, queued, unread, yielded, stopped>>

\* Mutant: put waits for room, whether or not anyone still reads.
PutEndBlocks(r) ==
    /\ job[r] = "ending"
    /\ unread[r] < QueueChunks
    /\ unread' = [unread EXCEPT ![r] = @ + 1]
    /\ Job(r, "settled")
    /\ UNCHANGED <<busy, generation, lease, route, queued, yielded, stopped>>

\* put(None) and, after a failure, the error before it: both give up on stopped.
PutEnd(r) ==
    /\ job[r] = "ending"
    /\ \/ stopped[r] /\ UNCHANGED unread
       \/ /\ ~stopped[r]
          /\ unread[r] < QueueChunks
          /\ unread' = [unread EXCEPT ![r] = @ + 1]
    /\ Job(r, "settled")
    /\ UNCHANGED <<busy, generation, lease, route, queued, yielded, stopped>>

\* The done callback: clear_busy with the lease the job was submitted under.
DoneCallback(r) ==
    /\ job[r] = "settled"
    /\ Job(r, "done")
    /\ ClearBusy(r)
    /\ UNCHANGED <<generation, lease, route, queued, unread, yielded, stopped>>

-----------------------------------------------------------------------------
RouteStep(r) == Submit(r) \/ SubmitFails(r) \/ Answer(r) \/ Consume(r) \/ HangUp(r)

WorkerStep(r) == Take(r) \/ Generated(r) \/ PutEnd(r) \/ DoneCallback(r)

Next ==
    \E r \in Requests:
        \/ Busy(r) \/ EnsureIdle(r) \/ Produce(r)
        \/ RouteStep(r) \/ WorkerStep(r)

Spec == Init /\ [][Next]_speechVars

\* Threads run, generation ends, and a client reads its stream or hangs up.
Fairness ==
    \A r \in Requests:
        /\ WF_speechVars(RouteStep(r))
        /\ WF_speechVars(WorkerStep(r))

FairSpec == Spec /\ Fairness

-----------------------------------------------------------------------------
\* The request the busy flag stands for.
Holder == IF busy THEN CHOOSE r \in Requests: lease[r] = generation ELSE NoOne

(***************************************************************************)
(* The busy flag behaves as the slot of GpuSlot: it is never lowered while *)
(* a job of its request is queued or has the GPU, neither by the late      *)
(* callback nor by the late error path of an earlier request.              *)
(***************************************************************************)
Slot == INSTANCE GpuSlot WITH
    holder <- Holder,
    atWork <- {r \in Requests: job[r] \in {"queued", "running", "ending"}},
    unhealthy <- FALSE

KeepsTheSlot == Slot!Spec

(***************************************************************************)
(* No admission keeps the server busy for good: not a producer in front of *)
(* a full queue whose reader has gone, and not a callback that was skipped.*)
(***************************************************************************)
BusyEnds ==
    \A r \in Requests: Holder = r ~> Holder # r
=============================================================================
