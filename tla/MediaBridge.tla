----------------------------- MODULE MediaBridge -----------------------------
(***************************************************************************)
(* The ComfyUI media bridge: SingleFlightRunner of                         *)
(* src/backends/comfyui-media/bridge/jobs.py, with the calls it makes      *)
(* through comfy_client.py and the ComfyUI process behind them.            *)
(*                                                                         *)
(* One asyncio loop: what a coroutine does between two awaits is one       *)
(* action.  The runner's own lock is never held across an await, so        *)
(* acquiring, releasing and quarantining the slot are parts of the action  *)
(* they end.  A client may hang up (Cancel) wherever run() is suspended.   *)
(* HTTP to ComfyUI may fail at any call, before or after it had effect.    *)
(*                                                                         *)
(* Left out: graphs, validation, artifacts' bytes; POST /interrupt, whose  *)
(* only effect is that a running job ends, which it may at any time here;  *)
(* the seconds of timeouts, which expire at any time.                      *)
(***************************************************************************)

CONSTANTS
    Requests,   \* calls of run(), each with its prompt id
    NoOne       \* self._owner is None, and self._busy is False

ASSUME NoOneIsNoRequest == NoOne \notin Requests

VARIABLES
    owner,      \* self._owner; self._busy is owner # NoOne
    unhealthy,  \* self._unhealthy
    stage,      \* where run() of each request is suspended
    submitCall, \* outcome of its shielded submit task
    reaper,     \* its background task that keeps the slot
    upload,     \* its conditioning file in ComfyUI's input directory
    cleaning,   \* requests whose _cleanup task has not run
    prompt      \* its prompt in ComfyUI

bridge == <<owner, unhealthy, stage, submitCall, reaper, upload, cleaning>>
vars == <<bridge, prompt>>

-----------------------------------------------------------------------------
Stages == {"idle", "build", "submit", "poll", "drop", "verify", "fetch", "ended"}
Outcomes == {"none", "flying", "accepted", "rejected", "uncertain"}

\* drop: cancels its own job first.   afterSubmit: awaits the submit task.
\* reap: polls the history.           gaveUp: its budget ran out.
Reapers == {"none", "drop", "afterSubmit", "reap", "gaveUp"}

\* onWire: POST /prompt not handled yet.   dropped: deleted while pending.
\* finished: has a terminal history.       forgotten: its history is deleted.
Prompts == {"unsent", "onWire", "lost", "refused", "pending", "running",
            "dropped", "finished", "forgotten"}

TypeOK ==
    /\ owner \in Requests \cup {NoOne}
    /\ unhealthy \in BOOLEAN
    /\ stage \in [Requests -> Stages]
    /\ submitCall \in [Requests -> Outcomes]
    /\ reaper \in [Requests -> Reapers]
    /\ upload \in [Requests -> {"none", "arrived", "stored", "deleted"}]
    /\ cleaning \subseteq Requests
    /\ prompt \in [Requests -> Prompts]

Init ==
    /\ owner = NoOne
    /\ unhealthy = FALSE
    /\ stage = [r \in Requests |-> "idle"]
    /\ submitCall = [r \in Requests |-> "none"]
    /\ reaper = [r \in Requests |-> "none"]
    /\ upload = [r \in Requests |-> "none"]
    /\ cleaning = {}
    /\ prompt = [r \in Requests |-> "unsent"]

\* Its prompt has, or may yet get, the GPU.
AtWork(r) == prompt[r] \in {"onWire", "pending", "running"}

-----------------------------------------------------------------------------
(* The slot.  Each of these is the part of an action that touches it.      *)

\* _release
Release(r) ==
    /\ owner' = IF owner = r THEN NoOne ELSE owner
    /\ UNCHANGED unhealthy

\* _release_terminal: also clears the quarantine, but only this owner's own.
ReleaseTerminal(r) ==
    /\ owner' = IF owner = r THEN NoOne ELSE owner
    /\ unhealthy' = (unhealthy /\ owner # r)

\* _retain_busy
RetainBusy(r) ==
    /\ unhealthy' = (unhealthy \/ owner = r)
    /\ UNCHANGED owner

KeepSlot == UNCHANGED <<owner, unhealthy>>

\* _cleanup_after_fetch
ScheduleCleanup(r) == cleaning' = cleaning \cup {r}

Goto(r, s) == stage' = [stage EXCEPT ![r] = s]
Reaper(r, k) == reaper' = [reaper EXCEPT ![r] = k]

\* run() ends and nothing of the job is left but files to delete.
Resolve(r) ==
    /\ Goto(r, "ended")
    /\ ScheduleCleanup(r)

-----------------------------------------------------------------------------
(* run()                                                                   *)

\* _acquire: a busy or unhealthy bridge answers 429 or 503 at once.
Acquire(r) ==
    /\ stage[r] = "idle"
    /\ IF owner = NoOne /\ ~unhealthy
       THEN owner' = r /\ Goto(r, "build")
       ELSE Goto(r, "ended") /\ UNCHANGED owner
    /\ UNCHANGED <<unhealthy, submitCall, reaper, upload, cleaning, prompt>>

\* build() uploads a conditioning file: ComfyUI stores it, and its reference
\* is recorded in upload_ref only when the answer is back.
UploadMoves(r, from, to) ==
    /\ stage[r] = "build"
    /\ upload[r] = from
    /\ upload' = [upload EXCEPT ![r] = to]
    /\ UNCHANGED <<owner, unhealthy, stage, submitCall, reaper, cleaning, prompt>>

UploadStored(r) == UploadMoves(r, "none", "arrived")
UploadRecorded(r) == UploadMoves(r, "arrived", "stored")

\* The graph is refused or an upload fails: nothing was ever submitted.
BuildFails(r) ==
    /\ stage[r] = "build"
    /\ Resolve(r)
    /\ Release(r)
    /\ UNCHANGED <<submitCall, reaper, upload, prompt>>

\* submit_started: the shielded submit task is created and posts the prompt.
StartSubmit(r) ==
    /\ stage[r] = "build"
    /\ upload[r] # "arrived"
    /\ Goto(r, "submit")
    /\ submitCall' = [submitCall EXCEPT ![r] = "flying"]
    /\ prompt' = [prompt EXCEPT ![r] = "onWire"]
    /\ UNCHANGED <<owner, unhealthy, reaper, upload, cleaning>>

\* comfy.submit() ends.  Only a 4xx answer proves a rejection; a transport
\* error, a 5xx or a body that cannot be trusted may come at any time.
SubmitSettles(r) ==
    /\ submitCall[r] = "flying"
    /\ \E outcome \in {"accepted", "rejected", "uncertain"}:
        /\ outcome = "accepted" =>
            prompt[r] \in {"pending", "running", "dropped", "finished"}
        /\ outcome = "rejected" => prompt[r] = "refused"
        /\ submitCall' = [submitCall EXCEPT ![r] = outcome]
    /\ UNCHANGED <<owner, unhealthy, stage, reaper, upload, cleaning, prompt>>

\* _submit returns to run().
Submitted(r) ==
    /\ stage[r] = "submit"
    /\ \/ /\ submitCall[r] = "accepted"
          /\ Goto(r, "poll")
          /\ KeepSlot
          /\ UNCHANGED <<reaper, cleaning>>
       \/ /\ submitCall[r] = "rejected"
          /\ Resolve(r)
          /\ Release(r)
          /\ UNCHANGED reaper
       \/ /\ submitCall[r] = "uncertain"
          /\ Goto(r, "ended")
          /\ RetainBusy(r)
          /\ Reaper(r, "reap")
          /\ UNCHANGED cleaning
    /\ UNCHANGED <<submitCall, upload, prompt>>

\* wait_for_terminal sees the job's history: a result to fetch, or a failure.
JobEnds(r) ==
    /\ stage[r] = "poll"
    /\ prompt[r] = "finished"
    /\ \/ /\ Goto(r, "fetch")
          /\ KeepSlot
          /\ UNCHANGED cleaning
       \/ /\ Resolve(r)
          /\ Release(r)
    /\ UNCHANGED <<submitCall, reaper, upload, prompt>>

\* Mutant: the slot is quarantined, and nobody looks for the job again.
PollFailsUnreaped(r) ==
    /\ stage[r] = "poll"
    /\ Goto(r, "ended")
    /\ RetainBusy(r)
    /\ UNCHANGED <<reaper, submitCall, upload, cleaning, prompt>>

\* A poll fails (ComfyPollError): whether the job still runs is unknown.
PollFails(r) ==
    /\ stage[r] = "poll"
    /\ Goto(r, "ended")
    /\ RetainBusy(r)
    /\ Reaper(r, "reap")
    /\ UNCHANGED <<submitCall, upload, cleaning, prompt>>

\* ComfyTimeout: _reap_after_timeout starts by cancelling the job.
PollTimesOut(r) ==
    /\ stage[r] = "poll"
    /\ Goto(r, "drop")
    /\ UNCHANGED <<owner, unhealthy, submitCall, reaper, upload, cleaning, prompt>>

\* POST /queue: deletes the prompt if it is pending, and says nothing.
DropPending(r) ==
    prompt' = IF prompt[r] = "pending"
              THEN [prompt EXCEPT ![r] = "dropped"] ELSE prompt

\* cancel_own_job, first half: the request may also fail with no effect.
TimeoutDrops(r) ==
    /\ stage[r] = "drop"
    /\ Goto(r, "verify")
    /\ DropPending(r) \/ UNCHANGED prompt
    /\ UNCHANGED <<owner, unhealthy, submitCall, reaper, upload, cleaning>>

\* cancel_own_job, second half, and the rest of _reap_after_timeout: only a
\* terminal history that is seen, and seen again, releases the slot.
TimeoutVerifies(r) ==
    /\ stage[r] = "verify"
    /\ \/ /\ prompt[r] = "finished"
          /\ Resolve(r)
          /\ ReleaseTerminal(r)
          /\ UNCHANGED reaper
       \/ /\ Goto(r, "ended")
          /\ RetainBusy(r)
          /\ Reaper(r, "reap")
          /\ UNCHANGED cleaning
    /\ UNCHANGED <<submitCall, upload, prompt>>

\* The artifact is fetched and returned, or fails to be: the job is over.
Fetched(r) ==
    /\ stage[r] = "fetch"
    /\ Resolve(r)
    /\ ReleaseTerminal(r) \/ Release(r)
    /\ UNCHANGED <<submitCall, reaper, upload, prompt>>

\* Mutant: a cancelled submission is cleaned up like a cancelled build.
CancelAndClean(r) ==
    /\ stage[r] = "submit"
    /\ Resolve(r)
    /\ RetainBusy(r)
    /\ Reaper(r, "afterSubmit")
    /\ UNCHANGED <<submitCall, upload, prompt>>

\* The client hangs up while run() is suspended (asyncio.CancelledError).
Cancel(r) ==
    /\ stage[r] \notin {"idle", "ended"}
    /\ \/ /\ stage[r] = "build"
          /\ Resolve(r)
          /\ Release(r)
          /\ UNCHANGED reaper
       \/ /\ stage[r] = "submit"
          /\ Goto(r, "ended")
          /\ RetainBusy(r)
          /\ Reaper(r, "afterSubmit")
          /\ UNCHANGED cleaning
       \/ /\ stage[r] \notin {"build", "submit"}
          /\ Goto(r, "ended")
          /\ Reaper(r, "drop")
          /\ KeepSlot
          /\ UNCHANGED cleaning
    /\ UNCHANGED <<submitCall, upload, prompt>>

-----------------------------------------------------------------------------
(* Background tasks                                                        *)

\* _interrupt_and_reap: cancel_own_job, whose answer it does not use.
ReaperDrops(r) ==
    /\ reaper[r] = "drop"
    /\ Reaper(r, "reap")
    /\ DropPending(r) \/ UNCHANGED prompt
    /\ UNCHANGED <<owner, unhealthy, stage, submitCall, upload, cleaning>>

\* Mutant: an uncertain submission is taken for a rejected one.
ReaperGuesses(r) ==
    /\ reaper[r] = "afterSubmit"
    /\ submitCall[r] # "flying"
    /\ IF submitCall[r] # "accepted"
       THEN ScheduleCleanup(r) /\ ReleaseTerminal(r) /\ Reaper(r, "none")
       ELSE RetainBusy(r) /\ Reaper(r, "reap") /\ UNCHANGED cleaning
    /\ UNCHANGED <<stage, submitCall, upload, prompt>>

\* _reap_after_submit: the cancelled submit has settled.
ReaperSeesSubmit(r) ==
    /\ reaper[r] = "afterSubmit"
    /\ submitCall[r] # "flying"
    /\ IF submitCall[r] = "rejected"
       THEN ScheduleCleanup(r) /\ ReleaseTerminal(r) /\ Reaper(r, "none")
       ELSE RetainBusy(r) /\ Reaper(r, "reap") /\ UNCHANGED cleaning
    /\ UNCHANGED <<stage, submitCall, upload, prompt>>

\* _reap: the history proves the job ended.
Reap(r) ==
    /\ reaper[r] = "reap"
    /\ prompt[r] = "finished"
    /\ Reaper(r, "none")
    /\ ScheduleCleanup(r)
    /\ ReleaseTerminal(r)
    /\ UNCHANGED <<stage, submitCall, upload, prompt>>

\* _reap: the budget is spent; the slot is kept for good.
GiveUp(r) ==
    /\ reaper[r] = "reap"
    /\ Reaper(r, "gaveUp")
    /\ RetainBusy(r)
    /\ UNCHANGED <<stage, submitCall, upload, cleaning, prompt>>

\* _cleanup: deletes the history, if that call succeeds, and the files.
Cleanup(r) ==
    /\ r \in cleaning
    /\ cleaning' = cleaning \ {r}
    /\ upload' = [upload EXCEPT ![r] = IF @ = "stored" THEN "deleted" ELSE @]
    /\ \/ prompt' = [prompt EXCEPT ![r] = IF @ = "finished" THEN "forgotten" ELSE @]
       \/ UNCHANGED prompt
    /\ UNCHANGED <<owner, unhealthy, stage, submitCall, reaper>>

-----------------------------------------------------------------------------
(* ComfyUI: one prompt executes at a time.                                 *)

PromptMoves(r, from, to) ==
    /\ prompt[r] = from
    /\ prompt' = [prompt EXCEPT ![r] = to]
    /\ UNCHANGED bridge

\* POST /prompt is handled, or its connection dies first.
PromptLands(r) == \E fate \in {"pending", "refused", "lost"}: PromptMoves(r, "onWire", fate)

PromptStarts(r) ==
    /\ \A s \in Requests: prompt[s] # "running"
    /\ PromptMoves(r, "pending", "running")

PromptFinishes(r) == PromptMoves(r, "running", "finished")

-----------------------------------------------------------------------------
BridgeStep(r) ==
    \/ BuildFails(r) \/ StartSubmit(r)
    \/ SubmitSettles(r) \/ Submitted(r) \/ JobEnds(r) \/ PollFails(r) \/ PollTimesOut(r)
    \/ TimeoutDrops(r) \/ TimeoutVerifies(r) \/ Fetched(r)
    \/ ReaperDrops(r) \/ ReaperSeesSubmit(r) \/ Reap(r) \/ GiveUp(r) \/ Cleanup(r)

\* What nothing obliges to happen: clients, uploads, and all of ComfyUI.
OtherStep(r) ==
    \/ Acquire(r) \/ UploadStored(r) \/ UploadRecorded(r) \/ Cancel(r)
    \/ PromptLands(r) \/ PromptStarts(r) \/ PromptFinishes(r)

Next == \E r \in Requests: BridgeStep(r) \/ OtherStep(r)

Spec == Init /\ [][Next]_vars

\* Every coroutine that is ready runs; every await on ComfyUI has a timeout.
Fairness == \A r \in Requests: WF_vars(BridgeStep(r))

FairSpec == Spec /\ Fairness

-----------------------------------------------------------------------------
Running(r) == stage[r] \notin {"idle", "ended"}
Reaping(r) == reaper[r] \in {"drop", "afterSubmit", "reap"}

(***************************************************************************)
(* The slot behaves as GpuSlot: it is handed over only when the prompt of  *)
(* its last owner can no longer execute, and only the owner's own release  *)
(* lifts a quarantine (_release, _release_terminal and every path of run() *)
(* and of the reapers that reaches them).                                  *)
(***************************************************************************)
Slot == INSTANCE GpuSlot WITH
    holder <- owner,
    atWork <- {r \in Requests: AtWork(r)}

KeepsTheSlot == Slot!Spec

(***************************************************************************)
(* A held slot has exactly one keeper: the run() of its owner, or one      *)
(* reaper of its owner, or, after a spent budget, the quarantine; and no   *)
(* run() or reaper acts for a request that is not the owner.               *)
(***************************************************************************)
KeptByOne ==
    \A r \in Requests:
        /\ Running(r) \/ Reaping(r) \/ reaper[r] = "gaveUp" => owner = r
        /\ ~(Running(r) /\ reaper[r] # "none")
        /\ owner = r =>
            Running(r) \/ Reaping(r) \/ (reaper[r] = "gaveUp" /\ unhealthy)

(***************************************************************************)
(* The uploaded file a prompt reads is never deleted while the prompt may  *)
(* still execute ("Never called on an uncertain/cancelled job, whose files *)
(* are retained until the id is resolved", jobs.py:492-493), and a request *)
(* that is over, and not quarantined, leaves no file without a cleanup.    *)
(***************************************************************************)
FilesFollowTheJob ==
    \A r \in Requests:
        /\ upload[r] = "deleted" => ~AtWork(r)
        /\ stage[r] = "ended" /\ owner # r /\ upload[r] = "stored" => r \in cleaning

(***************************************************************************)
(* Every admission comes to an end: the slot becomes free, or is marked    *)
(* unhealthy with its reaper gone, so that /health asks for a restart.     *)
(* Nothing is assumed of ComfyUI, which may never answer.                  *)
(***************************************************************************)
SlotSettles ==
    \A r \in Requests:
        owner = r ~> owner # r \/ (unhealthy /\ reaper[r] = "gaveUp")

(***************************************************************************)
(* "the slot stays held (busy, not quarantined) by the ordinary reaper     *)
(* until history proves the job ended, exactly as for a job that finishes  *)
(* on its own" (_interrupt_and_reap, jobs.py:323-326): a reaper that has   *)
(* not quarantined the slot so far never does so for a job that is no      *)
(* longer in ComfyUI.  The code itself drops a pending job, which then     *)
(* never gets a history, and waits for that history.                       *)
(***************************************************************************)
InterruptedJobFreesTheSlot ==
    [][\A r \in Requests:
        reaper[r] = "reap" /\ ~unhealthy /\ unhealthy' => prompt[r] # "dropped"]_vars
=============================================================================
