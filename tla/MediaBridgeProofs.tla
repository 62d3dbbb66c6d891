-------------------------- MODULE MediaBridgeProofs --------------------------
(***************************************************************************)
(* What holds of the media bridge for every set of requests: one keeper of *)
(* the slot (KeptByOne), files that outlive the job that reads them        *)
(* (FilesFollowTheJob), and the slot as GpuSlot promises it.               *)
(*                                                                         *)
(* None of the three is inductive alone.  That the slot is handed over     *)
(* only when its prompt is over needs that work implies ownership, which   *)
(* each release on the strength of an argument of its own keeps: nothing   *)
(* was ever sent (BuildFails), the answer proved a rejection, or a history *)
(* was seen.  StageTellsPrompt records those arguments.                    *)
(***************************************************************************)
EXTENDS MediaBridge, TLAPS

\* A request with work owns the slot, and is not quarantined while it runs.
WorkIsOwned(r) ==
    /\ AtWork(r) => owner = r
    /\ Running(r) => ~unhealthy

\* What run() and the submit task know of the prompt from where they are.
StageTellsPrompt(r) ==
    /\ stage[r] \in {"idle", "build"} =>
        prompt[r] = "unsent" /\ submitCall[r] = "none" /\ reaper[r] = "none"
    /\ stage[r] = "idle" => upload[r] = "none" /\ owner # r
    /\ stage[r] = "fetch" => prompt[r] \in {"finished", "forgotten"}
    /\ submitCall[r] = "rejected" => prompt[r] = "refused"

\* Only a request whose run() and prompt are over is cleaned up.
CleanedIsOver(r) ==
    r \in cleaning \/ upload[r] = "deleted" => stage[r] = "ended" /\ ~AtWork(r)

\* KeptByOne and FilesFollowTheJob, of one request.
Kept(r) ==
        /\ Running(r) \/ Reaping(r) \/ reaper[r] = "gaveUp" => owner = r
        /\ ~(Running(r) /\ reaper[r] # "none")
        /\ owner = r =>
            Running(r) \/ Reaping(r) \/ (reaper[r] = "gaveUp" /\ unhealthy)

Filed(r) ==
        /\ upload[r] = "deleted" => ~AtWork(r)
        /\ stage[r] = "ended" /\ owner # r /\ upload[r] = "stored" => r \in cleaning

RequestInv(r) ==
    /\ WorkIsOwned(r)
    /\ StageTellsPrompt(r)
    /\ CleanedIsOver(r)
    /\ Kept(r)
    /\ Filed(r)

\* The inductive invariant.
IInv ==
    /\ TypeOK
    /\ unhealthy => owner # NoOne
    /\ \A r \in Requests: RequestInv(r)

USE NoOneIsNoRequest

\* An idle bridge satisfies the inductive invariant.
LEMMA InitIInv == Init => IInv
<1> SUFFICES ASSUME Init PROVE IInv
  OBVIOUS
<1>1. TypeOK
  BY DEF Init, TypeOK, Stages, Outcomes, Reapers, Prompts
<1>2. ASSUME NEW r \in Requests PROVE RequestInv(r)
  BY <1>2 DEF Init, RequestInv, WorkIsOwned, StageTellsPrompt, CleanedIsOver,
      Kept, Filed, AtWork, Running, Reaping
<1> QED BY <1>1, <1>2 DEF Init, IInv

\* A request that a step does not touch keeps its part of the invariant:
\* run() and the reapers of one request only ever change the slot of that
\* request.
LEMMA Others ==
    ASSUME NEW r \in Requests, NEW s \in Requests, s # r, RequestInv(s),
           stage'[s] = stage[s], submitCall'[s] = submitCall[s], reaper'[s] = reaper[s],
           upload'[s] = upload[s], prompt'[s] = prompt[s],
           s \in cleaning' <=> s \in cleaning,
           owner' = s <=> owner = s,
           owner = s => unhealthy' = unhealthy
    PROVE  RequestInv(s)'
BY DEF RequestInv, WorkIsOwned, StageTellsPrompt, CleanedIsOver, Kept, Filed,
    AtWork, Running, Reaping

\* Every step of run(), of the background tasks and of ComfyUI keeps the
\* types.
LEMMA TypeStep == ASSUME TypeOK, [Next]_vars PROVE TypeOK'
<1> USE DEF TypeOK, Stages, Outcomes, Reapers, Prompts
<1>1. CASE UNCHANGED vars
  BY <1>1 DEF vars, bridge
<1>2. ASSUME NEW r \in Requests, BridgeStep(r) PROVE TypeOK'
  <2> USE DEF Goto, Reaper, Resolve, ScheduleCleanup, KeepSlot, Release,
      ReleaseTerminal, RetainBusy, DropPending
  <2>1. CASE BuildFails(r) BY <2>1 DEF BuildFails
  <2>2. CASE StartSubmit(r) BY <2>2 DEF StartSubmit
  <2>3. CASE SubmitSettles(r) BY <2>3 DEF SubmitSettles
  <2>4. CASE Submitted(r) BY <2>4 DEF Submitted
  <2>5. CASE JobEnds(r) BY <2>5 DEF JobEnds
  <2>6. CASE PollFails(r) BY <2>6 DEF PollFails
  <2>7. CASE PollTimesOut(r) BY <2>7 DEF PollTimesOut
  <2>8. CASE TimeoutDrops(r) BY <2>8 DEF TimeoutDrops
  <2>9. CASE TimeoutVerifies(r) BY <2>9 DEF TimeoutVerifies
  <2>10. CASE Fetched(r) BY <2>10 DEF Fetched
  <2>11. CASE ReaperDrops(r) BY <2>11 DEF ReaperDrops
  <2>12. CASE ReaperSeesSubmit(r) BY <2>12 DEF ReaperSeesSubmit
  <2>13. CASE Reap(r) BY <2>13 DEF Reap
  <2>14. CASE GiveUp(r) BY <2>14 DEF GiveUp
  <2>15. CASE Cleanup(r) BY <2>15 DEF Cleanup
  <2> QED BY <1>2, <2>1, <2>2, <2>3, <2>4, <2>5, <2>6, <2>7, <2>8, <2>9, <2>10,
      <2>11, <2>12, <2>13, <2>14, <2>15 DEF BridgeStep
<1>3. ASSUME NEW r \in Requests, OtherStep(r) PROVE TypeOK'
  <2> USE DEF Goto, Reaper, Resolve, ScheduleCleanup, KeepSlot, Release, RetainBusy
  <2>1. CASE Acquire(r) BY <2>1 DEF Acquire
  <2>2. CASE UploadStored(r) BY <2>2 DEF UploadStored, UploadMoves
  <2>3. CASE UploadRecorded(r) BY <2>3 DEF UploadRecorded, UploadMoves
  <2>4. CASE Cancel(r) BY <2>4 DEF Cancel
  <2>5. CASE PromptLands(r) BY <2>5 DEF PromptLands, PromptMoves, bridge
  <2>6. CASE PromptStarts(r) BY <2>6 DEF PromptStarts, PromptMoves, bridge
  <2>7. CASE PromptFinishes(r) BY <2>7 DEF PromptFinishes, PromptMoves, bridge
  <2> QED BY <1>3, <2>1, <2>2, <2>3, <2>4, <2>5, <2>6, <2>7 DEF OtherStep
<1> QED BY <1>1, <1>2, <1>3 DEF Next

\* A step of one request changes nothing of another's: its stage, tasks,
\* file and prompt, nor the slot while the other owns it (the owner checks
\* of _release, _release_terminal and _retain_busy).
LEMMA Frame ==
    ASSUME TypeOK, NEW r \in Requests, NEW s \in Requests, s # r,
           BridgeStep(r) \/ OtherStep(r)
    PROVE  /\ stage'[s] = stage[s] /\ submitCall'[s] = submitCall[s] /\ reaper'[s] = reaper[s]
           /\ upload'[s] = upload[s] /\ prompt'[s] = prompt[s]
           /\ s \in cleaning' <=> s \in cleaning
           /\ owner' = s <=> owner = s
           /\ owner = s => unhealthy' = unhealthy
<1> USE DEF TypeOK, Goto, Reaper, Resolve, ScheduleCleanup, KeepSlot, Release,
    ReleaseTerminal, RetainBusy, DropPending
<1>1. CASE BuildFails(r) BY <1>1 DEF BuildFails
<1>2. CASE StartSubmit(r) BY <1>2 DEF StartSubmit
<1>3. CASE SubmitSettles(r) BY <1>3 DEF SubmitSettles
<1>4. CASE Submitted(r) BY <1>4 DEF Submitted
<1>5. CASE JobEnds(r) BY <1>5 DEF JobEnds
<1>6. CASE PollFails(r) BY <1>6 DEF PollFails
<1>7. CASE PollTimesOut(r) BY <1>7 DEF PollTimesOut
<1>8. CASE TimeoutDrops(r) BY <1>8 DEF TimeoutDrops
<1>9. CASE TimeoutVerifies(r) BY <1>9 DEF TimeoutVerifies
<1>10. CASE Fetched(r) BY <1>10 DEF Fetched
<1>11. CASE ReaperDrops(r) BY <1>11 DEF ReaperDrops
<1>12. CASE ReaperSeesSubmit(r) BY <1>12 DEF ReaperSeesSubmit
<1>13. CASE Reap(r) BY <1>13 DEF Reap
<1>14. CASE GiveUp(r) BY <1>14 DEF GiveUp
<1>15. CASE Cleanup(r) BY <1>15 DEF Cleanup
<1>16. CASE Acquire(r) BY <1>16 DEF Acquire
<1>17. CASE UploadStored(r) BY <1>17 DEF UploadStored, UploadMoves
<1>18. CASE UploadRecorded(r) BY <1>18 DEF UploadRecorded, UploadMoves
<1>19. CASE Cancel(r) BY <1>19 DEF Cancel
<1>20. CASE PromptLands(r) BY <1>20 DEF PromptLands, PromptMoves, bridge
<1>21. CASE PromptStarts(r) BY <1>21 DEF PromptStarts, PromptMoves, bridge
<1>22. CASE PromptFinishes(r) BY <1>22 DEF PromptFinishes, PromptMoves, bridge
<1> QED BY <1>1, <1>2, <1>3, <1>4, <1>5, <1>6, <1>7, <1>8, <1>9, <1>10, <1>11,
    <1>12, <1>13, <1>14, <1>15, <1>16, <1>17, <1>18, <1>19, <1>20, <1>21, <1>22
    DEF BridgeStep, OtherStep

\* Each step of run(), of its reapers and of its prompt keeps the part of
\* the invariant of its own request.
LEMMA OwnStep ==
    ASSUME IInv, NEW r \in Requests, BridgeStep(r) \/ OtherStep(r)
    PROVE  RequestInv(r)' /\ (unhealthy' => owner' # NoOne)
<1> USE DEF IInv, TypeOK, RequestInv, WorkIsOwned, StageTellsPrompt,
    CleanedIsOver, Kept, Filed, AtWork, Running, Reaping,
        Goto, Reaper, Resolve, ScheduleCleanup, KeepSlot, Release, ReleaseTerminal, RetainBusy, DropPending
<1>1. CASE BuildFails(r) BY <1>1 DEF BuildFails
<1>2. CASE StartSubmit(r) BY <1>2 DEF StartSubmit
<1>3. CASE SubmitSettles(r) BY <1>3 DEF SubmitSettles
<1>4. CASE Submitted(r) BY <1>4 DEF Submitted
<1>5. CASE JobEnds(r) BY <1>5 DEF JobEnds
<1>6. CASE PollFails(r) BY <1>6 DEF PollFails
<1>7. CASE PollTimesOut(r) BY <1>7 DEF PollTimesOut
<1>8. CASE TimeoutDrops(r) BY <1>8 DEF TimeoutDrops
<1>9. CASE TimeoutVerifies(r) BY <1>9 DEF TimeoutVerifies
<1>10. CASE Fetched(r) BY <1>10 DEF Fetched
<1>11. CASE ReaperDrops(r) BY <1>11 DEF ReaperDrops
<1>12. CASE ReaperSeesSubmit(r)
  <2>1. owner = r /\ stage[r] = "ended" BY <1>12 DEF ReaperSeesSubmit
  <2>2. CASE submitCall[r] = "rejected" BY <1>12, <2>1, <2>2 DEF ReaperSeesSubmit
  <2>3. CASE submitCall[r] # "rejected" BY <1>12, <2>1, <2>3 DEF ReaperSeesSubmit
  <2> QED BY <2>2, <2>3
<1>13. CASE Reap(r) BY <1>13 DEF Reap
<1>14. CASE GiveUp(r) BY <1>14 DEF GiveUp
<1>15. CASE Cleanup(r) BY <1>15 DEF Cleanup
<1>16. CASE Acquire(r) BY <1>16 DEF Acquire
<1>17. CASE UploadStored(r) BY <1>17 DEF UploadStored, UploadMoves
<1>18. CASE UploadRecorded(r) BY <1>18 DEF UploadRecorded, UploadMoves
<1>19. CASE Cancel(r) BY <1>19 DEF Cancel
<1>20. CASE PromptLands(r) BY <1>20 DEF PromptLands, PromptMoves, bridge
<1>21. CASE PromptStarts(r) BY <1>21 DEF PromptStarts, PromptMoves, bridge
<1>22. CASE PromptFinishes(r) BY <1>22 DEF PromptFinishes, PromptMoves, bridge
<1> QED BY <1>1, <1>2, <1>3, <1>4, <1>5, <1>6, <1>7, <1>8, <1>9, <1>10, <1>11,
    <1>12, <1>13, <1>14, <1>15, <1>16, <1>17, <1>18, <1>19, <1>20, <1>21, <1>22
    DEF BridgeStep, OtherStep

\* The invariant is inductive: the step of one request, and the frame of
\* the others.
LEMMA StepIInv == ASSUME IInv, [Next]_vars PROVE IInv'
<1>1. TypeOK'
  BY TypeStep DEF IInv
<1>2. CASE UNCHANGED vars
  BY <1>1, <1>2 DEF vars, bridge, IInv, RequestInv, WorkIsOwned, StageTellsPrompt,
      CleanedIsOver, Kept, Filed, AtWork, Running, Reaping
<1>3. ASSUME NEW r \in Requests, BridgeStep(r) \/ OtherStep(r) PROVE IInv'
  <2>1. RequestInv(r)' /\ (unhealthy' => owner' # NoOne)
    BY <1>3, OwnStep
  <2>2. ASSUME NEW s \in Requests, s # r PROVE RequestInv(s)'
    BY <1>3, <2>2, Frame, Others DEF IInv
  <2> QED BY <1>1, <2>1, <2>2 DEF IInv
<1> QED BY <1>2, <1>3 DEF Next

\* The inductive invariant holds of the bridge for every set of requests.
THEOREM Inductive == Spec => []IInv
BY InitIInv, StepIInv, PTL DEF Spec

\* A held slot always has one keeper: run(), a reaper, or the quarantine
\* (SingleFlightRunner.run and its reapers, jobs.py), for every set of
\* requests.
THEOREM SlotIsKeptByOne == Spec => []KeptByOne
<1>1. IInv => KeptByOne
  BY DEF IInv, RequestInv, Kept, KeptByOne
<1> QED BY <1>1, Inductive, PTL

\* An uploaded file is never deleted while the prompt that reads it may
\* execute, and none is forgotten (_cleanup_after_fetch and its callers,
\* jobs.py), for every set of requests.
THEOREM FilesFollow == Spec => []FilesFollowTheJob
<1>1. IInv => FilesFollowTheJob
  BY DEF IInv, RequestInv, Filed, FilesFollowTheJob
<1> QED BY <1>1, Inductive, PTL

\* The prompts that have, or may yet get, the GPU: atWork of GpuSlot.
Work == {r \in Requests: AtWork(r)}

\* A step of the abstract slot, or none.
SlotStep == Slot!Next \/ UNCHANGED Slot!vars

\* What moving one prompt does to the set of prompts with work.
LEMMA WorkMoves ==
    ASSUME TypeOK, NEW r \in Requests, NEW to \in Prompts,
           prompt' = [prompt EXCEPT ![r] = to]
    PROVE  /\ to \in {"onWire", "pending", "running"} => Work' = Work \cup {r}
           /\ to \notin {"onWire", "pending", "running"} => Work' = Work \ {r}
BY DEF TypeOK, Work, AtWork

\* Without a move of a prompt that set stays.
LEMMA WorkStays == ASSUME prompt' = prompt PROVE Work' = Work
BY DEF Work, AtWork

\* The six ways in which a step of the bridge shows in the abstract slot.
LEMMA SlotMoves ==
    ASSUME NEW r \in Requests
    PROVE  /\ owner = NoOne /\ ~unhealthy /\ owner' = r /\ Work' = Work /\ unhealthy' = unhealthy => SlotStep
           /\ owner = r /\ owner' = owner /\ Work' = Work \cup {r} /\ unhealthy' = unhealthy => SlotStep
           /\ r \in Work /\ owner' = owner /\ Work' = Work \ {r} /\ unhealthy' = unhealthy => SlotStep
           /\ owner = r /\ owner' = owner /\ Work' = Work /\ unhealthy' = TRUE => SlotStep
           /\ owner = r /\ r \notin Work /\ owner' = NoOne /\ Work' = Work /\ unhealthy' = FALSE => SlotStep
           /\ owner' = owner /\ Work' = Work /\ unhealthy' = unhealthy => SlotStep
BY DEF SlotStep, Work, Slot!Next, Slot!Admit, Slot!Begin, Slot!End,
    Slot!Quarantine, Slot!Release, Slot!vars

\* Every step of the bridge is a step of GpuSlot or leaves the slot as it
\* is.
LEMMA SlotSimulated == ASSUME IInv, [Next]_vars PROVE SlotStep
<1> USE DEF IInv
<1>1. CASE UNCHANGED vars
  <2>1. owner' = owner /\ unhealthy' = unhealthy /\ Work' = Work
    BY <1>1, WorkStays DEF vars, bridge
  <2> QED BY <2>1 DEF SlotStep, Slot!vars, Work
<1>2. ASSUME NEW r \in Requests, BridgeStep(r) \/ OtherStep(r) PROVE SlotStep
  <2>0. RequestInv(r) /\ TypeOK
    BY DEF IInv
  <2>1. CASE prompt' = prompt
    <3> DEFINE Same == owner' = owner /\ unhealthy' = unhealthy
               Admitted == owner = NoOne /\ ~unhealthy /\ owner' = r /\ unhealthy' = unhealthy
               Quarantined == owner = r /\ owner' = owner /\ unhealthy' = TRUE
               Released == owner = r /\ ~AtWork(r) /\ owner' = NoOne /\ unhealthy' = FALSE
    <3>1. Same \/ Admitted \/ Quarantined \/ Released
      <4> USE <2>0, <2>1 DEF TypeOK, RequestInv, WorkIsOwned, StageTellsPrompt,
          Kept, AtWork, Running, Reaping,
             Goto, Reaper, Resolve, ScheduleCleanup, KeepSlot, Release, ReleaseTerminal, RetainBusy
      <4>1. CASE BuildFails(r) BY <4>1 DEF BuildFails
      <4>2. CASE StartSubmit(r) BY <4>2 DEF StartSubmit
      <4>3. CASE SubmitSettles(r) BY <4>3 DEF SubmitSettles
      <4>4. CASE Submitted(r) BY <4>4 DEF Submitted
      <4>5. CASE JobEnds(r) BY <4>5 DEF JobEnds
      <4>6. CASE PollFails(r) BY <4>6 DEF PollFails
      <4>7. CASE PollTimesOut(r) BY <4>7 DEF PollTimesOut
      <4>8. CASE TimeoutDrops(r) BY <4>8 DEF TimeoutDrops
      <4>9. CASE TimeoutVerifies(r) BY <4>9 DEF TimeoutVerifies
      <4>10. CASE Fetched(r) BY <4>10 DEF Fetched
      <4>11. CASE ReaperDrops(r) BY <4>11 DEF ReaperDrops
      <4>12. CASE ReaperSeesSubmit(r) BY <4>12 DEF ReaperSeesSubmit
      <4>13. CASE Reap(r) BY <4>13 DEF Reap
      <4>14. CASE GiveUp(r) BY <4>14 DEF GiveUp
      <4>15. CASE Cleanup(r) BY <4>15 DEF Cleanup
      <4>16. CASE Acquire(r) BY <4>16 DEF Acquire
      <4>17. CASE UploadStored(r) BY <4>17 DEF UploadStored, UploadMoves
      <4>18. CASE UploadRecorded(r) BY <4>18 DEF UploadRecorded, UploadMoves
      <4>19. CASE Cancel(r) BY <4>19 DEF Cancel
      <4>20. CASE PromptLands(r) BY <4>20 DEF PromptLands, PromptMoves, bridge
      <4>21. CASE PromptStarts(r) BY <4>21 DEF PromptStarts, PromptMoves, bridge
      <4>22. CASE PromptFinishes(r) BY <4>22 DEF PromptFinishes, PromptMoves, bridge
      <4> QED BY <1>2, <4>1, <4>2, <4>3, <4>4, <4>5, <4>6, <4>7, <4>8, <4>9,
          <4>10, <4>11, <4>12, <4>13, <4>14, <4>15, <4>16, <4>17, <4>18, <4>19,
          <4>20, <4>21, <4>22 DEF BridgeStep, OtherStep
    <3>2. Work' = Work /\ (r \in Work <=> AtWork(r))
      BY <2>1, WorkStays DEF Work
    <3> QED BY <3>1, <3>2, SlotMoves
  <2>2. CASE prompt' # prompt
    <3>1. /\ owner' = owner /\ unhealthy' = unhealthy
          /\ \E to \in Prompts:
               /\ prompt' = [prompt EXCEPT ![r] = to]
               /\ to \in {"onWire", "pending", "running"} => owner = r
               /\ AtWork(r) \/ to \in {"onWire", "pending", "running", "forgotten"}
               /\ to = "forgotten" => ~AtWork(r)
      <4> USE <2>0, <2>2 DEF TypeOK, RequestInv, WorkIsOwned, StageTellsPrompt,
          CleanedIsOver, Kept, AtWork, Running, Prompts, DropPending
      <4>1. CASE BuildFails(r) BY <4>1 DEF BuildFails
      <4>2. CASE StartSubmit(r) BY <4>2 DEF StartSubmit
      <4>3. CASE SubmitSettles(r) BY <4>3 DEF SubmitSettles
      <4>4. CASE Submitted(r) BY <4>4 DEF Submitted
      <4>5. CASE JobEnds(r) BY <4>5 DEF JobEnds
      <4>6. CASE PollFails(r) BY <4>6 DEF PollFails
      <4>7. CASE PollTimesOut(r) BY <4>7 DEF PollTimesOut
      <4>8. CASE TimeoutDrops(r) BY <4>8 DEF TimeoutDrops
      <4>9. CASE TimeoutVerifies(r) BY <4>9 DEF TimeoutVerifies
      <4>10. CASE Fetched(r) BY <4>10 DEF Fetched
      <4>11. CASE ReaperDrops(r) BY <4>11 DEF ReaperDrops
      <4>12. CASE ReaperSeesSubmit(r) BY <4>12 DEF ReaperSeesSubmit
      <4>13. CASE Reap(r) BY <4>13 DEF Reap
      <4>14. CASE GiveUp(r) BY <4>14 DEF GiveUp
      <4>15. CASE Cleanup(r) BY <4>15 DEF Cleanup
      <4>16. CASE Acquire(r) BY <4>16 DEF Acquire
      <4>17. CASE UploadStored(r) BY <4>17 DEF UploadStored, UploadMoves
      <4>18. CASE UploadRecorded(r) BY <4>18 DEF UploadRecorded, UploadMoves
      <4>19. CASE Cancel(r) BY <4>19 DEF Cancel
      <4>20. CASE PromptLands(r) BY <4>20 DEF PromptLands, PromptMoves, bridge
      <4>21. CASE PromptStarts(r) BY <4>21 DEF PromptStarts, PromptMoves, bridge
      <4>22. CASE PromptFinishes(r) BY <4>22 DEF PromptFinishes, PromptMoves, bridge
      <4> QED BY <1>2, <4>1, <4>2, <4>3, <4>4, <4>5, <4>6, <4>7, <4>8, <4>9,
          <4>10, <4>11, <4>12, <4>13, <4>14, <4>15, <4>16, <4>17, <4>18, <4>19,
          <4>20, <4>21, <4>22 DEF BridgeStep, OtherStep
    <3>2. PICK to \in Prompts:
               /\ prompt' = [prompt EXCEPT ![r] = to]
               /\ to \in {"onWire", "pending", "running"} => owner = r
               /\ AtWork(r) \/ to \in {"onWire", "pending", "running", "forgotten"}
               /\ to = "forgotten" => ~AtWork(r)
      BY <3>1
    <3>3. r \in Work <=> AtWork(r)
      BY DEF Work
    <3>4. CASE to \in {"onWire", "pending", "running"}
      <4>1. Work' = Work \cup {r} BY <2>0, <3>2, <3>4, WorkMoves
      <4> QED BY <3>1, <3>2, <3>4, <4>1, SlotMoves
    <3>5. CASE to \notin {"onWire", "pending", "running"}
      <4>1. Work' = Work \ {r} BY <2>0, <3>2, <3>5, WorkMoves
      <4>2. CASE r \in Work BY <3>1, <4>1, <4>2, SlotMoves
      <4>3. CASE r \notin Work
        <5>1. Work' = Work BY <4>1, <4>3
        <5> QED BY <3>1, <5>1, SlotMoves
      <4> QED BY <4>2, <4>3
    <3> QED BY <3>4, <3>5
  <2> QED BY <2>1, <2>2
<1> QED BY <1>1, <1>2 DEF Next

\* The bridge implements GpuSlot for every set of requests: whatever fails
\* or is cancelled, the slot is handed over only when the prompt of its
\* last owner can no longer execute (_acquire, _release, _release_terminal,
\* _retain_busy, jobs.py).
THEOREM KeepsSlot == Spec => KeepsTheSlot
<1>1. Init => Slot!Init
  BY DEF Init, Slot!Init, AtWork
<1>2. IInv /\ [Next]_vars => [Slot!Next]_(Slot!vars)
  BY SlotSimulated DEF SlotStep
<1> QED BY <1>1, <1>2, Inductive, PTL DEF Spec, KeepsTheSlot, Slot!Spec
=============================================================================
