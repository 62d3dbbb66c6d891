------------------------ MODULE DeploymentFenceProofs ------------------------
(***************************************************************************)
(* Proofs about DeploymentFence, for any sets of operation ids and slots   *)
(* and any bounds: FenceInv is inductive, the safety properties follow     *)
(* from it, and the fence implements FenceProtocol.                        *)
(***************************************************************************)
EXTENDS DeploymentFence, TLAPS

-----------------------------------------------------------------------------
(* Typing. *)

\* The record an operation writes is a fence record (persist's argument).
LEMMA WrittenTyped == ASSUME TypeOK PROVE Written \in FenceRecord
BY DEF TypeOK, Written, WrittenState, FenceRecord, Running, ActiveStates

\* Putting a token into a free slot, or taking one out, keeps holders typed.
LEMMA HoldersTyped ==
    ASSUME TypeOK, NEW s \in Slots, NEW kind \in {"none", "handler", "work"},
           NEW epoch \in Nat
    PROVE  [holders EXCEPT ![s] = [kind |-> kind, epoch |-> epoch]] \in [Slots -> Holder]
BY DEF TypeOK, Holder

\* Moving the running operation to another stage, or ending it, keeps cur typed.
LEMMA CurTyped ==
    ASSUME TypeOK, NEW landed \in BOOLEAN,
           NEW stage \in WriteStages \cup {"none", "drain", "run", "reopen"}
    PROVE  /\ [cur EXCEPT !.stage = stage] \in Running
           /\ [cur EXCEPT !.landed = landed] \in Running
           /\ [cur EXCEPT !.stage = stage, !.landed = landed] \in Running
           /\ Idle \in Running
BY DEF TypeOK, Running, Idle

\* Every step keeps every variable in its type; the counter of canaries in
\* flight stays within 0..1 because of CanaryInv.
LEMMA TypingStep == ASSUME FenceInv, [Next]_vars PROVE TypeOK'
<1> USE DEF FenceInv
<1>1. CASE Crash
  <2>1. NoRecord \in FenceRecord /\ Idle \in Running
    BY DEF NoRecord, FenceRecord, Idle, Running
  <2>2. [s \in Slots |-> NoHolder] \in [Slots -> Holder]
    BY DEF NoHolder, Holder
  <2>3. <<>> \in Seq(Operation)
    OBVIOUS
  <2>4. disk' = disk /\ canarySerial' = canarySerial /\ contexts' = {} /\ queue' = <<>>
        /\ record' = NoRecord /\ lastRecord' = NoRecord /\ cur' = Idle /\ fenceEpoch' = 0
        /\ state' = "down" /\ canaryInFlight' = 0 /\ paused' = FALSE /\ persistenceError' = FALSE
        /\ holders' = [s \in Slots |-> NoHolder]
    BY <1>1 DEF Crash
  <2>5. disk' \in FenceRecord /\ canarySerial' \in Nat
    BY <2>4 DEF TypeOK
  <2>6. state' \in {"down"} /\ fenceEpoch' \in Nat /\ canaryInFlight' \in 0..1
    BY <2>4
  <2>7. paused' \in BOOLEAN /\ persistenceError' \in BOOLEAN
    BY <2>4
  <2>8. record' \in FenceRecord /\ lastRecord' \in FenceRecord /\ cur' \in Running
        /\ holders' \in [Slots -> Holder] /\ queue' \in Seq(Operation)
    BY <2>1, <2>2, <2>3, <2>4
  <2> QED BY <2>4, <2>5, <2>6, <2>7, <2>8 DEF TypeOK
<1>2. CASE Boot
  <2>1. NoRecord \in FenceRecord
    BY DEF NoRecord, FenceRecord
  <2>2. Active(disk) => disk.opId \in OpIds /\ disk.generation \in Nat
    BY DEF DiskInv, TypeOK, FenceRecord
  <2>3. queue' \in Seq(Operation)
    <3>1. CASE Active(disk) /\ disk.state # "prepared"
      <4> DEFINE o == [kind |-> "recover", opId |-> disk.opId, generation |-> disk.generation]
      <4>1. o \in Operation
        BY <2>2, <3>1 DEF Operation
      <4>2. queue' = <<o>>
        BY <1>2, <3>1 DEF Boot
      <4> QED BY <4>1, <4>2
    <3>2. CASE ~(Active(disk) /\ disk.state # "prepared")
      BY <1>2, <3>2 DEF Boot
    <3> QED BY <3>1, <3>2
  <2>4. state' \in ActiveStates \cup {"open"}
    BY <1>2 DEF Boot, Active
  <2>5. record' \in FenceRecord /\ lastRecord' \in FenceRecord /\ fenceEpoch' \in Nat
    BY <1>2, <2>1 DEF Boot, TypeOK
  <2>6. paused' \in BOOLEAN
    BY <1>2 DEF Boot, Active
  <2> QED BY <1>2, <2>3, <2>4, <2>5, <2>6 DEF Boot, TypeOK
<1>3. CASE BootUnreadable
  BY <1>3 DEF BootUnreadable, TypeOK
<1>4. CASE Call
  <2> SUFFICES ASSUME NEW op \in OpIds,
                      \/ Prepare(op) \/ PrepareAgain(op)
                      \/ \E gen \in 1..MaxGeneration : Release(op, gen) \/ RunCanary(op, gen)
               PROVE  TypeOK'
    BY <1>4 DEF Call
  <2>1. ASSUME NEW kind \in {"prepare", "recover", "release", "canary"}, NEW gen \in Nat,
               NEW o \in OpIds, Enqueue(kind, o, gen)
        PROVE  queue' \in Seq(Operation)
    BY <2>1 DEF Enqueue, TypeOK, Operation
  <2>2. CASE Prepare(op)
    <3>1. lastRecord.generation + 1 \in Nat
      BY DEF TypeOK, FenceRecord
    <3>2. Enqueue("prepare", op, lastRecord.generation + 1)
      BY <2>2 DEF Prepare
    <3>3. queue' \in Seq(Operation)
      BY <2>1, <3>1, <3>2
    <3>4. record' \in FenceRecord /\ lastRecord' \in FenceRecord
      BY <2>2, <3>1 DEF Prepare, FenceRecord, ActiveStates
    <3> QED BY <2>2, <3>3, <3>4 DEF Prepare, TypeOK, ActiveStates
  <2>3. CASE PrepareAgain(op)
    <3>1. record.generation \in Nat /\ record.opId \in OpIds
      BY <2>3 DEF PrepareAgain, TypeOK, FenceRecord
    <3>2. queue' \in Seq(Operation)
      BY <2>1, <2>3, <3>1 DEF PrepareAgain
    <3> QED BY <2>3, <3>2 DEF PrepareAgain, TypeOK
  <2>4. ASSUME NEW gen \in 1..MaxGeneration, Release(op, gen) \/ RunCanary(op, gen)
        PROVE  TypeOK'
    <3>1. gen \in Nat
      BY ConstantsAssumption
    <3>2. Enqueue("release", op, gen) \/ Enqueue("canary", op, gen)
      BY <2>4 DEF Release, RunCanary
    <3>3. queue' \in Seq(Operation)
      BY <2>1, <3>1, <3>2
    <3> QED BY <2>4, <3>3 DEF Release, RunCanary, TypeOK
  <2> QED BY <2>2, <2>3, <2>4
<1>5. CASE Work
  <2> SUFFICES ASSUME NEW s \in Slots,
                      \/ RequestAdmission(s) \/ StartWork(s)
                      \/ \E t \in Slots : ContinueWork(s, t)
                      \/ FinishHolder(s)
               PROVE  TypeOK'
    BY <1>5 DEF Work
  <2>1. fenceEpoch \in Nat /\ holders[s].epoch \in Nat
    BY DEF TypeOK, Holder
  <2>2. ASSUME NEW t \in Slots, NEW kind \in {"handler", "work"}, NEW e \in Nat, Hold(t, kind, e)
        PROVE  TypeOK'
    BY <2>2, HoldersTyped DEF Hold, TypeOK
  <2>3. CASE RequestAdmission(s) \/ StartWork(s)
    BY <2>1, <2>2, <2>3 DEF RequestAdmission, StartWork
  <2>4. CASE \E t \in Slots : ContinueWork(s, t)
    BY <2>1, <2>2, <2>4 DEF ContinueWork
  <2>5. CASE FinishHolder(s)
    BY <2>5, HoldersTyped DEF FinishHolder, TypeOK, NoHolder
  <2> QED BY <2>3, <2>4, <2>5
<1>6. CASE StartOperation
  <2>1. Head(queue) \in Operation /\ Tail(queue) \in Seq(Operation)
    BY <1>6 DEF StartOperation, TypeOK
  <2>2. cur' \in Running /\ canarySerial' \in Nat
    BY <1>6, <2>1 DEF StartOperation, TypeOK, Operation, Running, WriteStages
  <2> QED BY <1>6, <2>1, <2>2 DEF StartOperation, TypeOK
<1>7. CASE WriteLands
  <2>1. cur' \in Running
    BY <1>7, CurTyped DEF WriteLands, WriteStages
  <2> QED BY <1>7, <2>1, WrittenTyped DEF WriteLands, TypeOK
<1>8. CASE WriteFails
  <2>1. cur' \in Running
    BY <1>8, CurTyped DEF WriteFails, WriteStages
  <2>2. canaryInFlight' \in 0..1
    BY <1>8 DEF WriteFails, CanarySettled, TypeOK
  <2>3. state' \in ActiveStates \cup {"open", "released", "blocked", "down"}
        /\ persistenceError' \in BOOLEAN
    BY <1>8 DEF WriteFails, TypeOK
  <2> QED BY <1>8, <2>1, <2>2, <2>3 DEF WriteFails, TypeOK
<1>9. CASE BeginDrain \/ BeginCanary \/ Settle \/ AdoptReleased
  <2>1. cur' \in Running
    BY <1>9, CurTyped DEF BeginDrain, BeginCanary, Settle, AdoptReleased
  <2>2. Written.state \in ActiveStates \cup {"released"} /\ NoRecord \in FenceRecord
    BY DEF Written, WrittenState, ActiveStates, NoRecord, FenceRecord
  <2>3. /\ state' \in ActiveStates \cup {"open", "released", "blocked", "down"}
        /\ record' \in FenceRecord /\ lastRecord' \in FenceRecord
    BY <1>9, <2>2, WrittenTyped
       DEF BeginDrain, BeginCanary, Settle, AdoptReleased, Adopt
  <2>4. canaryInFlight' \in 0..1
    <3>1. CASE BeginCanary
      BY <3>1 DEF BeginCanary, CanaryInv
    <3>2. CASE Settle
      BY <3>2 DEF Settle, CanarySettled, TypeOK
    <3>3. CASE BeginDrain \/ AdoptReleased
      BY <3>3 DEF BeginDrain, AdoptReleased, TypeOK
    <3> QED BY <1>9, <3>1, <3>2, <3>3
  <2>5. contexts' \subseteq [opId : OpIds, generation : Nat, token : Nat]
    <3>1. CASE BeginCanary
      <4>1. cur.opId \in OpIds /\ cur.generation \in Nat /\ cur.token \in Nat
        BY <3>1 DEF BeginCanary, CurInv, Idle, TypeOK, Running
      <4> QED BY <3>1, <4>1 DEF BeginCanary, TypeOK
    <3>2. CASE ~BeginCanary
      BY <1>9, <3>2 DEF BeginDrain, Settle, AdoptReleased, TypeOK
    <3> QED BY <3>1, <3>2
  <2>6. paused' \in BOOLEAN
    BY <1>9 DEF BeginDrain, BeginCanary, Settle, AdoptReleased, TypeOK
  <2>7. UNCHANGED <<disk, persistenceError, fenceEpoch, holders, queue, canarySerial>>
    BY <1>9 DEF BeginDrain, BeginCanary, Settle, AdoptReleased
  <2> QED BY <2>1, <2>3, <2>4, <2>5, <2>6, <2>7 DEF TypeOK
<1>10. CASE Reopen
  <2>1. Idle \in Running /\ NoRecord \in FenceRecord
    BY DEF Idle, Running, NoRecord, FenceRecord
  <2> QED BY <1>10, <2>1 DEF Reopen, TypeOK
<1>11. CASE Drained \/ DrainTimesOut \/ CanarySucceeds \/ CanaryFails
  <2>1. cur' \in Running
    BY <1>11, CurTyped DEF Drained, DrainTimesOut, CanarySucceeds, CanaryFails, MoveTo,
                           WriteStages
  <2> QED BY <1>11, <2>1
          DEF Drained, DrainTimesOut, CanarySucceeds, CanaryFails, MoveTo, TypeOK
<1>12. CASE UNCHANGED vars
  BY <1>12 DEF vars, volatile, TypeOK
<1> QED
  BY <1>1, <1>2, <1>3, <1>4, <1>5, <1>6, <1>7, <1>8, <1>9, <1>10, <1>11, <1>12
     DEF Next, OperationStep

-----------------------------------------------------------------------------
(* The invariant is inductive. *)

\* Append adds its element behind those that were there.
LEMMA AppendFacts ==
    ASSUME NEW S, NEW q \in Seq(S), NEW e \in S
    PROVE  /\ Len(Append(q, e)) = Len(q) + 1 /\ Len(q) \in Nat
           /\ \A i \in 1..Len(q) : Append(q, e)[i] = q[i] /\ q[i] \in S
           /\ Append(q, e)[Len(q) + 1] = e
OBVIOUS

\* A first prepare finds no other prepare in the chain, and every drain queued
\* for an earlier record has an older generation.
LEMMA PrepareQueue ==
    ASSUME FenceInv, NEW op \in OpIds, Prepare(op)
    PROVE  QueueInv'
<1> DEFINE gen == lastRecord.generation + 1
           o == [kind |-> "prepare", opId |-> op, generation |-> gen]
<1>1. /\ queue \in Seq(Operation) /\ lastRecord.generation \in Nat
  BY DEF FenceInv, TypeOK, FenceRecord
<1>2. o \in Operation
  BY <1>1 DEF Operation
<1>3. /\ state = "open" /\ queue' = Append(queue, o) /\ state' = "draining"
      /\ cur' = cur /\ lastRecord'.generation = gen /\ record'.state = "draining"
      /\ record'.opId = op /\ record'.generation = gen
  BY DEF Prepare, Enqueue
<1>4. cur = Idle
  BY <1>3 DEF FenceInv, RecordInv
<1>5. \A i \in 1..Len(queue) : queue[i].kind # "prepare" /\ queue[i].generation \in Nat
  <2>1. \A i \in 1..Len(queue) : queue[i] \in Operation
    BY <1>1
  <2>2. \A i \in 1..Len(queue) : queue[i].kind # "prepare"
    BY <1>3 DEF FenceInv, QueueInv
  <2> QED BY <2>1, <2>2 DEF Operation
<1>6. \A i \in 1..Len(queue) : queue[i].kind = "recover" => queue[i].generation < gen
  BY <1>1, <1>5 DEF FenceInv, QueueInv
<1>7. /\ Len(queue') = Len(queue) + 1 /\ Len(queue) \in Nat /\ queue'[Len(queue) + 1] = o
      /\ \A i \in 1..Len(queue) : queue'[i] = queue[i]
  BY <1>1, <1>2, <1>3, AppendFacts
<1>8. \A i \in 1..Len(queue') : i \in 1..Len(queue) \/ i = Len(queue) + 1
  BY <1>7
<1>9. \A i \in 1..Len(queue') :
          /\ queue'[i].kind = "prepare" => i = Len(queue) + 1
          /\ queue'[i].kind = "recover" => queue'[i].generation < gen
                                           /\ queue'[i].generation \in Nat
  BY <1>5, <1>6, <1>7, <1>8
<1> QED
  BY <1>1, <1>3, <1>4, <1>7, <1>9 DEF QueueInv, RecordMatches

\* Every step preserves the control part: what an operation may assume of the
\* record while it waits, and what a queued one finds when it starts.
LEMMA ControlStep ==
    ASSUME FenceInv, [Next]_vars
    PROVE  DownInv' /\ RecordInv' /\ CurInv' /\ QueueInv'
<1> USE ConstantsAssumption DEF FenceInv, TypeOK, DownInv, RecordInv, CurInv, QueueInv, DiskInv, QuietInv, CanaryInv, WorkBelongsToThisFence
<1> USE DEF FenceRecord, Holder, Operation, Running, ActiveStates, WriteStages, NoRecord, NoHolder, Idle, Active, Quiescent, IsFenced, RecordMatches
<1>1. CASE Crash
  BY <1>1, SMTT(30) DEF Crash
<1>2. CASE Boot
  <2>1. /\ state' # "down" /\ cur' = Idle /\ ~persistenceError' /\ Quiescent'
        /\ state' \in ActiveStates => record'.state = state'
        /\ state' \in ActiveStates \cup {"open"}
        /\ state' = "open" => record' = NoRecord
        /\ record' = NoRecord \/ (Active(record') /\ record'.opId \in OpIds)
        /\ paused' <=> state' # "open"
    BY <1>2 DEF Boot
  <2>2. QueueInv'
    <3>1. CASE Active(disk) /\ disk.state # "prepared"
      <4>1. /\ Len(queue') = 1 /\ queue'[1].kind = "recover"
            /\ queue'[1].generation = disk.generation /\ lastRecord' = disk
            /\ disk.generation \in Nat
        BY <1>2, <3>1 DEF Boot
      <4>2. \A i \in 1..Len(queue') : i = 1
        BY <4>1
      <4> QED BY <4>1, <4>2
    <3>2. CASE ~(Active(disk) /\ disk.state # "prepared")
      BY <1>2, <3>2 DEF Boot
    <3> QED BY <3>1, <3>2
  <2>3. DownInv' /\ RecordInv' /\ CurInv'
    BY <2>1
  <2> QED BY <2>2, <2>3
<1>3. CASE BootUnreadable
  BY <1>3, SMTT(30) DEF BootUnreadable
<1>4. ASSUME NEW s \in Slots, RequestAdmission(s)
      PROVE  DownInv' /\ RecordInv' /\ CurInv' /\ QueueInv'
  BY <1>4, SMTT(30) DEF RequestAdmission, Hold, MayCapture
<1>5. ASSUME NEW s \in Slots, StartWork(s)
      PROVE  DownInv' /\ RecordInv' /\ CurInv' /\ QueueInv'
  BY <1>5, SMTT(30) DEF StartWork, Hold, MayCapture
<1>6. ASSUME NEW s \in Slots, NEW t \in Slots, ContinueWork(s, t)
      PROVE  DownInv' /\ RecordInv' /\ CurInv' /\ QueueInv'
  BY <1>6, SMTT(30) DEF ContinueWork, Hold, MayContinue, MayCapture, MutationTokenValid
<1>7. ASSUME NEW s \in Slots, FinishHolder(s)
      PROVE  DownInv' /\ RecordInv' /\ CurInv' /\ QueueInv'
  BY <1>7, SMTT(30) DEF FinishHolder
<1>8. ASSUME NEW op \in OpIds, Prepare(op)
      PROVE  DownInv' /\ RecordInv' /\ CurInv' /\ QueueInv'
  <2>1. DownInv' /\ RecordInv' /\ CurInv'
    BY <1>8, SMTT(30) DEF Prepare, Enqueue
  <2>2. QueueInv'
    BY <1>8, PrepareQueue
  <2> QED BY <2>1, <2>2
<1>9. ASSUME NEW op \in OpIds, PrepareAgain(op)
      PROVE  DownInv' /\ RecordInv' /\ CurInv' /\ QueueInv'
  BY <1>9, SMTT(30) DEF PrepareAgain, Enqueue, Pending
<1>10. ASSUME NEW op \in OpIds, NEW gen \in 1..MaxGeneration, Release(op, gen)
      PROVE  DownInv' /\ RecordInv' /\ CurInv' /\ QueueInv'
  BY <1>10, SMTT(30) DEF Release, Enqueue
<1>11. ASSUME NEW op \in OpIds, NEW gen \in 1..MaxGeneration, RunCanary(op, gen)
      PROVE  DownInv' /\ RecordInv' /\ CurInv' /\ QueueInv'
  BY <1>11, SMTT(30) DEF RunCanary, Enqueue
<1>12. CASE StartOperation
  BY <1>12, SMTT(30) DEF StartOperation, StartAllowed
<1>13. CASE WriteLands
  BY <1>13, SMTT(30) DEF WriteLands, Written, WrittenState
<1>14. CASE WriteFails
  BY <1>14, SMTT(30) DEF WriteFails, CanarySettled
<1>15. CASE BeginDrain
  BY <1>15, SMTT(30) DEF BeginDrain, Adopt, Written, WrittenState
<1>16. CASE BeginCanary
  BY <1>16, SMTT(30) DEF BeginCanary, Adopt, Written, WrittenState
<1>17. CASE Settle
  BY <1>17, SMTT(30) DEF Settle, Adopt, Written, WrittenState, CanarySettled
<1>18. CASE AdoptReleased
  BY <1>18, SMTT(30) DEF AdoptReleased, Adopt, Written, WrittenState
<1>19. CASE Reopen
  BY <1>19, SMTT(30) DEF Reopen
<1>20. CASE Drained
  BY <1>20, SMTT(30) DEF Drained, MoveTo
<1>21. CASE DrainTimesOut
  BY <1>21, SMTT(30) DEF DrainTimesOut, MoveTo
<1>22. CASE CanarySucceeds
  BY <1>22, SMTT(30) DEF CanarySucceeds, MoveTo
<1>23. CASE CanaryFails
  BY <1>23, SMTT(30) DEF CanaryFails, MoveTo
<1>24. CASE UNCHANGED vars
  BY <1>24, SMTT(30) DEF vars, volatile
<1> QED
  BY <1>1, <1>2, <1>3, <1>4, <1>5, <1>6, <1>7, <1>8, <1>9, <1>10, <1>11, <1>12,
     <1>13, <1>14, <1>15, <1>16, <1>17, <1>18, <1>19, <1>20, <1>21, <1>22,
     <1>23, <1>24
     DEF Next, Call, Work, OperationStep


\* Every step preserves the effects part: sidecar against memory, the drain,
\* the canary in flight and the epochs of running work.
LEMMA EffectStep ==
    ASSUME FenceInv, [Next]_vars
    PROVE  DiskInv' /\ QuietInv' /\ CanaryInv' /\ WorkBelongsToThisFence'
<1> USE ConstantsAssumption DEF FenceInv, TypeOK, DownInv, RecordInv, CurInv, QueueInv, DiskInv, QuietInv, CanaryInv, WorkBelongsToThisFence
<1> USE DEF FenceRecord, Holder, Operation, Running, ActiveStates, WriteStages, NoRecord, NoHolder, Idle, Active, Synced, Ahead, Written, WrittenState, Quiescent
<1>1. CASE Crash
  BY <1>1, SMTT(30) DEF Crash
<1>2. CASE Boot
  BY <1>2, SMTT(30) DEF Boot
<1>3. CASE BootUnreadable
  BY <1>3, SMTT(30) DEF BootUnreadable
<1>4. ASSUME NEW s \in Slots, RequestAdmission(s)
      PROVE  DiskInv' /\ QuietInv' /\ CanaryInv' /\ WorkBelongsToThisFence'
  BY <1>4, SMTT(30) DEF RequestAdmission, Hold, MayCapture, IsFenced
<1>5. ASSUME NEW s \in Slots, StartWork(s)
      PROVE  DiskInv' /\ QuietInv' /\ CanaryInv' /\ WorkBelongsToThisFence'
  BY <1>5, SMTT(30) DEF StartWork, Hold, MayCapture, IsFenced
<1>6. ASSUME NEW s \in Slots, NEW t \in Slots, ContinueWork(s, t)
      PROVE  DiskInv' /\ QuietInv' /\ CanaryInv' /\ WorkBelongsToThisFence'
  BY <1>6, SMTT(30) DEF ContinueWork, Hold, MayContinue, MayCapture, IsFenced, MutationTokenValid
<1>7. ASSUME NEW s \in Slots, FinishHolder(s)
      PROVE  DiskInv' /\ QuietInv' /\ CanaryInv' /\ WorkBelongsToThisFence'
  BY <1>7, SMTT(30) DEF FinishHolder
<1>8. ASSUME NEW op \in OpIds, Prepare(op)
      PROVE  DiskInv' /\ QuietInv' /\ CanaryInv' /\ WorkBelongsToThisFence'
  BY <1>8, SMTT(30) DEF Prepare, Enqueue
<1>9. ASSUME NEW op \in OpIds, PrepareAgain(op)
      PROVE  DiskInv' /\ QuietInv' /\ CanaryInv' /\ WorkBelongsToThisFence'
  BY <1>9, SMTT(30) DEF PrepareAgain, Enqueue, Pending
<1>10. ASSUME NEW op \in OpIds, NEW gen \in 1..MaxGeneration, Release(op, gen)
      PROVE  DiskInv' /\ QuietInv' /\ CanaryInv' /\ WorkBelongsToThisFence'
  BY <1>10, SMTT(30) DEF Release, Enqueue
<1>11. ASSUME NEW op \in OpIds, NEW gen \in 1..MaxGeneration, RunCanary(op, gen)
      PROVE  DiskInv' /\ QuietInv' /\ CanaryInv' /\ WorkBelongsToThisFence'
  BY <1>11, SMTT(30) DEF RunCanary, Enqueue
<1>12. CASE StartOperation
  BY <1>12, SMTT(30) DEF StartOperation, StartAllowed, RecordMatches
<1>13. CASE WriteLands
  BY <1>13, SMTT(30) DEF WriteLands
<1>14. CASE WriteFails
  BY <1>14, SMTT(30) DEF WriteFails, CanarySettled
<1>15. CASE BeginDrain
  BY <1>15, SMTT(30) DEF BeginDrain, Adopt
<1>16. CASE BeginCanary
  BY <1>16, SMTT(30) DEF BeginCanary, Adopt
<1>17. CASE Settle
  BY <1>17, SMTT(30) DEF Settle, Adopt, CanarySettled
<1>18. CASE AdoptReleased
  <2>1. DiskInv' /\ CanaryInv' /\ WorkBelongsToThisFence'
    BY <1>18, SMTT(30) DEF AdoptReleased, Adopt
  <2>2. record.state = "prepared" /\ state # "down" /\ holders' = holders
    BY <1>18 DEF AdoptReleased
  <2>3. QuietInv'
    BY <2>2
  <2> QED BY <2>1, <2>3
<1>19. CASE Reopen
  BY <1>19, SMTT(30) DEF Reopen
<1>20. CASE Drained
  BY <1>20, SMTT(30) DEF Drained, MoveTo
<1>21. CASE DrainTimesOut
  BY <1>21, SMTT(30) DEF DrainTimesOut, MoveTo
<1>22. CASE CanarySucceeds
  BY <1>22, SMTT(30) DEF CanarySucceeds, MoveTo
<1>23. CASE CanaryFails
  BY <1>23, SMTT(30) DEF CanaryFails, MoveTo
<1>24. CASE UNCHANGED vars
  BY <1>24, SMTT(30) DEF vars, volatile
<1> QED
  BY <1>1, <1>2, <1>3, <1>4, <1>5, <1>6, <1>7, <1>8, <1>9, <1>10, <1>11, <1>12,
     <1>13, <1>14, <1>15, <1>16, <1>17, <1>18, <1>19, <1>20, <1>21, <1>22,
     <1>23, <1>24
     DEF Next, Call, Work, OperationStep


-----------------------------------------------------------------------------
(* Theorems. *)

\* FenceInv holds initially and every step preserves it.
THEOREM FenceInvariant == Spec => []FenceInv
<1>1. Init => FenceInv
  <2> SUFFICES ASSUME Init PROVE FenceInv
    OBVIOUS
  <2>1. TypeOK
    <3>1. NoRecord \in FenceRecord /\ Idle \in Running /\ <<>> \in Seq(Operation)
      BY DEF NoRecord, FenceRecord, Idle, Running
    <3>2. [s \in Slots |-> NoHolder] \in [Slots -> Holder]
      BY DEF NoHolder, Holder
    <3>3. contexts = {} /\ state = "down" /\ fenceEpoch = 0 /\ canarySerial = 0
          /\ canaryInFlight = 0 /\ paused = FALSE /\ persistenceError = FALSE
      BY DEF Init
    <3>4. fenceEpoch \in Nat /\ canarySerial \in Nat /\ canaryInFlight \in 0..1
      BY <3>3
    <3>5. paused \in BOOLEAN /\ persistenceError \in BOOLEAN
      BY DEF Init
    <3> QED BY <3>1, <3>2, <3>3, <3>4, <3>5 DEF Init, TypeOK
  <2>2. Quiescent /\ ~Active(disk) /\ \A s \in Slots : holders[s] = NoHolder
    BY DEF Init, Quiescent, Active, NoRecord, ActiveStates
  <2>3. queue = <<>> /\ Len(queue) = 0 /\ \A i \in 1..Len(queue) : FALSE
    BY DEF Init
  <2>4. DownInv /\ CurInv /\ QueueInv /\ DiskInv /\ WorkBelongsToThisFence
    BY <2>2, <2>3 DEF Init, DownInv, CurInv, QueueInv, DiskInv, WorkBelongsToThisFence
  <2>5. RecordInv /\ QuietInv /\ CanaryInv
    BY <2>2 DEF Init, RecordInv, QuietInv, CanaryInv, Idle, ActiveStates
  <2> QED BY <2>1, <2>4, <2>5 DEF FenceInv
<1>2. FenceInv /\ [Next]_vars => FenceInv'
  BY TypingStep, ControlStep, EffectStep DEF FenceInv
<1> QED
  BY <1>1, <1>2, PTL DEF Spec

\* Every variable keeps its type.
THEOREM TypeCorrect == Spec => []TypeOK
<1>1. FenceInv => TypeOK
  BY DEF FenceInv
<1> QED
  BY <1>1, FenceInvariant, PTL

\* A drained fence, reported or durable, has no work admitted before it.
THEOREM DrainedFenceIsQuiet == Spec => []DrainedIsQuiet
<1>1. FenceInv => DrainedIsQuiet
  <2> SUFFICES ASSUME FenceInv, state # "down",
                      {state, disk.state} \cap {"prepared", "canary"} # {}
               PROVE  Quiescent
    BY DEF DrainedIsQuiet
  <2>1. {record.state, disk.state} \cap {"prepared", "canary"} # {}
    BY DEF FenceInv, RecordInv, ActiveStates
  <2> QED BY <2>1 DEF FenceInv, QuietInv
<1> QED
  BY <1>1, FenceInvariant, PTL

\* The gate is never open over a fence in force or after a failed write.
THEOREM FailsClosed == Spec => []OpenMeansReleased
<1>1. FenceInv => OpenMeansReleased
  <2> SUFFICES ASSUME FenceInv, state = "open"
               PROVE  ~Active(disk) /\ ~Active(record) /\ ~persistenceError
    BY DEF OpenMeansReleased
  <2>1. record = NoRecord /\ cur = Idle /\ ~persistenceError /\ ~Active(record)
    BY DEF FenceInv, RecordInv, Active, NoRecord, ActiveStates
  <2>2. disk = lastRecord /\ ~Active(lastRecord)
    BY <2>1 DEF FenceInv, DiskInv, Idle, Synced
  <2> QED BY <2>1, <2>2
<1> QED
  BY <1>1, FenceInvariant, PTL

\* No work outlives the fence it was admitted before.
THEOREM NoWorkOutlivesItsFence == Spec => []WorkBelongsToThisFence
<1>1. FenceInv => WorkBelongsToThisFence
  BY DEF FenceInv
<1> QED
  BY <1>1, FenceInvariant, PTL

\* A canary context is honoured only during the canary that issued it.
THEOREM CanaryContextsExpire == Spec => []CanaryAuthority
<1>1. FenceInv => CanaryAuthority
  <2> SUFFICES ASSUME FenceInv, NEW c \in contexts, CanaryContextValid(c)
               PROVE  cur.kind = "canary" /\ cur.token = c.token /\ canaryInFlight = 1
    BY DEF CanaryAuthority
  <2>1. cur.kind = "canary" /\ cur.stage \in {"run", "commit", "abort"}
    BY DEF FenceInv, CanaryInv, CanaryContextValid
  <2>2. canaryInFlight = 1
    BY <2>1 DEF FenceInv, CanaryInv
  <2>3. record.canaryToken = cur.token
    BY <2>1 DEF FenceInv, CurInv, Idle
  <2> QED BY <2>1, <2>2, <2>3 DEF CanaryContextValid
<1> QED
  BY <1>1, FenceInvariant, PTL

\* Residency and the watchdog are paused exactly while the gateway is fenced.
THEOREM PausedExactlyWhileFenced == Spec => []PausedWhileFenced
<1>1. FenceInv => PausedWhileFenced
  BY DEF FenceInv, RecordInv, PausedWhileFenced
<1> QED
  BY <1>1, FenceInvariant, PTL

-----------------------------------------------------------------------------
(* Refinement. *)

\* Only a write that lands changes the sidecar, and then by one protocol step:
\* the record in memory says which edge it is.
LEMMA WriteIsProtocolStep ==
    ASSUME FenceInv, WriteLands
    PROVE  [Protocol!ProtocolNext]_(Protocol!protocolVars)
<1> DEFINE sidecar == [state |-> disk.state, opId |-> disk.opId,
                       generation |-> disk.generation]
           gate == IF state = "open" THEN "open" ELSE "closed"
<1>1. /\ cur.stage \in WriteStages /\ ~cur.landed /\ disk' = Written /\ state' = state
  BY DEF WriteLands
<1>2. cur # Idle /\ cur.stage # "reopen"
  BY <1>1 DEF Idle, WriteStages
<1>3. state # "open" /\ state # "down" /\ cur.opId \in OpIds /\ RecordMatches(cur)
  BY <1>2 DEF FenceInv, RecordInv, CurInv
<1>4. gate = "closed" /\ gate' = "closed"
  BY <1>1, <1>3
<1>5. record # NoRecord /\ Active(record) /\ record = lastRecord
  BY <1>1, <1>2, <1>3 DEF FenceInv, CurInv, DiskInv, RecordInv, NoRecord, Active, ActiveStates
<1>6. sidecar' = [state |-> WrittenState, opId |-> cur.opId, generation |-> cur.generation]
  BY <1>1 DEF Written
<1>7. CASE Ahead
  <2>0. ~Active(disk) /\ lastRecord.generation = disk.generation + 1 /\ ~Synced
    BY <1>5, <1>7 DEF Ahead, Synced
  <2>1. cur.stage = "intent" /\ cur.kind \in {"prepare", "recover"}
    <3>1. cur.stage \in {"none", "intent"} /\ cur.kind \in {"idle", "prepare", "recover"}
      BY <1>1, <1>3, <1>5, <2>0 DEF FenceInv, DiskInv
    <3>2. cur.kind # "idle"
      BY <1>2 DEF FenceInv, CurInv
    <3> QED BY <1>1, <3>1, <3>2 DEF WriteStages
  <2>2. WrittenState = "draining" /\ cur.generation = disk.generation + 1
    BY <1>3, <1>5, <2>0, <2>1 DEF WrittenState, RecordMatches
  <2>3. Protocol!Begin(cur.opId)
    BY <1>3, <1>4, <1>6, <2>0, <2>2 DEF Protocol!Begin, Protocol!ActiveSidecar, Active, ActiveStates
  <2> QED BY <1>3, <2>3 DEF Protocol!ProtocolNext
<1>8. CASE ~Ahead
  <2>1. disk = record
    BY <1>1, <1>2, <1>3, <1>5, <1>8 DEF FenceInv, DiskInv, Synced
  <2>2. sidecar = [state |-> record.state, opId |-> cur.opId, generation |-> cur.generation]
    BY <1>3, <2>1 DEF RecordMatches
  <2>3. \/ record.state = WrittenState
        \/ <<record.state, WrittenState>> \in Protocol!Edges
    BY <1>1, <1>2 DEF FenceInv, CurInv, WrittenState, WriteStages, Protocol!Edges
  <2>4. CASE record.state = WrittenState
    BY <1>4, <1>6, <2>2, <2>4 DEF Protocol!protocolVars
  <2>5. CASE <<record.state, WrittenState>> \in Protocol!Edges
    <3>1. WrittenState \in {"draining", "prepared", "canary", "released"}
      BY DEF WrittenState
    <3>2. Protocol!Advance(WrittenState)
      BY <1>4, <1>6, <2>2, <2>5 DEF Protocol!Advance
    <3> QED BY <3>1, <3>2 DEF Protocol!ProtocolNext
  <2> QED BY <2>3, <2>4, <2>5
<1> QED
  BY <1>7, <1>8

\* Every other step leaves the sidecar alone and moves the gate, if at all, as
\* the protocol allows.
LEMMA GateStep ==
    ASSUME FenceInv, FenceInv', [Next]_vars, ~WriteLands
    PROVE  [Protocol!ProtocolNext]_(Protocol!protocolVars)
<1>1. disk' = disk
  BY DEF Next, Call, Work, OperationStep, Crash, Boot, BootUnreadable, Prepare, PrepareAgain,
         Release, RunCanary, RequestAdmission, StartWork, ContinueWork, Hold, FinishHolder,
         StartOperation, WriteFails, BeginDrain, BeginCanary, Settle, AdoptReleased, Reopen,
         Drained, DrainTimesOut, CanarySucceeds, CanaryFails, MoveTo, vars
<1>2. CASE (state = "open") <=> (state' = "open")
  BY <1>1, <1>2 DEF Protocol!protocolVars
<1>3. CASE state = "open" /\ state' # "open"
  <2>1. Protocol!Close
    BY <1>1, <1>3 DEF Protocol!Close
  <2> QED BY <2>1 DEF Protocol!ProtocolNext
<1>4. CASE state # "open" /\ state' = "open"
  <2>1. ~Active(disk)
    BY <1>1, <1>4 DEF FenceInv, RecordInv, DiskInv, Synced, Idle, Active, NoRecord, ActiveStates
  <2>2. Protocol!Open
    BY <1>1, <1>4, <2>1 DEF Protocol!Open, Protocol!ActiveSidecar, Active, ActiveStates
  <2> QED BY <2>2 DEF Protocol!ProtocolNext
<1> QED
  BY <1>2, <1>3, <1>4

\* The fence implements the protocol its coordinator relies on.
THEOREM ImplementsProtocol == Spec => FollowsProtocol
<1>1. Init => Protocol!ProtocolInit
  BY DEF Init, NoRecord, Protocol!ProtocolInit
<1>2. FenceInv /\ FenceInv' /\ [Next]_vars => [Protocol!ProtocolNext]_(Protocol!protocolVars)
  BY WriteIsProtocolStep, GateStep
<1> QED
  BY <1>1, <1>2, FenceInvariant, PTL DEF Spec, FollowsProtocol, Protocol!ProtocolSpec
=============================================================================
