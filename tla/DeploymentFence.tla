--------------------------- MODULE DeploymentFence ---------------------------
(***************************************************************************)
(* The gateway-local deployment fence: createDeploymentFence of            *)
(* src/src/deployment-fence.mjs, with the work of the server and the       *)
(* runtime manager that it admits, refuses and drains.                     *)
(*                                                                         *)
(* One process; an event loop that runs synchronous turns.  Every turn     *)
(* between two awaits is one action.  The asynchronous operations          *)
(* (prepare, the resumed drain, release, canary) run one at a time from a  *)
(* FIFO promise chain.  The process may crash between any two turns; only  *)
(* the sidecar file survives, and it is replaced by an atomic rename.      *)
(*                                                                         *)
(* Left out: digests, identities, timestamps and messages of a record;     *)
(* a gateway without a config path (prepare refuses it, so it is never     *)
(* fenced); the shutdown path that bypasses the fence to stop runtimes.    *)
(***************************************************************************)
EXTENDS Naturals, Sequences, FiniteSets

CONSTANTS
    OpIds,          \* operation ids that coordinators use
    NoOp,           \* the id of no operation
    Slots,          \* requests and manager operations that can run at once
    MaxGeneration,  \* bound on the generations prepared
    MaxQueue,       \* bound on operations waiting in the promise chain
    MaxCanaries     \* bound on canary calls

ASSUME ConstantsAssumption ==
    /\ NoOp \notin OpIds
    /\ MaxGeneration \in Nat
    /\ MaxQueue \in Nat
    /\ MaxCanaries \in Nat

VARIABLES
    disk,             \* the sidecar file
    state,            \* "open", a record's state, "blocked"; "down" = no process
    record,           \* the active record in memory
    lastRecord,       \* the last record, active or released
    persistenceError, \* the sidecar could not be read or written
    fenceEpoch,       \* counts the fences of this process
    holders,          \* mutation tokens held by running requests and work
    paused,           \* residency reconciler and watchdog are paused
    queue,            \* operations waiting in operationQueue
    cur,              \* the operation that runs, and where it waits
    canaryInFlight,   \* canary runs between start and settlement
    canarySerial,     \* canary tokens drawn so far (randomUUID)
    contexts          \* canary contexts handed to run()

volatile == <<state, record, lastRecord, persistenceError, fenceEpoch, holders,
              paused, queue, cur, canaryInFlight, contexts>>
vars == <<disk, volatile, canarySerial>>

-----------------------------------------------------------------------------
(* Records, tokens and operations. *)

ActiveStates == {"draining", "prepared", "canary"}

FenceRecord == [state : ActiveStates \cup {"none", "released"},
                opId : OpIds \cup {NoOp}, generation : Nat, canaryToken : Nat]

NoRecord == [state |-> "none", opId |-> NoOp, generation |-> 0, canaryToken |-> 0]

Active(r) == r.state \in ActiveStates

Holder == [kind : {"none", "handler", "work"}, epoch : Nat]
NoHolder == [kind |-> "none", epoch |-> 0]

Operation == [kind : {"prepare", "recover", "release", "canary"},
              opId : OpIds, generation : Nat]

WriteStages == {"intent", "commit", "abort"}

Running == [kind : {"idle", "prepare", "recover", "release", "canary"},
            opId : OpIds \cup {NoOp}, generation : Nat,
            stage : WriteStages \cup {"none", "drain", "run", "reopen"},
            landed : BOOLEAN, token : Nat]

Idle == [kind |-> "idle", opId |-> NoOp, generation |-> 0,
         stage |-> "none", landed |-> FALSE, token |-> 0]

TypeOK ==
    /\ disk \in FenceRecord
    /\ state \in ActiveStates \cup {"open", "released", "blocked", "down"}
    /\ record \in FenceRecord
    /\ lastRecord \in FenceRecord
    /\ persistenceError \in BOOLEAN
    /\ fenceEpoch \in Nat
    /\ holders \in [Slots -> Holder]
    /\ paused \in BOOLEAN
    /\ queue \in Seq(Operation)
    /\ cur \in Running
    /\ canaryInFlight \in 0..1
    /\ canarySerial \in Nat
    /\ contexts \subseteq [opId : OpIds, generation : Nat, token : Nat]

-----------------------------------------------------------------------------
(* Init, crash and boot. *)

Init ==
    /\ disk = NoRecord
    /\ canarySerial = 0
    /\ state = "down"
    /\ record = NoRecord
    /\ lastRecord = NoRecord
    /\ persistenceError = FALSE
    /\ fenceEpoch = 0
    /\ holders = [s \in Slots |-> NoHolder]
    /\ paused = FALSE
    /\ queue = <<>>
    /\ cur = Idle
    /\ canaryInFlight = 0
    /\ contexts = {}

\* The process dies; a write that has been renamed into place stays.
Crash ==
    /\ state # "down"
    /\ state' = "down"
    /\ record' = NoRecord
    /\ lastRecord' = NoRecord
    /\ persistenceError' = FALSE
    /\ fenceEpoch' = 0
    /\ holders' = [s \in Slots |-> NoHolder]
    /\ paused' = FALSE
    /\ queue' = <<>>
    /\ cur' = Idle
    /\ canaryInFlight' = 0
    /\ contexts' = {}
    /\ UNCHANGED <<disk, canarySerial>>

\* Mutants of Boot: a finished operation's receipt is not kept in memory; the
\* fence is restored but the background services keep running.
BootForgetsReceipt ==
    /\ state = "down"
    /\ lastRecord' = IF Active(disk) THEN disk ELSE NoRecord
    /\ record' = IF Active(disk) THEN disk ELSE NoRecord
    /\ state' = IF Active(disk) THEN disk.state ELSE "open"
    /\ fenceEpoch' = IF Active(disk) THEN 1 ELSE 0
    /\ paused' = Active(disk)
    /\ UNCHANGED <<disk, persistenceError, holders, queue, cur, canaryInFlight,
                   canarySerial, contexts>>

BootWithoutPause ==
    /\ state = "down"
    /\ lastRecord' = disk
    /\ record' = IF Active(disk) THEN disk ELSE NoRecord
    /\ state' = IF Active(disk) THEN disk.state ELSE "open"
    /\ fenceEpoch' = IF Active(disk) THEN 1 ELSE 0
    /\ UNCHANGED <<disk, persistenceError, holders, paused, queue, cur,
                   canaryInFlight, canarySerial, contexts>>

\* Load the sidecar.  An active record restores its fence; setHooks then pauses
\* the background services and resumes a drain that had not finished.
Boot ==
    /\ state = "down"
    /\ lastRecord' = disk
    /\ record' = IF Active(disk) THEN disk ELSE NoRecord
    /\ state' = IF Active(disk) THEN disk.state ELSE "open"
    /\ fenceEpoch' = IF Active(disk) THEN 1 ELSE 0
    /\ paused' = Active(disk)
    /\ queue' = IF Active(disk) /\ disk.state # "prepared"
                THEN <<[kind |-> "recover", opId |-> disk.opId,
                        generation |-> disk.generation]>>
                ELSE <<>>
    /\ UNCHANGED <<disk, persistenceError, holders, cur, canaryInFlight,
                   canarySerial, contexts>>

\* Mutant of BootUnreadable: an unreadable sidecar is taken for an absent one.
BootUnreadableOpens ==
    /\ state = "down"
    /\ state' = "open"
    /\ UNCHANGED <<disk, record, lastRecord, persistenceError, fenceEpoch, holders,
                   paused, queue, cur, canaryInFlight, canarySerial, contexts>>

\* The sidecar cannot be read or parsed: the gateway starts fenced, with no
\* record, and nothing can release it until a restart reads the file.
BootUnreadable ==
    /\ state = "down"
    /\ state' = "blocked"
    /\ persistenceError' = TRUE
    /\ paused' = TRUE
    /\ UNCHANGED <<disk, record, lastRecord, fenceEpoch, holders, queue, cur,
                   canaryInFlight, canarySerial, contexts>>

-----------------------------------------------------------------------------
(* Mutation tokens: requests and runtime work. *)

IsFenced == state # "open"

MutationTokenValid(token) == token.epoch + 1 = fenceEpoch

\* captureMutation without a token, and with the token a holder carries.
MayCapture == ~IsFenced /\ ~persistenceError
MayContinue(token) == MayCapture \/ MutationTokenValid(token)

Hold(s, kind, epoch) ==
    /\ holders[s] = NoHolder
    /\ holders' = [holders EXCEPT ![s] = [kind |-> kind, epoch |-> epoch]]
    /\ UNCHANGED <<disk, state, record, lastRecord, persistenceError, fenceEpoch,
                   paused, queue, cur, canaryInFlight, canarySerial, contexts>>

\* requestAdmission of an inference POST or an admin write.
RequestAdmission(s) ==
    /\ state # "down"
    /\ MayCapture
    /\ Hold(s, "handler", fenceEpoch)

\* Work no request asked for: a residency pass, a reload, a watchdog restart.
StartWork(s) ==
    /\ state # "down"
    /\ MayCapture
    /\ Hold(s, "work", fenceEpoch)

\* Admitted work starts more work under its own token, also behind the fence.
ContinueWork(s, t) ==
    /\ holders[s] # NoHolder
    /\ MayContinue(holders[s])
    /\ Hold(t, "work", holders[s].epoch)

FinishHolder(s) ==
    /\ holders[s] # NoHolder
    /\ holders' = [holders EXCEPT ![s] = NoHolder]
    /\ UNCHANGED <<disk, state, record, lastRecord, persistenceError, fenceEpoch,
                   paused, queue, cur, canaryInFlight, canarySerial, contexts>>

Quiescent == \A s \in Slots : holders[s] = NoHolder

-----------------------------------------------------------------------------
(* The calls of a coordinator: their synchronous part, up to the enqueue. *)

Pending(kind) == cur.kind = kind \/ \E i \in 1..Len(queue) : queue[i].kind = kind

Enqueue(kind, op, gen) ==
    /\ Len(queue) < MaxQueue
    /\ queue' = Append(queue, [kind |-> kind, opId |-> op, generation |-> gen])

\* A first prepare: closes admission before any write is queued.  A prepare
\* for another operation, or behind any fence, is refused.
Prepare(op) ==
    /\ state = "open"
    /\ ~(record.opId = op /\ Active(record))
    /\ lastRecord.generation < MaxGeneration
    /\ LET next == [state |-> "draining", opId |-> op,
                    generation |-> lastRecord.generation + 1, canaryToken |-> 0]
       IN /\ lastRecord' = next
          /\ record' = next
          /\ Enqueue("prepare", op, next.generation)
    /\ fenceEpoch' = fenceEpoch + 1
    /\ state' = "draining"
    /\ paused' = TRUE
    /\ UNCHANGED <<disk, persistenceError, holders, cur, canaryInFlight,
                   canarySerial, contexts>>

\* A repeated prepare of an operation that is neither prepared nor under way
\* resumes its drain; one that is under way only joins the pending promise.
PrepareAgain(op) ==
    /\ state # "down"
    /\ Active(record) /\ record.opId = op /\ record.state # "prepared"
    /\ ~Pending("prepare") /\ ~Pending("recover")
    /\ Enqueue("recover", record.opId, record.generation)
    /\ UNCHANGED <<disk, state, record, lastRecord, persistenceError, fenceEpoch,
                   holders, paused, cur, canaryInFlight, canarySerial, contexts>>

Release(op, gen) ==
    /\ state # "down"
    /\ Enqueue("release", op, gen)
    /\ UNCHANGED <<disk, state, record, lastRecord, persistenceError, fenceEpoch,
                   holders, paused, cur, canaryInFlight, canarySerial, contexts>>

RunCanary(op, gen) ==
    /\ state # "down"
    /\ canarySerial < MaxCanaries
    /\ Enqueue("canary", op, gen)
    /\ UNCHANGED <<disk, state, record, lastRecord, persistenceError, fenceEpoch,
                   holders, paused, cur, canaryInFlight, canarySerial, contexts>>

-----------------------------------------------------------------------------
(* The operation at the head of the chain starts: it re-reads the record. *)

RecordMatches(o) == record.opId = o.opId /\ record.generation = o.generation

\* Mutant of StartAllowed: a fence that is still draining may be released.
StartAllowedEarly(o) ==
    \/ o.kind \in {"prepare", "recover"}
    \/ o.kind = "release" /\ Active(record) /\ RecordMatches(o)
                          /\ (\A s \in Slots : holders[s].kind # "handler")
    \/ o.kind = "canary" /\ RecordMatches(o) /\ record.state = "prepared"

StartAllowed(o) ==
    \/ o.kind = "prepare"
    \/ o.kind = "recover" /\ Active(record) /\ RecordMatches(o)
                          /\ record.state # "prepared"
    \/ o.kind = "release" /\ Active(record) /\ RecordMatches(o)
                          /\ record.state = "prepared"
                          /\ (\A s \in Slots : holders[s].kind # "handler")
                          /\ canaryInFlight = 0
    \/ o.kind = "canary" /\ RecordMatches(o) /\ record.state = "prepared"

\* A refused operation answers (an error, or the receipt of a finished release)
\* and leaves the fence as it was.
StartOperation ==
    /\ cur = Idle
    /\ queue # <<>>
    /\ LET o == Head(queue)
           token == IF o.kind = "canary" /\ StartAllowed(o) THEN canarySerial + 1 ELSE 0
       IN /\ cur' = IF StartAllowed(o)
                    THEN [kind |-> o.kind, opId |-> o.opId, generation |-> o.generation,
                          stage |-> "intent", landed |-> FALSE, token |-> token]
                    ELSE Idle
          /\ canarySerial' = IF token = 0 THEN canarySerial ELSE token
    /\ queue' = Tail(queue)
    /\ UNCHANGED <<disk, state, record, lastRecord, persistenceError, fenceEpoch,
                   holders, paused, canaryInFlight, contexts>>

-----------------------------------------------------------------------------
(* persist: the write, its failure, and the turn that runs after it. *)

\* The record the running operation writes at its present stage.
WrittenState ==
    CASE cur.kind = "release" -> "released"
      [] cur.kind = "canary"  -> IF cur.stage = "intent" THEN "canary" ELSE "prepared"
      [] OTHER                -> IF cur.stage = "commit" THEN "prepared" ELSE "draining"

Written == [state |-> WrittenState, opId |-> cur.opId, generation |-> cur.generation,
            canaryToken |-> IF WrittenState = "canary" THEN cur.token ELSE 0]

\* writeAtomicJson: fsync and rename.  A crash may follow before the next turn.
WriteLands ==
    /\ cur.stage \in WriteStages /\ ~cur.landed
    /\ disk' = Written
    /\ cur' = [cur EXCEPT !.landed = TRUE]
    /\ UNCHANGED <<state, record, lastRecord, persistenceError, fenceEpoch, holders,
                   paused, queue, canaryInFlight, canarySerial, contexts>>

CanarySettled ==
    IF cur.kind = "canary" /\ canaryInFlight > 0 THEN canaryInFlight - 1 ELSE canaryInFlight

\* Mutant of WriteFails: a canary whose closing writes fail stays counted.
WriteFailsUncounted ==
    /\ cur.stage \in WriteStages /\ ~cur.landed
    /\ \/ /\ cur.stage = "commit"
          /\ cur' = [cur EXCEPT !.stage = "abort"]
          /\ UNCHANGED <<state, persistenceError>>
       \/ /\ cur.stage # "commit"
          /\ cur' = Idle
          /\ state' = "blocked"
          /\ persistenceError' = TRUE
    /\ UNCHANGED <<disk, record, lastRecord, fenceEpoch, holders, paused, queue,
                   canaryInFlight, canarySerial, contexts>>

\* A failed commit falls back to a record that names the error; any other
\* failed write blocks the gateway.
WriteFails ==
    /\ cur.stage \in WriteStages /\ ~cur.landed
    /\ \/ /\ cur.stage = "commit"
          /\ cur' = [cur EXCEPT !.stage = "abort"]
          /\ UNCHANGED <<state, persistenceError, canaryInFlight>>
       \/ /\ cur.stage # "commit"
          /\ cur' = Idle
          /\ state' = "blocked"
          /\ persistenceError' = TRUE
          /\ canaryInFlight' = IF cur.stage = "abort" THEN CanarySettled ELSE canaryInFlight
    /\ UNCHANGED <<disk, record, lastRecord, fenceEpoch, holders, paused, queue,
                   canarySerial, contexts>>

\* What persist assigns once the write has returned.
Adopt(r) ==
    /\ lastRecord' = r
    /\ record' = IF Active(r) THEN r ELSE NoRecord
    /\ state' = r.state

\* The intent of a prepare or of a resumed drain is durable: wait for the drain.
BeginDrain ==
    /\ cur.kind \in {"prepare", "recover"} /\ cur.stage = "intent" /\ cur.landed
    /\ Adopt(Written)
    /\ paused' = IF cur.kind = "recover" THEN TRUE ELSE paused
    /\ cur' = [cur EXCEPT !.stage = "drain", !.landed = FALSE]
    /\ UNCHANGED <<disk, persistenceError, fenceEpoch, holders, queue,
                   canaryInFlight, canarySerial, contexts>>

\* The canary record is durable: hand its token to run().
BeginCanary ==
    /\ cur.kind = "canary" /\ cur.stage = "intent" /\ cur.landed
    /\ Adopt(Written)
    /\ canaryInFlight' = canaryInFlight + 1
    /\ contexts' = contexts \cup
           {[opId |-> cur.opId, generation |-> cur.generation, token |-> cur.token]}
    /\ cur' = [cur EXCEPT !.stage = "run", !.landed = FALSE]
    /\ UNCHANGED <<disk, persistenceError, fenceEpoch, holders, paused, queue,
                   canarySerial>>

\* The closing write of a prepare, a drain or a canary has returned.
Settle ==
    /\ cur.stage \in {"commit", "abort"} /\ cur.landed
    /\ Adopt(Written)
    /\ canaryInFlight' = CanarySettled
    /\ cur' = Idle
    /\ UNCHANGED <<disk, persistenceError, fenceEpoch, holders, paused, queue,
                   canarySerial, contexts>>

\* The released receipt is durable; the gateway is still fenced in this turn.
AdoptReleased ==
    /\ cur.kind = "release" /\ cur.stage = "intent" /\ cur.landed
    /\ Adopt(Written)
    /\ cur' = [cur EXCEPT !.stage = "reopen", !.landed = FALSE]
    /\ UNCHANGED <<disk, persistenceError, fenceEpoch, holders, paused, queue,
                   canaryInFlight, canarySerial, contexts>>

Reopen ==
    /\ cur.stage = "reopen"
    /\ state' = "open"
    /\ record' = NoRecord
    /\ persistenceError' = FALSE
    /\ paused' = FALSE
    /\ cur' = Idle
    /\ UNCHANGED <<disk, lastRecord, fenceEpoch, holders, queue, canaryInFlight,
                   canarySerial, contexts>>

-----------------------------------------------------------------------------
(* Waiting for the drain and for the canary. *)

MoveTo(stage) ==
    /\ cur' = [cur EXCEPT !.stage = stage]
    /\ UNCHANGED <<disk, state, record, lastRecord, persistenceError, fenceEpoch,
                   holders, paused, queue, canaryInFlight, canarySerial, contexts>>

\* Mutants of Drained and DrainTimesOut: only requests are waited for; the
\* drain has no deadline.
DrainedOfHandlers ==
    /\ cur.stage = "drain"
    /\ \A s \in Slots : holders[s].kind # "handler"
    /\ MoveTo("commit")
DrainNeverTimesOut == cur.stage = "drain" /\ FALSE /\ MoveTo("abort")

Drained == cur.stage = "drain" /\ Quiescent /\ MoveTo("commit")
DrainTimesOut == cur.stage = "drain" /\ MoveTo("abort")
CanarySucceeds == cur.stage = "run" /\ MoveTo("commit")
CanaryFails == cur.stage = "run" /\ MoveTo("abort")

\* Mutant of CanaryContextValid: the token of the context is not compared.
CanaryContextUnchecked(c) ==
    /\ state = "canary"
    /\ RecordMatches(c)

\* isCanaryAuthorized: may a request that carries this context pass the fence?
CanaryContextValid(c) ==
    /\ state = "canary"
    /\ RecordMatches(c)
    /\ c.token = record.canaryToken

-----------------------------------------------------------------------------
OperationStep ==
    \/ StartOperation
    \/ WriteLands \/ WriteFails
    \/ BeginDrain \/ BeginCanary \/ Settle \/ AdoptReleased \/ Reopen
    \/ Drained \/ DrainTimesOut \/ CanarySucceeds \/ CanaryFails

Call ==
    \E op \in OpIds :
        \/ Prepare(op)
        \/ PrepareAgain(op)
        \/ \E gen \in 1..MaxGeneration : Release(op, gen) \/ RunCanary(op, gen)

Work ==
    \E s \in Slots :
        \/ RequestAdmission(s)
        \/ StartWork(s)
        \/ \E t \in Slots : ContinueWork(s, t)
        \/ FinishHolder(s)

Next == Crash \/ Boot \/ BootUnreadable \/ Call \/ Work \/ OperationStep

Spec == Init /\ [][Next]_vars

\* The event loop runs every ready continuation; drains and canaries have timers.
FairSpec == Spec /\ WF_vars(OperationStep)
-----------------------------------------------------------------------------
(* Properties. *)

\* drained: true is reported, or durable on the sidecar, only when no request
\* and no manager operation admitted before the fence is still running.
DrainedIsQuiet ==
    (state # "down" /\ ({state, disk.state} \cap {"prepared", "canary"} # {}))
        => Quiescent

\* Fail closed: the gate is open only when the sidecar holds no fence in force
\* and every write that mattered has succeeded.
OpenMeansReleased ==
    state = "open" => ~Active(disk) /\ ~Active(record) /\ ~persistenceError

\* No work outlives a fence: what runs now was admitted after the previous
\* release, and behind a fence only what that fence found running may run.
WorkBelongsToThisFence ==
    \A s \in Slots : holders[s] # NoHolder =>
        holders[s].epoch + (IF state = "open" THEN 0 ELSE 1) = fenceEpoch

\* A canary context passes the fence only while the canary that drew its token
\* is in flight, however late the request that carries it arrives.
CanaryAuthority ==
    \A c \in contexts : CanaryContextValid(c) =>
        cur.kind = "canary" /\ cur.token = c.token /\ canaryInFlight = 1

\* Residency and the watchdog are paused exactly while the gateway is fenced.
PausedWhileFenced ==
    state # "down" => (paused <=> IsFenced)

\* Seen from outside, the sidecar and the gate follow the fence protocol:
\* generations grow by one, an operation is never displaced by another, only a
\* prepared operation is released, and the gate opens only between operations.
Protocol == INSTANCE FenceProtocol WITH
    sidecar <- [state |-> disk.state, opId |-> disk.opId, generation |-> disk.generation],
    gate <- IF state = "open" THEN "open" ELSE "closed"

FollowsProtocol == Protocol!ProtocolSpec

\* Nobody who joined a prepare or a resumed drain waits on it for ever.
PendingSettles ==
    \A kind \in {"prepare", "recover"} : Pending(kind) ~> ~Pending(kind)

-----------------------------------------------------------------------------
(* The inductive invariant behind the safety properties. *)

\* Without a process there is no memory.
DownInv ==
    state = "down" =>
        /\ record = NoRecord /\ lastRecord = NoRecord /\ ~persistenceError
        /\ Quiescent /\ ~paused /\ queue = <<>> /\ cur = Idle /\ contexts = {}

\* The record in memory is absent or names an operation, and state reflects it.
RecordInv ==
    /\ record = NoRecord \/ (Active(record) /\ record.opId \in OpIds)
    /\ state \in ActiveStates => record.state = state
    /\ state = "released" => cur.stage = "reopen"
    /\ state = "open" => record = NoRecord /\ cur = Idle /\ ~persistenceError
    /\ (state = "blocked" /\ record = NoRecord) => cur = Idle /\ Quiescent
    /\ state # "down" => (paused <=> IsFenced)

\* Where an operation can wait, and what the record is while it waits there.
CurInv ==
    \/ cur = Idle
    \/ /\ cur.kind = "release" /\ cur.stage = "reopen" /\ ~cur.landed
       /\ state = "released" /\ record = NoRecord
    \/ /\ cur.opId \in OpIds /\ RecordMatches(cur) /\ state # "down"
       /\ cur.landed => cur.stage \in WriteStages
       /\ \/ cur.kind = "prepare" /\ cur.stage \in WriteStages \cup {"drain"}
                                  /\ record.state = "draining"
          \/ cur.kind = "recover" /\ cur.stage = "intent"
                                  /\ record.state \in {"draining", "canary"}
          \/ cur.kind = "recover" /\ cur.stage \in {"drain", "commit", "abort"}
                                  /\ record.state = "draining"
          \/ cur.kind = "canary"  /\ cur.stage = "intent" /\ record.state = "prepared"
          \/ cur.kind = "canary"  /\ cur.stage \in {"run", "commit", "abort"}
                                  /\ record.state = "canary"
                                  /\ record.canaryToken = cur.token
          \/ cur.kind = "release" /\ cur.stage = "intent" /\ record.state = "prepared"

\* A prepare that waits in the chain finds its own draining record when it
\* starts: nothing queued before it can still match.
QueueInv ==
    /\ \A i \in 1..Len(queue) : queue[i].kind = "recover" =>
           queue[i].generation <= lastRecord.generation
    /\ \A i \in 1..Len(queue) : queue[i].kind = "prepare" =>
           /\ state = "draining" /\ cur = Idle
           /\ record.state = "draining" /\ RecordMatches(queue[i])
           /\ \A j \in 1..Len(queue) :
                  /\ queue[j].kind = "prepare" => j = i
                  /\ queue[j].kind = "recover" => queue[j].generation < queue[i].generation

\* The sidecar and memory agree, except that a first prepare runs one
\* generation ahead of the file and that a landed write runs ahead of memory.
Synced == disk = lastRecord
Ahead == /\ lastRecord.state = "draining" /\ ~Active(disk)
         /\ lastRecord.generation = disk.generation + 1

DiskInv ==
    /\ Active(disk) => disk.opId \in OpIds
    /\ \/ state = "down"
       \/ state = "blocked" /\ record = NoRecord /\ lastRecord = NoRecord
       \/ /\ Active(lastRecord) => record = lastRecord
          /\ ~Active(lastRecord) => record = NoRecord
          /\ IF cur.landed
             THEN disk = Written
             ELSE \/ Synced
                  \/ Ahead /\ state # "open" /\ cur.stage \in {"none", "intent"}
                           /\ cur.kind \in {"idle", "prepare", "recover"}

\* Once an operation is past its drain nothing admitted earlier is running.
QuietInv ==
    (state # "down" /\
       (\/ {record.state, disk.state} \cap {"prepared", "canary"} # {}
        \/ cur.kind \in {"prepare", "recover"} /\ cur.stage = "commit"
        \/ cur.stage = "reopen"))
      => Quiescent

CanaryInv ==
    /\ canaryInFlight = IF cur.kind = "canary" /\ cur.stage \in {"run", "commit", "abort"}
                        THEN 1 ELSE 0
    /\ state = "canary" =>
           contexts = {} \/ (cur.kind = "canary" /\ cur.stage \in {"run", "commit", "abort"})

\* The conjunction that every step preserves.
FenceInv ==
    /\ TypeOK /\ DownInv /\ RecordInv /\ CurInv /\ QueueInv /\ DiskInv
    /\ QuietInv /\ CanaryInv /\ WorkBelongsToThisFence

=============================================================================
