-------------------------- MODULE NodeReleaseAgent --------------------------
(***************************************************************************)
(* The release agent of every node of a fleet, for one deployment          *)
(* operation: its journal, its locks, and what it does to the release      *)
(* pointer, the manifest beside it, the gateway's fence and the gateway    *)
(* unit.  A phase is an invocation of its own process; it advances by the  *)
(* steps between which a crash leaves something different on disk.         *)
(*                                                                         *)
(* Left out: the contents of releases, configurations and snapshots (their *)
(* checks always succeed unless a step Fails), other operations on the     *)
(* node, and a crash of the process that reaps a stale invocation lock.    *)
(* The gateway is modelled from what its fence promises (FenceProtocol).   *)
(***************************************************************************)
EXTENDS Naturals

CONSTANTS
    Nodes,
    Leader,
    AgentGenerations, \* bound: operation generations
    MaxFaults       \* bound: failures, timeouts, crashes and restarts

ASSUME AgentAssumption ==
    /\ AgentGenerations \in Nat \ {0}
    /\ MaxFaults \in Nat

VARIABLES
    journal,    \* the agent's durable journal of the operation
    host,       \* the node: pointer, manifest, loaded release, stage, fence
    locked,     \* the node's reservation, .deployment-agent.lock
    inv,        \* the phase that runs on the node
    request,    \* a phase request on its way to the node
    answer,     \* what the caller was told
    faults      \* failures so far

agentVars == <<journal, host, locked, inv, request, answer, faults>>

-----------------------------------------------------------------------------
Phases == {"preflight", "stage", "prepare", "swap", "restart", "verify", "canary",
           "promote", "release", "reprepare", "rollback", "discard-stage"}

\* Phases whose older receipt a new generation replaces.
Renewed == {"reprepare", "rollback", "canary"}

\* Phases that end the node's reservation.
Unlocking == {"release", "discard-stage"}

\* Phases that only look at the node.
ReadOnly == {"preflight", "verify", "canary"}

Forward == {"prepare", "swap", "restart", "verify", "canary", "promote", "release"}

Refusals == {"lock_held", "stale_generation", "phase_order_invalid", "operation_uncertain"}

\* The context of a call; restored says that the caller knows of a rollback.
Request == [phase : Phases \cup {"none"}, generation : 0..AgentGenerations,
            restored : BOOLEAN, reservationOnly : BOOLEAN]
NoRequest == [phase |-> "none", generation |-> 0, restored |-> FALSE,
              reservationOnly |-> FALSE]

Journal == [generation : 0..AgentGenerations,          \* 0: there is no journal
            receipts : [Phases -> 0..AgentGenerations],
            pending : Phases \cup {"none"},
            state : Phases \cup {"rolled-back", "unknown"},
            mutationPossible : BOOLEAN,
            backup : BOOLEAN,
            rollbackFrom : {"none", "old", "new"}]  \* rollbackIntent.previousTarget
NewJournal == [generation |-> 0, receipts |-> [p \in Phases |-> 0], pending |-> "none",
               state |-> "preflight", mutationPossible |-> FALSE, backup |-> FALSE,
               rollbackFrom |-> "none"]

\* "restored" is the copy of the old release that a rollback makes current.
Host == [pointer : {"old", "new", "restored"}, manifest : {"old", "new"},
         loaded : {"old", "new"}, staged : BOOLEAN,
         fence : {"open", "draining", "prepared", "releasing"}]

Steps == {"none", "begin", "fence", "manifest", "observe", "opening", "repair",
          "intent", "pointer", "restart", "receipt", "unlock", "broken"}

\* attached: the caller still waits; created: the call took the reservation.
Invocation == [request : Request, at : Steps, attached : BOOLEAN, created : BOOLEAN]
NoInvocation == [request |-> NoRequest, at |-> "none", attached |-> FALSE,
                 created |-> FALSE]

AgentTypeOK ==
    /\ journal \in [Nodes -> Journal]
    /\ host \in [Nodes -> Host]
    /\ locked \in [Nodes -> BOOLEAN]
    /\ inv \in [Nodes -> Invocation]
    /\ request \in [Nodes -> Request]
    /\ answer \in [Nodes -> {"none", "ok", "failed"} \cup Refusals]
    /\ faults \in 0..MaxFaults

AgentInit ==
    /\ journal = [n \in Nodes |-> NewJournal]
    /\ host = [n \in Nodes |-> [pointer |-> "old", manifest |-> "old", loaded |-> "old",
                                staged |-> FALSE, fence |-> "open"]]
    /\ locked = [n \in Nodes |-> FALSE]
    /\ inv = [n \in Nodes |-> NoInvocation]
    /\ request = [n \in Nodes |-> NoRequest]
    /\ answer = [n \in Nodes |-> "none"]
    /\ faults = 0

-----------------------------------------------------------------------------
Bytes(h) == IF h.pointer = "new" THEN "new" ELSE "old"

\* What readCurrentIdentity finds: the pair has to agree.
Disk(h) == IF Bytes(h) = h.manifest THEN h.manifest ELSE "mixed"

OnRelease(h, release) == Disk(h) = release /\ h.loaded = release

\* The gateway reports fenced and drained until a release has taken effect.
Prepared(h) == h.fence \in {"prepared", "releasing"}

Invoked(n) == inv[n].at # "none"
Phase(n) == inv[n].request.phase

Has(j, phases) == \E p \in phases : j.receipts[p] # 0

\* A call of a newer generation makes the journal its own.
Adopted(j, q) ==
    IF j.generation < q.generation
    THEN [j EXCEPT !.generation = q.generation,
                   !.receipts = [p \in Phases |-> IF p = q.phase /\ p \in Renewed
                                                  THEN 0 ELSE @[p]]]
    ELSE j

\* Mutant of FreshObservation: the receipt of the release is answered again.
FreshButRelease(j, q) ==
    \/ q.phase = "reprepare"
    \/ q.phase = "canary" /\ (q.restored \/ Has(j, {"rollback"}))

\* Only the recovery observations of a restored node are made again.
FreshObservation(j, q) ==
    \/ q.phase = "reprepare"
    \/ q.phase \in {"canary", "release"} /\ (q.restored \/ Has(j, {"rollback"}))

StaleGeneration(j, q) ==
    \/ j.generation > q.generation
    \/ LET a == Adopted(j, q) IN
       /\ a.receipts[q.phase] \notin {0, q.generation}
       /\ \/ j.generation < q.generation
          \/ ~(q.phase = "release" /\ Has(a, {"rollback"}))

\* The receipt of this very call is answered again.
Replayed(j, q) ==
    /\ ~StaleGeneration(j, q)
    /\ Adopted(j, q).receipts[q.phase] = q.generation
    /\ ~FreshObservation(j, q)

\* A phase has a receipt, or is the one whose outcome is uncertain.
Reached(j, phases) == Has(j, phases) \/ j.pending \in phases

OutOfOrder(j, q) ==
    CASE q.phase = "stage" -> ~Reached(j, {"preflight"})
      [] q.phase = "prepare" -> ~Reached(j, {"stage"})
      [] q.phase = "swap" -> ~Reached(j, {"prepare"})
      [] q.phase = "restart" -> ~Reached(j, {"swap"})
      [] q.phase = "verify" -> ~Reached(j, {"restart"})
      [] q.phase = "canary" -> ~Reached(j, {"verify", "rollback"})
      [] q.phase = "release" -> ~Reached(j, {"promote", "rollback"})
      [] q.phase = "discard-stage" ->
             IF q.reservationOnly
             THEN j.state # "preflight" \/ Has(j, Forward \cup {"stage", "rollback"})
             ELSE \/ ~Reached(j, {"stage"}) /\ ~Has(j, {"rollback"}) /\ j.state # "unknown"
                  \/ Has(j, Forward) /\ ~Has(j, {"rollback"})
      [] q.phase \in {"reprepare", "rollback"} -> ~j.mutationPossible /\ j.pending = "none"
      [] OTHER -> FALSE

\* promote looks at the role of the node.
PromotesUnproved(n, j, q) == q.phase = "promote" /\ n = Leader /\ ~Reached(j, {"canary"})

Refusal(n, j, q) ==
    IF Invoked(n) THEN "lock_held"
    ELSE IF StaleGeneration(j, q) THEN "stale_generation"
    ELSE IF Replayed(j, q) THEN "none"
    ELSE IF OutOfOrder(j, q) \/ PromotesUnproved(n, j, q) THEN "phase_order_invalid"
    ELSE IF j.pending # "none" /\ q.phase \notin {"reprepare", "rollback", "discard-stage"}
         THEN "operation_uncertain"
    ELSE "none"

-----------------------------------------------------------------------------
\* Every call takes the reservation; a refused one leaves it behind, except
\* a preflight that had just taken it.
Refuse(n) ==
    LET q == request[n] IN
    /\ q.phase # "none"
    /\ Refusal(n, journal[n], q) # "none"
    /\ answer' = [answer EXCEPT ![n] = Refusal(n, journal[n], q)]
    /\ locked' = [locked EXCEPT ![n] = @ \/ q.phase # "preflight"]
    /\ request' = [request EXCEPT ![n] = NoRequest]
    /\ UNCHANGED <<journal, host, inv, faults>>

Replay(n) ==
    LET q == request[n] IN
    /\ q.phase # "none"
    /\ Refusal(n, journal[n], q) = "none"
    /\ Replayed(journal[n], q)
    /\ answer' = [answer EXCEPT ![n] = "ok"]
    /\ locked' = [locked EXCEPT ![n] = q.phase \notin Unlocking]
    /\ request' = [request EXCEPT ![n] = NoRequest]
    /\ UNCHANGED <<journal, host, inv, faults>>

\* The intent is durable before the phase touches anything.
Accept(n) ==
    LET q == request[n]
        a == Adopted(journal[n], q) IN
    /\ q.phase # "none"
    /\ Refusal(n, journal[n], q) = "none"
    /\ ~Replayed(journal[n], q)
    /\ journal' = [journal EXCEPT ![n] =
                     [a EXCEPT !.receipts[q.phase] = 0,
                               !.pending = q.phase,
                               !.mutationPossible = @ \/ ~(q.phase \in ReadOnly
                                                           \/ q.reservationOnly)]]
    /\ inv' = [inv EXCEPT ![n] = [request |-> q, at |-> "begin", attached |-> TRUE,
                                  created |-> ~locked[n]]]
    /\ locked' = [locked EXCEPT ![n] = TRUE]
    /\ request' = [request EXCEPT ![n] = NoRequest]
    /\ UNCHANGED <<host, answer, faults>>

-----------------------------------------------------------------------------
\* release: which release the node must be on.
Expected(n) ==
    IF inv[n].request.restored \/ (Phase(n) = "release" /\ Has(journal[n], {"rollback"}))
    THEN "old" ELSE "new"

\* The pair is one that the intent of an earlier rollback does not explain.
PairUnexplained(j, h) ==
    /\ j.rollbackFrom # "none"
    /\ \/ h.pointer \notin {j.rollbackFrom, "restored"}
       \/ h.pointer = j.rollbackFrom /\ h.manifest = "old"

\* The observation on which the phase goes on from where it is.
Check(n) ==
    LET h == host[n]
        j == journal[n]
        at == inv[n].at
        p == Phase(n) IN
    CASE at = "begin" /\ p = "preflight" ->
             Disk(h) = "old" /\ h.loaded = "old" /\ h.fence = "open"
      [] at = "begin" /\ p = "prepare" -> Disk(h) = "old" /\ h.loaded = "old"
      [] at = "begin" /\ p = "swap" ->
             h.staged /\ j.backup /\ h.pointer = "old" /\ Disk(h) = "old"
             /\ h.loaded = "old" /\ Prepared(h)
      [] at = "begin" /\ p = "verify" -> h.loaded = "new" /\ Prepared(h)
      [] at = "begin" /\ p = "canary" -> h.loaded = Expected(n) /\ Prepared(h)
      [] at = "begin" /\ p = "release" ->
             Disk(h) = Expected(n) /\ h.loaded = Expected(n) /\ Prepared(h) /\ j.backup
      [] at = "begin" /\ p \in {"stage", "discard-stage"} ->
             inv[n].request.reservationOnly \/ h.pointer # "new"
      [] at = "observe" /\ p = "restart" -> h.loaded = "new" /\ Prepared(h)
      [] at = "observe" /\ p = "rollback" ->
             Disk(h) = "old" /\ h.loaded = "old" /\ Prepared(h)
      [] at = "fence" /\ p = "rollback" -> j.backup \/ Disk(h) = "old"
      [] at = "repair" -> ~PairUnexplained(j, h)
      [] at = "broken" -> FALSE
      [] OTHER -> TRUE

At(n, phases, step) == Phase(n) \in phases /\ inv[n].at = step /\ Check(n)
Goto(n, step) == inv' = [inv EXCEPT ![n].at = step]

StepOnHost(n, h, step) ==
    /\ host' = [host EXCEPT ![n] = h]
    /\ Goto(n, step)
    /\ UNCHANGED <<journal, locked, request, answer, faults>>

StepInJournal(n, j, step) ==
    /\ journal' = [journal EXCEPT ![n] = j]
    /\ Goto(n, step)
    /\ UNCHANGED <<host, locked, request, answer, faults>>

\* A verified tree becomes the stage by one rename; it goes by one removal.
Stage(n) ==
    /\ At(n, {"stage"}, "begin")
    /\ StepOnHost(n, [host[n] EXCEPT !.staged = TRUE], "receipt")

DiscardStage(n) ==
    /\ At(n, {"discard-stage"}, "begin")
    /\ StepOnHost(n, [host[n] EXCEPT !.staged = @ /\ inv[n].request.reservationOnly],
                  "receipt")

\* POST prepare: it queues behind a release that has not taken effect yet.
RequestFence(n) ==
    /\ At(n, {"prepare", "reprepare", "rollback"}, "begin")
    /\ host[n].fence # "releasing"
    /\ StepOnHost(n, [host[n] EXCEPT !.fence = IF @ = "open" THEN "draining" ELSE @],
                  "fence")

\* prepare backs the old release up; the descriptor is durable before the receipt.
BackUp(n) ==
    /\ At(n, {"prepare"}, "fence")
    /\ host[n].fence = "prepared"
    /\ StepInJournal(n, [journal[n] EXCEPT !.backup = TRUE], "receipt")

Fenced(n) ==
    /\ At(n, {"reprepare", "rollback"}, "fence")
    /\ host[n].fence = "prepared"
    /\ Goto(n, IF Phase(n) = "rollback" /\ journal[n].backup THEN "repair" ELSE "receipt")
    /\ UNCHANGED <<journal, host, locked, request, answer, faults>>

\* swap: the pointer, then the manifest.
SwapPointer(n) ==
    /\ At(n, {"swap"}, "begin")
    /\ StepOnHost(n, [host[n] EXCEPT !.pointer = "new"], "manifest")

SwapManifest(n) ==
    /\ At(n, {"swap"}, "manifest")
    /\ StepOnHost(n, [host[n] EXCEPT !.manifest = "new"], "receipt")

\* rollback first completes the half of a pair that an earlier call left: a
\* swapped pointer goes back, a restored one gets its manifest.
RepairPair(n) ==
    LET h == host[n] IN
    /\ At(n, {"rollback"}, "repair")
    /\ StepOnHost(n, [h EXCEPT !.pointer = IF @ = "new" /\ h.manifest = "old"
                                           THEN "old" ELSE @,
                               !.manifest = IF h.pointer = "restored" THEN "old" ELSE @],
                  "intent")

RollbackIntent(n) ==
    /\ At(n, {"rollback"}, "intent")
    /\ StepInJournal(n, [journal[n] EXCEPT !.rollbackFrom = IF @ = "none"
                                                THEN host[n].pointer ELSE @], "pointer")

RollbackPointer(n) ==
    /\ At(n, {"rollback"}, "pointer")
    /\ StepOnHost(n, [host[n] EXCEPT !.pointer = "restored"], "manifest")

\* Mutant of RollbackManifest: the unit is not restarted.
RollbackWithoutRestart(n) ==
    /\ At(n, {"rollback"}, "manifest")
    /\ StepOnHost(n, [host[n] EXCEPT !.manifest = "old"], "receipt")

RollbackManifest(n) ==
    /\ At(n, {"rollback"}, "manifest")
    /\ StepOnHost(n, [host[n] EXCEPT !.manifest = "old"], "restart")

\* The unit loads what the pointer names; the fence survives in its sidecar.
RestartUnit(n) ==
    /\ At(n, {"restart"}, "begin") \/ At(n, {"rollback"}, "restart")
    /\ StepOnHost(n, [host[n] EXCEPT !.loaded = Bytes(host[n])], "observe")

\* Mutant of RequestRelease: the last inspection is not looked at.
RequestReleaseUnchecked(n) ==
    /\ Phase(n) = "release"
    /\ inv[n].at = "begin"
    /\ StepOnHost(n, [host[n] EXCEPT !.fence = "releasing"], "opening")

\* POST release, right after the last inspection.
RequestRelease(n) ==
    /\ At(n, {"release"}, "begin")
    /\ StepOnHost(n, [host[n] EXCEPT !.fence = "releasing"], "opening")

-----------------------------------------------------------------------------
Concluded(n) ==
    \/ At(n, Phases, "receipt")
    \/ At(n, {"restart", "rollback"}, "observe")
    \/ At(n, ReadOnly \cup {"promote"}, "begin")
    \/ At(n, {"release"}, "opening") /\ host[n].fence = "open"

\* Mutant of Answer: only a receipt is answered.
AnswerReceipts(n, a) ==
    answer' = [answer EXCEPT ![n] = IF inv[n].attached /\ a = "ok" THEN a ELSE @]

\* The caller, if it still waits, gets its answer.
Answer(n, a) == answer' = [answer EXCEPT ![n] = IF inv[n].attached THEN a ELSE @]

WithReceipt(n) ==
    [journal[n] EXCEPT !.receipts[Phase(n)] = inv[n].request.generation,
                       !.pending = "none",
                       !.state = IF Phase(n) = "discard-stage" THEN "rolled-back"
                                 ELSE Phase(n)]

\* Mutant of Complete: the caller is answered before the node is free.
CompleteEarly(n) ==
    /\ Concluded(n)
    /\ journal' = [journal EXCEPT ![n] = WithReceipt(n)]
    /\ IF Phase(n) \in Unlocking THEN Goto(n, "unlock")
                                ELSE inv' = [inv EXCEPT ![n] = NoInvocation]
    /\ Answer(n, "ok")
    /\ UNCHANGED <<host, locked, request, faults>>

\* The receipt is durable before it is answered, and before the node is free.
Complete(n) ==
    /\ Concluded(n)
    /\ journal' = [journal EXCEPT ![n] = WithReceipt(n)]
    /\ IF Phase(n) \in Unlocking
       THEN Goto(n, "unlock") /\ UNCHANGED answer
       ELSE inv' = [inv EXCEPT ![n] = NoInvocation] /\ Answer(n, "ok")
    /\ UNCHANGED <<host, locked, request, faults>>

Unlock(n) ==
    /\ inv[n].at = "unlock"
    /\ locked' = [locked EXCEPT ![n] = FALSE]
    /\ inv' = [inv EXCEPT ![n] = NoInvocation]
    /\ Answer(n, "ok")
    /\ UNCHANGED <<journal, host, request, faults>>

Fault == faults < MaxFaults /\ faults' = faults + 1

\* A step throws: the outcome is recorded as unknown and the intent stays.
\* Once the receipt exists in memory it is written along.
Fail(n) ==
    /\ Invoked(n)
    /\ IF Check(n) THEN Fault ELSE UNCHANGED faults
    /\ \E j \in {journal[n]} \cup (IF Concluded(n) THEN {WithReceipt(n)} ELSE {}) :
           journal' = [journal EXCEPT ![n] = [j EXCEPT !.state = "unknown"]]
    /\ inv' = [inv EXCEPT ![n] = NoInvocation]
    /\ locked' = [locked EXCEPT ![n] = @ /\ ~(Phase(n) = "preflight" /\ inv[n].created)]
    /\ Answer(n, "failed")
    /\ UNCHANGED <<host, request>>

\* The process dies, or cannot even write that it failed.
Die(n) ==
    /\ Invoked(n)
    /\ Fault
    /\ inv' = [inv EXCEPT ![n] = NoInvocation]
    /\ Answer(n, "failed")
    /\ UNCHANGED <<journal, host, locked, request>>

-----------------------------------------------------------------------------
\* The gateway: a drain ends, a release takes effect, the process restarts.
GatewayDrains(n) ==
    /\ host[n].fence = "draining"
    /\ host' = [host EXCEPT ![n].fence = "prepared"]
    /\ UNCHANGED <<journal, locked, inv, request, answer, faults>>

GatewayOpens(n) ==
    /\ host[n].fence = "releasing"
    /\ host' = [host EXCEPT ![n].fence = "open"]
    /\ UNCHANGED <<journal, locked, inv, request, answer, faults>>

\* A call that waits for the gateway is cut off.  A release is in the sidecar
\* or it is not.
GatewayRestarts(n) ==
    /\ Fault
    /\ \E f \in IF host[n].fence = "releasing" THEN {"prepared", "open"}
                                                ELSE {host[n].fence} :
           host' = [host EXCEPT ![n].loaded = Bytes(host[n]), ![n].fence = f]
    /\ inv' = [inv EXCEPT ![n].at = IF @ \in {"fence", "opening"} THEN "broken" ELSE @]
    /\ UNCHANGED <<journal, locked, request, answer>>

PhaseStep(n) ==
    \/ Stage(n) \/ DiscardStage(n)
    \/ RequestFence(n) \/ BackUp(n) \/ Fenced(n)
    \/ SwapPointer(n) \/ SwapManifest(n) \/ RestartUnit(n)
    \/ RepairPair(n) \/ RollbackIntent(n) \/ RollbackPointer(n) \/ RollbackManifest(n)
    \/ RequestRelease(n)
    \/ Complete(n) \/ Unlock(n)

AgentStep(n) == Refuse(n) \/ Replay(n) \/ Accept(n) \/ PhaseStep(n) \/ Fail(n)

GatewayStep(n) == GatewayDrains(n) \/ GatewayOpens(n)

AgentNext == \E n \in Nodes : AgentStep(n) \/ Die(n) \/ GatewayStep(n) \/ GatewayRestarts(n)
=============================================================================
