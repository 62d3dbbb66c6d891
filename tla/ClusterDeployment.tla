------------------------- MODULE ClusterDeployment -------------------------
(***************************************************************************)
(* The coordinator of one deployment over a fleet of NodeReleaseAgents.    *)
(* It calls one node at a time; its document is saved before and after     *)
(* every call, and only what was saved survives a crash.  Forward, a phase *)
(* ends on every node before the next one starts; any failure turns to the *)
(* compensating pass, which an operator may run again.                     *)
(*                                                                         *)
(* A call that the coordinator gave up either has started or never will.   *)
(***************************************************************************)
EXTENDS NodeReleaseAgent, Subsequences

CONSTANTS
    Order           \* the target nodes in plan order, the leader last

ASSUME OrderAssumption ==
    /\ Order \in Seq(Nodes)
    /\ \A n \in Nodes : \E i \in 1..Len(Order) : Order[i] = n
    /\ \A i, j \in 1..Len(Order) : Order[i] = Order[j] => i = j
    /\ Order[Len(Order)] = Leader
    /\ "none" \notin Nodes                 \* no node is called that

VARIABLES
    doc,            \* the coordinator's document
    saved,          \* the journal file
    run             \* where the running coordinator is

vars == <<agentVars, doc, saved, run>>
coordinatorVars == <<doc, saved, run>>

-----------------------------------------------------------------------------
NodeStates == {"preflight", "staged", "prepared", "mutating", "active", "verified",
               "promoted", "released", "unknown", "rollback-required", "rolled-back",
               "rollback-failed"}

NodeDoc == [state : NodeStates, receipts : SUBSET Phases,
            pendingAction : Phases \cup {"none"}, possiblyMutated : BOOLEAN]

\* operationState is "none" before the operation exists.
Doc == [generation : 0..AgentGenerations,
        operationState : {"none", "running", "rollback-required", "rollback-failed",
                          "rolled-back", "completed"},
        nodes : [Nodes -> NodeDoc],
        mutationOrder : Seq(Nodes)]

NoDoc == [generation |-> 0, operationState |-> "none",
          nodes |-> [n \in Nodes |-> [state |-> "preflight", receipts |-> {},
                                      pendingAction |-> "none",
                                      possiblyMutated |-> FALSE]],
          mutationOrder |-> <<>>]

ForwardPasses == <<"preflight", "stage", "prepare", "swap", "verify", "canary",
                   "promote", "release">>
BackPasses == <<"reserve", "fence", "restore", "discard", "canary", "open", "tidy">>

\* mode: "down", started, the forward passes, about to turn back, the passes back;
\* call: the node that is being called; lists are those of finishRollback.
Run == [mode : {"down", "recover", "forward", "abort", "back"}, pass : 0..8,
        call : Nodes \cup {"none"}, phase : Phases \cup {"none"},
        todo : Seq(Nodes), restore : Seq(Nodes), discard : Seq(Nodes), failed : BOOLEAN]

Down == [mode |-> "down", pass |-> 0, call |-> "none", phase |-> "none",
         todo |-> <<>>, restore |-> <<>>, discard |-> <<>>, failed |-> FALSE]

TypeOK ==
    /\ AgentTypeOK
    /\ doc \in Doc
    /\ saved \in Doc
    /\ run \in Run

Init ==
    /\ AgentInit
    /\ doc = NoDoc
    /\ saved = NoDoc
    /\ run = Down

-----------------------------------------------------------------------------
Backwards(s) == [i \in 1..Len(s) |-> s[Len(s) + 1 - i]]
Occurs(n, s) == \E i \in 1..Len(s) : s[i] = n

\* A journal write: it lands, or fails before or after the rename.
Saved(d) == saved' = d
SaveFails(d) == saved' \in {saved, d} /\ Fault
SavedOrNot(d) == (Saved(d) /\ UNCHANGED faults) \/ SaveFails(d)

InForward == run.mode = "forward" /\ run.call = "none"
InBack == run.mode = "back" /\ run.call = "none"

-----------------------------------------------------------------------------
(* The forward passes.                                                     *)
Due(n) ==
    LET nd == doc.nodes[n]
        pass == ForwardPasses[run.pass] IN
    CASE pass = "preflight" -> IF "preflight" \notin nd.receipts THEN "preflight" ELSE "none"
      [] pass = "stage" ->
             IF nd.state = "preflight" /\ "stage" \notin nd.receipts THEN "stage" ELSE "none"
      [] pass = "prepare" -> IF nd.state = "staged" THEN "prepare" ELSE "none"
      [] pass = "swap" ->
             IF nd.state = "prepared" /\ "swap" \notin nd.receipts THEN "swap"
             ELSE IF /\ nd.state = "mutating"
                     /\ "swap" \in nd.receipts /\ "restart" \notin nd.receipts
                  THEN "restart" ELSE "none"
      [] pass = "verify" -> IF nd.state = "active" THEN "verify" ELSE "none"
      [] pass = "canary" ->
             IF n = Leader /\ "canary" \notin nd.receipts THEN "canary" ELSE "none"
      [] pass = "promote" -> IF nd.state = "verified" THEN "promote" ELSE "none"
      [] pass = "release" -> IF nd.state = "promoted" THEN "release" ELSE "none"

DueNodes == Kept(Order, {n \in Nodes : Due(n) # "none"})

\* The barriers between the passes.
BarrierHolds ==
    LET pass == ForwardPasses[run.pass]
        all(state) == \A n \in Nodes : doc.nodes[n].state = state IN
    CASE pass = "stage" -> all("staged")
      [] pass = "prepare" -> all("prepared")
      [] pass = "release" -> all("released")
      [] OTHER -> TRUE

\* Mutant of NextState: a restarted node is recorded under the phase's name.
NextStateByPhase(phase, mode) ==
    IF mode = "back" THEN "rolled-back"
    ELSE CASE phase = "restart" -> "restart"
           [] phase = "stage" -> "staged"
           [] phase = "prepare" -> "prepared"
           [] phase = "swap" -> "mutating"
           [] OTHER -> "none"

\* The state a receipt leaves its node in; none for preflight and forward canary.
NextState(phase, mode) ==
    IF mode = "back" THEN IF phase = "reprepare" THEN "rollback-required" ELSE "rolled-back"
    ELSE CASE phase = "stage" -> "staged"
           [] phase = "prepare" -> "prepared"
           [] phase = "swap" -> "mutating"
           [] phase = "restart" -> "active"
           [] phase = "verify" -> "verified"
           [] phase = "promote" -> "promoted"
           [] phase = "release" -> "released"
           [] OTHER -> "none"

\* #action: the intent is saved, then the agent is called.
Intent(n, phase, mutation) ==
    [doc EXCEPT !.nodes[n].pendingAction = phase,
                !.nodes[n].possiblyMutated = @ \/ mutation,
                !.mutationOrder = IF mutation /\ ~Occurs(n, @) THEN Append(@, n) ELSE @]

Context(n, phase, reservationOnly) ==
    [phase |-> phase, generation |-> doc.generation,
     restored |-> phase \in {"canary", "release"} /\ "rollback" \in doc.nodes[n].receipts,
     reservationOnly |-> reservationOnly]

\* Mutant of Issue: the agent is called before the intent is saved.
IssueUnsaved(n, phase, mutation, reservationOnly) ==
    /\ doc' = Intent(n, phase, mutation)
    /\ request' = [request EXCEPT ![n] = Context(n, phase, reservationOnly)]
    /\ UNCHANGED <<saved, journal, host, locked, inv, answer, faults>>

Issue(n, phase, mutation, reservationOnly) ==
    /\ doc' = Intent(n, phase, mutation)
    /\ Saved(doc')
    /\ request' = [request EXCEPT ![n] = Context(n, phase, reservationOnly)]
    /\ UNCHANGED <<journal, host, locked, inv, answer, faults>>

CallForward ==
    /\ InForward
    /\ DueNodes # <<>>
    /\ LET n == Head(DueNodes) IN
       /\ Issue(n, Due(n), Due(n) \notin ReadOnly, FALSE)
       /\ run' = [run EXCEPT !.call = n, !.phase = Due(n)]

IntentFailsForward ==
    /\ InForward
    /\ DueNodes # <<>>
    /\ LET n == Head(DueNodes) IN
       doc' = Intent(n, Due(n), Due(n) \notin ReadOnly)
    /\ SaveFails(doc')
    /\ run' = [run EXCEPT !.mode = "abort"]
    /\ UNCHANGED <<journal, host, locked, inv, request, answer>>

NextPass ==
    /\ InForward
    /\ DueNodes = <<>>
    /\ BarrierHolds
    /\ run.pass < Len(ForwardPasses)
    /\ run' = [run EXCEPT !.pass = @ + 1]
    /\ UNCHANGED <<agentVars, doc, saved>>

BarrierFails ==
    /\ InForward
    /\ DueNodes = <<>>
    /\ ~BarrierHolds
    /\ run' = [run EXCEPT !.mode = "abort"]
    /\ UNCHANGED <<agentVars, doc, saved>>

Finished == InForward /\ run.pass = Len(ForwardPasses) /\ DueNodes = <<>> /\ BarrierHolds

Finish ==
    /\ Finished
    /\ Saved([doc EXCEPT !.operationState = "completed"])
    /\ doc' = NoDoc
    /\ run' = Down
    /\ UNCHANGED agentVars

\* The last write of a finished operation fails: the operation turns back.
CompletionFails ==
    /\ Finished
    /\ doc' = [doc EXCEPT !.operationState = "completed"]
    /\ SaveFails(doc')
    /\ run' = [run EXCEPT !.mode = "abort"]
    /\ UNCHANGED <<journal, host, locked, inv, request, answer>>

-----------------------------------------------------------------------------
(* What comes back from the called node.                                   *)
WithAnswer(n, phase) ==
    LET nd == doc.nodes[n]
        next == NextState(phase, run.mode) IN
    [doc EXCEPT !.nodes[n] = [nd EXCEPT !.receipts = @ \cup {phase},
                                        !.pendingAction = "none",
                                        !.state = IF next = "none" THEN @ ELSE next]]

WithState(n, state) == [doc EXCEPT !.nodes[n].state = state]

\* What the running pass does after a failure: forward it turns back, on the
\* way back the failure is recorded and the pass goes on.
AfterFailure ==
    IF run.mode = "forward" THEN [run EXCEPT !.mode = "abort", !.call = "none", !.phase = "none"]
    ELSE [run EXCEPT !.call = "none", !.phase = "none", !.failed = TRUE]

Consume(n) == answer' = [answer EXCEPT ![n] = "none"]

ReceiptSaved ==
    /\ run.call # "none"
    /\ answer[run.call] = "ok"
    /\ doc' = WithAnswer(run.call, run.phase)
    /\ Saved(doc')
    /\ run' = [run EXCEPT !.call = "none", !.phase = "none"]
    /\ Consume(run.call)
    /\ UNCHANGED <<journal, host, locked, inv, request, faults>>

\* The receipt is kept in memory; the write that fails ends the action.
ReceiptFails ==
    /\ run.call # "none"
    /\ answer[run.call] = "ok"
    /\ LET d == WithAnswer(run.call, run.phase) IN
       /\ SaveFails(d)
       /\ doc' = IF run.mode = "back"
                 THEN [d EXCEPT !.nodes[run.call].state = "rollback-failed"] ELSE d
    /\ run' = AfterFailure
    /\ Consume(run.call)
    /\ UNCHANGED <<journal, host, locked, inv, request>>

\* The node is unknown on disk; recordFailure marks it in memory only.
CallFailed ==
    /\ run.call # "none"
    /\ answer[run.call] \notin {"none", "ok"}
    /\ SavedOrNot(WithState(run.call, "unknown"))
    /\ doc' = WithState(run.call, IF run.mode = "back" THEN "rollback-failed" ELSE "unknown")
    /\ run' = AfterFailure
    /\ Consume(run.call)
    /\ UNCHANGED <<journal, host, locked, inv, request>>

\* The transport gives up: the connection is lost or its deadline passes.
CallTimesOut ==
    LET n == run.call IN
    /\ n # "none"
    /\ answer[n] \in {"none", "ok"}
    /\ Fault
    /\ request' = [request EXCEPT ![n] = NoRequest]
    /\ inv' = [inv EXCEPT ![n].attached = FALSE]
    /\ answer' = [answer EXCEPT ![n] = "failed"]
    /\ UNCHANGED <<journal, host, locked, doc, saved, run>>

-----------------------------------------------------------------------------
(* finishRollback.                                                         *)
Beyond == Forward \cup {"rollback"}

ReservationOnly(nd) == ~nd.possiblyMutated /\ nd.state = "preflight"

OnlyStageCleanup(nd) ==
    /\ nd.state = "rolled-back"
    /\ "discard-stage" \in nd.receipts
    /\ nd.receipts \cap Beyond = {}

PreparedOrBeyond(nd) ==
    \/ nd.receipts \cap Beyond # {}
    \/ nd.state \in {"prepared", "mutating", "active", "verified", "promoted", "released",
                     "rolled-back", "rollback-failed"}
    \/ nd.pendingAction \in Beyond \cup {"reprepare"}

\* Mutant of Treatment: a released node is left as it is.
TreatmentButReleased(nd) ==
    IF ReservationOnly(nd) THEN "reserve"
    ELSE IF nd.state = "released" THEN "untouched"
    ELSE IF PreparedOrBeyond(nd) THEN "restore"
    ELSE "discard"

Treatment(nd) ==
    IF ReservationOnly(nd) THEN "reserve"
    ELSE IF OnlyStageCleanup(nd) THEN "clean"
    ELSE IF PreparedOrBeyond(nd) THEN "restore"
    ELSE IF "stage" \in nd.receipts \/ nd.pendingAction = "stage" \/ nd.state = "unknown"
         THEN "discard"
    ELSE "untouched"

Classified(d) ==
    [d EXCEPT !.operationState = "rollback-required",
              !.nodes = [n \in Nodes |->
                 CASE Treatment(d.nodes[n]) = "clean" ->
                          [d.nodes[n] EXCEPT !.possiblyMutated = FALSE]
                   [] Treatment(d.nodes[n]) = "untouched" ->
                          [d.nodes[n] EXCEPT !.possiblyMutated = FALSE, !.state = "rolled-back"]
                   [] OTHER -> d.nodes[n]]]

RollbackOrder(d) ==
    Backwards(d.mutationOrder) \o Kept(Order, {n \in Nodes : ~Occurs(n, d.mutationOrder)})

Treated(d, treatment) ==
    Kept(RollbackOrder(d), {n \in Nodes : Treatment(d.nodes[n]) = treatment})

TurnBack ==
    /\ run.mode = "abort"
    /\ doc' = Classified(doc)
    /\ SavedOrNot(doc')
    /\ run' = [Down EXCEPT !.mode = "back", !.pass = 1,
                           !.todo = Treated(doc, "reserve"),
                           !.restore = Treated(doc, "restore"),
                           !.discard = Treated(doc, "discard")]
    /\ UNCHANGED <<journal, host, locked, inv, request, answer>>

BackPhase ==
    LET pass == BackPasses[run.pass] IN
    CASE pass \in {"reserve", "discard", "tidy"} -> "discard-stage"
      [] pass = "fence" -> "reprepare"
      [] pass = "restore" -> "rollback"
      [] pass = "canary" -> "canary"
      [] pass = "open" -> "release"

BackMutates == BackPasses[run.pass] \notin {"reserve", "canary"}

CallBack ==
    /\ InBack
    /\ run.todo # <<>>
    /\ LET n == Head(run.todo) IN
       /\ Issue(n, BackPhase, BackMutates, BackPasses[run.pass] = "reserve")
       /\ run' = [run EXCEPT !.call = n, !.phase = BackPhase, !.todo = Tail(@)]

IntentFailsBack ==
    /\ InBack
    /\ run.todo # <<>>
    /\ LET n == Head(run.todo) IN
       /\ SaveFails(Intent(n, BackPhase, BackMutates))
       /\ doc' = [Intent(n, BackPhase, BackMutates) EXCEPT
                     !.nodes[n].state = "rollback-failed"]
    /\ run' = [run EXCEPT !.todo = Tail(@), !.failed = TRUE]
    /\ UNCHANGED <<journal, host, locked, inv, request, answer>>

\* Mutant of Todo: a node that serves the public again is not fenced again.
TodoUnfenced(pass) ==
    LET restored == {n \in Nodes : doc.nodes[n].state = "rolled-back"}
        staged == {n \in Nodes : "stage" \in doc.nodes[n].receipts} IN
    CASE pass = "fence" -> Kept(run.restore, {n \in Nodes : "release" \notin doc.nodes[n].receipts})
      [] pass = "restore" -> Kept(run.restore, Nodes \ restored)
      [] pass = "discard" -> run.discard
      [] pass = "canary" -> Kept(run.restore, {Leader} \cap restored)
      [] pass = "open" -> Kept(run.restore, restored)
      [] pass = "tidy" -> Kept(run.restore, restored \cap staged)

\* The nodes a pass visits; only its own call changes a node's state meanwhile.
Todo(pass) ==
    LET restored == {n \in Nodes : doc.nodes[n].state = "rolled-back"}
        staged == {n \in Nodes : "stage" \in doc.nodes[n].receipts} IN
    CASE pass = "fence" -> run.restore
      [] pass = "restore" -> Kept(run.restore, Nodes \ restored)
      [] pass = "discard" -> run.discard
      [] pass = "canary" -> Kept(run.restore, {Leader} \cap restored)
      [] pass = "open" -> Kept(run.restore, restored)
      [] pass = "tidy" -> Kept(run.restore, restored \cap staged)

\* Mutant of NextPassBack: the passes go on whatever has failed.
NextPassBackAlways ==
    /\ InBack
    /\ run.todo = <<>>
    /\ run.pass < Len(BackPasses)
    /\ run' = [run EXCEPT !.pass = @ + 1, !.todo = Todo(BackPasses[run.pass + 1])]
    /\ UNCHANGED <<agentVars, doc, saved>>

\* No pass after the fleet's fence barrier starts once a node has failed.
NextPassBack ==
    /\ InBack
    /\ run.todo = <<>>
    /\ run.pass < Len(BackPasses)
    /\ BackPasses[run.pass] = "reserve" \/ ~run.failed
    /\ run' = [run EXCEPT !.pass = @ + 1, !.todo = Todo(BackPasses[run.pass + 1])]
    /\ UNCHANGED <<agentVars, doc, saved>>

\* Mutant of EndBack: an attempted rollback is reported as a rollback.
EndBackBlindly ==
    /\ InBack
    /\ run.todo = <<>>
    /\ BackPasses[run.pass] # "reserve"
    /\ run.pass = Len(BackPasses) \/ run.failed
    /\ doc' = NoDoc
    /\ SavedOrNot([doc EXCEPT !.operationState = "rolled-back"])
    /\ run' = Down
    /\ UNCHANGED <<journal, host, locked, inv, request, answer>>

EndBack ==
    /\ InBack
    /\ run.todo = <<>>
    /\ BackPasses[run.pass] # "reserve"
    /\ run.pass = Len(BackPasses) \/ run.failed
    /\ doc' = NoDoc
    /\ SavedOrNot([doc EXCEPT !.operationState =
                        IF run.failed THEN "rollback-failed" ELSE "rolled-back"])
    /\ run' = Down
    /\ UNCHANGED <<journal, host, locked, inv, request, answer>>

-----------------------------------------------------------------------------
(* Operators start the coordinator; a crash ends it.                       *)
Deploy ==
    /\ run.mode = "down"
    /\ saved = NoDoc
    /\ doc' = [NoDoc EXCEPT !.generation = 1, !.operationState = "running"]
    /\ Saved(doc')
    /\ run' = [Down EXCEPT !.mode = "recover"]
    /\ UNCHANGED agentVars

MayStart ==
    /\ run.mode = "down"
    /\ saved.operationState \in {"running", "rollback-required", "rollback-failed"}
    /\ saved.generation < AgentGenerations

Resume ==
    /\ MayStart
    /\ doc' = [saved EXCEPT !.generation = @ + 1]
    /\ Saved(doc')
    /\ run' = [Down EXCEPT !.mode = IF saved.operationState = "running" THEN "recover"
                                   ELSE "abort"]
    /\ UNCHANGED agentVars

Pending == {n \in Nodes : doc.nodes[n].pendingAction # "none"}

\* recoverPending: an intent without a receipt makes its node unknown and turns
\* the operation back, whether or not that can be saved.
Recovered ==
    [doc EXCEPT !.operationState = "rollback-required",
                !.nodes = [n \in Nodes |->
                   IF n \in Pending
                   THEN [doc.nodes[n] EXCEPT !.state = "unknown", !.possiblyMutated = TRUE]
                   ELSE doc.nodes[n]]]

RecoverPending ==
    /\ run.mode = "recover"
    /\ Pending # {}
    /\ doc' = Recovered
    /\ SavedOrNot(doc')
    /\ run' = [run EXCEPT !.mode = "abort"]
    /\ UNCHANGED <<journal, host, locked, inv, request, answer>>

NothingPending ==
    /\ run.mode = "recover"
    /\ Pending = {}
    /\ run' = [run EXCEPT !.mode = "forward", !.pass = 1]
    /\ UNCHANGED <<agentVars, doc, saved>>

Rollback ==
    /\ MayStart
    /\ doc' = [saved EXCEPT !.generation = @ + 1, !.operationState = "rollback-required"]
    /\ Saved(doc')
    /\ run' = [Down EXCEPT !.mode = "abort"]
    /\ UNCHANGED agentVars

\* The process dies; a call on its way is not delivered any more.
Crash ==
    /\ run.mode # "down"
    /\ Fault
    /\ doc' = NoDoc
    /\ run' = Down
    /\ request' = [n \in Nodes |-> NoRequest]
    /\ inv' = [n \in Nodes |-> [inv[n] EXCEPT !.attached = FALSE]]
    /\ answer' = [n \in Nodes |-> "none"]
    /\ UNCHANGED <<journal, host, locked, saved>>

CoordinatorStep ==
    \/ RecoverPending \/ NothingPending
    \/ CallForward \/ NextPass \/ BarrierFails \/ Finish
    \/ ReceiptSaved \/ CallFailed
    \/ TurnBack \/ CallBack \/ NextPassBack \/ EndBack

WriteFails == IntentFailsForward \/ CompletionFails \/ ReceiptFails \/ IntentFailsBack

Next ==
    \/ Deploy \/ Resume \/ Rollback
    \/ CoordinatorStep \/ WriteFails \/ CallTimesOut \/ Crash
    \/ AgentNext /\ UNCHANGED coordinatorVars

Spec == Init /\ [][Next]_vars

\* The coordinator is one process that goes on when its call is answered; an
\* agent's phase goes on, fails a check or ends; a gateway drains and opens.
FairSpec ==
    /\ Spec
    /\ WF_vars(CoordinatorStep)
    /\ \A n \in Nodes : /\ WF_vars(AgentStep(n) /\ UNCHANGED coordinatorVars)
                        /\ WF_vars(GatewayStep(n) /\ UNCHANGED coordinatorVars)

-----------------------------------------------------------------------------
(* Properties.                                                             *)
\* Gateways that serve the public all run the same release, and what each one
\* runs is what its pointer and its manifest name: whatever was lost, timed out
\* or crashed, clients never see two releases of the fleet side by side.
ServesOneRelease ==
    \A n, m \in Nodes :
        (host[n].fence = "open" /\ host[m].fence = "open") => OnRelease(host[n], host[m].loaded)

\* A release pointer moves to the new release only while the gateways of the
\* whole fleet are fenced and drained.  When one moves back, a node that is
\* still open has never left the old release.
SwapsBehindFleetFence ==
    [][\A n \in Nodes :
          Bytes(host'[n]) # Bytes(host[n]) =>
             \A m \in Nodes : IF Bytes(host'[n]) = "new" THEN Prepared(host[m])
                             ELSE host[m].fence = "open" => OnRelease(host[m], "old")]_vars

\* A gateway opens only when every node of the fleet is on the release that it
\* opens on: promotion ends everywhere before any public release, and no
\* compensating release happens before every restore.
OpensOnOneRelease ==
    [][\A n \in Nodes :
          (host[n].fence # "open" /\ host'[n].fence = "open") =>
             \A m \in Nodes : OnRelease(host'[m], host[n].loaded)]_vars

\* What the journal says of a finished operation is true of every node:
\* completed means an open, free fleet on the new release, rolled-back means a
\* fleet on the old one.
FinishedIsUniform ==
    /\ saved.operationState = "completed" =>
          \A n \in Nodes : OnRelease(host[n], "new") /\ host[n].fence = "open" /\ ~locked[n]
    /\ saved.operationState = "rolled-back" => \A n \in Nodes : OnRelease(host[n], "old")

\* When an operation is finished no phase of it is still running on a node: a
\* phase that outlived its caller has been waited for or refused.  (A node whose
\* file keeps a pending action through a rolled-back operation was passed over.)
FinishedIsQuiet ==
    saved.operationState \in {"completed", "rolled-back"} =>
        \A n \in Nodes : saved.nodes[n].pendingAction = "none" => ~Invoked(n)

\* A node whose pointer names the new release, or whose gateway a prepare has
\* closed, is one that the coordinator's file says may have been changed, so that
\* whoever resumes knows.  (A pointer back on the old bytes, or a fence closed by
\* the compensating pass, can be forgotten: RolledBackIsServing.)
TouchedIsRecorded ==
    \A n \in Nodes :
        \/ host[n].pointer = "new"
        \/ host[n].fence # "open" /\ ~Has(journal[n], {"reprepare"})
        => saved.nodes[n].possiblyMutated

\* An operation reported as rolled back has given every gateway back to the
\* public: docs/cluster-deployment-protocol.md promises that a rollback that
\* failed or needs an operator is never represented as a success.
RolledBackIsServing ==
    saved.operationState = "rolled-back" => \A n \in Nodes : host[n].fence = "open"

\* The agent treats a compensating fence, rollback or canary of the current
\* coordinator as a new observation: it is never refused because an earlier
\* coordinator has already made it.
RecoveryIsNotStale ==
    \A n \in Nodes :
        (run.call = n /\ run.mode = "back" /\ run.phase \in Renewed) =>
            answer[n] # "stale_generation"

\* A node whose rollback the agent has affirmed, and which is fenced on the old
\* release, passes the checks of its compensating release: an operation whose
\* prepare failed can be rolled back.
RestoredIsReleasable ==
    \A n \in Nodes :
        (/\ Phase(n) = "release" /\ inv[n].at = "begin"
         /\ Has(journal[n], {"rollback"})
         /\ OnRelease(host[n], "old") /\ Prepared(host[n])) => Check(n)

\* A coordinator that runs comes to an end, finished, failed or crashed: no
\* failure leaves it waiting for a node, or the nodes for one another.
RunSettles == (run.mode # "down") ~> (run.mode = "down")
=============================================================================
