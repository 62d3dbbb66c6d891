----------------------- MODULE ClusterDeploymentProofs -----------------------
(***************************************************************************)
(* The safety of a deployment for any fleet, any number of coordinator     *)
(* generations and any number of faults.                                   *)
(*                                                                         *)
(* The coordinator decides by its document and acts through calls that     *)
(* may outlive it, so ClusterInv relates four places that are never        *)
(* changed together.  DocInv: what a record says of its node, and that a   *)
(* phase which runs on the node, or is on its way to it, has its intent    *)
(* in the file.  CallInv and GenerationInv: an affirmation that reaches    *)
(* the coordinator is that of its own call, since no node has a receipt    *)
(* of its generation that its document lacks (Fresh).  ForwardInv and      *)
(* BackInv: what the barriers before a pass leave of the whole fleet.      *)
(* FleetInv, which they imply for each new call: while a phase that a dead *)
(* coordinator has left behind still runs, no other node does what is      *)
(* incompatible with it.                                                   *)
(*                                                                         *)
(* A turn of an agent is described once by its effects (HostEffect,        *)
(* CallEffect, AnswerEffect); the invariant is kept by anything that has   *)
(* these effects (Moved), and by each step of the coordinator.             *)
(***************************************************************************)
EXTENDS ClusterDeployment, NodeAgentProofs, SubsequencesProofs

\* Phases that change what the node serves, or whether it does.
Acting == {"prepare", "swap", "restart", "release", "reprepare", "rollback"}

\* The phases that run on the node, or are on their way to it.
Doing(n) == {Phase(n), request[n].phase} \ {"none"}

\* Phases whose intent makes a node one that has to be restored.
Restoring == Beyond \cup {"reprepare"}

\* The document knows of no prepare of the node, or of anything after it.
Unprepared(nd) == nd.receipts \cap Beyond = {}

\* What the record of a node says about itself.
RecordInv(nd) ==
    /\ nd.state \in {"preflight", "staged"} => Unprepared(nd)
    /\ nd.state \in {"prepared", "mutating", "active", "verified", "promoted", "released"} =>
         ~Unprepared(nd)
    /\ nd.state \in {"prepared", "mutating", "active", "verified", "promoted"} =>
         "release" \notin nd.receipts
    /\ ~Unprepared(nd) => nd.possiblyMutated
    /\ nd.pendingAction \in Restoring => nd.possiblyMutated /\ ~OnlyStageCleanup(nd)

\* What it says about the node.
WorldInv(nd, h, j, doing) ==
    /\ doing # {} => nd.pendingAction # "none"
    /\ doing \cap Acting # {} => nd.pendingAction \in Restoring
    /\ Unprepared(nd) =>
         /\ OnRelease(h, "old") /\ h.fence # "releasing"
         /\ doing \cap {"swap", "restart", "release"} = {}
    /\ h.fence # "open" =>
         Has(j, {"reprepare"}) \/ ~Unprepared(nd) \/ nd.pendingAction \in Restoring

\* A document is true of every node, whether it is the one in memory or on disk.
DocInv(d) ==
    /\ IsInjective(d.mutationOrder)
    /\ \A n \in Nodes : /\ RecordInv(d.nodes[n])
                        /\ WorldInv(d.nodes[n], host[n], journal[n], Doing(n))

\* A crash leaves the document in the file, so both are true of the nodes.
DocsInv == DocInv(saved) /\ (run.mode # "down" => DocInv(doc))

\* What an affirmed phase has left behind, until its answer is consumed.
OkInv(n) ==
    LET h == host[n]
        p == run.phase IN
    /\ Doing(n) = {}
    /\ p = "prepare" => OnRelease(h, "old") /\ h.fence = "prepared"
    /\ p = "swap" => Disk(h) = "new"
    /\ p = "restart" => OnRelease(h, "new")
    /\ p = "reprepare" => h.fence = "prepared" /\ Has(journal[n], {"reprepare"})
    /\ p = "rollback" => OnRelease(h, "old")
    /\ p = "release" /\ run.mode = "forward" => h.fence = "open" /\ ~locked[n]

\* Only the called node has a request, a waiting agent or an answer, and they are
\* of the phase that its record names as pending.
CallInv ==
    /\ run.mode \notin {"forward", "back"} => run.call = "none"
    /\ \A n \in Nodes :
         /\ n # run.call => request[n].phase = "none" /\ ~inv[n].attached /\ answer[n] = "none"
         /\ n = run.call =>
              /\ run.phase # "none" /\ doc.nodes[n].pendingAction = run.phase
              /\ request[n].phase # "none" =>
                   /\ request[n].phase = run.phase /\ request[n].generation = doc.generation
                   /\ answer[n] = "none" /\ ~inv[n].attached
              /\ inv[n].attached =>
                   /\ Phase(n) = run.phase /\ Invoked(n) /\ answer[n] = "none"
              /\ answer[n] = "ok" => OkInv(n)

\* No node has seen a generation that the file does not name.
GenerationInv ==
    /\ run.mode # "down" => doc.generation = saved.generation /\ doc.generation # 0
    /\ \A n \in Nodes :
         /\ journal[n].generation <= saved.generation
         /\ \A p \in Phases : journal[n].receipts[p] <= saved.generation
         /\ Invoked(n) => inv[n].request.generation \in 1..saved.generation

\* No receipt of the phase, nor a running one, is the current coordinator's.
Fresh(n, p) ==
    /\ journal[n].receipts[p] # doc.generation
    /\ ~(Phase(n) = p /\ inv[n].request.generation = doc.generation)

\* The states that the records can have in a forward pass.
StatesIn(pass) ==
    CASE pass = 3 -> {"staged", "prepared"}
      [] pass = 4 -> {"prepared", "mutating", "active"}
      [] pass = 5 -> {"active", "verified"}
      [] pass = 6 -> {"verified"}
      [] pass = 7 -> {"verified", "promoted"}
      [] pass = 8 -> {"promoted", "released"}
      [] OTHER -> NodeStates

\* A forward pass finds the fleet as the barriers before it left it, and no node
\* holds a receipt of this generation that its record lacks.
ForwardInv ==
    run.mode = "forward" =>
        /\ doc.operationState = "running"
        /\ run.pass \in 1..Len(ForwardPasses)
        /\ run.call # "none" => run.phase = Due(run.call)
        /\ \A n \in Nodes :
             LET nd == doc.nodes[n]
                 h == host[n] IN
             /\ n # run.call => nd.pendingAction = "none"
             /\ Doing(n) \subseteq {run.phase}
             /\ request[n].phase # "none" => ~Invoked(n)
             /\ \A p \in {"prepare", "swap", "restart", "release"} :
                  ~Fresh(n, p) => \/ p \in nd.receipts
                                  \/ n = run.call /\ p = run.phase /\ request[n].phase = "none"
             /\ nd.state \in StatesIn(run.pass)
             /\ run.pass = 3 /\ nd.state = "prepared" => OnRelease(h, "old") /\ h.fence = "prepared"
             /\ run.pass \in {3, 4} /\ nd.state = "prepared" =>
                  nd.receipts \cap {"swap", "restart"} = {}
             /\ run.pass = 4 /\ nd.state = "mutating" =>
                  Disk(h) = "new" /\ "swap" \in nd.receipts /\ "restart" \notin nd.receipts
             /\ run.pass \in 4..7 => h.fence = "prepared"
             /\ run.pass >= 4 /\ nd.state \in {"active", "verified", "promoted", "released"} =>
                  OnRelease(h, "new")
             /\ run.pass = 8 /\ nd.state = "released" => h.fence = "open" /\ ~locked[n]

\* A coordinator that starts has a generation that no node has a receipt of; on
\* the way forward it has called no rollback.
StartInv ==
    /\ run.mode = "recover" =>
         /\ doc.operationState = "running"
         /\ \A n \in Nodes, p \in Phases : Fresh(n, p)
    /\ run.mode = "abort" => \A n \in Nodes : Fresh(n, "rollback")
    /\ run.mode = "forward" => \A n \in Nodes : Fresh(n, "rollback")

\* The node is one to restore, and one that the pass has yet to visit.
InRestore(n) == n \in Range(run.restore)
InTodo(n) == n \in Range(run.todo)

\* The passes back: what the lists hold, and what each pass leaves of the nodes it
\* has visited, as long as no node has failed.
BackInv ==
    run.mode = "back" =>
        /\ doc.operationState = "rollback-required"
        /\ run.pass \in 1..Len(BackPasses)
        /\ IsInjective(run.todo) /\ IsInjective(run.restore) /\ IsInjective(run.discard)
        /\ run.call # "none" => run.phase = BackPhase /\ ~InTodo(run.call)
        /\ \A n \in Nodes : InTodo(n) \/ n = run.call =>
             (InRestore(n) <=> run.pass \notin {1, 4})
        /\ \A n \in Range(run.discard) : ~InRestore(n)
        /\ \A n \in Nodes :
             LET nd == doc.nodes[n]
                 h == host[n] IN
             /\ ~InRestore(n) => Unprepared(nd) /\ nd.pendingAction \notin Restoring
             /\ run.pass = 1 /\ InRestore(n) => ~OnlyStageCleanup(nd)
             /\ run.pass = 2 /\ InTodo(n) => ~OnlyStageCleanup(nd)
             /\ run.pass <= 2 => Fresh(n, "rollback")
             /\ run.pass = 2 /\ ~run.failed /\ InRestore(n) /\ ~InTodo(n) /\ n # run.call =>
                  /\ nd.pendingAction = "none" /\ nd.state = "rollback-required"
                  /\ h.fence = "prepared"
             /\ run.pass = 3 /\ InRestore(n) =>
                  /\ h.fence = "prepared" /\ Doing(n) \subseteq {"rollback"}
                  /\ InTodo(n) => nd.pendingAction = "none" /\ nd.state # "rolled-back"
                  /\ InTodo(n) \/ (n = run.call /\ request[n].phase # "none") =>
                       Fresh(n, "rollback") /\ ~Invoked(n)
                  /\ ~run.failed /\ ~InTodo(n) /\ n # run.call =>
                       /\ nd.pendingAction = "none" /\ nd.state = "rolled-back"
                       /\ "rollback" \in nd.receipts /\ OnRelease(h, "old")
             /\ run.pass >= 4 =>
                  /\ OnRelease(h, "old")
                  /\ InRestore(n) => "rollback" \in nd.receipts
                  /\ Doing(n) \cap (Acting \ {"release"}) = {}
                  /\ run.pass # 6 \/ (n # run.call /\ ~run.failed) => "release" \notin Doing(n)

\* The whole fleet is on one release.
Uniform == \E release \in {"old", "new"} : \A m \in Nodes : OnRelease(host[m], release)

\* Where one node is being swapped, restored or released the others stand still.
FleetInv ==
    /\ \A n, m \in Nodes :
         /\ "swap" \in Doing(n) =>
              host[m].fence = "prepared" /\ Doing(m) \cap {"release", "rollback"} = {}
         /\ "rollback" \in Doing(n) =>
              /\ Doing(m) \cap {"swap", "release"} = {}
              /\ \/ host[m].fence = "prepared"
                 \/ OnRelease(host[m], "old") /\ host[m].fence # "releasing"
    /\ \A n \in Nodes : "release" \in Doing(n) \/ host[n].fence = "releasing" => Uniform
    /\ ServesOneRelease

\* The end of an operation is true of every node, and nothing still acts.
EndInv ==
    /\ saved.operationState = "completed" =>
         \A n \in Nodes : /\ OnRelease(host[n], "new") /\ host[n].fence = "open" /\ ~locked[n]
                          /\ Doing(n) = {}
    /\ saved.operationState = "rolled-back" =>
         \A n \in Nodes : OnRelease(host[n], "old") /\ Doing(n) \cap Acting = {}

\* The inductive invariant.
ClusterInv ==
    /\ TypeOK /\ (\A n \in Nodes : NodeInv(n))
    /\ DocsInv /\ CallInv /\ GenerationInv /\ StartInv /\ ForwardInv /\ BackInv
    /\ FleetInv /\ EndInv
-----------------------------------------------------------------------------
(* What a turn of a node may do.                                           *)

\* A step of the agent or of the gateway of a node.
AgentTurn(n) == AgentStep(n) \/ Die(n) \/ GatewayStep(n) \/ GatewayRestarts(n)

\* To the node.
HostEffect(n) ==
    LET h == host[n]
        g == host'[n] IN
    /\ \/ g.fence = h.fence
       \/ /\ h.fence = "open" /\ g.fence = "draining"
          /\ Doing(n) \cap {"prepare", "reprepare", "rollback"} # {}
       \/ g.fence = "releasing" /\ "release" \in Doing(n)
       \/ h.fence = "draining" /\ g.fence = "prepared"
       \/ h.fence = "releasing" /\ g.fence \in {"prepared", "open"}
    /\ \A release \in {"old", "new"} :
          OnRelease(h, release) =>
             \/ OnRelease(g, release)
             \/ "swap" \in Doing(n)
             \/ "rollback" \in Doing(n) /\ release = "new"
    /\ Disk(h) = "new" => Disk(g) = "new" \/ "rollback" \in Doing(n)
    /\ Bytes(g) # Bytes(h) =>
          IF Bytes(g) = "new" THEN "swap" \in Doing(n) ELSE "rollback" \in Doing(n)
    /\ h.fence = "open" /\ g.fence = "open" => g.loaded = h.loaded

\* A step of a phase changes its node as the phase may.
LEMMA HostTurn ==
    ASSUME AgentTypeOK, NEW n \in Nodes, NodeInv(n),
           \/ Stage(n) \/ DiscardStage(n) \/ RequestFence(n) \/ SwapPointer(n)
           \/ SwapManifest(n) \/ RestartUnit(n) \/ RepairPair(n) \/ RollbackPointer(n)
           \/ RollbackManifest(n) \/ RequestRelease(n)
    PROVE  HostEffect(n)
<1> DEFINE h == host[n]
<1>0. h \in Host
  BY DEF AgentTypeOK
<1>1. CASE Stage(n)
  <2>1. host'[n] = [h EXCEPT !.staged = TRUE]
    BY <1>1 DEF Stage, StepOnHost, AgentTypeOK
  <2> QED BY <1>0, <2>1 DEF HostEffect, OnRelease, Disk, Bytes, Host
<1>2. CASE DiscardStage(n)
  <2>1. host'[n] = [h EXCEPT !.staged = @ /\ inv[n].request.reservationOnly]
    BY <1>2 DEF DiscardStage, StepOnHost, AgentTypeOK
  <2> QED BY <1>0, <2>1 DEF HostEffect, OnRelease, Disk, Bytes, Host
<1>3. CASE RequestFence(n)
  <2>1. host'[n] = [h EXCEPT !.fence = IF @ = "open" THEN "draining" ELSE @]
    BY <1>3 DEF RequestFence, StepOnHost, AgentTypeOK
  <2>2. Doing(n) \cap {"prepare", "reprepare", "rollback"} # {}
    BY <1>3 DEF RequestFence, At, Doing
  <2> QED BY <1>0, <2>1, <2>2 DEF HostEffect, OnRelease, Disk, Bytes, Host
<1>4. CASE SwapPointer(n)
  <2>1. host'[n] = [h EXCEPT !.pointer = "new"]
    BY <1>4 DEF SwapPointer, StepOnHost, AgentTypeOK
  <2>2. "swap" \in Doing(n) /\ Prepared(h) /\ h.pointer = "old" /\ Disk(h) = "old"
    BY <1>4 DEF SwapPointer, At, Check, Doing
  <2> QED BY <1>0, <2>1, <2>2 DEF HostEffect, OnRelease, Disk, Bytes, Host, Prepared
<1>5. CASE SwapManifest(n)
  <2>1. host'[n] = [h EXCEPT !.manifest = "new"]
    BY <1>5 DEF SwapManifest, StepOnHost, AgentTypeOK
  <2>2. "swap" \in Doing(n) /\ h.fence = "prepared" /\ h.pointer = "new"
    BY <1>5 DEF SwapManifest, At, Doing, NodeInv, PhaseInv, Stands
  <2> QED BY <1>0, <2>1, <2>2 DEF HostEffect, OnRelease, Disk, Bytes, Host
<1>6. CASE RestartUnit(n)
  <2>1. host'[n] = [h EXCEPT !.loaded = Bytes(h)]
    BY <1>6 DEF RestartUnit, StepOnHost, AgentTypeOK
  <2>2. h.fence = "open" => OnRelease(h, h.loaded)
    BY DEF NodeInv, WholeInv
  <2> QED BY <1>0, <2>1, <2>2 DEF HostEffect, OnRelease, Disk, Bytes, Host
<1>7. CASE RepairPair(n)
  <2>1. host'[n] = [h EXCEPT !.pointer = IF @ = "new" /\ h.manifest = "old" THEN "old" ELSE @,
                             !.manifest = IF h.pointer = "restored" THEN "old" ELSE @]
    BY <1>7 DEF RepairPair, StepOnHost, AgentTypeOK
  <2>2. "rollback" \in Doing(n) /\ h.fence = "prepared"
    BY <1>7 DEF RepairPair, At, Doing, NodeInv, PhaseInv, Stands, RollingBack
  <2> QED BY <1>0, <2>1, <2>2 DEF HostEffect, OnRelease, Disk, Bytes, Host
<1>8. CASE RollbackPointer(n)
  <2>1. host'[n] = [h EXCEPT !.pointer = "restored"]
    BY <1>8 DEF RollbackPointer, StepOnHost, AgentTypeOK
  <2>2. "rollback" \in Doing(n) /\ h.fence = "prepared"
    BY <1>8 DEF RollbackPointer, At, Doing, NodeInv, PhaseInv, Stands, RollingBack
  <2> QED BY <1>0, <2>1, <2>2 DEF HostEffect, OnRelease, Disk, Bytes, Host
<1>9. CASE RollbackManifest(n)
  <2>1. host'[n] = [h EXCEPT !.manifest = "old"]
    BY <1>9 DEF RollbackManifest, StepOnHost, AgentTypeOK
  <2>2. "rollback" \in Doing(n) /\ h.fence = "prepared"
    BY <1>9 DEF RollbackManifest, At, Doing, NodeInv, PhaseInv, Stands, RollingBack
  <2> QED BY <1>0, <2>1, <2>2 DEF HostEffect, OnRelease, Disk, Bytes, Host
<1>10. CASE RequestRelease(n)
  <2>1. host'[n] = [h EXCEPT !.fence = "releasing"]
    BY <1>10 DEF RequestRelease, StepOnHost, AgentTypeOK
  <2>2. "release" \in Doing(n)
    BY <1>10 DEF RequestRelease, At, Doing
  <2> QED BY <1>0, <2>1, <2>2 DEF HostEffect, OnRelease, Disk, Bytes, Host
<1> QED BY <1>1, <1>2, <1>3, <1>4, <1>5, <1>6, <1>7, <1>8, <1>9, <1>10

\* A gateway drains, opens or restarts as its last request allows.
LEMMA GatewayTurn ==
    ASSUME AgentTypeOK, NEW n \in Nodes, NodeInv(n), GatewayStep(n) \/ GatewayRestarts(n)
    PROVE  HostEffect(n)
<1> DEFINE h == host[n]
<1>0. h \in Host
  BY DEF AgentTypeOK
<1>1. CASE GatewayDrains(n)
  <2>1. host'[n] = [h EXCEPT !.fence = "prepared"] /\ h.fence = "draining"
    BY <1>1 DEF GatewayDrains, AgentTypeOK
  <2> QED BY <1>0, <2>1 DEF HostEffect, OnRelease, Disk, Bytes, Host
<1>2. CASE GatewayOpens(n)
  <2>1. host'[n] = [h EXCEPT !.fence = "open"] /\ h.fence = "releasing"
    BY <1>2 DEF GatewayOpens, AgentTypeOK
  <2> QED BY <1>0, <2>1 DEF HostEffect, OnRelease, Disk, Bytes, Host
<1>3. CASE GatewayRestarts(n)
  <2>1. PICK f \in IF h.fence = "releasing" THEN {"prepared", "open"} ELSE {h.fence} :
             host' = [host EXCEPT ![n] = [h EXCEPT !.loaded = Bytes(h), !.fence = f]]
    BY <1>3 DEF GatewayRestarts
  <2>2. host'[n] = [h EXCEPT !.loaded = Bytes(h), !.fence = f]
    BY <2>1 DEF AgentTypeOK
  <2>3. h.fence = "open" => OnRelease(h, h.loaded)
    BY DEF NodeInv, WholeInv
  <2>4. host'[n].fence = f /\ host'[n].loaded = Bytes(h)
        /\ host'[n].pointer = h.pointer /\ host'[n].manifest = h.manifest
    BY <1>0, <2>2 DEF Host
  <2> QED BY <1>0, <2>1, <2>3, <2>4 DEF HostEffect, OnRelease, Disk, Bytes, Host
<1> QED BY <1>1, <1>2, <1>3 DEF GatewayStep

\* The types and the agent's part of the invariant.
LEMMA TurnKeeps ==
    ASSUME AgentTypeOK, \A m \in Nodes : NodeInv(m), NEW n \in Nodes, AgentTurn(n)
    PROVE  /\ AgentTypeOK' /\ (\A m \in Nodes : NodeInv(m)')
           /\ \A m \in Nodes \ {n} : Untouched(m)
<1>1. AgentTypeOK' /\ NodeInv(n)' /\ \A m \in Nodes \ {n} : Untouched(m)
  BY HostKeeps, JournalKeeps, EndKeeps, CallKeeps, GatewayKeeps DEF AgentTurn, AgentStep, PhaseStep
<1> QED BY <1>1, UntouchedKeeps

\* To the calls and the journal of the node.
CallEffect(n) ==
    LET i == inv[n]
        q == request[n]
        j == journal[n]
        k == journal'[n] IN
    /\ Doing(n)' \subseteq Doing(n)
    /\ Doing(n) = {} => k = j /\ answer'[n] = answer[n] /\ locked'[n] = locked[n]
    /\ answer'[n] # answer[n] => (q.phase # "none" \/ i.attached) /\ request'[n].phase = "none"
    /\ q.phase = "none" => request'[n].phase = "none"
    /\ q.phase # "none" => request'[n] = q \/ request'[n].phase = "none"
    /\ inv'[n].attached =>
         /\ Invoked(n)' /\ answer'[n] = answer[n]
         /\ \/ i.attached /\ Phase(n)' = Phase(n) /\ Invoked(n)
            \/ q.phase # "none" /\ Phase(n)' = q.phase /\ request'[n].phase = "none"
    /\ Invoked(n)' =>
         \/ Invoked(n) /\ inv'[n].request = i.request
         \/ /\ ~Invoked(n) /\ q.phase # "none" /\ inv'[n].request = q
            /\ request'[n].phase = "none"
    /\ k.generation = j.generation \/ (q.phase # "none" /\ k.generation = q.generation)
    /\ \A p \in Phases :
         \/ k.receipts[p] \in {0, j.receipts[p]}
         \/ Invoked(n) /\ Phase(n) = p /\ k.receipts[p] = i.request.generation
    /\ j.receipts["reprepare"] # 0 =>
         \/ k.receipts["reprepare"] = j.receipts["reprepare"]
         \/ "reprepare" \in Doing(n)'
         \/ Invoked(n) /\ k.receipts["reprepare"] = i.request.generation

\* What an answered phase has left behind.
Affirmed(n) ==
    LET g == host'[n]
        p == Phase(n) IN
    /\ Invoked(n) /\ ~Invoked(n)' /\ request'[n].phase = request[n].phase
    /\ p = "prepare" => OnRelease(g, "old") /\ g.fence = "prepared"
    /\ p = "swap" => Disk(g) = "new"
    /\ p = "restart" => g.loaded = "new"
    /\ p = "reprepare" =>
         g.fence = "prepared" /\ journal'[n].receipts["reprepare"] = inv[n].request.generation
    /\ p = "rollback" => OnRelease(g, "old")
    /\ p = "release" => g.fence = "open" /\ ~locked'[n]

\* A phase is affirmed at its end, or answered again.
AnswerEffect(n) ==
    answer'[n] = "ok" /\ answer[n] # "ok" =>
        \/ inv[n].attached /\ Affirmed(n)
        \/ /\ request[n].phase # "none" /\ ~Invoked(n) /\ ~Invoked(n)'
           /\ request'[n].phase = "none"
           /\ Replayed(journal[n], request[n])

\* A call is waited for in one place.
WaitInv(n) == inv[n].attached => Invoked(n) /\ request[n].phase = "none"

\* A call that is refused, replayed or accepted leaves the node alone.
LEMMA CallTurn ==
    ASSUME AgentTypeOK, NEW n \in Nodes, NodeInv(n), WaitInv(n), Refuse(n) \/ Replay(n) \/ Accept(n)
    PROVE  HostEffect(n) /\ CallEffect(n) /\ AnswerEffect(n)
<1> DEFINE j == journal[n]
           q == request[n]
<1>0. /\ j \in Journal /\ q \in Request /\ inv[n] \in Invocation
      /\ NoRequest.phase = "none" /\ (~Invoked(n) => Phase(n) = "none")
      /\ q.phase # "none" /\ ~inv[n].attached
  BY DEF AgentTypeOK, NoRequest, NodeInv, PendingInv, WaitInv, Refuse, Replay, Accept
<1>1. HostEffect(n)
  <2>1. host' = host
    BY DEF Refuse, Replay, Accept
  <2> QED BY <2>1 DEF HostEffect
<1>2. CASE Refuse(n) \/ Replay(n)
  <2>1. UNCHANGED <<journal, host, inv>> /\ request'[n] = NoRequest
    BY <1>2 DEF Refuse, Replay, AgentTypeOK
  <2>3. CallEffect(n)
    BY <1>0, <2>1 DEF CallEffect, Doing, Invoked, Phase
  <2>4. answer'[n] = "ok" => Replay(n)
    BY <1>2 DEF Refuse, Refusal, AgentTypeOK
  <2>5. Replay(n) => ~Invoked(n) /\ Replayed(j, q)
    BY DEF Replay, Refusal
  <2>6. AnswerEffect(n)
    BY <1>0, <2>1, <2>4, <2>5 DEF AnswerEffect, Invoked
  <2> QED BY <1>1, <2>3, <2>6
<1>3. CASE Accept(n)
  <2> DEFINE a == Adopted(j, q)
             mp == a.mutationPossible \/ ~(q.phase \in ReadOnly \/ q.reservationOnly)
             k == [a EXCEPT !.receipts[q.phase] = 0, !.pending = q.phase,
                            !.mutationPossible = @ \/ ~(q.phase \in ReadOnly \/ q.reservationOnly)]
             i == [request |-> q, at |-> "begin", attached |-> TRUE, created |-> ~locked[n]]
  <2>1. /\ Refusal(n, j, q) = "none" /\ q.phase \in Phases
        /\ journal'[n] = k /\ inv'[n] = i /\ request'[n] = NoRequest
        /\ answer' = answer
    BY <1>0, <1>3 DEF Accept, AgentTypeOK, Request
  <2>2. ~Invoked(n)
    BY <2>1 DEF Refusal
  <2>3. /\ a.generation \in {j.generation, q.generation}
        /\ a.receipts \in [Phases -> 0..AgentGenerations]
        /\ \A p \in Phases : a.receipts[p] = j.receipts[p] \/ (a.receipts[p] = 0 /\ p = q.phase)
        /\ a.mutationPossible \in BOOLEAN
    <3>1. CASE j.generation < q.generation
      <4> DEFINE r == [p \in Phases |-> IF p = q.phase /\ p \in Renewed THEN 0 ELSE j.receipts[p]]
      <4>1. r \in [Phases -> 0..AgentGenerations]
            /\ \A p \in Phases : r[p] = j.receipts[p] \/ (r[p] = 0 /\ p = q.phase)
        BY <1>0, AgentAssumption DEF Journal
      <4>2. a = [j EXCEPT !.generation = q.generation, !.receipts = r]
        BY <3>1 DEF Adopted
      <4> HIDE DEF r
      <4> QED BY <1>0, <4>1, <4>2 DEF Journal
    <3>2. CASE ~(j.generation < q.generation)
      <4>1. a = j
        BY <3>2 DEF Adopted
      <4> HIDE DEF a
      <4> QED BY <1>0, <4>1 DEF Journal
    <3> QED BY <3>1, <3>2
  <2>4. a \in Journal
    <3>1. CASE j.generation < q.generation
      <4> DEFINE r == [p \in Phases |-> IF p = q.phase /\ p \in Renewed THEN 0 ELSE j.receipts[p]]
      <4>1. r \in [Phases -> 0..AgentGenerations]
        BY <1>0, AgentAssumption DEF Journal
      <4>2. a = [j EXCEPT !.generation = q.generation, !.receipts = r]
        BY <3>1 DEF Adopted
      <4> HIDE DEF r
      <4> QED BY <1>0, <4>1, <4>2 DEF Journal, Request
    <3>2. CASE ~(j.generation < q.generation)
      BY <1>0, <3>2 DEF Adopted
    <3> QED BY <3>1, <3>2
  <2>5. /\ k.generation = a.generation
        /\ \A p \in Phases : k.receipts[p] = IF p = q.phase THEN 0 ELSE a.receipts[p]
    <3>1. k.generation = a.generation /\ k.receipts = [a.receipts EXCEPT ![q.phase] = 0]
      BY <2>4 DEF Journal
    <3> QED BY <2>3, <3>1
  <2>6. i.request = q /\ i.at = "begin"
    OBVIOUS
  <2> HIDE DEF a, k, i
  <2>7. CallEffect(n)
    <3>1. Phase(n)' = q.phase /\ Invoked(n)' /\ Doing(n)' = {q.phase} /\ Doing(n) = {q.phase}
      BY <1>0, <2>1, <2>2, <2>6 DEF Doing, Invoked, Phase
    <3>2. \A p \in Phases : k.receipts[p] \in {0, j.receipts[p]}
      BY <2>3, <2>5
    <3>3. q.phase # "reprepare" => k.receipts["reprepare"] = j.receipts["reprepare"]
      BY <2>3, <2>5 DEF Phases
    <3> QED BY <1>0, <2>1, <2>2, <2>3, <2>5, <2>6, <3>1, <3>2, <3>3 DEF CallEffect
  <2>8. AnswerEffect(n)
    BY <2>1 DEF AnswerEffect
  <2> QED BY <1>1, <2>7, <2>8
<1> QED BY <1>2, <1>3

\* So do the end of a phase, its failure and the death of its agent.
LEMMA EndTurn ==
    ASSUME AgentTypeOK, NEW n \in Nodes, NodeInv(n), WaitInv(n),
           Complete(n) \/ Unlock(n) \/ Fail(n) \/ Die(n)
    PROVE  HostEffect(n) /\ CallEffect(n) /\ AnswerEffect(n)
<1> DEFINE j == journal[n]
           q == request[n]
           i == inv[n]
           k == WithReceipt(n)
<1>0. /\ j \in Journal /\ q \in Request /\ i \in Invocation /\ host[n] \in Host
      /\ NoInvocation.at = "none" /\ NoInvocation.request.phase = "none" /\ ~NoInvocation.attached
      /\ request' = request /\ host' = host
  BY DEF AgentTypeOK, NoRequest, NoInvocation, Complete, Unlock, Fail, Die
<1>1. HostEffect(n)
  BY <1>0 DEF HostEffect
<1>2. Invoked(n) /\ Phase(n) \in Phases
  <2>1. Invoked(n)
    BY ReceiptHolds DEF Complete, Unlock, Fail, Die, Invoked
  <2> QED BY <2>1 DEF NodeInv, PendingInv
<1>3. Concluded(n) => /\ k \in Journal /\ k.generation = j.generation
                      /\ \A p \in Phases : k.receipts[p] = IF p = Phase(n) THEN i.request.generation
                                                            ELSE j.receipts[p]
  <2>1. Concluded(n) => k \in Journal
    BY ReceiptHolds
  <2>2. k.generation = j.generation
        /\ k.receipts = [j.receipts EXCEPT ![Phase(n)] = i.request.generation]
    BY <1>0 DEF WithReceipt, Journal
  <2>3. j.receipts \in [Phases -> 0..AgentGenerations]
    BY <1>0 DEF Journal
  <2> QED BY <2>1, <2>2, <2>3
<1>4. \E l \in {j} \cup (IF Concluded(n) THEN {k} ELSE {}) :
         journal'[n].generation = l.generation /\ journal'[n].receipts = l.receipts
  <2>1. CASE Complete(n)
    <3>1. journal'[n] = k /\ Concluded(n)
      BY <2>1 DEF Complete, AgentTypeOK
    <3> QED BY <3>1
  <2>2. CASE Unlock(n) \/ Die(n)
    BY <2>2 DEF Unlock, Die
  <2>3. CASE Fail(n)
    <3>1. PICK l \in {j} \cup (IF Concluded(n) THEN {k} ELSE {}) :
             journal' = [journal EXCEPT ![n] = [l EXCEPT !.state = "unknown"]]
      BY <2>3 DEF Fail
    <3>2. l \in Journal
      BY <1>0, <1>3, <3>1
    <3>3. journal'[n] = [l EXCEPT !.state = "unknown"]
      BY <3>1 DEF AgentTypeOK
    <3> QED BY <3>2, <3>3 DEF Journal
  <2> QED BY <2>1, <2>2, <2>3
<1>5. /\ journal'[n].generation = j.generation
      /\ \A p \in Phases : \/ journal'[n].receipts[p] = j.receipts[p]
                           \/ Phase(n) = p /\ journal'[n].receipts[p] = i.request.generation
  BY <1>3, <1>4
<1>6. CASE inv' = [inv EXCEPT ![n] = NoInvocation]
  <2>1. inv'[n] = NoInvocation
    BY <1>6 DEF AgentTypeOK
  <2>3. answer'[n] # answer[n] => i.attached
    BY DEF Complete, Unlock, Fail, Die, Answer, AgentTypeOK
  <2>4. Doing(n)' \subseteq Doing(n) /\ Doing(n) # {} /\ ~Invoked(n)'
    BY <1>0, <1>2, <2>1 DEF Doing, Invoked, Phase, Phases
  <2>5. CallEffect(n)
    BY <1>0, <1>2, <1>5, <2>1, <2>3, <2>4 DEF CallEffect, WaitInv, Phases
  <2>6. ASSUME answer'[n] = "ok", answer[n] # "ok" PROVE i.attached /\ Affirmed(n)
    <3>1. i.attached /\ (Complete(n) \/ Unlock(n))
      BY <2>3, <2>6 DEF Fail, Die, Answer, AgentTypeOK
    <3>2. CASE Complete(n)
      <4>1. Concluded(n) /\ journal'[n] = k
        BY <3>2 DEF Complete, AgentTypeOK
      <4>2. Phase(n) # "release"
        BY <2>6, <3>2 DEF Complete, Unlocking
      <4>3. k.receipts[Phase(n)] = i.request.generation
        BY <1>2, <1>3, <4>1
      <4> QED BY <1>0, <1>2, <2>4, <3>1, <4>1, <4>2, <4>3, ReceiptHolds DEF Affirmed
    <3>3. CASE Unlock(n)
      <4>1. Phase(n) \in {"release", "discard-stage"} /\ ~locked'[n] /\ i.at = "unlock"
        BY <3>3 DEF Unlock, NodeInv, PhaseInv, Unlocking, AgentTypeOK
      <4>2. Phase(n) = "release" => host[n].fence = "open"
        BY <4>1 DEF NodeInv, PhaseInv, Stands
      <4> QED BY <1>0, <1>2, <2>4, <3>1, <4>1, <4>2 DEF Affirmed
    <3> QED BY <3>1, <3>2, <3>3
  <2> QED BY <1>1, <2>5, <2>6 DEF AnswerEffect
<1>7. CASE inv' # [inv EXCEPT ![n] = NoInvocation]
  <2>1. Complete(n) /\ Goto(n, "unlock") /\ UNCHANGED <<answer, locked>>
    BY <1>7 DEF Complete, Unlock, Fail, Die
  <2>2. inv'[n].at = "unlock" /\ inv'[n].request = i.request /\ inv'[n].attached = i.attached
    BY <1>0, <2>1 DEF Goto, AgentTypeOK, Invocation
  <2>3. Doing(n)' = Doing(n) /\ Doing(n) # {} /\ Invoked(n)' /\ Phase(n)' = Phase(n)
    BY <1>0, <1>2, <2>2 DEF Doing, Invoked, Phase, Phases
  <2>4. CallEffect(n)
    BY <1>0, <1>2, <1>5, <2>1, <2>2, <2>3 DEF CallEffect, Phases
  <2>5. AnswerEffect(n)
    BY <2>1 DEF AnswerEffect
  <2> QED BY <1>1, <2>4, <2>5
<1> QED BY <1>6, <1>7

\* A phase in its course: it stays what it is, and nobody hears of it.
LEMMA CourseTurn ==
    ASSUME AgentTypeOK, NEW n \in Nodes, NodeInv(n), WaitInv(n),
           UNCHANGED <<request, answer, locked>>,
           journal'[n].generation = journal[n].generation,
           journal'[n].receipts = journal[n].receipts,
           inv'[n].request = inv[n].request, inv'[n].attached = inv[n].attached,
           Invoked(n)' <=> Invoked(n),
           Doing(n) # {} \/ journal'[n] = journal[n]
    PROVE  CallEffect(n) /\ AnswerEffect(n)
<1>1. journal[n] \in Journal
  BY DEF AgentTypeOK
<1>2. Doing(n)' = Doing(n)
  BY DEF Doing, Phase
<1>3. AnswerEffect(n)
  BY DEF AnswerEffect
<1> QED BY <1>1, <1>2, <1>3 DEF CallEffect, WaitInv, Phase

\* Whatever a node does, in one place.
LEMMA Turn ==
    ASSUME AgentTypeOK, NEW n \in Nodes, NodeInv(n), WaitInv(n), AgentTurn(n)
    PROVE  HostEffect(n) /\ CallEffect(n) /\ AnswerEffect(n)
<1>0. journal[n] \in Journal /\ inv[n] \in Invocation /\ host[n] \in Host
  BY DEF AgentTypeOK
<1>1. CASE Refuse(n) \/ Replay(n) \/ Accept(n)
  BY <1>1, CallTurn
<1>2. CASE Complete(n) \/ Unlock(n) \/ Fail(n) \/ Die(n)
  BY <1>2, EndTurn
<1>3. CASE \/ Stage(n) \/ DiscardStage(n) \/ RequestFence(n) \/ SwapPointer(n)
           \/ SwapManifest(n) \/ RestartUnit(n) \/ RepairPair(n) \/ RollbackPointer(n)
           \/ RollbackManifest(n) \/ RequestRelease(n)
  <2>1. HostEffect(n)
    BY <1>3, HostTurn
  <2>2. /\ \E step \in Steps \ {"none"} : Goto(n, step)
        /\ Invoked(n) /\ UNCHANGED <<journal, request, answer, locked>>
    BY <1>3 DEF Stage, DiscardStage, RequestFence, SwapPointer, SwapManifest, RestartUnit, RepairPair,
       RollbackPointer, RollbackManifest, RequestRelease, At, Invoked, StepOnHost, Steps
  <2>3. /\ UNCHANGED <<journal, request, answer, locked>>
        /\ inv'[n].request = inv[n].request /\ inv'[n].attached = inv[n].attached
        /\ Invoked(n)' /\ Invoked(n)
    BY <1>0, <2>2 DEF Goto, Invoked, AgentTypeOK, Invocation
  <2> QED BY <2>1, <2>3, CourseTurn
<1>4. CASE BackUp(n) \/ RollbackIntent(n) \/ Fenced(n)
  <2>1. host' = host /\ UNCHANGED <<request, answer, locked>>
    BY <1>4 DEF BackUp, RollbackIntent, Fenced, StepInJournal
  <2>2. /\ inv'[n].request = inv[n].request /\ inv'[n].attached = inv[n].attached
        /\ Invoked(n)' /\ Invoked(n) /\ Phase(n) \in {"prepare", "rollback", "reprepare"}
    BY <1>0, <1>4 DEF BackUp, RollbackIntent, Fenced, StepInJournal, At, Goto, Invoked, AgentTypeOK,
       Invocation
  <2>3. journal'[n].generation = journal[n].generation /\ journal'[n].receipts = journal[n].receipts
    <3>1. CASE BackUp(n)
      <4>1. journal'[n] = [journal[n] EXCEPT !.backup = TRUE]
        BY <3>1 DEF BackUp, StepInJournal, AgentTypeOK
      <4> QED BY <1>0, <4>1 DEF Journal
    <3>2. CASE RollbackIntent(n)
      <4>1. journal'[n] = [journal[n] EXCEPT !.rollbackFrom = IF @ = "none" THEN host[n].pointer ELSE @]
        BY <3>2 DEF RollbackIntent, StepInJournal, AgentTypeOK
      <4> QED BY <1>0, <4>1 DEF Journal
    <3>3. CASE Fenced(n)
      BY <3>3 DEF Fenced
    <3> QED BY <1>4, <3>1, <3>2, <3>3
  <2>4. HostEffect(n)
    BY <2>1 DEF HostEffect
  <2>5. Doing(n) # {}
    BY <2>2 DEF Doing
  <2> QED BY <2>1, <2>2, <2>3, <2>4, <2>5, CourseTurn
<1>5. CASE GatewayStep(n) \/ GatewayRestarts(n)
  <2>1. UNCHANGED <<journal, request, answer, locked>>
    BY <1>5 DEF GatewayStep, GatewayDrains, GatewayOpens, GatewayRestarts
  <2>2. /\ inv'[n].request = inv[n].request /\ inv'[n].attached = inv[n].attached
        /\ Invoked(n)' <=> Invoked(n)
    <3>1. CASE GatewayStep(n)
      <4>1. inv' = inv
        BY <3>1 DEF GatewayStep, GatewayDrains, GatewayOpens
      <4> QED BY <4>1 DEF Invoked
    <3>2. CASE GatewayRestarts(n)
      <4>1. inv'[n] = [inv[n] EXCEPT !.at = IF @ \in {"fence", "opening"} THEN "broken" ELSE @]
        BY <3>2 DEF GatewayRestarts, AgentTypeOK
      <4> QED BY <1>0, <4>1 DEF Invoked, Invocation
    <3> QED BY <1>5, <3>1, <3>2
  <2> QED BY <1>5, <2>1, <2>2, GatewayTurn, CourseTurn
<1> QED BY <1>1, <1>2, <1>3, <1>4, <1>5 DEF AgentTurn, AgentStep, PhaseStep

\* And in all others.
LEMMA Turns ==
    ASSUME AgentTypeOK, \A m \in Nodes : NodeInv(m) /\ WaitInv(m), NEW n \in Nodes, AgentTurn(n)
    PROVE  /\ AgentTypeOK' /\ (\A m \in Nodes : NodeInv(m)')
           /\ \A m \in Nodes : HostEffect(m) /\ CallEffect(m) /\ AnswerEffect(m)
           /\ \A m \in Nodes \ {n} : host'[m] = host[m]
<1>1. AgentTypeOK' /\ (\A m \in Nodes : NodeInv(m)') /\ \A m \in Nodes \ {n} : Untouched(m)
  BY TurnKeeps
<1>2. ASSUME NEW m \in Nodes, m # n PROVE HostEffect(m) /\ CallEffect(m) /\ AnswerEffect(m)
  <2>1. Untouched(m)
    BY <1>1, <1>2
  <2>2. answer'[m] = answer[m] /\ locked'[m] = locked[m]
    BY <1>2 DEF AgentTurn, AgentStep, PhaseStep, Refuse, Replay, Accept, Stage, DiscardStage, RequestFence,
       BackUp, Fenced, SwapPointer, SwapManifest, RestartUnit, RepairPair, RollbackIntent,
       RollbackPointer, RollbackManifest, RequestRelease, StepOnHost, StepInJournal, Complete, Unlock,
       Fail, Die, Answer, GatewayStep, GatewayDrains, GatewayOpens, GatewayRestarts, AgentTypeOK
  <2>3. HostEffect(m)
    BY <2>1 DEF Untouched, HostEffect
  <2>4. WaitInv(m)
    OBVIOUS
  <2>5. CallEffect(m)
    BY <2>1, <2>2, <2>4 DEF Untouched, CallEffect, WaitInv, Doing, Invoked, Phase
  <2>6. AnswerEffect(m)
    BY <2>2 DEF AnswerEffect
  <2> QED BY <2>3, <2>5, <2>6
<1>3. HostEffect(n) /\ CallEffect(n) /\ AnswerEffect(n)
  BY Turn
<1> QED BY <1>1, <1>2, <1>3 DEF Untouched

-----------------------------------------------------------------------------
(* The nodes keep the invariant while the coordinator waits.               *)

\* Every node may have moved.
Moved ==
    /\ AgentTypeOK /\ (\A n \in Nodes : NodeInv(n) /\ WaitInv(n))
    /\ AgentTypeOK' /\ (\A n \in Nodes : NodeInv(n)')
    /\ \A n \in Nodes : HostEffect(n) /\ CallEffect(n) /\ AnswerEffect(n)
    /\ UNCHANGED coordinatorVars

\* What a record says of its node stays true while agents move.
LEMMA WorldMoves ==
    ASSUME Moved, GenerationInv, NEW n \in Nodes, NEW nd,
           WorldInv(nd, host[n], journal[n], Doing(n))
    PROVE  WorldInv(nd, host'[n], journal'[n], Doing(n)')
<1> DEFINE h == host[n]
           g == host'[n]
<1>1. HostEffect(n) /\ Doing(n)' \subseteq Doing(n)
  BY DEF Moved, CallEffect
<1>2. Unprepared(nd) =>
         /\ OnRelease(g, "old") /\ g.fence # "releasing"
         /\ Doing(n)' \cap {"swap", "restart", "release"} = {}
  BY <1>1 DEF WorldInv, HostEffect
<1>3. Has(journal[n], {"reprepare"}) => Has(journal'[n], {"reprepare"}) \/ nd.pendingAction \in Restoring
  <2>1. Invoked(n) => inv[n].request.generation # 0
    BY DEF GenerationInv
  <2>2. CallEffect(n)
    BY DEF Moved
  <2>3. "reprepare" \in Doing(n)' => nd.pendingAction \in Restoring
    BY <1>1 DEF WorldInv, Acting
  <2> QED BY <2>1, <2>2, <2>3 DEF CallEffect, Has
<1>4. g.fence # "open" /\ h.fence = "open" => Doing(n) \cap Acting # {}
  BY <1>1 DEF HostEffect, Acting
<1> QED BY <1>1, <1>2, <1>3, <1>4 DEF WorldInv

\* So do the documents.
LEMMA DocsMove == ASSUME Moved, GenerationInv, DocsInv PROVE DocsInv'
<1>1. saved' = saved /\ doc' = doc /\ run' = run
  BY DEF Moved, coordinatorVars
<1>2. DocInv(saved)'
  <2>1. \A n \in Nodes : WorldInv(saved.nodes[n], host'[n], journal'[n], Doing(n)')
    BY WorldMoves DEF DocsInv, DocInv
  <2> QED BY <1>1, <2>1 DEF DocsInv, DocInv
<1>3. run.mode # "down" => DocInv(doc)'
  <2>1. run.mode # "down" => \A n \in Nodes : WorldInv(doc.nodes[n], host'[n], journal'[n], Doing(n)')
    BY WorldMoves DEF DocsInv, DocInv
  <2> QED BY <1>1, <2>1 DEF DocsInv, DocInv
<1> QED BY <1>1, <1>2, <1>3 DEF DocsInv

\* A node that is left alone has nothing to do.
LEMMA IdleNode ==
    ASSUME NEW d, DocInv(d), NEW n \in Nodes, d.nodes[n].pendingAction = "none"
    PROVE  Doing(n) = {}
BY DEF DocInv, WorldInv

\* A phase that is not called gets no receipt of this generation.
LEMMA FreshMoves ==
    ASSUME Moved, GenerationInv, run.mode # "down", NEW n \in Nodes, NEW p \in Phases, Fresh(n, p),
           request[n].phase # p \/ request'[n].phase # "none"
    PROVE  Fresh(n, p)'
<1>1. doc' = doc /\ doc.generation # 0 /\ CallEffect(n) /\ NodeInv(n)'
  BY DEF Moved, coordinatorVars, GenerationInv
<1>2. journal'[n].receipts[p] # doc.generation
  BY <1>1 DEF CallEffect, Fresh
<1>3. ~(Phase(n)' = p /\ inv'[n].request.generation = doc.generation)
  <2>1. CASE Invoked(n)'
    BY <1>1, <2>1 DEF CallEffect, Fresh, Phase
  <2>2. CASE ~Invoked(n)'
    BY <1>1, <2>2 DEF NodeInv, PendingInv, Phases
  <2> QED BY <2>1, <2>2
<1> QED BY <1>1, <1>2, <1>3 DEF Fresh

\* Agents take the generation of the call, never a later one.
LEMMA GenerationMoves == ASSUME Moved, TypeOK, GenerationInv, CallInv PROVE GenerationInv'
<1>1. saved' = saved /\ doc' = doc /\ run' = run
  BY DEF Moved, coordinatorVars
<1>2. ASSUME NEW n \in Nodes
      PROVE  /\ journal'[n].generation <= saved.generation
             /\ \A p \in Phases : journal'[n].receipts[p] <= saved.generation
             /\ Invoked(n)' => inv'[n].request.generation \in 1..saved.generation
  <2>1. request[n].phase # "none" => request[n].generation = saved.generation /\ saved.generation # 0
    BY OrderAssumption DEF CallInv, GenerationInv
  <2>2. CallEffect(n) /\ saved.generation \in Nat
    BY AgentAssumption DEF Moved, TypeOK, Doc
  <2>3. /\ journal[n].generation <= saved.generation
        /\ \A p \in Phases : journal[n].receipts[p] <= saved.generation
        /\ Invoked(n) => inv[n].request.generation \in 1..saved.generation
    BY DEF GenerationInv
  <2> QED BY <2>1, <2>2, <2>3 DEF CallEffect
<1> QED BY <1>1, <1>2 DEF GenerationInv

\* The fleet keeps to one release: a swap, a restore and a release exclude each
\* other across its nodes.
LEMMA FleetMoves == ASSUME Moved, FleetInv PROVE FleetInv'
<1>1. \A n \in Nodes : HostEffect(n) /\ Doing(n)' \subseteq Doing(n)
  BY DEF Moved, CallEffect
<1>2. ASSUME NEW n \in Nodes, NEW m \in Nodes, "swap" \in Doing(n)'
      PROVE  host'[m].fence = "prepared" /\ Doing(m)' \cap {"release", "rollback"} = {}
  BY <1>1, <1>2 DEF FleetInv, HostEffect
<1>3. ASSUME NEW n \in Nodes, NEW m \in Nodes, "rollback" \in Doing(n)'
      PROVE  /\ Doing(m)' \cap {"swap", "release"} = {}
             /\ \/ host'[m].fence = "prepared"
                \/ OnRelease(host'[m], "old") /\ host'[m].fence # "releasing"
  BY <1>1, <1>3 DEF FleetInv, HostEffect
<1>4. ASSUME NEW n \in Nodes, "release" \in Doing(n) \/ host[n].fence = "releasing"
      PROVE  Uniform'
  <2>1. \A m \in Nodes : Doing(m) \cap {"swap", "rollback"} = {}
    BY <1>4 DEF FleetInv
  <2>2. PICK release \in {"old", "new"} : \A m \in Nodes : OnRelease(host[m], release)
    BY <1>4 DEF FleetInv, Uniform
  <2>3. \A m \in Nodes : OnRelease(host'[m], release)
    BY <1>1, <2>1, <2>2 DEF HostEffect
  <2> QED BY <2>3 DEF Uniform
<1>5. ASSUME NEW n \in Nodes, "release" \in Doing(n)' \/ host'[n].fence = "releasing"
      PROVE  Uniform'
  BY <1>1, <1>4, <1>5 DEF HostEffect
<1>6. ServesOneRelease'
  <2>1. SUFFICES ASSUME NEW n \in Nodes, NEW m \in Nodes, host'[n].fence = "open", host'[m].fence = "open"
                 PROVE  OnRelease(host'[n], host'[m].loaded)
    BY DEF ServesOneRelease
  <2>2. OnRelease(host'[n], host'[n].loaded)
    BY <2>1 DEF Moved, NodeInv, WholeInv
  <2>3. CASE host[n].fence = "open" /\ host[m].fence = "open"
    <3>1. host'[n].loaded = host[n].loaded /\ host'[m].loaded = host[m].loaded
      BY <1>1, <2>1, <2>3 DEF HostEffect
    <3>2. host[n].loaded = host[m].loaded
      BY <2>3 DEF FleetInv, ServesOneRelease, OnRelease
    <3> QED BY <2>2, <3>1, <3>2
  <2>4. ASSUME NEW l \in {n, m}, host[l].fence # "open" PROVE Uniform'
    <3>1. host[l].fence = "releasing"
      BY <1>1, <2>1, <2>4 DEF HostEffect
    <3> QED BY <1>4, <3>1
  <2> QED BY <2>2, <2>3, <2>4 DEF Uniform, OnRelease
<1> QED BY <1>2, <1>3, <1>5, <1>6 DEF FleetInv

\* Nothing acts on the nodes of a finished operation.
LEMMA EndMoves == ASSUME Moved, EndInv PROVE EndInv'
<1>1. \A n \in Nodes : HostEffect(n) /\ CallEffect(n) /\ Doing(n)' \subseteq Doing(n)
  BY DEF Moved, CallEffect
<1>2. saved' = saved
  BY DEF Moved, coordinatorVars
<1>3. ASSUME NEW n \in Nodes, OnRelease(host[n], "new"), host[n].fence = "open", ~locked[n], Doing(n) = {}
      PROVE  /\ OnRelease(host'[n], "new") /\ host'[n].fence = "open" /\ ~locked'[n] /\ Doing(n)' = {}
  BY <1>1, <1>3 DEF HostEffect, CallEffect
<1>4. ASSUME NEW n \in Nodes, OnRelease(host[n], "old"), Doing(n) \cap Acting = {}
      PROVE  OnRelease(host'[n], "old") /\ Doing(n)' \cap Acting = {}
  BY <1>1, <1>4 DEF HostEffect, Acting
<1> QED BY <1>2, <1>3, <1>4 DEF EndInv

\* A node of which the coordinator waits for nothing is not called.
LEMMA CalledNode ==
    ASSUME CallInv, NEW n \in Nodes, request[n].phase # "none" \/ inv[n].attached \/ answer[n] # "none"
    PROVE  n = run.call /\ run.call # "none" /\ run.mode \in {"forward", "back"}
BY OrderAssumption DEF CallInv

\* Going forward a node does what is due on it, or nothing.
LEMMA DueDoing ==
    ASSUME DocsInv, CallInv, ForwardInv, run.mode = "forward", NEW n \in Nodes
    PROVE  /\ Doing(n) \subseteq {Due(n)} \ {"none"}
           /\ Doing(n) # {} => n = run.call /\ Due(n) = run.phase
<1>1. Doing(n) # {} => doc.nodes[n].pendingAction # "none"
  BY IdleNode DEF DocsInv
<1>2. Doing(n) # {} => n = run.call
  BY <1>1 DEF ForwardInv
<1>3. Doing(n) # {} => Due(n) = run.phase
  BY <1>2, OrderAssumption DEF ForwardInv
<1>4. Doing(n) \subseteq {run.phase} /\ "none" \notin Doing(n)
  BY DEF ForwardInv, Doing
<1> QED BY <1>2, <1>3, <1>4

\* The acting phases are due in their pass, in the state that it expects.
LEMMA DueCases ==
    ASSUME TypeOK, ForwardInv, run.mode = "forward", NEW n \in Nodes
    PROVE  LET nd == doc.nodes[n] IN
           /\ Due(n) = "prepare" => run.pass = 3 /\ nd.state = "staged"
           /\ Due(n) = "swap" => run.pass = 4 /\ nd.state = "prepared" /\ "swap" \notin nd.receipts
           /\ Due(n) = "restart" =>
                run.pass = 4 /\ nd.state = "mutating" /\ "restart" \notin nd.receipts
           /\ Due(n) = "release" => run.pass = 8 /\ nd.state = "promoted"
           /\ Due(n) \notin {"rollback", "reprepare", "discard-stage"}
           /\ run.pass = 3 => Due(n) \in {"prepare", "none"}
           /\ run.pass = 4 => Due(n) \in {"swap", "restart", "none"}
           /\ run.pass \in 4..7 => Due(n) # "release"
           /\ run.pass = 8 => Due(n) = IF nd.state = "promoted" THEN "release" ELSE "none"
<1>1. run.pass \in 1..8
  BY DEF ForwardInv, ForwardPasses
<1>2. \/ run.pass = 1 \/ run.pass = 2 \/ run.pass = 3 \/ run.pass = 4
      \/ run.pass = 5 \/ run.pass = 6 \/ run.pass = 7 \/ run.pass = 8
  BY <1>1
<1> QED BY <1>2 DEF Due, ForwardPasses

\* A pending call is not answered again where its answer would tell of something.
LEMMA NotReplayed ==
    ASSUME TypeOK, DocsInv, CallInv, GenerationInv, ForwardInv, BackInv, NEW n \in Nodes,
           request[n].phase # "none", Replayed(journal[n], request[n])
    PROVE  /\ run.phase \notin {"prepare", "swap", "restart", "reprepare", "rollback"}
           /\ run.phase = "release" => run.mode = "back"
<1> DEFINE j == journal[n]
           q == request[n]
           p == run.phase
           nd == doc.nodes[n]
<1>1. n = run.call /\ run.call # "none" /\ run.mode \in {"forward", "back"}
  BY CalledNode
<1>2. /\ q.phase = p /\ q.generation = doc.generation /\ p \in Phases
      /\ doc.generation # 0
  BY <1>1 DEF CallInv, GenerationInv, TypeOK, Run
<1>3. ~Fresh(n, p)
  <2>1. Adopted(j, q).receipts[p] = doc.generation
    BY <1>2 DEF Replayed
  <2>2. Adopted(j, q).receipts[p] \in {0, j.receipts[p]}
    <3>1. CASE j.generation < q.generation
      <4> DEFINE r == [x \in Phases |-> IF x = q.phase /\ x \in Renewed THEN 0 ELSE j.receipts[x]]
      <4>1. Adopted(j, q) = [j EXCEPT !.generation = q.generation, !.receipts = r]
        BY <3>1 DEF Adopted
      <4>2. j \in Journal
        BY DEF TypeOK, AgentTypeOK
      <4>3. Adopted(j, q).receipts = r
        BY <4>1, <4>2 DEF Journal
      <4>4. r[p] \in {0, j.receipts[p]}
        BY <1>2
      <4> QED BY <4>3, <4>4
    <3>2. CASE ~(j.generation < q.generation)
      BY <3>2 DEF Adopted
    <3> QED BY <3>1, <3>2
  <2> QED BY <1>2, <2>1, <2>2 DEF Fresh
<1>4. p # "reprepare"
  BY <1>2 DEF Replayed, FreshObservation
<1>5. CASE run.mode = "forward"
  <2>1. p = Due(n)
    BY <1>1, <1>5 DEF ForwardInv
  <2>2. p \in {"prepare", "swap", "restart", "release"} => p \in nd.receipts
    BY <1>3, <1>5 DEF ForwardInv
  <2>3. RecordInv(nd)
    BY <1>5 DEF DocsInv, DocInv
  <2>4. p # "prepare"
    BY <1>5, <2>1, <2>2, <2>3, DueCases DEF RecordInv, Unprepared, Beyond, Forward
  <2>5. p # "release"
    BY <1>5, <2>1, <2>2, <2>3, DueCases DEF RecordInv
  <2> QED BY <1>4, <1>5, <2>1, <2>2, <2>4, <2>5, DueCases
<1>6. CASE run.mode = "back"
  <2>1. p = BackPhase /\ run.pass \in 1..7
    BY <1>1, <1>6 DEF BackInv, BackPasses
  <2>2. \/ run.pass = 1 \/ run.pass = 2 \/ run.pass = 3 \/ run.pass = 4
        \/ run.pass = 5 \/ run.pass = 6 \/ run.pass = 7
    BY <2>1
  <2>3. p \notin {"prepare", "swap", "restart"} /\ (p = "rollback" => run.pass = 3)
    BY <2>1, <2>2 DEF BackPhase, BackPasses
  <2>4. run.pass = 3 => Fresh(n, "rollback")
    BY <1>1, <1>6 DEF BackInv
  <2> QED BY <1>3, <1>4, <1>6, <2>3, <2>4
<1> QED BY <1>1, <1>5, <1>6

\* The agent takes the call and answers it; an affirmation is true when it comes.
LEMMA CallMoves ==
    ASSUME Moved, TypeOK, DocsInv, CallInv, GenerationInv, ForwardInv, BackInv
    PROVE  CallInv'
<1>1. saved' = saved /\ doc' = doc /\ run' = run
  BY DEF Moved, coordinatorVars
<1>2. ASSUME NEW n \in Nodes, n # run.call
      PROVE  request'[n].phase = "none" /\ ~inv'[n].attached /\ answer'[n] = "none"
  BY <1>2 DEF Moved, CallEffect, CallInv
<1>3. ASSUME NEW n \in Nodes, n = run.call
      PROVE  /\ request'[n].phase # "none" =>
                  /\ request'[n].phase = run.phase /\ request'[n].generation = doc.generation
                  /\ answer'[n] = "none" /\ ~inv'[n].attached
             /\ inv'[n].attached => Phase(n)' = run.phase /\ Invoked(n)' /\ answer'[n] = "none"
  BY <1>3 DEF Moved, CallEffect, CallInv
<1>4. ASSUME NEW n \in Nodes, n = run.call, answer'[n] = "ok"
      PROVE  OkInv(n)'
  <2> DEFINE p == run.phase
  <2>1. HostEffect(n) /\ CallEffect(n) /\ AnswerEffect(n) /\ NodeInv(n)' /\ WaitInv(n)
    BY DEF Moved
  <2>2. CASE answer[n] = "ok"
    <3>1. OkInv(n)
      BY <1>4, <2>2 DEF CallInv
    <3>2. Doing(n) = {} /\ Doing(n)' = {} /\ journal'[n] = journal[n] /\ locked'[n] = locked[n]
      BY <2>1, <3>1 DEF OkInv, CallEffect
    <3> QED BY <1>1, <2>1, <3>1, <3>2 DEF OkInv, HostEffect
  <2>3. CASE answer[n] # "ok" /\ inv[n].attached /\ Affirmed(n)
    <3>1. Phase(n) = p /\ p \in Phases /\ inv[n].request.generation # 0
      BY <1>4, <2>3 DEF CallInv, GenerationInv, Affirmed, NodeInv, PendingInv, Moved
    <3>2. Doing(n)' = {}
      BY <2>1, <2>3 DEF Affirmed, NodeInv, PendingInv, WaitInv, Doing
    <3>3. p = "restart" => OnRelease(host'[n], "new")
      <4>1. SUFFICES ASSUME p = "restart" PROVE Disk(host'[n]) = "new"
        BY <2>3, <3>1 DEF Affirmed, OnRelease
      <4>2. run.call # "none" /\ run.mode \in {"forward", "back"}
        BY <2>3, CalledNode
      <4>3. run.mode = "forward"
        <5>1. SUFFICES ASSUME run.mode = "back" PROVE FALSE
          BY <4>2
        <5>2. run.phase = BackPhase /\ run.pass \in 1..7
          BY <4>2, <5>1 DEF BackInv, BackPasses
        <5>3. \/ run.pass = 1 \/ run.pass = 2 \/ run.pass = 3 \/ run.pass = 4
              \/ run.pass = 5 \/ run.pass = 6 \/ run.pass = 7
          BY <5>2
        <5> QED BY <4>1, <5>2, <5>3 DEF BackPhase, BackPasses
      <4>4. Due(n) = "restart"
        BY <1>4, <4>1, <4>2, <4>3 DEF ForwardInv
      <4>5. Disk(host[n]) = "new"
        BY <4>3, <4>4, DueCases DEF ForwardInv
      <4>6. "rollback" \notin Doing(n)
        BY <4>3, <4>4, DueDoing
      <4> QED BY <2>1, <4>5, <4>6 DEF HostEffect
    <3>4. p = "reprepare" => Has(journal'[n], {"reprepare"})
      BY <2>3, <3>1 DEF Affirmed, Has
    <3> QED BY <1>1, <2>3, <3>1, <3>2, <3>3, <3>4 DEF OkInv, Affirmed
  <2>4. CASE /\ request[n].phase # "none" /\ ~Invoked(n) /\ ~Invoked(n)'
             /\ request'[n].phase = "none" /\ Replayed(journal[n], request[n])
    <3>1. Doing(n)' = {}
      BY <2>1, <2>4 DEF NodeInv, PendingInv, Doing
    <3>2. /\ p \notin {"prepare", "swap", "restart", "reprepare", "rollback"}
          /\ p = "release" => run.mode = "back"
      BY <2>4, NotReplayed
    <3> QED BY <1>1, <3>1, <3>2 DEF OkInv
  <2> QED BY <1>4, <2>1, <2>2, <2>3, <2>4 DEF AnswerEffect
<1> QED BY <1>1, <1>2, <1>3, <1>4 DEF CallInv

\* A phase that outlived its coordinator has an older generation.
LEMMA StartMoves ==
    ASSUME Moved, TypeOK, DocsInv, CallInv, GenerationInv, ForwardInv, StartInv PROVE StartInv'
<1>1. saved' = saved /\ doc' = doc /\ run' = run
  BY DEF Moved, coordinatorVars
<1>2. ASSUME run.mode \in {"recover", "abort"}, NEW n \in Nodes, NEW p \in Phases, Fresh(n, p)
      PROVE  Fresh(n, p)'
  <2>1. request[n].phase # p
    BY <1>2, CalledNode DEF Phases
  <2> QED BY <1>2, <2>1, FreshMoves
<1>3. ASSUME run.mode = "forward", NEW n \in Nodes, Fresh(n, "rollback") PROVE Fresh(n, "rollback")'
  <2>1. request[n].phase # "rollback"
    BY <1>3, DueDoing, DueCases DEF Doing
  <2> QED BY <1>3, <2>1, FreshMoves DEF Phases
<1> QED BY <1>1, <1>2, <1>3 DEF StartInv, Phases

\* The forward pass keeps what it knows: only the called node moves, by its phase.
LEMMA ForwardMoves ==
    ASSUME Moved, TypeOK, DocsInv, CallInv, GenerationInv, ForwardInv PROVE ForwardInv'
<1>0. SUFFICES ASSUME run.mode = "forward" PROVE ForwardInv'
  BY DEF ForwardInv, Moved, coordinatorVars
<1>1. saved' = saved /\ doc' = doc /\ run' = run /\ run.pass \in 1..8
  BY <1>0 DEF Moved, coordinatorVars, ForwardInv, ForwardPasses
<1>3. ASSUME NEW n \in Nodes
      PROVE  LET nd == doc.nodes[n]
                 g == host'[n] IN
             /\ Doing(n)' \subseteq {run.phase}
             /\ request'[n].phase # "none" => ~Invoked(n)'
             /\ \A p \in {"prepare", "swap", "restart", "release"} :
                  ~Fresh(n, p)' => \/ p \in nd.receipts
                                   \/ n = run.call /\ p = run.phase /\ request'[n].phase = "none"
             /\ run.pass = 3 /\ nd.state = "prepared" => OnRelease(g, "old") /\ g.fence = "prepared"
             /\ run.pass = 4 /\ nd.state = "mutating" => Disk(g) = "new"
             /\ run.pass \in 4..7 => g.fence = "prepared"
             /\ run.pass >= 4 /\ nd.state \in {"active", "verified", "promoted", "released"} =>
                  OnRelease(g, "new")
             /\ run.pass = 8 /\ nd.state = "released" => g.fence = "open" /\ ~locked'[n]
  <2> DEFINE nd == doc.nodes[n]
             h == host[n]
             g == host'[n]
  <2>1. HostEffect(n) /\ CallEffect(n)
    BY DEF Moved
  <2>2. Doing(n) \subseteq {Due(n)} \ {"none"} /\ (Doing(n) # {} => n = run.call /\ Due(n) = run.phase)
    BY <1>0, DueDoing
  <2>3. Doing(n)' \subseteq {run.phase}
    BY <2>1, <2>2 DEF CallEffect
  <2>4. request'[n].phase # "none" => ~Invoked(n)'
    BY <1>0, <2>1 DEF CallEffect, ForwardInv
  <2>5. ASSUME NEW p \in {"prepare", "swap", "restart", "release"}, ~Fresh(n, p)'
        PROVE  p \in nd.receipts \/ (n = run.call /\ p = run.phase /\ request'[n].phase = "none")
    <3>1. CASE Fresh(n, p)
      <4>1. request[n].phase = p /\ request'[n].phase = "none"
        BY <1>0, <2>5, <3>1, FreshMoves DEF Phases
      <4>2. p \in Doing(n)
        BY <4>1 DEF Doing
      <4> QED BY <2>2, <4>1, <4>2
    <3>2. CASE ~Fresh(n, p)
      <4>1. p \in nd.receipts \/ (n = run.call /\ p = run.phase /\ request[n].phase = "none")
        BY <1>0, <3>2 DEF ForwardInv
      <4> QED BY <2>1, <4>1 DEF CallEffect
    <3> QED BY <3>1, <3>2
  <2>6. run.pass = 3 /\ nd.state = "prepared" => OnRelease(g, "old") /\ g.fence = "prepared"
    <3>1. SUFFICES ASSUME run.pass = 3, nd.state = "prepared"
                   PROVE  OnRelease(g, "old") /\ g.fence = "prepared"
      OBVIOUS
    <3>2. OnRelease(h, "old") /\ h.fence = "prepared"
      BY <1>0, <3>1 DEF ForwardInv
    <3>3. Doing(n) \cap {"swap", "rollback", "release"} = {}
      BY <1>0, <2>2, <3>1, DueCases
    <3> QED BY <2>1, <3>2, <3>3 DEF HostEffect
  <2>7. run.pass = 4 /\ nd.state = "mutating" => Disk(g) = "new"
    <3>1. SUFFICES ASSUME run.pass = 4, nd.state = "mutating" PROVE Disk(g) = "new"
      OBVIOUS
    <3>2. Disk(h) = "new"
      BY <1>0, <3>1 DEF ForwardInv
    <3>3. "rollback" \notin Doing(n)
      BY <1>0, <2>2, <3>1, DueCases
    <3> QED BY <2>1, <3>2, <3>3 DEF HostEffect
  <2>8. run.pass \in 4..7 => g.fence = "prepared"
    <3>1. SUFFICES ASSUME run.pass \in 4..7 PROVE g.fence = "prepared"
      OBVIOUS
    <3>2. h.fence = "prepared"
      BY <1>0, <3>1 DEF ForwardInv
    <3>3. "release" \notin Doing(n)
      BY <1>0, <2>2, <3>1, DueCases
    <3> QED BY <2>1, <3>2, <3>3 DEF HostEffect
  <2>9. run.pass >= 4 /\ nd.state \in {"active", "verified", "promoted", "released"} =>
          OnRelease(g, "new")
    <3>1. SUFFICES ASSUME run.pass >= 4, nd.state \in {"active", "verified", "promoted", "released"}
                   PROVE  OnRelease(g, "new")
      OBVIOUS
    <3>2. OnRelease(h, "new")
      BY <1>0, <3>1 DEF ForwardInv
    <3>3. Doing(n) \cap {"swap", "rollback"} = {}
      BY <1>0, <2>2, <3>1, DueCases
    <3> QED BY <2>1, <3>2, <3>3 DEF HostEffect
  <2>10. run.pass = 8 /\ nd.state = "released" => g.fence = "open" /\ ~locked'[n]
    <3>1. SUFFICES ASSUME run.pass = 8, nd.state = "released" PROVE g.fence = "open" /\ ~locked'[n]
      OBVIOUS
    <3>2. h.fence = "open" /\ ~locked[n]
      BY <1>0, <3>1 DEF ForwardInv
    <3>3. Doing(n) = {}
      BY <1>0, <2>2, <3>1, DueCases
    <3> QED BY <2>1, <3>2, <3>3 DEF HostEffect, CallEffect
  <2> QED BY <2>3, <2>4, <2>5, <2>6, <2>7, <2>8, <2>9, <2>10
<1>4. (run.call # "none" => run.phase = Due(run.call))'
  BY <1>0, <1>1 DEF ForwardInv, Due
<1>5. \A n \in Nodes :
        /\ n # run.call => doc.nodes[n].pendingAction = "none"
        /\ doc.nodes[n].state \in StatesIn(run.pass)
        /\ run.pass \in {3, 4} /\ doc.nodes[n].state = "prepared" =>
             doc.nodes[n].receipts \cap {"swap", "restart"} = {}
        /\ run.pass = 4 /\ doc.nodes[n].state = "mutating" =>
             "swap" \in doc.nodes[n].receipts /\ "restart" \notin doc.nodes[n].receipts
  BY <1>0 DEF ForwardInv
<1>6. doc.operationState = "running" /\ run.pass \in 1..Len(ForwardPasses)
  BY <1>0 DEF ForwardInv
<1> QED BY <1>0, <1>1, <1>3, <1>4, <1>5, <1>6 DEF ForwardInv

\* The phase of each pass back.
LEMMA BackPhases ==
    ASSUME run.pass \in 1..Len(BackPasses)
    PROVE  /\ run.pass = 1 => BackPhase = "discard-stage"
           /\ run.pass = 2 => BackPhase = "reprepare"
           /\ run.pass = 3 => BackPhase = "rollback"
           /\ run.pass = 4 => BackPhase = "discard-stage"
           /\ run.pass = 5 => BackPhase = "canary"
           /\ run.pass = 6 => BackPhase = "release"
           /\ run.pass = 7 => BackPhase = "discard-stage"
           /\ BackPhase \in Phases
           /\ BackMutates <=> run.pass \notin {1, 5}
<1>1. \/ run.pass = 1 \/ run.pass = 2 \/ run.pass = 3 \/ run.pass = 4
      \/ run.pass = 5 \/ run.pass = 6 \/ run.pass = 7
  BY DEF BackPasses
<1> QED BY <1>1 DEF BackPhase, BackPasses, BackMutates, Phases

\* A pass back keeps what it knows of the nodes it has visited.
LEMMA BackMoves ==
    ASSUME Moved, TypeOK, DocsInv, CallInv, GenerationInv, BackInv PROVE BackInv'
<1>0. SUFFICES ASSUME run.mode = "back" PROVE BackInv'
  BY DEF BackInv, Moved, coordinatorVars
<1>1. saved' = saved /\ doc' = doc /\ run' = run /\ run.pass \in 1..Len(BackPasses)
  BY <1>0 DEF Moved, coordinatorVars, BackInv
<1>2. ASSUME NEW n \in Nodes
      PROVE  LET nd == doc.nodes[n]
                 g == host'[n] IN
             /\ run.pass <= 2 => Fresh(n, "rollback")'
             /\ run.pass = 2 /\ ~run.failed /\ InRestore(n) /\ ~InTodo(n) /\ n # run.call =>
                  g.fence = "prepared"
             /\ run.pass = 3 /\ InRestore(n) =>
                  /\ g.fence = "prepared" /\ Doing(n)' \subseteq {"rollback"}
                  /\ InTodo(n) \/ (n = run.call /\ request'[n].phase # "none") =>
                       Fresh(n, "rollback")' /\ ~Invoked(n)'
                  /\ ~run.failed /\ ~InTodo(n) /\ n # run.call => OnRelease(g, "old")
             /\ run.pass >= 4 =>
                  /\ OnRelease(g, "old")
                  /\ Doing(n)' \cap (Acting \ {"release"}) = {}
                  /\ run.pass # 6 \/ (n # run.call /\ ~run.failed) => "release" \notin Doing(n)'
  <2> DEFINE nd == doc.nodes[n]
             h == host[n]
             g == host'[n]
  <2>1. HostEffect(n) /\ CallEffect(n) /\ Doing(n)' \subseteq Doing(n)
    BY DEF Moved, CallEffect
  <2>2. run.pass <= 2 => Fresh(n, "rollback")'
    <3>1. SUFFICES ASSUME run.pass <= 2 PROVE Fresh(n, "rollback")'
      OBVIOUS
    <3>2. Fresh(n, "rollback")
      BY <1>0, <3>1 DEF BackInv
    <3>3. request[n].phase # "none" => request[n].phase = BackPhase
      BY <1>0, CalledNode DEF CallInv, BackInv
    <3>4. request[n].phase # "rollback"
      <4>1. run.pass = 1 \/ run.pass = 2
        BY <1>1, <3>1 DEF BackPasses
      <4> QED BY <1>1, <3>3, <4>1, BackPhases
    <3> QED BY <1>0, <3>2, <3>4, FreshMoves DEF Phases
  <2>3. run.pass = 2 /\ ~run.failed /\ InRestore(n) /\ ~InTodo(n) /\ n # run.call =>
          g.fence = "prepared"
    <3>1. SUFFICES ASSUME run.pass = 2, ~run.failed, InRestore(n), ~InTodo(n), n # run.call
                   PROVE  g.fence = "prepared"
      OBVIOUS
    <3>2. nd.pendingAction = "none" /\ h.fence = "prepared"
      BY <1>0, <3>1 DEF BackInv
    <3>3. Doing(n) = {}
      BY <1>0, <3>2, IdleNode DEF DocsInv
    <3> QED BY <2>1, <3>2, <3>3 DEF HostEffect
  <2>4. run.pass = 3 /\ InRestore(n) =>
          /\ g.fence = "prepared" /\ Doing(n)' \subseteq {"rollback"}
          /\ InTodo(n) \/ (n = run.call /\ request'[n].phase # "none") =>
               Fresh(n, "rollback")' /\ ~Invoked(n)'
          /\ ~run.failed /\ ~InTodo(n) /\ n # run.call => OnRelease(g, "old")
    <3>1. SUFFICES ASSUME run.pass = 3, InRestore(n)
                   PROVE  /\ g.fence = "prepared" /\ Doing(n)' \subseteq {"rollback"}
                          /\ InTodo(n) \/ (n = run.call /\ request'[n].phase # "none") =>
                               Fresh(n, "rollback")' /\ ~Invoked(n)'
                          /\ ~run.failed /\ ~InTodo(n) /\ n # run.call => OnRelease(g, "old")
      OBVIOUS
    <3>2. h.fence = "prepared" /\ Doing(n) \subseteq {"rollback"}
      BY <1>0, <3>1 DEF BackInv
    <3>3. g.fence = "prepared" /\ Doing(n)' \subseteq {"rollback"}
      BY <2>1, <3>2 DEF HostEffect
    <3>4. ASSUME InTodo(n) PROVE Fresh(n, "rollback")' /\ ~Invoked(n)'
      <4>1. request[n].phase = "none"
        BY <1>0, <3>4, CalledNode DEF BackInv
      <4>2. Fresh(n, "rollback") /\ ~Invoked(n)
        BY <1>0, <3>1, <3>4 DEF BackInv
      <4> QED BY <1>0, <2>1, <4>1, <4>2, FreshMoves DEF CallEffect, Phases
    <3>5. ASSUME n = run.call, request'[n].phase # "none" PROVE Fresh(n, "rollback")' /\ ~Invoked(n)'
      <4>1. request[n].phase # "none"
        BY <2>1, <3>5 DEF CallEffect
      <4>2. Fresh(n, "rollback") /\ ~Invoked(n)
        BY <1>0, <3>1, <3>5, <4>1 DEF BackInv
      <4> QED BY <1>0, <2>1, <3>5, <4>1, <4>2, FreshMoves DEF CallEffect, Phases
    <3>6. ASSUME ~run.failed, ~InTodo(n), n # run.call PROVE OnRelease(g, "old")
      <4>1. nd.pendingAction = "none" /\ OnRelease(h, "old")
        BY <1>0, <3>1, <3>6 DEF BackInv
      <4>2. Doing(n) = {}
        BY <1>0, <4>1, IdleNode DEF DocsInv
      <4> QED BY <2>1, <4>1, <4>2 DEF HostEffect
    <3> QED BY <3>3, <3>4, <3>5, <3>6
  <2>5. run.pass >= 4 =>
          /\ OnRelease(g, "old")
          /\ Doing(n)' \cap (Acting \ {"release"}) = {}
          /\ run.pass # 6 \/ (n # run.call /\ ~run.failed) => "release" \notin Doing(n)'
    <3>1. SUFFICES ASSUME run.pass >= 4
                   PROVE  /\ OnRelease(g, "old")
                          /\ Doing(n)' \cap (Acting \ {"release"}) = {}
                          /\ run.pass # 6 \/ (n # run.call /\ ~run.failed) => "release" \notin Doing(n)'
      OBVIOUS
    <3>2. /\ OnRelease(h, "old")
          /\ Doing(n) \cap (Acting \ {"release"}) = {}
          /\ run.pass # 6 \/ (n # run.call /\ ~run.failed) => "release" \notin Doing(n)
      BY <1>0, <3>1 DEF BackInv
    <3> QED BY <2>1, <3>2 DEF HostEffect, Acting
  <2> QED BY <2>2, <2>3, <2>4, <2>5
<1>3. BackPhase' = BackPhase /\ \A n : (InTodo(n)' <=> InTodo(n)) /\ (InRestore(n)' <=> InRestore(n))
  BY <1>1 DEF BackPhase, InTodo, InRestore
<1> QED BY <1>0, <1>1, <1>2, <1>3 DEF BackInv

\* A node that moves keeps the whole invariant.
LEMMA AgentKeeps ==
    ASSUME ClusterInv, AgentNext, UNCHANGED coordinatorVars PROVE ClusterInv'
<1>1. PICK n \in Nodes : AgentTurn(n)
  BY DEF AgentNext, AgentTurn
<1>2. \A m \in Nodes : WaitInv(m)
  BY CalledNode DEF ClusterInv, CallInv, WaitInv
<1>3. Moved
  BY <1>1, <1>2, Turns DEF ClusterInv, TypeOK, Moved
<1>4. TypeOK'
  BY <1>3 DEF Moved, coordinatorVars, ClusterInv, TypeOK
<1> QED BY <1>3, <1>4, DocsMove, GenerationMoves, FleetMoves, EndMoves, CallMoves, StartMoves,
     ForwardMoves, BackMoves DEF ClusterInv, Moved

-----------------------------------------------------------------------------
(* The coordinator writes its document.                                    *)

\* The nodes stand still; a call may be given up.
Still ==
    /\ host' = host /\ journal' = journal
    /\ \A n \in Nodes : inv'[n].request = inv[n].request /\ inv'[n].at = inv[n].at

\* As above, and no new call is made.
Withdrawn == Still /\ \A n \in Nodes : request'[n].phase \in {request[n].phase, "none"}

\* Nodes that stand still keep their own invariants,
LEMMA StillNodes ==
    ASSUME Still, \A n \in Nodes : NodeInv(n)
    PROVE  \A n \in Nodes : NodeInv(n)' /\ (Invoked(n)' <=> Invoked(n)) /\ Phase(n)' = Phase(n)
BY DEF Still, NodeInv, PendingInv, WholeInv, BackupInv, ReleasingInv, PhaseInv, JournalInv, Stands,
   Invoked, Phase

\* do nothing new,
LEMMA StillDoing == ASSUME Withdrawn, NEW n \in Nodes PROVE Doing(n)' \subseteq Doing(n)
BY DEF Withdrawn, Still, Doing, Phase

\* and get no receipt.
LEMMA StillFresh ==
    ASSUME Still, NEW n \in Nodes, NEW p, Fresh(n, p), doc'.generation = doc.generation
    PROVE  Fresh(n, p)'
BY DEF Still, Fresh, Phase

\* A document that was true of them stays so,
LEMMA DocStill ==
    ASSUME Withdrawn, NEW d, DocInv(d)
    PROVE  /\ IsInjective(d.mutationOrder)
           /\ \A n \in Nodes : /\ RecordInv(d.nodes[n])
                               /\ WorldInv(d.nodes[n], host'[n], journal'[n], Doing(n)')
<1>1. \A n \in Nodes : Doing(n)' \subseteq Doing(n) /\ host'[n] = host[n] /\ journal'[n] = journal[n]
  BY StillDoing DEF Withdrawn, Still
<1> QED BY <1>1 DEF DocInv, WorldInv

\* and so do the one that is written and the one in memory.
LEMMA DocsStill ==
    ASSUME Withdrawn, NEW d, NEW e, DocInv(d), saved' = d,
           run'.mode = "down" \/ (doc' = e /\ DocInv(e))
    PROVE  DocsInv'
<1>1. DocInv(saved)'
  BY DocStill DEF DocInv
<1>2. (run.mode # "down" => DocInv(doc))'
  BY DocStill DEF DocInv
<1> QED BY <1>1, <1>2 DEF DocsInv

\* The fleet keeps to one release,
LEMMA FleetStill == ASSUME Withdrawn, FleetInv PROVE FleetInv'
<1>1. \A n \in Nodes : Doing(n)' \subseteq Doing(n) /\ host'[n] = host[n]
  BY StillDoing DEF Withdrawn, Still
<1>2. Uniform => Uniform'
  BY <1>1 DEF Uniform
<1>3. ServesOneRelease => ServesOneRelease'
  BY <1>1 DEF ServesOneRelease
<1> QED BY <1>1, <1>2, <1>3 DEF FleetInv

\* an end that was recorded stays true,
LEMMA EndStill ==
    ASSUME Withdrawn, locked' = locked, EndInv,
           \/ saved'.operationState = saved.operationState
           \/ saved'.operationState \notin {"completed", "rolled-back"}
    PROVE  EndInv'
<1>1. \A n \in Nodes : Doing(n)' \subseteq Doing(n) /\ host'[n] = host[n]
  BY StillDoing DEF Withdrawn, Still
<1> QED BY <1>1 DEF EndInv

\* and generations only grow in the file.
LEMMA GenerationStill ==
    ASSUME Still, TypeOK, GenerationInv, saved'.generation \in Nat, saved.generation <= saved'.generation,
           run'.mode # "down" => doc'.generation = saved'.generation /\ doc'.generation # 0
    PROVE  GenerationInv'
<1>1. saved.generation \in Nat
  BY AgentAssumption DEF TypeOK, Doc
<1>2. ASSUME NEW n \in Nodes
      PROVE  /\ journal[n].generation \in Nat
             /\ \A p \in Phases : journal[n].receipts[p] \in Nat
             /\ inv[n].request.generation \in Nat
  <2>1. journal[n] \in Journal /\ inv[n].request \in Request
    BY DEF TypeOK, AgentTypeOK, Invocation
  <2> QED BY <2>1, AgentAssumption DEF Journal, Request
<1>3. ASSUME NEW n \in Nodes
      PROVE  /\ journal'[n].generation <= saved'.generation
             /\ \A p \in Phases : journal'[n].receipts[p] <= saved'.generation
             /\ Invoked(n)' => inv'[n].request.generation \in 1..saved'.generation
  BY <1>1, <1>2 DEF Still, GenerationInv, Invoked
<1> QED BY <1>3 DEF GenerationInv

\* While nobody is called nothing is waited for.
LEMMA Uncalled ==
    ASSUME CallInv, run.call = "none", UNCHANGED <<inv, request, answer>>, run'.call = "none"
    PROVE  CallInv'
BY OrderAssumption DEF CallInv

-----------------------------------------------------------------------------
(* The documents it writes.                                                *)

\* An intent changes the pending action and the flag of one node.
LEMMA IntentDoc ==
    ASSUME doc \in Doc, IsInjective(doc.mutationOrder),
           NEW n \in Nodes, NEW p \in Phases, NEW mutation \in BOOLEAN
    PROVE  LET d == Intent(n, p, mutation) IN
           /\ d \in Doc /\ IsInjective(d.mutationOrder)
           /\ d.generation = doc.generation /\ d.operationState = doc.operationState
           /\ \A m \in Nodes \ {n} : d.nodes[m] = doc.nodes[m]
           /\ d.nodes[n].state = doc.nodes[n].state /\ d.nodes[n].receipts = doc.nodes[n].receipts
           /\ d.nodes[n].pendingAction = p
           /\ d.nodes[n].possiblyMutated = (doc.nodes[n].possiblyMutated \/ mutation)
<1> DEFINE nd == [doc.nodes[n] EXCEPT !.pendingAction = p, !.possiblyMutated = @ \/ mutation]
           nds == [doc.nodes EXCEPT ![n] = nd]
           order == IF mutation /\ ~Occurs(n, doc.mutationOrder) THEN Append(doc.mutationOrder, n)
                    ELSE doc.mutationOrder
           d == [doc EXCEPT !.nodes = nds, !.mutationOrder = order]
<1>1. /\ doc.nodes \in [Nodes -> NodeDoc] /\ doc.nodes[n] \in NodeDoc
      /\ doc.mutationOrder \in Seq(Nodes)
  BY DEF Doc
<1>2. nd \in NodeDoc /\ nds \in [Nodes -> NodeDoc] /\ nds[n] = nd
      /\ \A m \in Nodes \ {n} : nds[m] = doc.nodes[m]
  BY <1>1 DEF NodeDoc
<1>3. order \in Seq(Nodes) /\ IsInjective(order)
  <2>1. Occurs(n, doc.mutationOrder) <=> n \in Range(doc.mutationOrder)
    BY <1>1 DEF Occurs, Range
  <2> QED BY <1>1, <2>1, AppendedEntry
<1>4. Intent(n, p, mutation) = d
  <2>1. nds = [doc.nodes EXCEPT ![n].pendingAction = p, ![n].possiblyMutated = @ \/ mutation]
    BY <1>1
  <2> QED BY <1>1, <2>1 DEF Intent, Doc
<1>5. nd.state = doc.nodes[n].state /\ nd.receipts = doc.nodes[n].receipts
      /\ nd.pendingAction = p /\ nd.possiblyMutated = (doc.nodes[n].possiblyMutated \/ mutation)
  BY <1>1 DEF NodeDoc
<1> HIDE DEF nd, nds, order
<1>6. d \in Doc /\ d.nodes = nds /\ d.mutationOrder = order /\ d.generation = doc.generation
      /\ d.operationState = doc.operationState
  BY <1>2, <1>3 DEF Doc
<1> QED BY <1>2, <1>3, <1>4, <1>5, <1>6

\* What becomes of a document when one node's record does.
LEMMA RecordDoc ==
    ASSUME NEW e \in Doc, NEW n \in Nodes, NEW nd \in NodeDoc
    PROVE  LET d == [e EXCEPT !.nodes[n] = nd] IN
           /\ d \in Doc /\ d.mutationOrder = e.mutationOrder
           /\ d.generation = e.generation /\ d.operationState = e.operationState
           /\ \A m \in Nodes \ {n} : d.nodes[m] = e.nodes[m]
           /\ d.nodes[n] = nd
<1> DEFINE nds == [e.nodes EXCEPT ![n] = nd]
           d == [e EXCEPT !.nodes = nds]
<1>1. nds \in [Nodes -> NodeDoc] /\ nds[n] = nd /\ \A m \in Nodes \ {n} : nds[m] = e.nodes[m]
  BY DEF Doc
<1>2. [e EXCEPT !.nodes[n] = nd] = d
  OBVIOUS
<1> HIDE DEF nds
<1>3. d \in Doc /\ d.nodes = nds /\ d.mutationOrder = e.mutationOrder /\ d.generation = e.generation
      /\ d.operationState = e.operationState
  BY <1>1 DEF Doc
<1> QED BY <1>1, <1>2, <1>3

\* A state is written for one node, and nothing else.
LEMMA StateDoc ==
    ASSUME NEW e \in Doc, NEW n \in Nodes, NEW s \in NodeStates
    PROVE  LET d == [e EXCEPT !.nodes[n].state = s] IN
           /\ d \in Doc /\ d.mutationOrder = e.mutationOrder
           /\ d.generation = e.generation /\ d.operationState = e.operationState
           /\ \A m \in Nodes \ {n} : d.nodes[m] = e.nodes[m]
           /\ d.nodes[n].state = s /\ d.nodes[n].receipts = e.nodes[n].receipts
           /\ d.nodes[n].pendingAction = e.nodes[n].pendingAction
           /\ d.nodes[n].possiblyMutated = e.nodes[n].possiblyMutated
<1> DEFINE nd == [e.nodes[n] EXCEPT !.state = s]
<1>1. e.nodes[n] \in NodeDoc
  BY DEF Doc
<1>2. nd \in NodeDoc /\ nd.state = s /\ nd.receipts = e.nodes[n].receipts
      /\ nd.pendingAction = e.nodes[n].pendingAction
      /\ nd.possiblyMutated = e.nodes[n].possiblyMutated
  BY <1>1 DEF NodeDoc
<1>3. [e EXCEPT !.nodes[n].state = s] = [e EXCEPT !.nodes[n] = nd]
  OBVIOUS
<1> HIDE DEF nd
<1> QED BY <1>2, <1>3, RecordDoc

\* A receipt clears the pending action and sets the state of its phase.
LEMMA AnswerDoc ==
    ASSUME doc \in Doc, NEW n \in Nodes, NEW p \in Phases
    PROVE  LET d == WithAnswer(n, p)
               next == NextState(p, run.mode) IN
           /\ d \in Doc /\ d.mutationOrder = doc.mutationOrder
           /\ d.generation = doc.generation /\ d.operationState = doc.operationState
           /\ \A m \in Nodes \ {n} : d.nodes[m] = doc.nodes[m]
           /\ d.nodes[n].state = (IF next = "none" THEN doc.nodes[n].state ELSE next)
           /\ d.nodes[n].receipts = doc.nodes[n].receipts \cup {p}
           /\ d.nodes[n].pendingAction = "none"
           /\ d.nodes[n].possiblyMutated = doc.nodes[n].possiblyMutated
<1> DEFINE next == NextState(p, run.mode)
           od == doc.nodes[n]
           nd == [od EXCEPT !.receipts = @ \cup {p}, !.pendingAction = "none",
                            !.state = IF next = "none" THEN @ ELSE next]
<1>1. od \in NodeDoc
  BY DEF Doc
<1>2. next \in NodeStates \cup {"none"}
  BY DEF NextState, NodeStates
<1>4. WithAnswer(n, p) = [doc EXCEPT !.nodes[n] = nd]
  BY DEF WithAnswer
<1> HIDE DEF next
<1>3. nd \in NodeDoc /\ nd.state = (IF next = "none" THEN od.state ELSE next)
      /\ nd.receipts = od.receipts \cup {p} /\ nd.pendingAction = "none"
      /\ nd.possiblyMutated = od.possiblyMutated
  BY <1>1, <1>2 DEF NodeDoc
<1> HIDE DEF nd
<1> QED BY <1>3, <1>4, RecordDoc DEF next

\* A change of the operation state leaves the nodes alone.
LEMMA StepDoc ==
    ASSUME NEW d \in Doc,
           NEW s \in {"none", "running", "rollback-required", "rollback-failed", "rolled-back", "completed"}
    PROVE  LET e == [d EXCEPT !.operationState = s] IN
           /\ e \in Doc /\ e.nodes = d.nodes /\ e.mutationOrder = d.mutationOrder
           /\ e.generation = d.generation /\ e.operationState = s
BY DEF Doc

\* Turning back relabels the untouched and the clean nodes only.
LEMMA ClassifiedDoc ==
    ASSUME doc \in Doc
    PROVE  LET d == Classified(doc) IN
           /\ d \in Doc /\ d.mutationOrder = doc.mutationOrder
           /\ d.generation = doc.generation /\ d.operationState = "rollback-required"
           /\ \A n \in Nodes :
                /\ d.nodes[n].receipts = doc.nodes[n].receipts
                /\ d.nodes[n].pendingAction = doc.nodes[n].pendingAction
                /\ Treatment(doc.nodes[n]) \notin {"clean", "untouched"} => d.nodes[n] = doc.nodes[n]
                /\ Treatment(doc.nodes[n]) = "clean" => d.nodes[n].state = doc.nodes[n].state
                /\ Treatment(doc.nodes[n]) = "untouched" => d.nodes[n].state = "rolled-back"
<1> DEFINE nd(n) == CASE Treatment(doc.nodes[n]) = "clean" ->
                             [doc.nodes[n] EXCEPT !.possiblyMutated = FALSE]
                      [] Treatment(doc.nodes[n]) = "untouched" ->
                             [doc.nodes[n] EXCEPT !.possiblyMutated = FALSE, !.state = "rolled-back"]
                      [] OTHER -> doc.nodes[n]
           nds == [n \in Nodes |-> nd(n)]
           d == [doc EXCEPT !.operationState = "rollback-required", !.nodes = nds]
<1>1. ASSUME NEW n \in Nodes
      PROVE  /\ nd(n) \in NodeDoc
             /\ nd(n).receipts = doc.nodes[n].receipts
             /\ nd(n).pendingAction = doc.nodes[n].pendingAction
             /\ Treatment(doc.nodes[n]) \notin {"clean", "untouched"} => nd(n) = doc.nodes[n]
             /\ Treatment(doc.nodes[n]) = "clean" => nd(n).state = doc.nodes[n].state
             /\ Treatment(doc.nodes[n]) = "untouched" => nd(n).state = "rolled-back"
  <2>1. doc.nodes[n] \in NodeDoc
    BY DEF Doc
  <2>2. CASE Treatment(doc.nodes[n]) = "clean"
    <3>1. nd(n) = [doc.nodes[n] EXCEPT !.possiblyMutated = FALSE]
      BY <2>2
    <3> HIDE DEF nd
    <3> QED BY <2>1, <2>2, <3>1 DEF NodeDoc
  <2>3. CASE Treatment(doc.nodes[n]) = "untouched"
    <3>1. nd(n) = [doc.nodes[n] EXCEPT !.possiblyMutated = FALSE, !.state = "rolled-back"]
      BY <2>3
    <3> HIDE DEF nd
    <3> QED BY <2>1, <2>3, <3>1 DEF NodeDoc, NodeStates
  <2>4. CASE Treatment(doc.nodes[n]) \notin {"clean", "untouched"}
    <3>1. nd(n) = doc.nodes[n]
      BY <2>4
    <3> HIDE DEF nd
    <3> QED BY <2>1, <2>4, <3>1
  <2> QED BY <2>2, <2>3, <2>4
<1>2. nds \in [Nodes -> NodeDoc] /\ \A n \in Nodes : nds[n] = nd(n)
  BY <1>1
<1>3. Classified(doc) = d
  BY DEF Classified
<1> HIDE DEF nd, nds
<1>4. d \in Doc /\ d.mutationOrder = doc.mutationOrder /\ d.generation = doc.generation
      /\ d.operationState = "rollback-required" /\ d.nodes = nds
  BY <1>2 DEF Doc
<1> QED BY <1>1, <1>2, <1>3, <1>4

\* A new coordinator marks the nodes whose call it has lost.
LEMMA RecoveredDoc ==
    ASSUME doc \in Doc
    PROVE  LET d == Recovered IN
           /\ d \in Doc /\ d.mutationOrder = doc.mutationOrder
           /\ d.generation = doc.generation /\ d.operationState = "rollback-required"
           /\ \A n \in Nodes :
                /\ d.nodes[n].receipts = doc.nodes[n].receipts
                /\ d.nodes[n].pendingAction = doc.nodes[n].pendingAction
                /\ IF n \in Pending THEN d.nodes[n].state = "unknown" /\ d.nodes[n].possiblyMutated
                   ELSE d.nodes[n] = doc.nodes[n]
<1> DEFINE nd(n) == IF n \in Pending
                    THEN [doc.nodes[n] EXCEPT !.state = "unknown", !.possiblyMutated = TRUE]
                    ELSE doc.nodes[n]
           nds == [n \in Nodes |-> nd(n)]
           d == [doc EXCEPT !.operationState = "rollback-required", !.nodes = nds]
<1>1. ASSUME NEW n \in Nodes
      PROVE  /\ nd(n) \in NodeDoc
             /\ nd(n).receipts = doc.nodes[n].receipts
             /\ nd(n).pendingAction = doc.nodes[n].pendingAction
             /\ IF n \in Pending THEN nd(n).state = "unknown" /\ nd(n).possiblyMutated
                ELSE nd(n) = doc.nodes[n]
  BY DEF Doc, NodeDoc, NodeStates
<1>2. nds \in [Nodes -> NodeDoc] /\ \A n \in Nodes : nds[n] = nd(n)
  BY <1>1
<1>3. Recovered = d
  BY DEF Recovered
<1> HIDE DEF nd, nds
<1>4. d \in Doc /\ d.mutationOrder = doc.mutationOrder /\ d.generation = doc.generation
      /\ d.operationState = "rollback-required" /\ d.nodes = nds
  BY <1>2 DEF Doc
<1> QED BY <1>1, <1>2, <1>3, <1>4

\* The head of a list without repetitions, and what is left of it.
LEMMA HeadTail ==
    ASSUME NEW E, NEW s \in Seq(E), s # <<>>
    PROVE  /\ Head(s) \in E /\ Head(s) \in Range(s) /\ Tail(s) \in Seq(E)
           /\ IsInjective(s) => IsInjective(Tail(s)) /\ Range(Tail(s)) = Range(s) \ {Head(s)}
<1> DEFINE t == Tail(s)
<1>1. Len(s) \in Nat \ {0} /\ Head(s) = s[1] /\ t \in Seq(E) /\ Len(t) = Len(s) - 1
      /\ \A i \in 1..Len(t) : t[i] = s[i + 1]
  OBVIOUS
<1>2. DOMAIN s = 1..Len(s) /\ DOMAIN t = 1..Len(t) /\ \A i \in 1..Len(s) : s[i] \in E
  BY <1>1
<1> HIDE DEF t
<1>3. Head(s) \in Range(s) /\ Head(s) \in E
  BY <1>1, <1>2 DEF Range
<1>4. ASSUME IsInjective(s) PROVE IsInjective(t)
  BY <1>1, <1>2, <1>4 DEF IsInjective
<1>5. ASSUME IsInjective(s) PROVE Range(t) = Range(s) \ {Head(s)}
  <2>1. Range(t) \subseteq Range(s) \ {Head(s)}
    <3>1. ASSUME NEW i \in 1..Len(t) PROVE t[i] \in Range(s) \ {Head(s)}
      <4>1. t[i] = s[i + 1] /\ i + 1 \in 1..Len(s) /\ i + 1 # 1 /\ 1 \in 1..Len(s)
        BY <1>1
      <4> QED BY <1>1, <1>2, <1>5, <4>1 DEF IsInjective, Range
    <3> QED BY <1>2, <3>1 DEF Range
  <2>2. Range(s) \ {Head(s)} \subseteq Range(t)
    <3>1. ASSUME NEW i \in 1..Len(s), s[i] # s[1] PROVE s[i] \in Range(t)
      <4>1. i - 1 \in 1..Len(t) /\ t[i - 1] = s[i]
        BY <1>1, <3>1
      <4> QED BY <1>2, <4>1 DEF Range
    <3> QED BY <1>1, <1>2, <3>1 DEF Range
  <2> QED BY <2>1, <2>2
<1> QED BY <1>1, <1>3, <1>4, <1>5 DEF t

\* The plan names every node once.
LEMMA OrderNodes == Order \in Seq(Nodes) /\ Range(Order) = Nodes /\ IsInjective(Order)
<1>1. Order \in Seq(Nodes) /\ DOMAIN Order = 1..Len(Order)
  BY OrderAssumption
<1>2. Range(Order) = Nodes
  BY <1>1, OrderAssumption DEF Range
<1>3. IsInjective(Order)
  BY <1>1, OrderAssumption DEF IsInjective
<1> QED BY <1>1, <1>2, <1>3

\* The nodes that a forward pass visits are those that have a phase due.
LEMMA DueList ==
    /\ Range(DueNodes) = {n \in Nodes : Due(n) # "none"}
    /\ DueNodes \in Seq(Nodes)
    /\ DueNodes # <<>> => Head(DueNodes) \in Nodes /\ Due(Head(DueNodes)) # "none"
    /\ DueNodes = <<>> => \A n \in Nodes : Due(n) = "none"
<1> DEFINE S == {n \in Nodes : Due(n) # "none"}
<1>1. DueNodes \in Seq(Nodes) /\ Range(DueNodes) = Range(Order) \cap S
  BY OrderNodes, KeptEntries DEF DueNodes
<1>2. Range(DueNodes) = S
  BY <1>1, OrderNodes
<1>3. DueNodes # <<>> => Head(DueNodes) \in S
  BY <1>1, <1>2, HeadTail
<1>4. DueNodes = <<>> => S = {}
  BY <1>2 DEF Range
<1> QED BY <1>1, <1>2, <1>3, <1>4

\* What an intent asks of the document: a node that a restoring phase may have
\* reached is known as changed, and one that may still be changing stays known.
Intended(n, p, mutation) ==
    LET nd == doc.nodes[n] IN
    /\ p \in Restoring => (nd.possiblyMutated \/ mutation) /\ ~OnlyStageCleanup(nd)
    /\ p \notin Restoring =>
         nd.pendingAction \notin Restoring \/ (~Unprepared(nd) /\ Doing(n) \cap Acting = {})
    /\ p \in {"swap", "restart", "release"} => ~Unprepared(nd)

\* An intended phase may be written down before it is called.
LEMMA IntentKept ==
    ASSUME doc \in Doc, DocInv(doc), NEW n \in Nodes, NEW p \in Phases, NEW mutation \in BOOLEAN,
           Intended(n, p, mutation)
    PROVE  LET d == Intent(n, p, mutation) IN
           /\ d \in Doc /\ d.generation = doc.generation /\ d.operationState = doc.operationState
           /\ IsInjective(d.mutationOrder)
           /\ \A m \in Nodes : RecordInv(d.nodes[m])
           /\ \A m \in Nodes \ {n} : WorldInv(d.nodes[m], host[m], journal[m], Doing(m))
           /\ WorldInv(d.nodes[n], host[n], journal[n], Doing(n) \cup {p})
           /\ WorldInv(d.nodes[n], host[n], journal[n], Doing(n))
<1> DEFINE nd == doc.nodes[n]
           d == Intent(n, p, mutation)
<1>1. /\ d \in Doc /\ IsInjective(d.mutationOrder)
      /\ d.generation = doc.generation /\ d.operationState = doc.operationState
      /\ \A m \in Nodes \ {n} : d.nodes[m] = doc.nodes[m]
      /\ d.nodes[n].state = nd.state /\ d.nodes[n].receipts = nd.receipts
      /\ d.nodes[n].pendingAction = p
      /\ d.nodes[n].possiblyMutated = (nd.possiblyMutated \/ mutation)
  BY IntentDoc DEF DocInv
<1> HIDE DEF d
<1>2. \A m \in Nodes : RecordInv(doc.nodes[m]) /\ WorldInv(doc.nodes[m], host[m], journal[m], Doing(m))
  BY DEF DocInv
<1>3. RecordInv(d.nodes[n])
  <2>1. /\ Unprepared(d.nodes[n]) <=> Unprepared(nd)
        /\ OnlyStageCleanup(d.nodes[n]) <=> OnlyStageCleanup(nd)
    BY <1>1 DEF Unprepared, OnlyStageCleanup
  <2> QED BY <1>1, <1>2, <2>1 DEF RecordInv, Intended
<1>4. WorldInv(d.nodes[n], host[n], journal[n], Doing(n) \cup {p})
  <2>1. Unprepared(d.nodes[n]) <=> Unprepared(nd)
    BY <1>1 DEF Unprepared
  <2>2. p # "none" /\ (p \in Acting => p \in Restoring)
    BY DEF Phases, Acting, Restoring, Beyond, Forward
  <2>3. WorldInv(nd, host[n], journal[n], Doing(n))
    BY <1>2
  <2>4. (Doing(n) \cup {p}) \cap Acting # {} => p \in Restoring
    BY <2>2, <2>3 DEF WorldInv, Intended
  <2>5. Unprepared(nd) => /\ OnRelease(host[n], "old") /\ host[n].fence # "releasing"
                          /\ (Doing(n) \cup {p}) \cap {"swap", "restart", "release"} = {}
    BY <2>3 DEF WorldInv, Intended
  <2>6. host[n].fence # "open" => Has(journal[n], {"reprepare"}) \/ ~Unprepared(nd) \/ p \in Restoring
    BY <2>3 DEF WorldInv, Intended
  <2> QED BY <1>1, <2>1, <2>2, <2>4, <2>5, <2>6 DEF WorldInv
<1>5. WorldInv(d.nodes[n], host[n], journal[n], Doing(n))
  BY <1>4 DEF WorldInv
<1> QED BY <1>1, <1>2, <1>3, <1>4, <1>5 DEF d

\* The state each receipt leads to.
LEMMA NextStates ==
    ASSUME NEW p
    PROVE  /\ p \in {"preflight", "canary"} => NextState(p, "forward") = "none"
           /\ p = "stage" => NextState(p, "forward") = "staged"
           /\ p = "prepare" => NextState(p, "forward") = "prepared"
           /\ p = "swap" => NextState(p, "forward") = "mutating"
           /\ p = "restart" => NextState(p, "forward") = "active"
           /\ p = "verify" => NextState(p, "forward") = "verified"
           /\ p = "promote" => NextState(p, "forward") = "promoted"
           /\ p = "release" => NextState(p, "forward") = "released"
BY DEF NextState

\* A receipt keeps the document true if what it affirms is.
LEMMA AnswerKept ==
    ASSUME TypeOK, DocInv(doc), CallInv, ForwardInv, NEW n \in Nodes, n = run.call, answer[n] = "ok"
    PROVE  DocInv(WithAnswer(n, run.phase))
<1> DEFINE nd == doc.nodes[n]
           p == run.phase
           d == WithAnswer(n, p)
           next == NextState(p, run.mode)
<1>0. /\ p \in Phases /\ nd.pendingAction = p /\ OkInv(n) /\ run.call # "none"
      /\ run.mode \in {"forward", "back"}
  <2>1. run.call # "none" /\ run.mode \in {"forward", "back"}
    BY CalledNode
  <2> QED BY <2>1 DEF CallInv, TypeOK, Run
<1>1. /\ d.mutationOrder = doc.mutationOrder
      /\ \A m \in Nodes \ {n} : d.nodes[m] = doc.nodes[m]
      /\ d.nodes[n].state = (IF next = "none" THEN nd.state ELSE next)
      /\ d.nodes[n].receipts = nd.receipts \cup {p}
      /\ d.nodes[n].pendingAction = "none"
      /\ d.nodes[n].possiblyMutated = nd.possiblyMutated
  BY <1>0, AnswerDoc DEF TypeOK
<1> HIDE DEF d, next
<1>2. RecordInv(nd) /\ WorldInv(nd, host[n], journal[n], Doing(n))
  BY DEF DocInv
<1>3. Unprepared(d.nodes[n]) <=> Unprepared(nd) /\ p \notin Beyond
  BY <1>1 DEF Unprepared
<1>4. ~Unprepared(d.nodes[n]) => d.nodes[n].possiblyMutated
  BY <1>0, <1>1, <1>2, <1>3 DEF RecordInv, Restoring
<1>5. /\ d.nodes[n].state \in {"preflight", "staged"} => Unprepared(d.nodes[n])
      /\ d.nodes[n].state \in {"prepared", "mutating", "active", "verified", "promoted", "released"} =>
           ~Unprepared(d.nodes[n])
      /\ d.nodes[n].state \in {"prepared", "mutating", "active", "verified", "promoted"} =>
           "release" \notin d.nodes[n].receipts
  <2>1. CASE run.mode = "back"
    <3>1. next \in {"rolled-back", "rollback-required"}
      BY <2>1 DEF next, NextState
    <3> QED BY <1>1, <3>1
  <2>2. CASE run.mode = "forward"
    <3>1. p = Due(n) /\ run.pass \in 1..8
      BY <1>0, <2>2 DEF ForwardInv, ForwardPasses
    <3>2. \/ run.pass = 1 \/ run.pass = 2 \/ run.pass = 3 \/ run.pass = 4
          \/ run.pass = 5 \/ run.pass = 6 \/ run.pass = 7 \/ run.pass = 8
      BY <3>1
    <3>3. /\ p = "stage" => nd.state = "preflight"
          /\ p = "prepare" => nd.state = "staged"
          /\ p = "swap" => nd.state = "prepared"
          /\ p = "restart" => nd.state = "mutating"
          /\ p = "verify" => nd.state = "active"
          /\ p = "canary" => run.pass = 6
          /\ p = "promote" => nd.state = "verified"
          /\ p = "release" => nd.state = "promoted"
          /\ p \notin {"reprepare", "rollback", "discard-stage"}
      BY <1>0, <3>1, <3>2 DEF Due, ForwardPasses, Phases
    <3>4. p = "canary" => nd.state = "verified"
      BY <2>2, <3>3 DEF ForwardInv, StatesIn
    <3>5. \/ p = "preflight" /\ next = "none"
          \/ p = "stage" /\ next = "staged"
          \/ p = "prepare" /\ next = "prepared"
          \/ p = "swap" /\ next = "mutating"
          \/ p = "restart" /\ next = "active"
          \/ p = "verify" /\ next = "verified"
          \/ p = "canary" /\ next = "none"
          \/ p = "promote" /\ next = "promoted"
          \/ p = "release" /\ next = "released"
      <4>1. /\ p \in {"preflight", "canary"} => next = "none"
            /\ p = "stage" => next = "staged"
            /\ p = "prepare" => next = "prepared"
            /\ p = "swap" => next = "mutating"
            /\ p = "restart" => next = "active"
            /\ p = "verify" => next = "verified"
            /\ p = "promote" => next = "promoted"
            /\ p = "release" => next = "released"
        BY <2>2, NextStates DEF next
      <4>2. p \in {"preflight", "stage", "prepare", "swap", "restart", "verify", "canary",
                  "promote", "release"}
        BY <1>0, <3>3 DEF Phases
      <4> QED BY <4>1, <4>2
    <3>6. /\ Unprepared(nd) => "release" \notin nd.receipts
          /\ p \in Beyond <=> p \notin {"preflight", "stage"}
      BY <3>5 DEF Unprepared, Beyond, Forward
    <3> QED BY <1>1, <1>2, <1>3, <3>3, <3>4, <3>5, <3>6 DEF RecordInv
  <2> QED BY <1>0, <2>1, <2>2
<1>6. RecordInv(d.nodes[n])
  BY <1>1, <1>4, <1>5 DEF RecordInv, Restoring, Beyond, Forward
<1>7. WorldInv(d.nodes[n], host[n], journal[n], Doing(n))
  <2>1. Doing(n) = {}
    BY <1>0 DEF OkInv
  <2>2. p \in Restoring => p \in Beyond \/ p = "reprepare"
    BY DEF Restoring
  <2>3. p = "reprepare" => Has(journal[n], {"reprepare"})
    BY <1>0 DEF OkInv
  <2> QED BY <1>0, <1>1, <1>2, <1>3, <2>1, <2>2, <2>3 DEF WorldInv
<1> QED BY <1>1, <1>6, <1>7 DEF DocInv, d

\* So does a state that says that the outcome is not known.
LEMMA UnknownKept ==
    ASSUME NEW e \in Doc, DocInv(e), NEW n \in Nodes,
           NEW s \in {"unknown", "rollback-failed", "rollback-required"}
    PROVE  DocInv([e EXCEPT !.nodes[n].state = s])
<1> DEFINE d == [e EXCEPT !.nodes[n].state = s]
<1>1. /\ d.mutationOrder = e.mutationOrder
      /\ \A m \in Nodes \ {n} : d.nodes[m] = e.nodes[m]
      /\ d.nodes[n].state = s /\ d.nodes[n].receipts = e.nodes[n].receipts
      /\ d.nodes[n].pendingAction = e.nodes[n].pendingAction
      /\ d.nodes[n].possiblyMutated = e.nodes[n].possiblyMutated
  <2>1. s \in NodeStates
    BY DEF NodeStates
  <2> QED BY <2>1, StateDoc
<1> HIDE DEF d
<1>2. RecordInv(d.nodes[n])
  BY <1>1 DEF DocInv, RecordInv, Unprepared, OnlyStageCleanup
<1>3. WorldInv(d.nodes[n], host[n], journal[n], Doing(n))
  BY <1>1 DEF DocInv, WorldInv, Unprepared
<1> QED BY <1>1, <1>2, <1>3 DEF DocInv, d

\* A node that is to be restored is one that may have been prepared, and no other is.
LEMMA Restored ==
    ASSUME NEW nd, RecordInv(nd)
    PROVE  /\ Treatment(nd) \in {"reserve", "clean", "restore", "discard", "untouched"}
           /\ Treatment(nd) = "restore" => ~OnlyStageCleanup(nd)
           /\ Treatment(nd) # "restore" => Unprepared(nd) /\ nd.pendingAction \notin Restoring
<1>1. Treatment(nd) \in {"reserve", "clean", "restore", "discard", "untouched"}
      /\ (Treatment(nd) = "restore" => ~OnlyStageCleanup(nd))
  BY DEF Treatment, ReservationOnly, OnlyStageCleanup
<1>2. ReservationOnly(nd) => Unprepared(nd) /\ nd.pendingAction \notin Restoring
  BY DEF RecordInv, ReservationOnly
<1>3. OnlyStageCleanup(nd) => Unprepared(nd) /\ nd.pendingAction \notin Restoring
  BY DEF RecordInv, OnlyStageCleanup, Unprepared
<1>4. ~PreparedOrBeyond(nd) => Unprepared(nd) /\ nd.pendingAction \notin Restoring
  BY DEF PreparedOrBeyond, Unprepared, Restoring
<1> QED BY <1>1, <1>2, <1>3, <1>4 DEF Treatment

\* The relabelled document is true of the nodes.
LEMMA ClassifiedKept ==
    ASSUME doc \in Doc, DocInv(doc) PROVE DocInv(Classified(doc))
<1> DEFINE d == Classified(doc)
<1>1. /\ d \in Doc /\ d.mutationOrder = doc.mutationOrder
      /\ \A n \in Nodes :
           /\ d.nodes[n].receipts = doc.nodes[n].receipts
           /\ d.nodes[n].pendingAction = doc.nodes[n].pendingAction
           /\ Treatment(doc.nodes[n]) \notin {"clean", "untouched"} => d.nodes[n] = doc.nodes[n]
           /\ Treatment(doc.nodes[n]) = "clean" => d.nodes[n].state = doc.nodes[n].state
           /\ Treatment(doc.nodes[n]) = "untouched" => d.nodes[n].state = "rolled-back"
  BY ClassifiedDoc
<1> HIDE DEF d
<1>2. ASSUME NEW n \in Nodes PROVE RecordInv(d.nodes[n])
  <2>1. RecordInv(doc.nodes[n])
    BY DEF DocInv
  <2>2. CASE Treatment(doc.nodes[n]) \in {"clean", "untouched"}
    <3>1. Unprepared(doc.nodes[n]) /\ doc.nodes[n].pendingAction \notin Restoring
      BY <2>1, <2>2, Restored
    <3>2. d.nodes[n].state = "rolled-back"
      BY <1>1, <2>2 DEF Treatment, OnlyStageCleanup
    <3> QED BY <1>1, <3>1, <3>2 DEF RecordInv, Unprepared
  <2>3. CASE Treatment(doc.nodes[n]) \notin {"clean", "untouched"}
    BY <1>1, <2>1, <2>3
  <2> QED BY <2>2, <2>3
<1>3. ASSUME NEW n \in Nodes PROVE WorldInv(d.nodes[n], host[n], journal[n], Doing(n))
  BY <1>1 DEF DocInv, WorldInv, Unprepared
<1> QED BY <1>1, <1>2, <1>3 DEF DocInv, d

\* So is the one that marks lost calls.
LEMMA RecoveredKept == ASSUME doc \in Doc, DocInv(doc) PROVE DocInv(Recovered)
<1> DEFINE d == Recovered
<1>1. /\ d \in Doc /\ d.mutationOrder = doc.mutationOrder
      /\ \A n \in Nodes :
           /\ d.nodes[n].receipts = doc.nodes[n].receipts
           /\ d.nodes[n].pendingAction = doc.nodes[n].pendingAction
           /\ IF n \in Pending THEN d.nodes[n].state = "unknown" /\ d.nodes[n].possiblyMutated
              ELSE d.nodes[n] = doc.nodes[n]
  BY RecoveredDoc
<1> HIDE DEF d
<1>2. ASSUME NEW n \in Nodes PROVE RecordInv(d.nodes[n])
  BY <1>1 DEF DocInv, RecordInv, Unprepared, OnlyStageCleanup
<1>3. ASSUME NEW n \in Nodes PROVE WorldInv(d.nodes[n], host[n], journal[n], Doing(n))
  BY <1>1 DEF DocInv, WorldInv, Unprepared
<1> QED BY <1>1, <1>2, <1>3 DEF DocInv, d

-----------------------------------------------------------------------------
(* Each step of the coordinator keeps the invariant.                       *)

\* A coordinator that is down or has just started waits for nobody.
LEMMA DownRun ==
    ASSUME NEW m \in {"down", "recover", "forward", "abort", "back"}
    PROVE  /\ Down \in Run /\ Down.mode = "down" /\ Down.call = "none"
           /\ [Down EXCEPT !.mode = m] \in Run
           /\ [Down EXCEPT !.mode = m].mode = m /\ [Down EXCEPT !.mode = m].call = "none"
<1>1. <<>> \in Seq(Nodes)
  OBVIOUS
<1>2. Down \in Run
  BY <1>1 DEF Run, Down
<1>3. Down.mode = "down" /\ Down.call = "none"
  BY DEF Down
<1> QED BY <1>2, <1>3 DEF Run

\* A document is written, or the write fails; the nodes are not reached.
LEMMA Recorded ==
    ASSUME ClusterInv, Withdrawn, locked' = locked, run.mode # "down",
           NEW d, DocInv(d), d.generation = doc.generation, saved' \in {saved, d},
           NEW e, run'.mode = "down" \/ (doc' = e /\ DocInv(e) /\ e.generation = doc.generation)
    PROVE  /\ DocsInv' /\ GenerationInv' /\ FleetInv' /\ \A n \in Nodes : NodeInv(n)'
           /\ d.operationState \notin {"completed", "rolled-back"} => EndInv'
<1>0. /\ TypeOK /\ DocsInv /\ GenerationInv /\ FleetInv /\ EndInv
      /\ \A n \in Nodes : NodeInv(n)
  BY DEF ClusterInv
<1>1. \A n \in Nodes : NodeInv(n)'
  BY <1>0, StillNodes DEF Withdrawn
<1>2. DocsInv'
  <2>1. PICK c \in {saved, d} : saved' = c
    OBVIOUS
  <2>2. DocInv(c)
    BY <1>0 DEF DocsInv
  <2> QED BY <2>1, <2>2, DocsStill
<1>3. GenerationInv'
  <2>1. doc.generation = saved.generation /\ doc.generation # 0 /\ saved.generation \in Nat
    BY <1>0, AgentAssumption DEF GenerationInv, TypeOK, Doc
  <2>2. saved'.generation = saved.generation
    BY <2>1
  <2> QED BY <1>0, <2>1, <2>2, GenerationStill DEF Withdrawn
<1>4. FleetInv'
  BY <1>0, FleetStill
<1>5. d.operationState \notin {"completed", "rolled-back"} => EndInv'
  BY <1>0, EndStill
<1> QED BY <1>1, <1>2, <1>3, <1>4, <1>5

\* A new coordinator has a generation that no node has seen.
LEMMA StartKeeps ==
    ASSUME ClusterInv, Deploy \/ Resume \/ Rollback PROVE ClusterInv'
<1>0. /\ TypeOK /\ DocsInv /\ CallInv /\ GenerationInv /\ FleetInv /\ EndInv
      /\ \A n \in Nodes : NodeInv(n)
  BY DEF ClusterInv
<1>1. /\ UNCHANGED agentVars /\ run.mode = "down" /\ saved' = doc'
      /\ run'.mode \in {"recover", "abort"} /\ run'.call = "none" /\ run' \in Run
      /\ run'.mode = "recover" => doc'.operationState = "running"
      /\ doc'.operationState \in {"running", "rollback-required", "rollback-failed"}
      /\ doc' \in Doc /\ doc'.generation = saved.generation + 1
      /\ doc'.nodes = saved.nodes /\ doc'.mutationOrder = saved.mutationOrder
  <2>1. run.mode = "down" /\ UNCHANGED agentVars /\ saved' = doc'
    BY DEF Deploy, Resume, Rollback, MayStart, Saved
  <2>2. ASSUME NEW m \in {"recover", "abort"}, run' = [Down EXCEPT !.mode = m]
        PROVE  run' \in Run /\ run'.mode = m /\ run'.call = "none"
    BY <2>2, DownRun
  <2>3. saved \in Doc /\ AgentGenerations \in Nat \ {0}
    BY <1>0, AgentAssumption DEF TypeOK
  <2>4. CASE Deploy
    <3>1. saved = NoDoc /\ doc' = [NoDoc EXCEPT !.generation = 1, !.operationState = "running"]
          /\ run' = [Down EXCEPT !.mode = "recover"]
      BY <2>4 DEF Deploy
    <3>2. /\ NoDoc.generation = 0
          /\ doc' = [generation |-> 1, operationState |-> "running", nodes |-> NoDoc.nodes,
                     mutationOrder |-> NoDoc.mutationOrder]
      BY <3>1 DEF NoDoc
    <3>3. doc' \in Doc
      BY <2>3, <3>1, <3>2 DEF Doc
    <3> QED BY <2>1, <2>2, <2>3, <3>1, <3>2, <3>3
  <2>5. CASE Resume
    <3>1. /\ doc' = [saved EXCEPT !.generation = @ + 1]
          /\ run' = [Down EXCEPT !.mode = IF saved.operationState = "running" THEN "recover" ELSE "abort"]
          /\ saved.operationState \in {"running", "rollback-required", "rollback-failed"}
          /\ saved.generation < AgentGenerations
      BY <2>5 DEF Resume, MayStart
    <3>2. saved.generation + 1 \in 0..AgentGenerations
      BY <2>3, <3>1 DEF Doc
    <3>3. /\ doc' \in Doc /\ doc'.generation = saved.generation + 1 /\ doc'.nodes = saved.nodes
          /\ doc'.mutationOrder = saved.mutationOrder /\ doc'.operationState = saved.operationState
      BY <2>3, <3>1, <3>2 DEF Doc
    <3> QED BY <2>1, <2>2, <3>1, <3>3
  <2>6. CASE Rollback
    <3>1. /\ doc' = [saved EXCEPT !.generation = @ + 1, !.operationState = "rollback-required"]
          /\ run' = [Down EXCEPT !.mode = "abort"]
          /\ saved.generation < AgentGenerations
      BY <2>6 DEF Rollback, MayStart
    <3>2. saved.generation + 1 \in 0..AgentGenerations
      BY <2>3, <3>1 DEF Doc
    <3>3. /\ doc' \in Doc /\ doc'.generation = saved.generation + 1 /\ doc'.nodes = saved.nodes
          /\ doc'.mutationOrder = saved.mutationOrder /\ doc'.operationState = "rollback-required"
      BY <2>3, <3>1, <3>2 DEF Doc
    <3> QED BY <2>1, <2>2, <3>1, <3>3
  <2> QED BY <2>4, <2>5, <2>6
<1>2. Withdrawn /\ UNCHANGED <<host, journal, inv, request, answer, locked>>
  BY <1>1 DEF agentVars, Withdrawn, Still
<1>3. TypeOK'
  BY <1>0, <1>1 DEF TypeOK, AgentTypeOK, agentVars
<1>4. \A n \in Nodes : NodeInv(n)'
  BY <1>0, <1>2, StillNodes DEF Withdrawn
<1>5. DocsInv'
  <2>1. /\ IsInjective(saved.mutationOrder)
        /\ \A n \in Nodes : /\ RecordInv(saved.nodes[n])
                            /\ WorldInv(saved.nodes[n], host'[n], journal'[n], Doing(n)')
    BY <1>0, <1>2, DocStill DEF DocsInv
  <2> QED BY <1>1, <2>1 DEF DocsInv, DocInv
<1>6. CallInv'
  BY <1>0, <1>1, <1>2, Uncalled DEF CallInv
<1>7. saved.generation \in Nat
  BY <1>0, AgentAssumption DEF TypeOK, Doc
<1>8. GenerationInv'
  BY <1>0, <1>1, <1>2, <1>7, GenerationStill DEF Withdrawn
<1>9. StartInv'
  <2>1. ASSUME NEW n \in Nodes, NEW p \in Phases PROVE Fresh(n, p)'
    <3>1. NodeInv(n) /\ p # "none" /\ journal[n].receipts[p] \in Nat /\ inv[n].request.generation \in Nat
      <4>1. journal[n] \in Journal /\ inv[n].request \in Request
        BY <1>0 DEF TypeOK, AgentTypeOK, Invocation
      <4> QED BY <1>0, <4>1, AgentAssumption DEF Journal, Request, Phases
    <3>2. Phase(n) = p => Invoked(n)
      BY <3>1 DEF NodeInv, PendingInv
    <3>3. journal[n].receipts[p] <= saved.generation
          /\ (Phase(n) = p => inv[n].request.generation <= saved.generation)
      BY <1>0, <1>7, <3>2 DEF GenerationInv
    <3>4. doc'.generation > saved.generation
      BY <1>1, <1>7
    <3> QED BY <1>2, <1>7, <3>1, <3>3, <3>4 DEF Fresh, Phase
  <2> QED BY <1>1, <2>1 DEF StartInv, Phases
<1>10. ForwardInv' /\ BackInv'
  BY <1>1 DEF ForwardInv, BackInv
<1>11. FleetInv'
  BY <1>0, <1>2, FleetStill
<1>12. EndInv'
  BY <1>1 DEF EndInv
<1> QED BY <1>3, <1>4, <1>5, <1>6, <1>8, <1>9, <1>10, <1>11, <1>12 DEF ClusterInv

\* An intent without a receipt turns the operation back.
LEMMA RecoverKeeps ==
    ASSUME ClusterInv, RecoverPending PROVE ClusterInv'
<1>0. TypeOK /\ DocsInv /\ CallInv /\ StartInv
  BY DEF ClusterInv
<1>1. /\ run.mode = "recover" /\ run' = [run EXCEPT !.mode = "abort"] /\ doc' = Recovered
      /\ saved' \in {saved, Recovered} /\ faults' \in 0..MaxFaults
      /\ UNCHANGED <<journal, host, locked, inv, request, answer>>
  BY <1>0, AgentAssumption
     DEF RecoverPending, SavedOrNot, Saved, SaveFails, Fault, TypeOK, AgentTypeOK
<1>2. run' \in Run /\ run'.mode = "abort" /\ run'.call = run.call /\ run.call = "none"
  BY <1>0, <1>1 DEF TypeOK, Run, CallInv
<1>3. Withdrawn
  BY <1>1 DEF Withdrawn, Still
<1>4. Recovered \in Doc /\ Recovered.generation = doc.generation
      /\ Recovered.operationState = "rollback-required"
  BY <1>0, RecoveredDoc DEF TypeOK
<1>5. TypeOK'
  BY <1>0, <1>1, <1>2, <1>4 DEF TypeOK, AgentTypeOK
<1>6. DocInv(Recovered)
  BY <1>0, <1>1, RecoveredKept DEF DocsInv, TypeOK
<1>7. /\ DocsInv' /\ GenerationInv' /\ FleetInv' /\ EndInv' /\ \A n \in Nodes : NodeInv(n)'
  BY <1>1, <1>3, <1>4, <1>6, Recorded
<1>8. CallInv'
  BY <1>0, <1>1, <1>2, Uncalled
<1>9. StartInv'
  BY <1>0, <1>1, <1>2, <1>3, <1>4, StillFresh DEF StartInv, Withdrawn, Phases
<1>10. ForwardInv' /\ BackInv'
  BY <1>2 DEF ForwardInv, BackInv
<1> QED BY <1>5, <1>7, <1>8, <1>9, <1>10 DEF ClusterInv

\* Nothing is pending: no node does anything, and the passes begin.
LEMMA NothingKeeps ==
    ASSUME ClusterInv, NothingPending PROVE ClusterInv'
<1>0. TypeOK /\ DocsInv /\ CallInv /\ GenerationInv /\ StartInv /\ \A n \in Nodes : NodeInv(n)
  BY DEF ClusterInv
<1>1. /\ run.mode = "recover" /\ run' = [run EXCEPT !.mode = "forward", !.pass = 1] /\ Pending = {}
      /\ UNCHANGED <<journal, host, locked, inv, request, answer, faults, doc, saved>>
  BY DEF NothingPending, agentVars
<1>2. /\ run' \in Run /\ run'.mode = "forward" /\ run'.pass = 1
      /\ run'.call = run.call /\ run.call = "none" /\ run'.phase = run.phase
  <2>1. run.call = "none"
    BY <1>0, <1>1 DEF CallInv
  <2>2. run \in Run
    BY <1>0 DEF TypeOK
  <2>3. run'.mode = "forward" /\ run'.pass = 1 /\ run'.call = run.call /\ run'.phase = run.phase
    BY <1>1, <2>2 DEF Run
  <2>4. run' \in Run
    <3>1. ASSUME NEW p \in 0..8 PROVE [run EXCEPT !.mode = "forward", !.pass = p] \in Run
      BY <2>2 DEF Run
    <3> QED BY <1>1, <3>1
  <2> QED BY <2>1, <2>3, <2>4
<1>3. Withdrawn
  BY <1>1 DEF Withdrawn, Still
<1>4. TypeOK'
  BY <1>0, <1>1, <1>2 DEF TypeOK, AgentTypeOK
<1>5. /\ DocsInv' /\ GenerationInv' /\ FleetInv' /\ EndInv' /\ \A n \in Nodes : NodeInv(n)'
  <2>1. DocInv(doc) /\ doc.operationState = "running"
    BY <1>0, <1>1 DEF DocsInv, StartInv
  <2> QED BY <1>1, <1>2, <1>3, <2>1, Recorded
<1>6. CallInv'
  BY <1>0, <1>1, <1>2, Uncalled
<1>7. \A n \in Nodes, p \in Phases : Fresh(n, p) /\ Fresh(n, p)'
  BY <1>0, <1>1, <1>3, StillFresh DEF StartInv, Withdrawn
<1>8. StartInv'
  BY <1>2, <1>7 DEF StartInv, Phases
<1>9. ForwardInv'
  <2>1. ASSUME NEW n \in Nodes
        PROVE  /\ doc.nodes[n].pendingAction = "none" /\ Doing(n)' = {} /\ request'[n].phase = "none"
               /\ doc.nodes[n].state \in NodeStates
    <3>1. doc.nodes[n].pendingAction = "none" /\ doc.nodes[n] \in NodeDoc
      BY <1>0, <1>1 DEF Pending, TypeOK, Doc
    <3>2. Doing(n) = {}
      BY <1>0, <1>1, <3>1, IdleNode DEF DocsInv
    <3>3. Doing(n)' = {}
      BY <1>3, <3>2, StillDoing
    <3> QED BY <3>1, <3>3 DEF Doing, NodeDoc
  <2>2. doc.operationState = "running" /\ 1 \in 1..Len(ForwardPasses)
    BY <1>0, <1>1 DEF StartInv, ForwardPasses
  <2>3. StatesIn(1) = NodeStates
    BY DEF StatesIn
  <2>4. \A n \in Nodes : \A p \in {"prepare", "swap", "restart", "release"} : Fresh(n, p)'
    BY <1>7 DEF Phases
  <2> QED BY <1>1, <1>2, <2>1, <2>2, <2>3, <2>4 DEF ForwardInv
<1>10. BackInv'
  BY <1>2 DEF BackInv
<1> QED BY <1>4, <1>5, <1>6, <1>8, <1>9, <1>10 DEF ClusterInv

\* The coordinator dies, or nobody waits for the called node any more.
LEMMA CrashKeeps == ASSUME ClusterInv, Crash PROVE ClusterInv'
<1>0. TypeOK /\ DocsInv /\ CallInv /\ GenerationInv
  BY DEF ClusterInv
<1>1. /\ run.mode # "down" /\ run' = Down /\ doc' = NoDoc /\ saved' = saved /\ faults' \in 0..MaxFaults
      /\ UNCHANGED <<journal, host, locked>>
      /\ request' = [n \in Nodes |-> NoRequest]
      /\ inv' = [n \in Nodes |-> [inv[n] EXCEPT !.attached = FALSE]]
      /\ answer' = [n \in Nodes |-> "none"]
  BY <1>0, AgentAssumption DEF Crash, Fault, TypeOK, AgentTypeOK
<1>2. Down \in Run /\ run'.mode = "down" /\ run'.call = "none"
  BY <1>1, DownRun
<1>3. \A n \in Nodes : /\ inv'[n] \in Invocation
                       /\ inv'[n].request = inv[n].request /\ inv'[n].at = inv[n].at
                       /\ ~inv'[n].attached /\ request'[n] = NoRequest /\ answer'[n] = "none"
  BY <1>0, <1>1 DEF TypeOK, AgentTypeOK, Invocation
<1>4. Withdrawn
  BY <1>1, <1>3 DEF Withdrawn, Still, NoRequest
<1>5. NoDoc \in Doc
  <2>1. <<>> \in Seq(Nodes) /\ AgentGenerations \in Nat
    BY AgentAssumption
  <2> QED BY <2>1 DEF NoDoc, Doc, NodeDoc, NodeStates
<1>6. TypeOK'
  <2>1. inv' \in [Nodes -> Invocation]
    BY <1>1, <1>3
  <2>2. NoRequest \in Request
    BY AgentAssumption DEF NoRequest, Request
  <2> QED BY <1>0, <1>1, <1>2, <1>5, <2>1, <2>2 DEF TypeOK, AgentTypeOK
<1>7. /\ DocsInv' /\ GenerationInv' /\ FleetInv' /\ \A n \in Nodes : NodeInv(n)'
  <2>1. DocInv(doc)
    BY <1>0, <1>1 DEF DocsInv
  <2> QED BY <1>1, <1>2, <1>4, <2>1, Recorded
<1>8. EndInv'
  BY <1>1, <1>4, EndStill DEF ClusterInv
<1>9. CallInv'
  BY <1>2, <1>3, OrderAssumption DEF CallInv, NoRequest
<1>10. StartInv' /\ ForwardInv' /\ BackInv'
  BY <1>2 DEF StartInv, ForwardInv, BackInv
<1> QED BY <1>6, <1>7, <1>8, <1>9, <1>10 DEF ClusterInv

\* The coordinator saves an intent and calls its node.
LEMMA Issued ==
    ASSUME ClusterInv, run.mode \in {"forward", "back"}, run.call = "none",
           NEW n \in Nodes, NEW p \in Phases, NEW mutation \in BOOLEAN, NEW ro \in BOOLEAN,
           Intended(n, p, mutation), Issue(n, p, mutation, ro),
           run' \in Run, run'.mode = run.mode, run'.call = n, run'.phase = p
    PROVE  /\ TypeOK' /\ DocsInv' /\ CallInv' /\ GenerationInv' /\ EndInv'
           /\ \A m \in Nodes : NodeInv(m)' /\ (Invoked(m)' <=> Invoked(m))
           /\ Still
           /\ request'[n].phase = p /\ Doing(n)' = Doing(n) \cup {p}
           /\ \A m \in Nodes \ {n} : request'[m] = request[m] /\ Doing(m)' = Doing(m)
           /\ doc'.generation = doc.generation /\ doc'.operationState = doc.operationState
           /\ \A m \in Nodes \ {n} : doc'.nodes[m] = doc.nodes[m]
           /\ doc'.nodes[n].state = doc.nodes[n].state
           /\ doc'.nodes[n].receipts = doc.nodes[n].receipts
           /\ doc'.nodes[n].pendingAction = p
<1> DEFINE d == Intent(n, p, mutation)
           q == Context(n, p, ro)
<1>0. /\ TypeOK /\ DocsInv /\ CallInv /\ GenerationInv /\ EndInv
      /\ \A m \in Nodes : NodeInv(m)
  BY DEF ClusterInv
<1>1. /\ doc' = d /\ saved' = d /\ request' = [request EXCEPT ![n] = q]
      /\ UNCHANGED <<journal, host, locked, inv, answer, faults>>
  BY DEF Issue, Saved
<1>2. doc \in Doc /\ DocInv(doc) /\ doc.generation = saved.generation /\ doc.generation # 0
  BY <1>0 DEF TypeOK, DocsInv, GenerationInv
<1>3. /\ d \in Doc /\ d.generation = doc.generation /\ d.operationState = doc.operationState
      /\ IsInjective(d.mutationOrder)
      /\ \A m \in Nodes : RecordInv(d.nodes[m])
      /\ \A m \in Nodes \ {n} : WorldInv(d.nodes[m], host[m], journal[m], Doing(m))
      /\ WorldInv(d.nodes[n], host[n], journal[n], Doing(n) \cup {p})
  BY <1>2, IntentKept
<1>4. /\ \A m \in Nodes \ {n} : d.nodes[m] = doc.nodes[m]
      /\ d.nodes[n].state = doc.nodes[n].state /\ d.nodes[n].receipts = doc.nodes[n].receipts
      /\ d.nodes[n].pendingAction = p
  BY <1>2, IntentDoc DEF DocInv
<1>5. q \in Request /\ q.phase = p /\ q.generation = doc.generation
  <2>1. doc.generation \in 0..AgentGenerations
    BY <1>2 DEF Doc
  <2>2. (p \in {"canary", "release"} /\ "rollback" \in doc.nodes[n].receipts) \in BOOLEAN
    OBVIOUS
  <2> QED BY <2>1, <2>2 DEF Context, Request
<1> HIDE DEF d, q
<1>6. request'[n] = q /\ \A m \in Nodes \ {n} : request'[m] = request[m]
  BY <1>0, <1>1 DEF TypeOK, AgentTypeOK
<1>7. p # "none" /\ request[n].phase = "none"
  BY <1>0, OrderAssumption DEF Phases, CallInv
<1>8. Doing(n)' = Doing(n) \cup {p} /\ \A m \in Nodes \ {n} : Doing(m)' = Doing(m)
  BY <1>1, <1>5, <1>6, <1>7 DEF Doing, Phase
<1>9. Still
  BY <1>1 DEF Still
<1>10. \A m \in Nodes : NodeInv(m)' /\ (Invoked(m)' <=> Invoked(m))
  BY <1>0, <1>9, StillNodes
<1>11. TypeOK'
  BY <1>0, <1>1, <1>3, <1>5 DEF TypeOK, AgentTypeOK
<1>12. DocsInv'
  <2>1. \A m \in Nodes : WorldInv(d.nodes[m], host'[m], journal'[m], Doing(m)')
    BY <1>1, <1>3, <1>8
  <2> QED BY <1>1, <1>3, <2>1 DEF DocsInv, DocInv
<1>13. CallInv'
  <2>1. \A m \in Nodes : request[m].phase = "none" /\ ~inv[m].attached /\ answer[m] = "none"
    BY <1>0, OrderAssumption DEF CallInv
  <2> QED BY <1>1, <1>3, <1>4, <1>5, <1>6, <1>7, <2>1 DEF CallInv
<1>14. GenerationInv'
  <2>1. saved.generation \in Nat
    BY <1>0, AgentAssumption DEF TypeOK, Doc
  <2> QED BY <1>0, <1>1, <1>2, <1>3, <1>9, <2>1, GenerationStill
<1>15. EndInv'
  <2>1. doc.operationState \in {"running", "rollback-required"}
    BY DEF ClusterInv, ForwardInv, BackInv
  <2> QED BY <1>1, <1>3, <2>1 DEF EndInv
<1> QED BY <1>1, <1>3, <1>4, <1>5, <1>6, <1>8, <1>9, <1>10, <1>11, <1>12, <1>13, <1>14, <1>15

\* Between the calls of the forward passes nothing runs on any node.
LEMMA ForwardIdle ==
    ASSUME ClusterInv, InForward, NEW n \in Nodes
    PROVE  /\ doc.nodes[n].pendingAction = "none" /\ Doing(n) = {} /\ request[n].phase = "none"
           /\ ~Invoked(n)
           /\ \A p \in {"prepare", "swap", "restart", "release"} :
                ~Fresh(n, p) => p \in doc.nodes[n].receipts
<1>1. /\ run.mode = "forward" /\ run.call = "none" /\ n # run.call
      /\ DocsInv /\ ForwardInv /\ NodeInv(n)
  BY OrderAssumption DEF InForward, ClusterInv
<1>2. doc.nodes[n].pendingAction = "none"
  BY <1>1 DEF ForwardInv
<1>3. Doing(n) = {}
  BY <1>1, <1>2, IdleNode DEF DocsInv
<1>4. request[n].phase = "none" /\ Phase(n) = "none"
  BY <1>3 DEF Doing
<1>5. ~Invoked(n)
  BY <1>1, <1>4 DEF NodeInv, PendingInv, Phases
<1> QED BY <1>1, <1>2, <1>3, <1>4, <1>5 DEF ForwardInv

\* What is due may be intended, and the fleet is ready for it.
LEMMA DueIntended ==
    ASSUME ClusterInv, InForward, NEW n \in Nodes, Due(n) # "none"
    PROVE  /\ Due(n) \in Phases
           /\ Intended(n, Due(n), Due(n) \notin ReadOnly)
           /\ Due(n) = "swap" => \A m \in Nodes : host[m].fence = "prepared"
           /\ Due(n) = "release" => \A m \in Nodes : OnRelease(host[m], "new")
           /\ Due(n) \notin {"rollback", "reprepare", "discard-stage"}
<1> DEFINE nd == doc.nodes[n]
           p == Due(n)
<1>0. /\ TypeOK /\ DocsInv /\ ForwardInv /\ run.mode = "forward" /\ run.pass \in 1..8
      /\ RecordInv(nd)
  BY DEF ClusterInv, InForward, ForwardInv, ForwardPasses, DocsInv, DocInv
<1>1. \/ run.pass = 1 \/ run.pass = 2 \/ run.pass = 3 \/ run.pass = 4
      \/ run.pass = 5 \/ run.pass = 6 \/ run.pass = 7 \/ run.pass = 8
  BY <1>0
<1>2. /\ p \in {"preflight", "stage", "prepare", "swap", "restart", "verify", "canary", "promote",
               "release"}
      /\ p \notin {"preflight", "stage"} => run.pass >= 3
      /\ p = "swap" => nd.state = "prepared" /\ run.pass = 4
      /\ p = "restart" => nd.state = "mutating"
      /\ p = "verify" => nd.state = "active"
      /\ p = "canary" => run.pass = 6
      /\ p = "release" => nd.state = "promoted" /\ run.pass = 8
  BY <1>1 DEF Due, ForwardPasses
<1>3. nd.state \in StatesIn(run.pass)
  BY <1>0 DEF ForwardInv
<1>4. run.pass >= 3 => nd.state # "rolled-back"
  BY <1>1, <1>3 DEF StatesIn
<1>5. p = "canary" => nd.state = "verified"
  BY <1>2, <1>3 DEF StatesIn
<1>6. p \in {"swap", "restart", "verify", "canary", "release"} => ~Unprepared(nd) /\ nd.possiblyMutated
  BY <1>0, <1>2, <1>5 DEF RecordInv
<1>7. nd.pendingAction = "none"
  BY ForwardIdle
<1>8. Intended(n, p, p \notin ReadOnly)
  <2>1. p \in Restoring => p \notin {"preflight", "stage"}
    BY DEF Restoring, Beyond, Forward
  <2>2. p \in ReadOnly => p \in {"preflight", "verify", "canary"}
    BY DEF ReadOnly
  <2>3. "none" \notin Restoring
    BY DEF Restoring, Beyond, Forward
  <2>4. p \in Restoring => (nd.possiblyMutated \/ p \notin ReadOnly)
    BY <1>6, <2>1, <2>2
  <2>5. p \in Restoring => ~OnlyStageCleanup(nd)
    BY <1>2, <1>4, <2>1 DEF OnlyStageCleanup
  <2> QED BY <1>6, <1>7, <2>3, <2>4, <2>5 DEF Intended
<1>9. p = "swap" => \A m \in Nodes : host[m].fence = "prepared"
  BY <1>0, <1>2 DEF ForwardInv
<1>10. p = "release" => \A m \in Nodes : OnRelease(host[m], "new")
  <2>1. ASSUME run.pass = 8, NEW m \in Nodes PROVE OnRelease(host[m], "new")
    <3>1. doc.nodes[m].state \in {"promoted", "released"}
      BY <1>0, <2>1 DEF ForwardInv, StatesIn
    <3> QED BY <1>0, <2>1, <3>1 DEF ForwardInv
  <2> QED BY <1>2, <2>1
<1> QED BY <1>2, <1>8, <1>9, <1>10 DEF Phases

\* The next due phase is recorded and called.
LEMMA CallForwardKeeps == ASSUME ClusterInv, CallForward PROVE ClusterInv'
<1>0. /\ TypeOK /\ DocsInv /\ CallInv /\ GenerationInv /\ StartInv /\ ForwardInv /\ FleetInv
      /\ InForward /\ run.mode = "forward" /\ run.call = "none"
  BY DEF ClusterInv, CallForward, InForward
<1>1. PICK n \in Nodes : n = Head(DueNodes) /\ Due(n) # "none"
  BY DueList DEF CallForward
<1>2. PICK p \in Phases : p = Due(n)
  BY <1>0, <1>1, DueIntended
<1>3. /\ Intended(n, p, p \notin ReadOnly)
      /\ p = "swap" => \A m \in Nodes : host[m].fence = "prepared"
      /\ p = "release" => \A m \in Nodes : OnRelease(host[m], "new")
      /\ p \notin {"rollback", "reprepare", "discard-stage"}
  BY <1>0, <1>1, <1>2, DueIntended
<1>4. /\ Issue(n, p, p \notin ReadOnly, FALSE)
      /\ run' = [run EXCEPT !.call = n, !.phase = p]
  BY <1>1, <1>2 DEF CallForward
<1>4a. /\ run' \in Run /\ run'.mode = "forward" /\ run'.call = n /\ run'.phase = p
      /\ run'.pass = run.pass
  <2>1. run \in Run
    BY <1>0 DEF TypeOK
  <2> QED BY <1>0, <1>4, <2>1 DEF Run
<1>5. /\ TypeOK' /\ DocsInv' /\ CallInv' /\ GenerationInv' /\ EndInv'
      /\ \A m \in Nodes : NodeInv(m)' /\ (Invoked(m)' <=> Invoked(m))
      /\ Still
      /\ request'[n].phase = p /\ Doing(n)' = Doing(n) \cup {p}
      /\ \A m \in Nodes \ {n} : request'[m] = request[m] /\ Doing(m)' = Doing(m)
      /\ doc'.generation = doc.generation /\ doc'.operationState = doc.operationState
      /\ \A m \in Nodes \ {n} : doc'.nodes[m] = doc.nodes[m]
      /\ doc'.nodes[n].state = doc.nodes[n].state
      /\ doc'.nodes[n].receipts = doc.nodes[n].receipts
      /\ doc'.nodes[n].pendingAction = p
  <2>1. (p \notin ReadOnly) \in BOOLEAN /\ FALSE \in BOOLEAN
    OBVIOUS
  <2> QED BY <1>0, <1>3, <1>4, <1>4a, <2>1, Issued
<1>6. \A m \in Nodes : /\ doc.nodes[m].pendingAction = "none" /\ Doing(m) = {} /\ ~Invoked(m)
                       /\ request[m].phase = "none"
                       /\ \A x \in {"prepare", "swap", "restart", "release"} :
                            ~Fresh(m, x) => x \in doc.nodes[m].receipts
  BY <1>0, ForwardIdle
<1>7. \A m \in Nodes : doc'.nodes[m].state = doc.nodes[m].state
                      /\ doc'.nodes[m].receipts = doc.nodes[m].receipts
  BY <1>5
<1>8. \A m \in Nodes, x \in Phases : Fresh(m, x) => Fresh(m, x)'
  BY <1>5, StillFresh
<1>9. host' = host /\ locked' = locked /\ inv' = inv
  BY <1>4 DEF Issue
<1>10. StartInv'
  BY <1>0, <1>8, <1>4a DEF StartInv, Phases
<1>11. p = Due(n)'
  BY <1>2, <1>7, <1>4a DEF Due
<1>12. ForwardInv'
  <2>1. ASSUME NEW m \in Nodes, NEW x \in {"prepare", "swap", "restart", "release"}, ~Fresh(m, x)'
        PROVE  x \in doc'.nodes[m].receipts
    BY <1>6, <1>7, <1>8, <2>1 DEF Phases
  <2>2. \A m \in Nodes : /\ m # n => doc'.nodes[m].pendingAction = "none"
                         /\ Doing(m)' \subseteq {p}
                         /\ ~Invoked(m)'
    BY <1>5, <1>6
  <2>3. \A m \in Nodes :
          LET nd == doc'.nodes[m]
              h == host'[m] IN
          /\ nd.state \in StatesIn(run.pass)
          /\ run.pass = 3 /\ nd.state = "prepared" => OnRelease(h, "old") /\ h.fence = "prepared"
          /\ run.pass \in {3, 4} /\ nd.state = "prepared" =>
               nd.receipts \cap {"swap", "restart"} = {}
          /\ run.pass = 4 /\ nd.state = "mutating" =>
               Disk(h) = "new" /\ "swap" \in nd.receipts /\ "restart" \notin nd.receipts
          /\ run.pass \in 4..7 => h.fence = "prepared"
          /\ run.pass >= 4 /\ nd.state \in {"active", "verified", "promoted", "released"} =>
               OnRelease(h, "new")
          /\ run.pass = 8 /\ nd.state = "released" => h.fence = "open" /\ ~locked'[m]
    BY <1>0, <1>7, <1>9 DEF ForwardInv
  <2>4. doc'.operationState = "running" /\ run.pass \in 1..Len(ForwardPasses)
    BY <1>0, <1>5 DEF ForwardInv
  <2> QED BY <1>5, <1>11, <1>4a, <2>1, <2>2, <2>3, <2>4 DEF ForwardInv
<1>13. BackInv'
  BY <1>4a DEF BackInv
<1>14. FleetInv'
  <2>1. \A m \in Nodes : Doing(m)' \subseteq {p} /\ host'[m] = host[m]
    BY <1>5, <1>6, <1>9
  <2>2. Uniform => Uniform'
    BY <1>9 DEF Uniform
  <2>3. ServesOneRelease'
    BY <1>0, <1>9 DEF FleetInv, ServesOneRelease
  <2>4. p = "release" => Uniform'
    BY <1>3, <1>9 DEF Uniform
  <2> QED BY <1>0, <1>3, <2>1, <2>2, <2>3, <2>4 DEF FleetInv
<1> QED BY <1>5, <1>10, <1>12, <1>13, <1>14 DEF ClusterInv

\* The forward passes turn back: what was written, and that no rollback is the
\* current coordinator's, is all that matters.
LEMMA AbortKeeps ==
    ASSUME ClusterInv, Withdrawn, locked' = locked, run.mode = "forward",
           TypeOK', CallInv', run'.mode = "abort",
           NEW d, DocInv(d), d.generation = doc.generation, saved' \in {saved, d},
           NEW e, doc' = e, DocInv(e), e.generation = doc.generation,
           EndInv' \/ d.operationState \notin {"completed", "rolled-back"}
    PROVE  ClusterInv'
<1>1. /\ DocsInv' /\ GenerationInv' /\ FleetInv' /\ EndInv' /\ \A n \in Nodes : NodeInv(n)'
  BY Recorded
<1>2. StartInv'
  <2>1. \A n \in Nodes : Fresh(n, "rollback")
    BY DEF ClusterInv, StartInv
  <2>2. \A n \in Nodes : Fresh(n, "rollback")'
    BY <2>1, StillFresh DEF Withdrawn
  <2> QED BY <2>2 DEF StartInv
<1>3. ForwardInv' /\ BackInv'
  BY DEF ForwardInv, BackInv
<1> QED BY <1>1, <1>2, <1>3 DEF ClusterInv

\* Its record cannot be written.
LEMMA IntentFailsForwardKeeps == ASSUME ClusterInv, IntentFailsForward PROVE ClusterInv'
<1> DEFINE n == Head(DueNodes)
           p == Due(n)
           d == Intent(n, p, p \notin ReadOnly)
<1>0. /\ TypeOK /\ DocsInv /\ CallInv /\ ForwardInv
      /\ InForward /\ run.mode = "forward" /\ run.call = "none"
  BY DEF ClusterInv, IntentFailsForward, InForward
<1>1. n \in Nodes /\ p # "none"
  BY DueList DEF IntentFailsForward
<1>2. /\ doc' = d /\ saved' \in {saved, d} /\ faults' \in 0..MaxFaults
      /\ run' = [run EXCEPT !.mode = "abort"]
      /\ UNCHANGED <<journal, host, locked, inv, request, answer>>
  BY <1>0, AgentAssumption DEF IntentFailsForward, SaveFails, Fault, TypeOK, AgentTypeOK
<1> HIDE DEF n
<1>3. p \in Phases /\ Intended(n, p, p \notin ReadOnly)
  BY <1>0, <1>1, DueIntended
<1>4. doc \in Doc /\ DocInv(doc) /\ doc.operationState = "running"
  BY <1>0 DEF TypeOK, DocsInv, ForwardInv
<1>5. d \in Doc /\ d.generation = doc.generation /\ d.operationState = "running" /\ DocInv(d)
  <2> HIDE DEF p
  <2>1. /\ d \in Doc /\ d.generation = doc.generation /\ d.operationState = doc.operationState
        /\ IsInjective(d.mutationOrder)
        /\ \A m \in Nodes : RecordInv(d.nodes[m])
        /\ \A m \in Nodes \ {n} : WorldInv(d.nodes[m], host[m], journal[m], Doing(m))
        /\ WorldInv(d.nodes[n], host[n], journal[n], Doing(n))
    BY <1>1, <1>3, <1>4, IntentKept
  <2> QED BY <1>4, <2>1 DEF DocInv
<1> HIDE DEF d
<1>6. run' \in Run /\ run'.mode = "abort" /\ run'.call = "none"
  BY <1>0, <1>2 DEF TypeOK, Run
<1>7. TypeOK'
  BY <1>0, <1>2, <1>5, <1>6 DEF TypeOK, AgentTypeOK
<1>8. CallInv'
  BY <1>0, <1>2, <1>6, Uncalled
<1>9. Withdrawn
  BY <1>2 DEF Withdrawn, Still
<1> QED BY <1>0, <1>2, <1>4, <1>5, <1>6, <1>7, <1>8, <1>9, AbortKeeps

\* A barrier finds a node that did not follow.
LEMMA BarrierFailsKeeps == ASSUME ClusterInv, BarrierFails PROVE ClusterInv'
<1>0. /\ TypeOK /\ DocsInv /\ CallInv /\ ForwardInv
      /\ InForward /\ run.mode = "forward" /\ run.call = "none"
  BY DEF ClusterInv, BarrierFails, InForward
<1>1. /\ run' = [run EXCEPT !.mode = "abort"]
      /\ UNCHANGED <<journal, host, locked, inv, request, answer, faults, doc, saved>>
  BY DEF BarrierFails, agentVars
<1>2. run' \in Run /\ run'.mode = "abort" /\ run'.call = "none"
  BY <1>0, <1>1 DEF TypeOK, Run
<1>3. TypeOK' /\ Withdrawn
  BY <1>0, <1>1, <1>2 DEF TypeOK, AgentTypeOK, Withdrawn, Still
<1>4. CallInv'
  BY <1>0, <1>1, <1>2, Uncalled
<1>5. DocInv(doc) /\ doc.operationState = "running"
  BY <1>0 DEF DocsInv, ForwardInv
<1> QED BY <1>0, <1>1, <1>2, <1>3, <1>4, <1>5, AbortKeeps

\* A pass ends; its barrier is what the next pass knows.
LEMMA NextPassKeeps == ASSUME ClusterInv, NextPass PROVE ClusterInv'
<1>0. /\ TypeOK /\ DocsInv /\ CallInv /\ StartInv /\ ForwardInv
      /\ InForward /\ run.mode = "forward" /\ run.call = "none"
  BY DEF ClusterInv, NextPass, InForward
<1>1. /\ run' = [run EXCEPT !.pass = @ + 1] /\ run.pass \in 1..7
      /\ UNCHANGED <<journal, host, locked, inv, request, answer, faults, doc, saved>>
      /\ DueNodes = <<>> /\ BarrierHolds
  BY <1>0 DEF NextPass, agentVars, ForwardInv, ForwardPasses
<1>2. run' \in Run /\ run'.mode = "forward" /\ run'.call = "none" /\ run'.pass = run.pass + 1
  <2>1. ASSUME NEW p \in 0..8, p = run.pass + 1, run' = [run EXCEPT !.pass = p]
        PROVE  run' \in Run /\ run'.mode = "forward" /\ run'.call = "none" /\ run'.pass = run.pass + 1
    BY <1>0, <2>1 DEF TypeOK, Run
  <2> QED BY <1>1, <2>1
<1>3. TypeOK' /\ Withdrawn
  BY <1>0, <1>1, <1>2 DEF TypeOK, AgentTypeOK, Withdrawn, Still
<1>4. CallInv'
  BY <1>0, <1>1, <1>2, Uncalled
<1>5. DocInv(doc) /\ doc.operationState = "running"
  BY <1>0 DEF DocsInv, ForwardInv
<1>6. /\ DocsInv' /\ GenerationInv' /\ FleetInv' /\ EndInv' /\ \A n \in Nodes : NodeInv(n)'
  BY <1>0, <1>1, <1>3, <1>5, Recorded
<1>7. \A m \in Nodes, x \in Phases : Fresh(m, x) => Fresh(m, x)'
  BY <1>1, <1>3, StillFresh DEF Withdrawn
<1>8. StartInv'
  BY <1>0, <1>2, <1>7 DEF StartInv, Phases
<1>9. ForwardInv'
  <2>1. ASSUME NEW m \in Nodes
        PROVE  LET nd == doc.nodes[m]
                   h == host[m]
                   pass == run.pass + 1 IN
               /\ nd.pendingAction = "none" /\ Doing(m)' = {} /\ request[m].phase = "none"
               /\ \A x \in {"prepare", "swap", "restart", "release"} : ~Fresh(m, x)' => x \in nd.receipts
               /\ nd.state \in StatesIn(pass)
               /\ pass = 3 /\ nd.state = "prepared" => OnRelease(h, "old") /\ h.fence = "prepared"
               /\ pass \in {3, 4} /\ nd.state = "prepared" =>
                    nd.receipts \cap {"swap", "restart"} = {}
               /\ pass = 4 /\ nd.state = "mutating" =>
                    Disk(h) = "new" /\ "swap" \in nd.receipts /\ "restart" \notin nd.receipts
               /\ pass \in 4..7 => h.fence = "prepared"
               /\ pass >= 4 /\ nd.state \in {"active", "verified", "promoted", "released"} =>
                    OnRelease(h, "new")
               /\ pass = 8 /\ nd.state = "released" => h.fence = "open" /\ ~locked[m]
    <3> DEFINE nd == doc.nodes[m]
               h == host[m]
    <3>1. /\ nd.pendingAction = "none" /\ Doing(m) = {} /\ request[m].phase = "none"
          /\ \A x \in {"prepare", "swap", "restart", "release"} : ~Fresh(m, x) => x \in nd.receipts
      BY <1>0, ForwardIdle
    <3>2. Doing(m)' = {}
      BY <1>3, <3>1, StillDoing
    <3>3. \A x \in {"prepare", "swap", "restart", "release"} : ~Fresh(m, x)' => x \in nd.receipts
      BY <1>7, <3>1 DEF Phases
    <3>4. Due(m) = "none"
      BY <1>1, DueList
    <3>5. nd.state \in NodeStates
      BY <1>0 DEF TypeOK, Doc, NodeDoc
    <3>6. \/ run.pass = 1 \/ run.pass = 2 \/ run.pass = 3 \/ run.pass = 4
          \/ run.pass = 5 \/ run.pass = 6 \/ run.pass = 7
      BY <1>1
    <3>7. /\ nd.state \in StatesIn(run.pass)
          /\ run.pass = 3 /\ nd.state = "prepared" => OnRelease(h, "old") /\ h.fence = "prepared"
          /\ run.pass \in {3, 4} /\ nd.state = "prepared" =>
               nd.receipts \cap {"swap", "restart"} = {}
          /\ run.pass = 4 /\ nd.state = "mutating" =>
               Disk(h) = "new" /\ "swap" \in nd.receipts /\ "restart" \notin nd.receipts
          /\ run.pass \in 4..7 => h.fence = "prepared"
          /\ run.pass >= 4 /\ nd.state \in {"active", "verified", "promoted", "released"} =>
               OnRelease(h, "new")
      BY <1>0 DEF ForwardInv
    <3>8. /\ run.pass = 2 => nd.state = "staged"
          /\ run.pass = 3 => nd.state = "prepared"
      BY <1>1 DEF BarrierHolds, ForwardPasses
    <3>9. /\ run.pass = 4 => nd.state = "active"
          /\ run.pass = 5 => nd.state = "verified"
          /\ run.pass = 7 => nd.state = "promoted"
      BY <3>4, <3>7 DEF Due, ForwardPasses, StatesIn
    <3>10. nd.state \in StatesIn(run.pass + 1)
      BY <3>5, <3>6, <3>7, <3>8, <3>9 DEF StatesIn
    <3> QED BY <3>1, <3>2, <3>3, <3>6, <3>7, <3>8, <3>9, <3>10
  <2>2. run.pass + 1 \in 1..Len(ForwardPasses)
    BY <1>1 DEF ForwardPasses
  <2> QED BY <1>1, <1>2, <1>5, <2>1, <2>2 DEF ForwardInv
<1>10. BackInv'
  BY <1>2 DEF BackInv
<1> QED BY <1>3, <1>4, <1>6, <1>8, <1>9, <1>10 DEF ClusterInv

\* Every node has been released: the fleet is open, free and on the new release.
LEMMA AllReleased ==
    ASSUME ClusterInv, Finished, NEW n \in Nodes
    PROVE  /\ OnRelease(host[n], "new") /\ host[n].fence = "open" /\ ~locked[n]
           /\ Doing(n) = {}
<1>1. InForward /\ run.mode = "forward" /\ run.pass = 8 /\ ForwardInv
  BY DEF Finished, InForward, ForwardPasses, ClusterInv
<1>2. doc.nodes[n].state = "released"
  BY <1>1 DEF Finished, BarrierHolds, ForwardPasses
<1>3. OnRelease(host[n], "new") /\ host[n].fence = "open" /\ ~locked[n]
  BY <1>1, <1>2 DEF ForwardInv
<1> QED BY <1>1, <1>3, ForwardIdle

\* The end of an operation can be written down.
LEMMA CompletedDoc ==
    ASSUME TypeOK, DocsInv, run.mode # "down",
           NEW s \in {"rollback-failed", "rolled-back", "completed"}
    PROVE  LET d == [doc EXCEPT !.operationState = s] IN
           d \in Doc /\ DocInv(d) /\ d.generation = doc.generation /\ d.operationState = s
<1>1. LET d == [doc EXCEPT !.operationState = s] IN
      /\ d \in Doc /\ d.nodes = doc.nodes /\ d.mutationOrder = doc.mutationOrder
      /\ d.generation = doc.generation /\ d.operationState = s
  <2>1. s \in {"none", "running", "rollback-required", "rollback-failed", "rolled-back", "completed"}
    OBVIOUS
  <2>2. doc \in Doc
    BY DEF TypeOK
  <2> QED BY <2>1, <2>2, StepDoc
<1>2. DocInv(doc)
  BY DEF DocsInv
<1> QED BY <1>1, <1>2 DEF DocInv

\* The first document is one.
LEMMA NoDocTyped == NoDoc \in Doc
<1>1. <<>> \in Seq(Nodes) /\ AgentGenerations \in Nat
  BY AgentAssumption
<1> QED BY <1>1 DEF NoDoc, Doc, NodeDoc, NodeStates

\* The last pass ends, and the operation is recorded as completed.
LEMMA FinishKeeps == ASSUME ClusterInv, Finish PROVE ClusterInv'
<1> DEFINE d == [doc EXCEPT !.operationState = "completed"]
<1>0. /\ TypeOK /\ DocsInv /\ CallInv
      /\ InForward /\ run.mode = "forward" /\ run.call = "none"
  BY DEF ClusterInv, Finish, Finished, InForward
<1>1. /\ saved' = d /\ doc' = NoDoc /\ run' = Down
      /\ UNCHANGED <<journal, host, locked, inv, request, answer, faults>>
  BY DEF Finish, Saved, agentVars
<1>2. d \in Doc /\ DocInv(d) /\ d.generation = doc.generation /\ d.operationState = "completed"
  BY <1>0, CompletedDoc
<1> HIDE DEF d
<1>3. run' \in Run /\ run'.mode = "down" /\ run'.call = "none"
  BY <1>1, DownRun
<1>4. TypeOK' /\ Withdrawn
  BY <1>0, <1>1, <1>2, <1>3, NoDocTyped DEF TypeOK, AgentTypeOK, Withdrawn, Still
<1>5. CallInv'
  BY <1>0, <1>1, <1>3, Uncalled
<1>6. /\ DocsInv' /\ GenerationInv' /\ FleetInv' /\ \A n \in Nodes : NodeInv(n)'
  BY <1>0, <1>1, <1>2, <1>3, <1>4, Recorded
<1>7. EndInv'
  <2>1. \A n \in Nodes : /\ OnRelease(host[n], "new") /\ host[n].fence = "open" /\ ~locked[n]
                         /\ Doing(n) = {}
    BY AllReleased DEF Finish
  <2>2. \A n \in Nodes : Doing(n)' = {}
    BY <1>4, <2>1, StillDoing
  <2> QED BY <1>1, <1>2, <2>1, <2>2 DEF EndInv
<1>8. StartInv' /\ ForwardInv' /\ BackInv'
  BY <1>3 DEF StartInv, ForwardInv, BackInv
<1> QED BY <1>4, <1>5, <1>6, <1>7, <1>8 DEF ClusterInv

\* That record cannot be written.
LEMMA CompletionFailsKeeps == ASSUME ClusterInv, CompletionFails PROVE ClusterInv'
<1> DEFINE d == [doc EXCEPT !.operationState = "completed"]
<1>0. /\ TypeOK /\ DocsInv /\ CallInv /\ EndInv
      /\ InForward /\ run.mode = "forward" /\ run.call = "none"
  BY DEF ClusterInv, CompletionFails, Finished, InForward
<1>1. /\ saved' \in {saved, d} /\ doc' = d /\ run' = [run EXCEPT !.mode = "abort"]
      /\ faults' \in 0..MaxFaults
      /\ UNCHANGED <<journal, host, locked, inv, request, answer>>
  BY <1>0, AgentAssumption DEF CompletionFails, SaveFails, Fault, TypeOK, AgentTypeOK
<1>2. d \in Doc /\ DocInv(d) /\ d.generation = doc.generation /\ d.operationState = "completed"
  BY <1>0, CompletedDoc
<1> HIDE DEF d
<1>3. run' \in Run /\ run'.mode = "abort" /\ run'.call = "none"
  BY <1>0, <1>1 DEF TypeOK, Run
<1>4. TypeOK' /\ Withdrawn
  BY <1>0, <1>1, <1>2, <1>3 DEF TypeOK, AgentTypeOK, Withdrawn, Still
<1>5. CallInv'
  BY <1>0, <1>1, <1>3, Uncalled
<1>6. EndInv'
  <2>1. CASE saved' = saved
    BY <1>0, <1>1, <1>4, <2>1, EndStill
  <2>2. CASE saved' = d
    <3>1. \A n \in Nodes : /\ OnRelease(host[n], "new") /\ host[n].fence = "open" /\ ~locked[n]
                           /\ Doing(n) = {}
      BY AllReleased DEF CompletionFails
    <3>2. \A n \in Nodes : Doing(n)' = {}
      BY <1>4, <3>1, StillDoing
    <3> QED BY <1>1, <1>2, <2>2, <3>1, <3>2 DEF EndInv
  <2> QED BY <1>1, <2>1, <2>2
<1> QED BY <1>0, <1>1, <1>2, <1>3, <1>4, <1>5, <1>6, AbortKeeps

-----------------------------------------------------------------------------
(* What comes back from the called node.                                   *)

\* A step that ends a call leaves every node where it is.
LEMMA Consumed ==
    ASSUME TypeOK, CallInv, run.call # "none", answer[run.call] # "none",
           UNCHANGED <<journal, host, locked, inv, request>>, Consume(run.call), run'.call = "none"
    PROVE  /\ Withdrawn /\ CallInv' /\ run.call \in Nodes /\ run.mode \in {"forward", "back"}
           /\ answer' \in [Nodes -> {"none", "ok", "failed"} \cup Refusals]
           /\ \A n \in Nodes : request[n].phase = "none" /\ Doing(n)' = Doing(n)
                              /\ (Invoked(n)' <=> Invoked(n))
<1>1. run.call \in Nodes
  BY DEF TypeOK, Run
<1>2. /\ answer' = [answer EXCEPT ![run.call] = "none"]
      /\ answer \in [Nodes -> {"none", "ok", "failed"} \cup Refusals]
  BY DEF Consume, TypeOK, AgentTypeOK
<1>3. \A n \in Nodes : request[n].phase = "none" /\ ~inv[n].attached
  BY <1>1 DEF CallInv
<1>4. \A n \in Nodes : answer'[n] = "none"
  BY <1>1, <1>2 DEF CallInv
<1>5. Withdrawn
  BY DEF Withdrawn, Still
<1>6. \A n \in Nodes : Doing(n)' = Doing(n) /\ (Invoked(n)' <=> Invoked(n))
  BY DEF Doing, Phase, Invoked
<1>7. CallInv'
  BY <1>3, <1>4, OrderAssumption DEF CallInv
<1>8. run.mode \in {"forward", "back"}
  BY DEF CallInv
<1> QED BY <1>1, <1>2, <1>3, <1>5, <1>6, <1>7, <1>8

\* What the way back knows of a node between two calls.
Settled(n) ==
    LET nd == doc.nodes[n]
        h == host[n] IN
    /\ InTodo(n) => (InRestore(n) <=> run.pass \notin {1, 4})
    /\ ~InRestore(n) => Unprepared(nd) /\ nd.pendingAction \notin Restoring
    /\ run.pass = 1 /\ InRestore(n) => ~OnlyStageCleanup(nd)
    /\ run.pass = 2 /\ InTodo(n) => ~OnlyStageCleanup(nd)
    /\ run.pass <= 2 => Fresh(n, "rollback")
    /\ run.pass = 2 /\ ~run.failed /\ InRestore(n) /\ ~InTodo(n) =>
         nd.pendingAction = "none" /\ nd.state = "rollback-required" /\ h.fence = "prepared"
    /\ run.pass = 3 /\ InRestore(n) =>
         /\ h.fence = "prepared" /\ Doing(n) \subseteq {"rollback"}
         /\ InTodo(n) => /\ nd.pendingAction = "none" /\ nd.state # "rolled-back"
                         /\ Fresh(n, "rollback") /\ ~Invoked(n)
         /\ ~run.failed /\ ~InTodo(n) =>
              /\ nd.pendingAction = "none" /\ nd.state = "rolled-back"
              /\ "rollback" \in nd.receipts /\ OnRelease(h, "old")
    /\ run.pass >= 4 =>
         /\ OnRelease(h, "old")
         /\ InRestore(n) => "rollback" \in nd.receipts
         /\ Doing(n) \cap (Acting \ {"release"}) = {}
         /\ run.pass # 6 \/ ~run.failed => "release" \notin Doing(n)

\* Between two calls of a pass back every node is settled,
LEMMA BackSettled ==
    ASSUME BackInv, run.mode = "back", run.call = "none", NEW n \in Nodes
    PROVE  Settled(n)
<1>1. n # run.call
  BY OrderAssumption
<1> QED BY <1>1 DEF BackInv, Settled

\* and settled nodes are all that the pass has to know.
LEMMA SettledBack ==
    ASSUME run'.mode = "back", run'.call = "none", doc'.operationState = "rollback-required",
           run'.pass \in 1..Len(BackPasses),
           IsInjective(run'.todo), IsInjective(run'.restore), IsInjective(run'.discard),
           \A n \in Range(run'.discard) : ~InRestore(n)',
           \A n \in Nodes : Settled(n)'
    PROVE  BackInv'
<1>1. \A n \in Nodes : n # run'.call
  BY OrderAssumption
<1> QED BY <1>1 DEF BackInv, Settled

\* Going back, the called node's record changes in what its own pass allows.
LEMMA BackAnswered ==
    ASSUME ClusterInv, run.mode = "back", Withdrawn, NEW n \in Nodes, n = run.call,
           answer[n] # "none", UNCHANGED <<request, inv>>,
           run'.mode = "back", run'.call = "none", run'.pass = run.pass,
           run'.todo = run.todo, run'.restore = run.restore, run'.discard = run.discard,
           run.failed => run'.failed,
           doc'.operationState = doc.operationState, doc'.generation = doc.generation,
           \A m \in Nodes \ {n} : doc'.nodes[m] = doc.nodes[m],
           doc.nodes[n].receipts \subseteq doc'.nodes[n].receipts,
           Unprepared(doc.nodes[n]) /\ run.phase = "discard-stage" => Unprepared(doc'.nodes[n]),
           doc'.nodes[n].pendingAction \in {"none", run.phase},
           ~run'.failed =>
               /\ answer[n] = "ok" /\ doc'.nodes[n].pendingAction = "none"
               /\ run.phase = "reprepare" => doc'.nodes[n].state = "rollback-required"
               /\ run.phase = "rollback" => doc'.nodes[n].state = "rolled-back"
                                            /\ "rollback" \in doc'.nodes[n].receipts
    PROVE  BackInv'
<1>0. /\ TypeOK /\ DocsInv /\ CallInv /\ BackInv
  BY DEF ClusterInv
<1>1. /\ run.call # "none" /\ run.phase = BackPhase /\ ~InTodo(n) /\ run.pass \in 1..Len(BackPasses)
      /\ InRestore(n) <=> run.pass \notin {1, 4}
      /\ run.phase \in Phases /\ doc.nodes[n].pendingAction = run.phase
  <2>1. run.call # "none"
    BY <1>0, CalledNode
  <2> QED BY <1>0, <2>1 DEF BackInv, CallInv, TypeOK, Run
<1>2. /\ run.pass \in {1, 4, 7} => run.phase = "discard-stage"
      /\ run.pass = 2 => run.phase = "reprepare"
      /\ run.pass = 3 => run.phase = "rollback"
  BY <1>1, BackPhases
<1>3. answer[n] = "ok" => OkInv(n)
  BY <1>0 DEF CallInv
<1>4. \A m : (InTodo(m)' <=> InTodo(m)) /\ (InRestore(m)' <=> InRestore(m))
  BY DEF InTodo, InRestore
<1>5. host' = host /\ journal' = journal /\ \A m \in Nodes : request[m].phase = "none"
  BY <1>0 DEF Withdrawn, Still, CallInv
<1>6. \A m \in Nodes : Fresh(m, "rollback") => Fresh(m, "rollback")'
  BY StillFresh DEF Withdrawn
<1>7. \A m \in Nodes : Doing(m)' = Doing(m) /\ (Invoked(m)' <=> Invoked(m))
  BY DEF Doing, Phase, Invoked
<1>8. ASSUME NEW m \in Nodes
      PROVE  LET nd == doc'.nodes[m]
                 h == host[m] IN
             /\ ~InRestore(m) => Unprepared(nd) /\ nd.pendingAction \notin Restoring
             /\ run.pass = 1 /\ InRestore(m) => ~OnlyStageCleanup(nd)
             /\ run.pass = 2 /\ InTodo(m) => ~OnlyStageCleanup(nd)
             /\ run.pass = 2 /\ ~run'.failed /\ InRestore(m) /\ ~InTodo(m) =>
                  /\ nd.pendingAction = "none" /\ nd.state = "rollback-required"
                  /\ h.fence = "prepared"
             /\ run.pass = 3 /\ InRestore(m) =>
                  /\ InTodo(m) => nd.pendingAction = "none" /\ nd.state # "rolled-back"
                  /\ ~run'.failed /\ ~InTodo(m) =>
                       /\ nd.pendingAction = "none" /\ nd.state = "rolled-back"
                       /\ "rollback" \in nd.receipts /\ OnRelease(h, "old")
             /\ run.pass >= 4 =>
                  /\ InRestore(m) => "rollback" \in nd.receipts
                  /\ run.pass # 6 \/ ~run'.failed => "release" \notin Doing(m)
  <2>1. CASE m = n
    <3>1. ~InRestore(n) => Unprepared(doc'.nodes[n]) /\ doc'.nodes[n].pendingAction \notin Restoring
      <4>1. SUFFICES ASSUME ~InRestore(n)
                     PROVE  Unprepared(doc'.nodes[n]) /\ doc'.nodes[n].pendingAction \notin Restoring
        OBVIOUS
      <4>2. run.phase = "discard-stage" /\ Unprepared(doc.nodes[n])
        BY <1>0, <1>1, <1>2, <4>1 DEF BackInv
      <4> QED BY <4>2 DEF Restoring, Beyond, Forward
    <3>2. ~run'.failed => OkInv(n)
      BY <1>3
    <3>3. run.pass = 2 /\ ~run'.failed => host[n].fence = "prepared"
      BY <1>2, <3>2 DEF OkInv
    <3>4. run.pass = 3 /\ ~run'.failed => OnRelease(host[n], "old")
      BY <1>2, <3>2 DEF OkInv
    <3>5. run.pass >= 4 /\ InRestore(n) => "rollback" \in doc'.nodes[n].receipts
      BY <1>0 DEF BackInv
    <3>6. run.pass >= 4 /\ (run.pass # 6 \/ ~run'.failed) => "release" \notin Doing(n)
      BY <1>0, <3>2 DEF BackInv, OkInv
    <3> QED BY <1>1, <1>2, <2>1, <3>1, <3>3, <3>4, <3>5, <3>6
  <2>2. CASE m # n
    <3>1. doc'.nodes[m] = doc.nodes[m] /\ m # run.call
      BY <2>2
    <3> QED BY <1>0, <3>1 DEF BackInv
  <2> QED BY <2>1, <2>2
<1>9. \A m \in Nodes :
        /\ run.pass <= 2 => Fresh(m, "rollback")
        /\ run.pass = 3 /\ InRestore(m) =>
             /\ host[m].fence = "prepared" /\ Doing(m) \subseteq {"rollback"}
             /\ InTodo(m) => Fresh(m, "rollback") /\ ~Invoked(m)
        /\ run.pass >= 4 => OnRelease(host[m], "old") /\ Doing(m) \cap (Acting \ {"release"}) = {}
        /\ InTodo(m) => (InRestore(m) <=> run.pass \notin {1, 4})
  BY <1>0 DEF BackInv
<1>10. /\ doc.operationState = "rollback-required" /\ \A m \in Range(run.discard) : ~InRestore(m)
       /\ IsInjective(run.todo) /\ IsInjective(run.restore) /\ IsInjective(run.discard)
  BY <1>0 DEF BackInv
<1>11. \A m \in Nodes : Settled(m)'
  <2>1. doc.nodes = doc.nodes /\ run'.pass \in 1..Len(BackPasses)
    BY <1>1
  <2>2. \A m \in Nodes : Fresh(m, "rollback") => Fresh(m, "rollback")'
    BY <1>6
  <2> QED BY <1>4, <1>5, <1>6, <1>7, <1>8, <1>9 DEF Settled
<1> QED BY <1>1, <1>4, <1>10, <1>11, SettledBack

\* Going forward, the receipt moves the called node one state on.
LEMMA ForwardAnswered ==
    ASSUME ClusterInv, run.mode = "forward", NEW n \in Nodes, n = run.call, answer[n] = "ok",
           doc' = WithAnswer(n, run.phase), run'.mode = "forward", run'.call = "none",
           run'.pass = run.pass, UNCHANGED <<journal, host, locked, inv, request>>
    PROVE  ForwardInv'
<1> DEFINE nd == doc.nodes[n]
           ne == doc'.nodes[n]
           h == host[n]
           p == run.phase
<1>0. /\ TypeOK /\ DocsInv /\ CallInv /\ ForwardInv /\ doc \in Doc
  BY DEF ClusterInv, TypeOK
<1>1. /\ run.call # "none" /\ p = Due(n) /\ p \in Phases /\ OkInv(n) /\ Doing(n) = {}
      /\ run.pass \in 1..8 /\ run.pass \in 1..Len(ForwardPasses)
  <2>1. run.call # "none" /\ OkInv(n)
    BY <1>0, CalledNode DEF CallInv
  <2>2. p # "none" /\ p \in Phases \cup {"none"}
    BY <1>0 DEF CallInv, TypeOK, Run
  <2> QED BY <1>0, <2>1, <2>2 DEF ForwardInv, OkInv, ForwardPasses
<1>2. \/ run.pass = 1 \/ run.pass = 2 \/ run.pass = 3 \/ run.pass = 4
      \/ run.pass = 5 \/ run.pass = 6 \/ run.pass = 7 \/ run.pass = 8
  BY <1>1
<1>3. LET next == NextState(p, "forward") IN
      /\ doc' \in Doc /\ doc'.operationState = doc.operationState
      /\ doc'.generation = doc.generation
      /\ \A m \in Nodes \ {n} : doc'.nodes[m] = doc.nodes[m]
      /\ ne.state = (IF next = "none" THEN nd.state ELSE next)
      /\ ne.receipts = nd.receipts \cup {p}
      /\ ne.pendingAction = "none"
  BY <1>0, <1>1, AnswerDoc
<1>4. Still /\ \A m \in Nodes : request'[m].phase = "none" /\ Doing(m)' = {}
  <2>1. \A m \in Nodes \ {n} : Doing(m) = {}
    BY <1>0, IdleNode DEF ForwardInv, DocsInv
  <2>2. \A m \in Nodes : Doing(m)' = Doing(m)
    BY DEF Doing, Phase
  <2>3. \A m \in Nodes : request[m].phase = "none"
    BY <1>0, CalledNode DEF CallInv
  <2> QED BY <1>1, <2>1, <2>2, <2>3 DEF Still
<1>5. ASSUME NEW m \in Nodes, NEW x \in {"prepare", "swap", "restart", "release"}, ~Fresh(m, x)'
      PROVE  x \in doc'.nodes[m].receipts
  <2>1. ~Fresh(m, x)
    BY <1>3, <1>4, <1>5, StillFresh
  <2>2. x \in doc.nodes[m].receipts \/ (m = n /\ x = p)
    BY <1>0, <2>1 DEF ForwardInv
  <2> QED BY <1>3, <2>2
<1>6. /\ nd.state \in StatesIn(run.pass) /\ nd.state \in NodeStates /\ RecordInv(nd)
      /\ run.pass \in {3, 4} /\ nd.state = "prepared" => nd.receipts \cap {"swap", "restart"} = {}
      /\ run.pass \in 4..7 => h.fence = "prepared"
      /\ run.pass >= 4 /\ nd.state \in {"active", "verified", "promoted", "released"} =>
           OnRelease(h, "new")
  BY <1>0 DEF ForwardInv, Doc, NodeDoc, DocsInv, DocInv
<1>7. \/ p \in {"preflight", "canary"} /\ run.pass \in {1, 6} /\ ne.state = nd.state
      \/ p = "stage" /\ run.pass = 2 /\ ne.state = "staged"
      \/ p = "prepare" /\ run.pass = 3 /\ nd.state = "staged" /\ ne.state = "prepared"
      \/ p = "swap" /\ run.pass = 4 /\ nd.state = "prepared" /\ ne.state = "mutating"
      \/ p = "restart" /\ run.pass = 4 /\ nd.state = "mutating" /\ ne.state = "active"
      \/ p = "verify" /\ run.pass = 5 /\ nd.state = "active" /\ ne.state = "verified"
      \/ p = "promote" /\ run.pass = 7 /\ nd.state = "verified" /\ ne.state = "promoted"
      \/ p = "release" /\ run.pass = 8 /\ nd.state = "promoted" /\ ne.state = "released"
  <2>1. \/ p \in {"preflight", "canary"} /\ run.pass \in {1, 6}
        \/ p = "stage" /\ run.pass = 2
        \/ p = "prepare" /\ run.pass = 3 /\ nd.state = "staged"
        \/ p = "swap" /\ run.pass = 4 /\ nd.state = "prepared"
        \/ p = "restart" /\ run.pass = 4 /\ nd.state = "mutating"
        \/ p = "verify" /\ run.pass = 5 /\ nd.state = "active"
        \/ p = "promote" /\ run.pass = 7 /\ nd.state = "verified"
        \/ p = "release" /\ run.pass = 8 /\ nd.state = "promoted"
    <3>1. p # "none"
      BY <1>1 DEF Phases
    <3>2. /\ run.pass = 1 => Due(n) \in {"preflight", "none"}
          /\ run.pass = 2 => Due(n) \in {"stage", "none"}
          /\ run.pass = 3 => Due(n) = IF nd.state = "staged" THEN "prepare" ELSE "none"
          /\ run.pass = 4 => \/ Due(n) = "none"
                             \/ Due(n) = "swap" /\ nd.state = "prepared"
                             \/ Due(n) = "restart" /\ nd.state = "mutating"
          /\ run.pass = 5 => Due(n) = IF nd.state = "active" THEN "verify" ELSE "none"
          /\ run.pass = 6 => Due(n) \in {"canary", "none"}
          /\ run.pass = 7 => Due(n) = IF nd.state = "verified" THEN "promote" ELSE "none"
          /\ run.pass = 8 => Due(n) = IF nd.state = "promoted" THEN "release" ELSE "none"
      <4>1. CASE run.pass = 1
        BY <4>1 DEF Due, ForwardPasses
      <4>2. CASE run.pass = 2
        BY <4>2 DEF Due, ForwardPasses
      <4>3. CASE run.pass = 3
        BY <4>3 DEF Due, ForwardPasses
      <4>4. CASE run.pass = 4
        BY <4>4 DEF Due, ForwardPasses
      <4>5. CASE run.pass = 5
        BY <4>5 DEF Due, ForwardPasses
      <4>6. CASE run.pass = 6
        BY <4>6 DEF Due, ForwardPasses
      <4>7. CASE run.pass = 7
        BY <4>7 DEF Due, ForwardPasses
      <4>8. CASE run.pass = 8
        BY <4>8 DEF Due, ForwardPasses
      <4> QED BY <1>2, <4>1, <4>2, <4>3, <4>4, <4>5, <4>6, <4>7, <4>8
    <3> QED BY <1>1, <1>2, <3>1, <3>2
  <2> QED BY <1>3, <2>1, NextStates
<1>8. /\ ne.state \in StatesIn(run.pass)
      /\ run.pass = 3 /\ ne.state = "prepared" => OnRelease(h, "old") /\ h.fence = "prepared"
      /\ run.pass \in {3, 4} /\ ne.state = "prepared" => ne.receipts \cap {"swap", "restart"} = {}
      /\ run.pass = 4 /\ ne.state = "mutating" =>
           Disk(h) = "new" /\ "swap" \in ne.receipts /\ "restart" \notin ne.receipts
      /\ run.pass \in 4..7 => h.fence = "prepared"
      /\ run.pass >= 4 /\ ne.state \in {"active", "verified", "promoted", "released"} =>
           OnRelease(h, "new")
      /\ run.pass = 8 /\ ne.state = "released" => h.fence = "open" /\ ~locked[n]
  <2>1. CASE p \in {"preflight", "canary"} /\ run.pass \in {1, 6} /\ ne.state = nd.state
    BY <1>6, <2>1
  <2>2. CASE p = "stage" /\ run.pass = 2 /\ ne.state = "staged"
    BY <2>2 DEF StatesIn, NodeStates
  <2>3. CASE p = "prepare" /\ run.pass = 3 /\ nd.state = "staged" /\ ne.state = "prepared"
    <3>1. nd.receipts \cap {"swap", "restart"} = {}
      BY <1>6, <2>3 DEF RecordInv, Unprepared, Beyond, Forward
    <3> QED BY <1>1, <1>3, <2>3, <3>1 DEF StatesIn, OkInv
  <2>4. CASE p = "swap" /\ run.pass = 4 /\ nd.state = "prepared" /\ ne.state = "mutating"
    BY <1>1, <1>3, <1>6, <2>4 DEF StatesIn, OkInv
  <2>5. CASE p = "restart" /\ run.pass = 4 /\ nd.state = "mutating" /\ ne.state = "active"
    BY <1>1, <1>3, <1>6, <2>5 DEF StatesIn, OkInv
  <2>6. CASE p = "verify" /\ run.pass = 5 /\ nd.state = "active" /\ ne.state = "verified"
    BY <1>6, <2>6 DEF StatesIn
  <2>7. CASE p = "promote" /\ run.pass = 7 /\ nd.state = "verified" /\ ne.state = "promoted"
    BY <1>6, <2>7 DEF StatesIn
  <2>8. CASE p = "release" /\ run.pass = 8 /\ nd.state = "promoted" /\ ne.state = "released"
    BY <1>1, <1>6, <2>8 DEF StatesIn, OkInv
  <2> QED BY <1>7, <2>1, <2>2, <2>3, <2>4, <2>5, <2>6, <2>7, <2>8
<1>9. \A m \in Nodes :
        LET e == doc'.nodes[m]
            g == host[m] IN
        /\ e.pendingAction = "none"
        /\ e.state \in StatesIn(run.pass)
        /\ run.pass = 3 /\ e.state = "prepared" => OnRelease(g, "old") /\ g.fence = "prepared"
        /\ run.pass \in {3, 4} /\ e.state = "prepared" => e.receipts \cap {"swap", "restart"} = {}
        /\ run.pass = 4 /\ e.state = "mutating" =>
             Disk(g) = "new" /\ "swap" \in e.receipts /\ "restart" \notin e.receipts
        /\ run.pass \in 4..7 => g.fence = "prepared"
        /\ run.pass >= 4 /\ e.state \in {"active", "verified", "promoted", "released"} =>
             OnRelease(g, "new")
        /\ run.pass = 8 /\ e.state = "released" => g.fence = "open" /\ ~locked[m]
  <2>1. ASSUME NEW m \in Nodes \ {n} PROVE m # run.call /\ doc'.nodes[m] = doc.nodes[m]
    BY <1>3
  <2> QED BY <1>0, <1>3, <1>8, <2>1 DEF ForwardInv
<1>10. doc'.operationState = "running"
  BY <1>0, <1>3 DEF ForwardInv
<1> QED BY <1>1, <1>4, <1>5, <1>9, <1>10 DEF ForwardInv

\* An affirmation is consumed and its receipt is written.
LEMMA ReceiptSavedKeeps == ASSUME ClusterInv, ReceiptSaved PROVE ClusterInv'
<1>0. /\ TypeOK /\ DocsInv /\ CallInv /\ StartInv /\ ForwardInv /\ BackInv
      /\ run.call # "none" /\ answer[run.call] = "ok"
  BY DEF ClusterInv, ReceiptSaved
<1>1. PICK n \in Nodes : n = run.call
  BY <1>0 DEF TypeOK, Run
<1>2. PICK p \in Phases : p = run.phase
  BY <1>0, <1>1 DEF TypeOK, Run, CallInv
<1>3. PICK d : d = WithAnswer(n, p)
  OBVIOUS
<1>4. /\ doc' = d /\ saved' = d /\ run' = [run EXCEPT !.call = "none", !.phase = "none"]
      /\ Consume(run.call) /\ UNCHANGED <<journal, host, locked, inv, request, faults>>
  BY <1>1, <1>2, <1>3 DEF ReceiptSaved, Saved
<1>5. /\ run' \in Run /\ run'.call = "none" /\ run'.mode = run.mode /\ run'.pass = run.pass
      /\ run'.todo = run.todo /\ run'.restore = run.restore /\ run'.discard = run.discard
      /\ run'.failed = run.failed
  BY <1>0, <1>4 DEF TypeOK, Run
<1>6. /\ Withdrawn /\ CallInv' /\ run.mode \in {"forward", "back"}
      /\ answer' \in [Nodes -> {"none", "ok", "failed"} \cup Refusals]
  BY <1>0, <1>4, <1>5, Consumed
<1>7. DocInv(d)
  <2>1. DocInv(doc)
    BY <1>0, <1>6 DEF DocsInv
  <2> QED BY <1>0, <1>1, <1>2, <1>3, <2>1, AnswerKept
<1>8. LET next == NextState(p, run.mode) IN
      /\ d \in Doc /\ d.operationState = doc.operationState /\ d.generation = doc.generation
      /\ \A m \in Nodes \ {n} : d.nodes[m] = doc.nodes[m]
      /\ d.nodes[n].state = (IF next = "none" THEN doc.nodes[n].state ELSE next)
      /\ d.nodes[n].receipts = doc.nodes[n].receipts \cup {p}
      /\ d.nodes[n].pendingAction = "none"
  BY <1>0, <1>3, AnswerDoc DEF TypeOK
<1>9. TypeOK'
  BY <1>0, <1>4, <1>5, <1>6, <1>8 DEF TypeOK, AgentTypeOK
<1>10. d.operationState \in {"running", "rollback-required"}
  BY <1>0, <1>6, <1>8 DEF ForwardInv, BackInv
<1>11. /\ DocsInv' /\ GenerationInv' /\ FleetInv' /\ EndInv' /\ \A m \in Nodes : NodeInv(m)'
  BY <1>4, <1>5, <1>6, <1>7, <1>8, <1>10, Recorded
<1>12. StartInv'
  BY <1>0, <1>4, <1>5, <1>6, <1>8, StillFresh DEF StartInv, Withdrawn, Phases
<1>13. ForwardInv'
  <2>1. CASE run.mode = "forward"
    BY <1>0, <1>1, <1>2, <1>3, <1>4, <1>5, <2>1, ForwardAnswered
  <2>2. CASE run.mode = "back"
    BY <1>5, <2>2 DEF ForwardInv
  <2> QED BY <1>6, <2>1, <2>2
<1>14. BackInv'
  <2>1. CASE run.mode = "forward"
    BY <1>5, <2>1 DEF BackInv
  <2>2. CASE run.mode = "back"
    <3>1. /\ p = "reprepare" => d.nodes[n].state = "rollback-required"
          /\ p = "rollback" => d.nodes[n].state = "rolled-back"
      BY <1>8, <2>2 DEF NextState
    <3>2. Unprepared(doc.nodes[n]) /\ p = "discard-stage" => Unprepared(d.nodes[n])
      BY <1>8 DEF Unprepared, Beyond, Forward
    <3>3. doc'.operationState = doc.operationState /\ doc'.generation = doc.generation
          /\ \A m \in Nodes \ {n} : doc'.nodes[m] = doc.nodes[m]
          /\ doc.nodes[n].receipts \subseteq doc'.nodes[n].receipts
      BY <1>4, <1>8
    <3>4. answer[n] = "ok" /\ answer[n] # "none"
      BY <1>0, <1>1
    <3> QED BY <1>1, <1>2, <1>4, <1>5, <1>6, <1>8, <2>2, <3>1, <3>2, <3>3, <3>4, BackAnswered
  <2> QED BY <1>6, <2>1, <2>2
<1> QED BY <1>6, <1>9, <1>11, <1>12, <1>13, <1>14 DEF ClusterInv

\* A failed call, or a receipt that cannot be saved: forward the operation turns
\* back, on the way back the pass goes on.
LEMMA FailureKeeps ==
    ASSUME ClusterInv, run.call # "none", NEW n \in Nodes, n = run.call, answer[n] # "none",
           UNCHANGED <<journal, host, locked, inv, request>>, Consume(run.call),
           run' = AfterFailure, faults' \in 0..MaxFaults,
           NEW d \in Doc, DocInv(d), d.generation = doc.generation,
           d.operationState = doc.operationState, saved' \in {saved, d},
           NEW e \in Doc, DocInv(e), e.generation = doc.generation,
           e.operationState = doc.operationState, doc' = e,
           \A m \in Nodes \ {n} : e.nodes[m] = doc.nodes[m],
           doc.nodes[n].receipts \subseteq e.nodes[n].receipts,
           Unprepared(doc.nodes[n]) /\ run.phase = "discard-stage" => Unprepared(e.nodes[n]),
           e.nodes[n].pendingAction \in {"none", run.phase}
    PROVE  ClusterInv'
<1>0. /\ TypeOK /\ DocsInv /\ CallInv /\ StartInv /\ ForwardInv /\ BackInv /\ run \in Run
  BY DEF ClusterInv, TypeOK
<1>1. /\ run' \in Run /\ run'.call = "none" /\ run'.pass = run.pass
      /\ run'.todo = run.todo /\ run'.restore = run.restore /\ run'.discard = run.discard
      /\ IF run.mode = "forward" THEN run'.mode = "abort" ELSE run'.mode = run.mode /\ run'.failed
  <2>1. CASE run.mode = "forward"
    BY <1>0, <2>1 DEF AfterFailure, Run
  <2>2. CASE run.mode # "forward"
    BY <1>0, <2>2 DEF AfterFailure, Run
  <2> QED BY <2>1, <2>2
<1>2. /\ Withdrawn /\ CallInv' /\ run.mode \in {"forward", "back"}
      /\ answer' \in [Nodes -> {"none", "ok", "failed"} \cup Refusals]
  BY <1>0, <1>1, Consumed
<1>3. TypeOK'
  BY <1>0, <1>1, <1>2 DEF TypeOK, AgentTypeOK
<1>4. d.operationState \in {"running", "rollback-required"}
  BY <1>0, <1>2 DEF ForwardInv, BackInv
<1>5. CASE run.mode = "forward"
  BY <1>1, <1>2, <1>3, <1>4, <1>5, AbortKeeps
<1>6. CASE run.mode = "back"
  <2>1. /\ DocsInv' /\ GenerationInv' /\ FleetInv' /\ EndInv' /\ \A m \in Nodes : NodeInv(m)'
    BY <1>1, <1>2, <1>4, <1>6, Recorded
  <2>2. StartInv' /\ ForwardInv'
    BY <1>1, <1>6 DEF StartInv, ForwardInv
  <2>3. BackInv'
    BY <1>1, <1>2, <1>6, BackAnswered
  <2> QED BY <1>2, <1>3, <2>1, <2>2, <2>3 DEF ClusterInv
<1> QED BY <1>2, <1>5, <1>6

\* The receipt cannot be written.
LEMMA ReceiptFailsKeeps == ASSUME ClusterInv, ReceiptFails PROVE ClusterInv'
<1>0. /\ TypeOK /\ DocsInv /\ CallInv /\ ForwardInv
      /\ run.call # "none" /\ answer[run.call] = "ok"
  BY DEF ClusterInv, ReceiptFails
<1>1. PICK n \in Nodes : n = run.call
  BY <1>0 DEF TypeOK, Run
<1>2. PICK p \in Phases : p = run.phase
  BY <1>0, <1>1 DEF TypeOK, Run, CallInv
<1>3. PICK d : d = WithAnswer(n, p)
  OBVIOUS
<1>4. PICK e : e = IF run.mode = "back" THEN [d EXCEPT !.nodes[n].state = "rollback-failed"] ELSE d
  OBVIOUS
<1>5. /\ doc' = e /\ saved' \in {saved, d} /\ run' = AfterFailure /\ faults' \in 0..MaxFaults
      /\ Consume(run.call) /\ UNCHANGED <<journal, host, locked, inv, request>>
  BY <1>0, <1>1, <1>2, <1>3, <1>4, AgentAssumption
     DEF ReceiptFails, SaveFails, Fault, TypeOK, AgentTypeOK
<1>6. DocInv(doc) /\ doc \in Doc
  BY <1>0 DEF DocsInv, TypeOK, CallInv
<1>7. DocInv(d)
  BY <1>0, <1>1, <1>2, <1>3, <1>6, AnswerKept
<1>8. /\ d \in Doc /\ d.operationState = doc.operationState /\ d.generation = doc.generation
      /\ \A m \in Nodes \ {n} : d.nodes[m] = doc.nodes[m]
      /\ d.nodes[n].receipts = doc.nodes[n].receipts \cup {p}
      /\ d.nodes[n].pendingAction = "none"
  BY <1>3, <1>6, AnswerDoc
<1>9. /\ e \in Doc /\ DocInv(e) /\ e.operationState = doc.operationState
      /\ e.generation = doc.generation
      /\ \A m \in Nodes \ {n} : e.nodes[m] = doc.nodes[m]
      /\ e.nodes[n].receipts = doc.nodes[n].receipts \cup {p}
      /\ e.nodes[n].pendingAction = "none"
  <2>1. CASE run.mode = "back"
    <3>1. "rollback-failed" \in NodeStates /\ e = [d EXCEPT !.nodes[n].state = "rollback-failed"]
      BY <1>4, <2>1 DEF NodeStates
    <3>2. DocInv(e)
      BY <1>7, <1>8, <3>1, UnknownKept
    <3> QED BY <1>8, <3>1, <3>2, StateDoc
  <2>2. CASE run.mode # "back"
    BY <1>4, <1>7, <1>8, <2>2
  <2> QED BY <2>1, <2>2
<1>10. Unprepared(doc.nodes[n]) /\ p = "discard-stage" => Unprepared(e.nodes[n])
  BY <1>9 DEF Unprepared, Beyond, Forward
<1>11. answer[n] # "none"
  BY <1>0, <1>1
<1> QED BY <1>0, <1>1, <1>2, <1>5, <1>7, <1>8, <1>9, <1>10, <1>11, FailureKeeps

\* The call failed, or its answer was lost.
LEMMA CallFailedKeeps == ASSUME ClusterInv, CallFailed PROVE ClusterInv'
<1>0. /\ TypeOK /\ DocsInv /\ CallInv
      /\ run.call # "none" /\ answer[run.call] # "none"
  BY DEF ClusterInv, CallFailed
<1>1. PICK n \in Nodes : n = run.call
  BY <1>0 DEF TypeOK, Run
<1>2. PICK s \in {"rollback-failed", "unknown"} :
         s = IF run.mode = "back" THEN "rollback-failed" ELSE "unknown"
  OBVIOUS
<1>3. PICK d : d = [doc EXCEPT !.nodes[n].state = "unknown"]
  OBVIOUS
<1>4. PICK e : e = [doc EXCEPT !.nodes[n].state = s]
  OBVIOUS
<1>5. /\ doc' = e /\ saved' \in {saved, d} /\ run' = AfterFailure /\ faults' \in 0..MaxFaults
      /\ Consume(run.call) /\ UNCHANGED <<journal, host, locked, inv, request>>
  BY <1>0, <1>1, <1>2, <1>3, <1>4, AgentAssumption
     DEF CallFailed, WithState, SavedOrNot, Saved, SaveFails, Fault, TypeOK, AgentTypeOK
<1>6. DocInv(doc) /\ doc \in Doc /\ doc.nodes[n].pendingAction = run.phase
  BY <1>0, <1>1 DEF DocsInv, TypeOK, CallInv
<1>7. s \in NodeStates /\ "unknown" \in NodeStates
  BY DEF NodeStates
<1>8. DocInv(d) /\ DocInv(e)
  BY <1>3, <1>4, <1>6, UnknownKept
<1>9. /\ d \in Doc /\ d.operationState = doc.operationState /\ d.generation = doc.generation
      /\ e \in Doc /\ e.operationState = doc.operationState /\ e.generation = doc.generation
      /\ \A m \in Nodes \ {n} : e.nodes[m] = doc.nodes[m]
      /\ e.nodes[n].receipts = doc.nodes[n].receipts
      /\ e.nodes[n].pendingAction = run.phase
  BY <1>3, <1>4, <1>6, <1>7, StateDoc
<1>10. Unprepared(doc.nodes[n]) => Unprepared(e.nodes[n])
  BY <1>9 DEF Unprepared
<1>11. answer[n] # "none"
  BY <1>0, <1>1
<1> QED BY <1>0, <1>1, <1>5, <1>8, <1>9, <1>10, <1>11, FailureKeeps

\* The coordinator gives a call up; the node may go on with it.
LEMMA CallTimesOutKeeps == ASSUME ClusterInv, CallTimesOut PROVE ClusterInv'
<1>0. /\ TypeOK /\ DocsInv /\ CallInv /\ StartInv /\ ForwardInv /\ BackInv /\ EndInv
      /\ \A m \in Nodes : NodeInv(m)
  BY DEF ClusterInv
<1>1. PICK n \in Nodes : n = run.call
  BY <1>0 DEF CallTimesOut, TypeOK, Run
<1>2. /\ run.call # "none" /\ run.mode \in {"forward", "back"}
      /\ request' = [request EXCEPT ![n] = NoRequest]
      /\ inv' = [inv EXCEPT ![n].attached = FALSE]
      /\ answer' = [answer EXCEPT ![n] = "failed"] /\ faults' \in 0..MaxFaults
      /\ UNCHANGED <<journal, host, locked>> /\ doc' = doc /\ saved' = saved /\ run' = run
  BY <1>0, <1>1, AgentAssumption DEF CallTimesOut, CallInv, Fault, TypeOK, AgentTypeOK
<1>3. /\ NoRequest.phase = "none" /\ NoRequest \in Request
      /\ request'[n] = NoRequest /\ answer'[n] = "failed"
      /\ inv'[n] = [inv[n] EXCEPT !.attached = FALSE] /\ inv'[n] \in Invocation
      /\ inv'[n].request = inv[n].request /\ inv'[n].at = inv[n].at /\ ~inv'[n].attached
      /\ \A m \in Nodes \ {n} : request'[m] = request[m] /\ inv'[m] = inv[m] /\ answer'[m] = answer[m]
  <2>1. NoRequest.phase = "none" /\ NoRequest \in Request
    BY AgentAssumption DEF NoRequest, Request
  <2>2. inv[n] \in Invocation
    BY <1>0 DEF TypeOK, AgentTypeOK
  <2>3. /\ request'[n] = NoRequest /\ answer'[n] = "failed"
        /\ inv'[n] = [inv[n] EXCEPT !.attached = FALSE]
        /\ \A m \in Nodes \ {n} : request'[m] = request[m] /\ inv'[m] = inv[m] /\ answer'[m] = answer[m]
    BY <1>0, <1>2 DEF TypeOK, AgentTypeOK
  <2> QED BY <2>1, <2>2, <2>3 DEF Invocation
<1>4. Withdrawn
  <2>1. \A m \in Nodes : inv'[m].request = inv[m].request /\ inv'[m].at = inv[m].at
    BY <1>3
  <2>2. \A m \in Nodes : request'[m].phase \in {request[m].phase, "none"}
    BY <1>3
  <2> QED BY <1>2, <2>1, <2>2 DEF Withdrawn, Still
<1>5. TypeOK'
  <2>1. request' \in [Nodes -> Request] /\ inv' \in [Nodes -> Invocation]
    <3>1. inv' = [inv EXCEPT ![n] = inv'[n]]
      BY <1>2, <1>3
    <3> QED BY <1>0, <1>2, <1>3, <3>1 DEF TypeOK, AgentTypeOK
  <2>2. answer' \in [Nodes -> {"none", "ok", "failed"} \cup Refusals]
    BY <1>0, <1>2 DEF TypeOK, AgentTypeOK
  <2> QED BY <1>0, <1>2, <2>1, <2>2 DEF TypeOK, AgentTypeOK
<1>6. /\ DocsInv' /\ GenerationInv' /\ FleetInv' /\ EndInv' /\ \A m \in Nodes : NodeInv(m)'
  <2>1. DocInv(doc)
    BY <1>0, <1>2 DEF DocsInv
  <2>2. EndInv'
    BY <1>0, <1>2, <1>4, EndStill
  <2> QED BY <1>2, <1>4, <2>1, <2>2, Recorded
<1>7. CallInv'
  <2>1. doc.nodes[n].pendingAction = run.phase /\ run.phase # "none"
    BY <1>0, <1>1 DEF CallInv
  <2>2. ASSUME NEW m \in Nodes, m # n
        PROVE  request'[m].phase = "none" /\ ~inv'[m].attached /\ answer'[m] = "none"
    BY <1>0, <1>1, <1>3, <2>2 DEF CallInv
  <2> QED BY <1>1, <1>2, <1>3, <2>1, <2>2 DEF CallInv
<1>8. \A m \in Nodes :
        /\ \A p \in Phases : Fresh(m, p) => Fresh(m, p)'
        /\ Doing(m)' \subseteq Doing(m) /\ (Invoked(m)' <=> Invoked(m))
        /\ request[m].phase = "none" => request'[m].phase = "none"
  BY <1>0, <1>2, <1>4, StillFresh, StillDoing, StillNodes DEF Withdrawn
<1>9. StartInv'
  BY <1>0, <1>2, <1>8 DEF StartInv, Phases
<1>10. ForwardInv'
  <2>1. SUFFICES ASSUME run.mode = "forward" PROVE ForwardInv'
    BY <1>2 DEF ForwardInv
  <2>2. ASSUME NEW m \in Nodes, NEW p \in {"prepare", "swap", "restart", "release"}, ~Fresh(m, p)'
        PROVE  \/ p \in doc.nodes[m].receipts
               \/ m = run.call /\ p = run.phase /\ request'[m].phase = "none"
    <3>1. ~Fresh(m, p)
      BY <1>8, <2>2 DEF Phases
    <3> QED BY <1>0, <1>8, <2>1, <3>1 DEF ForwardInv
  <2>3. ASSUME NEW m \in Nodes
        PROVE  Doing(m)' \subseteq {run.phase} /\ (request'[m].phase # "none" => ~Invoked(m)')
    BY <1>0, <1>8, <2>1 DEF ForwardInv
  <2>4. \A m \in Nodes :
          LET nd == doc.nodes[m]
              h == host[m] IN
          /\ m # run.call => nd.pendingAction = "none"
          /\ nd.state \in StatesIn(run.pass)
          /\ run.pass = 3 /\ nd.state = "prepared" => OnRelease(h, "old") /\ h.fence = "prepared"
          /\ run.pass \in {3, 4} /\ nd.state = "prepared" =>
               nd.receipts \cap {"swap", "restart"} = {}
          /\ run.pass = 4 /\ nd.state = "mutating" =>
               Disk(h) = "new" /\ "swap" \in nd.receipts /\ "restart" \notin nd.receipts
          /\ run.pass \in 4..7 => h.fence = "prepared"
          /\ run.pass >= 4 /\ nd.state \in {"active", "verified", "promoted", "released"} =>
               OnRelease(h, "new")
          /\ run.pass = 8 /\ nd.state = "released" => h.fence = "open" /\ ~locked[m]
    BY <1>0, <2>1 DEF ForwardInv
  <2>5. /\ doc.operationState = "running" /\ run.pass \in 1..Len(ForwardPasses)
        /\ run.phase = Due(run.call)
    BY <1>0, <1>2, <2>1 DEF ForwardInv
  <2>6. (run.call # "none" => run.phase = Due(run.call))'
    BY <1>2, <2>5 DEF Due
  <2> QED BY <1>2, <2>2, <2>3, <2>4, <2>5, <2>6 DEF ForwardInv
<1>11. BackInv'
  <2>1. SUFFICES ASSUME run.mode = "back" PROVE BackInv'
    BY <1>2 DEF BackInv
  <2>2. \A m : (InTodo(m)' <=> InTodo(m)) /\ (InRestore(m)' <=> InRestore(m))
    BY <1>2 DEF InTodo, InRestore
  <2>4. \A m \in Range(run.discard) : ~InRestore(m)
    BY <1>0, <2>1 DEF BackInv
  <2>5. ASSUME NEW m \in Nodes
        PROVE  LET h == host[m] IN
               /\ run.pass <= 2 => Fresh(m, "rollback")'
               /\ run.pass = 3 /\ InRestore(m) =>
                    /\ h.fence = "prepared" /\ Doing(m)' \subseteq {"rollback"}
                    /\ InTodo(m) \/ (m = run.call /\ request'[m].phase # "none") =>
                         Fresh(m, "rollback")' /\ ~Invoked(m)'
               /\ run.pass >= 4 =>
                    /\ OnRelease(h, "old")
                    /\ Doing(m)' \cap (Acting \ {"release"}) = {}
                    /\ run.pass # 6 \/ (m # run.call /\ ~run.failed) => "release" \notin Doing(m)'
    BY <1>0, <1>8, <2>1 DEF BackInv, Phases
  <2>6. /\ doc.operationState = "rollback-required" /\ run.pass \in 1..Len(BackPasses)
        /\ IsInjective(run.todo) /\ IsInjective(run.restore) /\ IsInjective(run.discard)
        /\ run.phase = BackPhase /\ ~InTodo(run.call)
        /\ \A m \in Nodes : InTodo(m) \/ m = run.call => (InRestore(m) <=> run.pass \notin {1, 4})
    BY <1>0, <1>2, <2>1 DEF BackInv
  <2>7. \A m \in Nodes :
             LET nd == doc.nodes[m]
                 h == host[m] IN
             /\ ~InRestore(m) => Unprepared(nd) /\ nd.pendingAction \notin Restoring
             /\ run.pass = 1 /\ InRestore(m) => ~OnlyStageCleanup(nd)
             /\ run.pass = 2 /\ InTodo(m) => ~OnlyStageCleanup(nd)
             /\ run.pass = 2 /\ ~run.failed /\ InRestore(m) /\ ~InTodo(m) /\ m # run.call =>
                  /\ nd.pendingAction = "none" /\ nd.state = "rollback-required"
                  /\ h.fence = "prepared"
             /\ run.pass = 3 /\ InRestore(m) =>
                  /\ InTodo(m) => nd.pendingAction = "none" /\ nd.state # "rolled-back"
                  /\ ~run.failed /\ ~InTodo(m) /\ m # run.call =>
                       /\ nd.pendingAction = "none" /\ nd.state = "rolled-back"
                       /\ "rollback" \in nd.receipts /\ OnRelease(h, "old")
             /\ run.pass >= 4 /\ InRestore(m) => "rollback" \in nd.receipts
    BY <1>0, <2>1 DEF BackInv
  <2>8. (run.call # "none" => run.phase = BackPhase /\ ~InTodo(run.call))'
    BY <1>2, <2>6 DEF BackPhase, InTodo
  <2> QED BY <1>2, <2>2, <2>4, <2>5, <2>6, <2>7, <2>8 DEF BackInv
<1> QED BY <1>5, <1>6, <1>7, <1>9, <1>10, <1>11 DEF ClusterInv

-----------------------------------------------------------------------------
(* The way back.                                                           *)

\* Reversing a list keeps its entries.
LEMMA BackwardsEntries ==
    ASSUME NEW E, NEW s \in Seq(E)
    PROVE  /\ Backwards(s) \in Seq(E) /\ Range(Backwards(s)) = Range(s)
           /\ IsInjective(s) => IsInjective(Backwards(s))
           /\ \A e : Occurs(e, s) <=> e \in Range(s)
<1> DEFINE b == [i \in 1..Len(s) |-> s[Len(s) + 1 - i]]
<1>1. Len(s) \in Nat /\ DOMAIN s = 1..Len(s) /\ DOMAIN b = 1..Len(s)
  OBVIOUS
<1>2. \A i \in 1..Len(s) : /\ Len(s) + 1 - i \in 1..Len(s) /\ Len(s) + 1 - (Len(s) + 1 - i) = i
                           /\ s[i] \in E /\ b[i] = s[Len(s) + 1 - i]
  BY <1>1
<1>3. b \in Seq(E)
  BY <1>1, <1>2
<1>4. b = Backwards(s)
  BY DEF Backwards
<1> HIDE DEF b
<1>5. Range(b) = Range(s)
  <2>1. ASSUME NEW i \in 1..Len(s) PROVE b[i] \in Range(s) /\ s[i] \in Range(b)
    <3>1. b[Len(s) + 1 - i] = s[i]
      BY <1>2
    <3> QED BY <1>1, <1>2, <3>1 DEF Range
  <2> QED BY <1>1, <2>1 DEF Range
<1>6. IsInjective(s) => IsInjective(b)
  <2>1. ASSUME IsInjective(s), NEW i \in 1..Len(s), NEW j \in 1..Len(s), b[i] = b[j] PROVE i = j
    <3>1. Len(s) + 1 - i = Len(s) + 1 - j
      BY <1>1, <1>2, <2>1 DEF IsInjective
    <3> QED BY <1>1, <3>1
  <2> QED BY <1>1, <2>1 DEF IsInjective
<1>7. \A e : Occurs(e, s) <=> e \in Range(s)
  BY <1>1 DEF Occurs, Range
<1> QED BY <1>3, <1>4, <1>5, <1>6, <1>7

\* The way back names every node once.
LEMMA RollbackOrderNodes ==
    ASSUME NEW d \in Doc, IsInjective(d.mutationOrder)
    PROVE  /\ RollbackOrder(d) \in Seq(Nodes) /\ Range(RollbackOrder(d)) = Nodes
           /\ IsInjective(RollbackOrder(d))
<1> DEFINE s == d.mutationOrder
           b == Backwards(s)
           rest == {n \in Nodes : ~Occurs(n, s)}
           k == Kept(Order, rest)
<1>1. s \in Seq(Nodes)
  BY DEF Doc
<1>2. Range(s) \subseteq Nodes
  <2>1. \A i \in 1..Len(s) : s[i] \in Nodes
    BY <1>1
  <2>2. DOMAIN s = 1..Len(s)
    BY <1>1
  <2> QED BY <2>1, <2>2 DEF Range
<1>3. b \in Seq(Nodes) /\ Range(b) = Range(s) /\ IsInjective(b) /\ rest = Nodes \ Range(s)
  BY <1>1, BackwardsEntries
<1>4. k \in Seq(Nodes) /\ Range(k) = Nodes \ Range(s) /\ IsInjective(k)
  <2> HIDE DEF rest
  <2>1. k \in Seq(Nodes) /\ Range(k) = Range(Order) \cap rest /\ IsInjective(k)
    BY OrderNodes, KeptEntries
  <2> QED BY <1>3, <2>1, OrderNodes
<1>5. RollbackOrder(d) = b \o k
  BY DEF RollbackOrder
<1> HIDE DEF s, b, k
<1>6. /\ b \o k \in Seq(Nodes) /\ Range(b \o k) = Range(b) \cup Range(k)
      /\ IsInjective(b) /\ IsInjective(k) /\ Range(b) \cap Range(k) = {} => IsInjective(b \o k)
  BY <1>3, <1>4, Joined
<1>7. Range(b) \cap Range(k) = {} /\ Range(b) \cup Range(k) = Nodes
  BY <1>2, <1>3, <1>4
<1> QED BY <1>3, <1>4, <1>5, <1>6, <1>7

\* The nodes of a treatment, each once.
LEMMA TreatedNodes ==
    ASSUME NEW d \in Doc, IsInjective(d.mutationOrder), NEW t
    PROVE  /\ Treated(d, t) \in Seq(Nodes) /\ IsInjective(Treated(d, t))
           /\ Range(Treated(d, t)) = {n \in Nodes : Treatment(d.nodes[n]) = t}
<1> DEFINE r == RollbackOrder(d)
           S == {n \in Nodes : Treatment(d.nodes[n]) = t}
<1>1. r \in Seq(Nodes) /\ Range(r) = Nodes /\ IsInjective(r)
  BY RollbackOrderNodes
<1>2. Treated(d, t) = Kept(r, S) /\ S \subseteq Nodes
  BY DEF Treated
<1> HIDE DEF r, S
<1>3. /\ Kept(r, S) \in Seq(Nodes) /\ Range(Kept(r, S)) = Range(r) \cap S
      /\ IsInjective(r) => IsInjective(Kept(r, S))
  BY <1>1, KeptEntries
<1>4. Range(Treated(d, t)) = S
  BY <1>1, <1>2, <1>3
<1> QED BY <1>1, <1>2, <1>3, <1>4 DEF S

\* The nodes are sorted into those to restore and those that were never prepared.
LEMMA TurnBackKeeps == ASSUME ClusterInv, TurnBack PROVE ClusterInv'
<1>0. /\ TypeOK /\ DocsInv /\ CallInv /\ StartInv /\ run.mode = "abort"
  BY DEF ClusterInv, TurnBack
<1>1. doc \in Doc /\ DocInv(doc) /\ IsInjective(doc.mutationOrder) /\ run.call = "none"
  BY <1>0 DEF TypeOK, DocsInv, DocInv, CallInv
<1>2. PICK d : d = Classified(doc)
  OBVIOUS
<1>3. PICK reserve, restore, discard :
        /\ reserve = Treated(doc, "reserve") /\ restore = Treated(doc, "restore")
        /\ discard = Treated(doc, "discard")
  OBVIOUS
<1>4. /\ doc' = d /\ saved' \in {saved, d} /\ faults' \in 0..MaxFaults
      /\ run' = [Down EXCEPT !.mode = "back", !.pass = 1, !.todo = reserve, !.restore = restore,
                             !.discard = discard]
      /\ UNCHANGED <<journal, host, locked, inv, request, answer>>
  BY <1>0, <1>2, <1>3, AgentAssumption
     DEF TurnBack, SavedOrNot, Saved, SaveFails, Fault, TypeOK, AgentTypeOK
<1>5. /\ reserve \in Seq(Nodes) /\ restore \in Seq(Nodes) /\ discard \in Seq(Nodes)
      /\ IsInjective(reserve) /\ IsInjective(restore) /\ IsInjective(discard)
      /\ Range(reserve) = {n \in Nodes : Treatment(doc.nodes[n]) = "reserve"}
      /\ Range(restore) = {n \in Nodes : Treatment(doc.nodes[n]) = "restore"}
      /\ Range(discard) = {n \in Nodes : Treatment(doc.nodes[n]) = "discard"}
  BY <1>1, <1>3, TreatedNodes
<1>6. /\ run'.mode = "back" /\ run'.pass = 1 /\ run'.call = "none" /\ run' \in Run
      /\ run'.todo = reserve /\ run'.restore = restore /\ run'.discard = discard
  <2>1. run' = [mode |-> "back", pass |-> 1, call |-> "none", phase |-> "none", todo |-> reserve,
                restore |-> restore, discard |-> discard, failed |-> FALSE]
    BY <1>4 DEF Down
  <2> QED BY <1>5, <2>1 DEF Run
<1>7. Withdrawn
  BY <1>4 DEF Withdrawn, Still
<1>8. /\ d \in Doc /\ d.generation = doc.generation /\ d.operationState = "rollback-required"
      /\ \A n \in Nodes :
           /\ d.nodes[n].receipts = doc.nodes[n].receipts
           /\ d.nodes[n].pendingAction = doc.nodes[n].pendingAction
           /\ Treatment(doc.nodes[n]) \notin {"clean", "untouched"} => d.nodes[n] = doc.nodes[n]
  BY <1>1, <1>2, ClassifiedDoc
<1>9. DocInv(d)
  BY <1>1, <1>2, ClassifiedKept
<1>10. /\ DocsInv' /\ GenerationInv' /\ FleetInv' /\ EndInv' /\ \A n \in Nodes : NodeInv(n)'
  BY <1>0, <1>4, <1>7, <1>8, <1>9, Recorded
<1>11. TypeOK'
  BY <1>0, <1>4, <1>6, <1>8 DEF TypeOK, AgentTypeOK
<1>12. CallInv'
  BY <1>0, <1>1, <1>4, <1>6, Uncalled
<1>13. StartInv' /\ ForwardInv'
  BY <1>6 DEF StartInv, ForwardInv
<1>14. BackInv'
  <2>1. \A n \in Nodes : /\ InTodo(n)' <=> Treatment(doc.nodes[n]) = "reserve"
                         /\ InRestore(n)' <=> Treatment(doc.nodes[n]) = "restore"
    BY <1>5, <1>6 DEF InTodo, InRestore
  <2>2. ASSUME NEW n \in Nodes PROVE Settled(n)'
    <3>1. /\ Treatment(doc.nodes[n]) = "restore" => ~OnlyStageCleanup(d.nodes[n])
          /\ Treatment(doc.nodes[n]) # "restore" =>
               Unprepared(d.nodes[n]) /\ d.nodes[n].pendingAction \notin Restoring
      <4>1. RecordInv(doc.nodes[n])
        BY <1>1 DEF DocInv
      <4> QED BY <1>8, <4>1, Restored DEF Unprepared
    <3>2. Fresh(n, "rollback")'
      BY <1>0, <1>4, <1>7, <1>8, StillFresh DEF StartInv, Withdrawn
    <3> QED BY <1>4, <1>6, <2>1, <3>1, <3>2 DEF Settled
  <2>3. \A n \in Range(run'.discard) : ~InRestore(n)'
    BY <1>5, <1>6, <2>1
  <2>4. 1 \in 1..Len(BackPasses)
    BY DEF BackPasses
  <2> QED BY <1>4, <1>5, <1>6, <1>8, <2>2, <2>3, <2>4, SettledBack
<1> QED BY <1>10, <1>11, <1>12, <1>13, <1>14 DEF ClusterInv

\* A pass visits nodes of its own list.
LEMMA TodoNodes ==
    ASSUME run \in Run, IsInjective(run.restore), IsInjective(run.discard), NEW i \in 2..7
    PROVE  LET todo == Todo(BackPasses[i])
               restored == {n \in Nodes : doc.nodes[n].state = "rolled-back"} IN
           /\ todo \in Seq(Nodes) /\ IsInjective(todo)
           /\ i = 2 => Range(todo) = Range(run.restore)
           /\ i = 3 => Range(todo) = Range(run.restore) \cap (Nodes \ restored)
           /\ i = 4 => Range(todo) = Range(run.discard)
           /\ i > 4 => Range(todo) \subseteq Range(run.restore)
<1> DEFINE restored == {n \in Nodes : doc.nodes[n].state = "rolled-back"}
           staged == {n \in Nodes : "stage" \in doc.nodes[n].receipts}
<1>1. run.restore \in Seq(Nodes) /\ run.discard \in Seq(Nodes)
  BY DEF Run
<1>2. ASSUME NEW S
      PROVE  /\ Kept(run.restore, S) \in Seq(Nodes) /\ IsInjective(Kept(run.restore, S))
             /\ Range(Kept(run.restore, S)) = Range(run.restore) \cap S
  BY <1>1, KeptEntries
<1>3. /\ BackPasses[2] = "fence" /\ BackPasses[3] = "restore" /\ BackPasses[4] = "discard"
      /\ BackPasses[5] = "canary" /\ BackPasses[6] = "open" /\ BackPasses[7] = "tidy"
  BY DEF BackPasses
<1>4. /\ Todo("fence") = run.restore /\ Todo("discard") = run.discard
      /\ Todo("restore") = Kept(run.restore, Nodes \ restored)
      /\ Todo("canary") = Kept(run.restore, {Leader} \cap restored)
      /\ Todo("open") = Kept(run.restore, restored)
      /\ Todo("tidy") = Kept(run.restore, restored \cap staged)
  BY DEF Todo
<1> HIDE DEF staged
<1>5. i = 2 \/ i = 3 \/ i = 4 \/ i = 5 \/ i = 6 \/ i = 7
  OBVIOUS
<1>6. CASE i = 2 \/ i = 4
  BY <1>1, <1>3, <1>4, <1>6
<1>7. CASE i = 3
  BY <1>2, <1>3, <1>4, <1>7
<1>8. CASE i = 5 \/ i = 6 \/ i = 7
  <2>1. PICK S : Todo(BackPasses[i]) = Kept(run.restore, S)
    BY <1>3, <1>4, <1>8
  <2>2. Range(Kept(run.restore, S)) \subseteq Range(run.restore)
    BY <1>2
  <2> QED BY <1>2, <1>8, <2>1, <2>2
<1> QED BY <1>5, <1>6, <1>7, <1>8

\* Between two calls of the way back: what is known, with what the record of a
\* node says about it.
LEMMA BackIdle ==
    ASSUME ClusterInv, InBack
    PROVE  /\ TypeOK /\ DocsInv /\ CallInv /\ DocInv(doc) /\ doc \in Doc
           /\ run.mode = "back" /\ run.call = "none" /\ run \in Run
           /\ run.pass \in 1..7 /\ run.pass \in 1..Len(BackPasses)
           /\ doc.operationState = "rollback-required"
           /\ IsInjective(run.todo) /\ IsInjective(run.restore) /\ IsInjective(run.discard)
           /\ \A n \in Range(run.discard) : ~InRestore(n)
           /\ \A n \in Nodes : Settled(n)
<1>1. /\ TypeOK /\ DocsInv /\ CallInv /\ BackInv /\ run.mode = "back" /\ run.call = "none"
  BY DEF ClusterInv, InBack
<1>2. DocInv(doc) /\ doc \in Doc /\ run \in Run
  BY <1>1 DEF DocsInv, TypeOK
<1>3. Len(BackPasses) = 7
  BY DEF BackPasses
<1> QED BY <1>1, <1>2, <1>3, BackSettled DEF BackInv

\* A pass back ends; the next one starts only when none has failed.
LEMMA NextPassBackKeeps == ASSUME ClusterInv, NextPassBack PROVE ClusterInv'
<1>0. /\ TypeOK /\ DocsInv /\ CallInv /\ DocInv(doc) /\ doc \in Doc
      /\ run.mode = "back" /\ run.call = "none" /\ run \in Run
      /\ run.pass \in 1..7
      /\ doc.operationState = "rollback-required"
      /\ IsInjective(run.restore) /\ IsInjective(run.discard)
      /\ \A n \in Range(run.discard) : ~InRestore(n)
      /\ \A n \in Nodes : Settled(n) /\ NodeInv(n)
  BY BackIdle DEF NextPassBack, ClusterInv
<1>1. PICK todo : todo = Todo(BackPasses[run.pass + 1])
  OBVIOUS
<1>2. /\ run.todo = <<>> /\ run.pass < 7 /\ (run.pass = 1 \/ ~run.failed)
      /\ run' = [run EXCEPT !.pass = @ + 1, !.todo = todo]
      /\ UNCHANGED <<journal, host, locked, inv, request, answer, faults, doc, saved>>
  <2>1. Len(BackPasses) = 7 /\ (BackPasses[run.pass] = "reserve" => run.pass = 1)
    BY <1>0 DEF BackPasses
  <2> QED BY <1>1, <2>1 DEF NextPassBack, agentVars
<1>3. PICK pass \in 2..7 : pass = run.pass + 1
  BY <1>0, <1>2
<1>4. /\ todo \in Seq(Nodes) /\ IsInjective(todo)
      /\ pass = 2 => Range(todo) = Range(run.restore)
      /\ pass = 3 => Range(todo) = Range(run.restore)
                                   \cap (Nodes \ {n \in Nodes : doc.nodes[n].state = "rolled-back"})
      /\ pass = 4 => Range(todo) = Range(run.discard)
      /\ pass > 4 => Range(todo) \subseteq Range(run.restore)
  BY <1>0, <1>1, <1>3, TodoNodes
<1>5. /\ run' \in Run /\ run'.mode = "back" /\ run'.call = "none" /\ run'.pass = pass
      /\ run'.todo = todo /\ run'.restore = run.restore /\ run'.discard = run.discard
      /\ run'.failed = run.failed
  <2>1. run' = [run EXCEPT !.pass = pass, !.todo = todo]
    BY <1>2, <1>3
  <2>2. pass \in 0..8
    OBVIOUS
  <2> QED BY <1>0, <1>4, <2>1, <2>2 DEF Run
<1>6. TypeOK' /\ Withdrawn
  BY <1>0, <1>2, <1>5 DEF TypeOK, AgentTypeOK, Withdrawn, Still
<1>7. CallInv'
  BY <1>0, <1>2, <1>5, Uncalled
<1>8. /\ DocsInv' /\ GenerationInv' /\ FleetInv' /\ EndInv' /\ \A n \in Nodes : NodeInv(n)'
  BY <1>0, <1>2, <1>6, Recorded
<1>9. StartInv' /\ ForwardInv'
  BY <1>5 DEF StartInv, ForwardInv
<1>10. ASSUME NEW n \in Nodes PROVE Settled(n)'
  <2> DEFINE nd == doc.nodes[n]
             h == host[n]
  <2>1. /\ InRestore(n)' <=> InRestore(n)
        /\ InTodo(n)' <=> n \in Range(todo)
        /\ ~InTodo(n)
    <3>1. Range(<<>>) = {}
      BY DEF Range
    <3> QED BY <1>2, <1>5, <3>1 DEF InRestore, InTodo
  <2>2. InTodo(n)' => (InRestore(n)' <=> pass \notin {1, 4})
    BY <1>0, <1>3, <1>4, <2>1 DEF InRestore
  <2>3. /\ Doing(n)' = Doing(n) /\ (Invoked(n)' <=> Invoked(n)) /\ host' = host /\ doc' = doc
        /\ Fresh(n, "rollback") => Fresh(n, "rollback")'
    BY <1>2 DEF Doing, Phase, Invoked, Fresh
  <2>4. ~InRestore(n) => Unprepared(nd) /\ nd.pendingAction \notin Restoring
    BY <1>0 DEF Settled
  <2>5. CASE run.pass = 1
    BY <1>0, <1>3, <1>4, <1>5, <2>1, <2>2, <2>3, <2>4, <2>5 DEF Settled, InRestore
  <2>6. CASE run.pass = 2
    <3>1. InRestore(n) => /\ nd.pendingAction = "none" /\ nd.state = "rollback-required"
                          /\ h.fence = "prepared"
      BY <1>0, <1>2, <2>1, <2>6 DEF Settled
    <3>2. InRestore(n) => Doing(n) = {} /\ ~Invoked(n)
      <4>1. InRestore(n) => Doing(n) = {}
        BY <1>0, <3>1, IdleNode
      <4>2. Invoked(n) => Phase(n) \in Phases
        BY <1>0 DEF NodeInv, PendingInv
      <4>3. Invoked(n) => Doing(n) # {}
        BY <4>2 DEF Doing, Phases
      <4> QED BY <4>1, <4>3
    <3>3. Fresh(n, "rollback")
      BY <1>0, <2>6 DEF Settled
    <3>4. InRestore(n) => InTodo(n)'
      BY <1>3, <1>4, <2>1, <2>6, <3>1 DEF InRestore
    <3> QED BY <1>3, <1>5, <2>1, <2>2, <2>3, <2>4, <2>6, <3>1, <3>2, <3>3, <3>4 DEF Settled
  <2>7. CASE run.pass = 3
    <3>1. WorldInv(nd, h, journal[n], Doing(n))
      BY <1>0 DEF DocInv
    <3>2. InRestore(n) => /\ nd.pendingAction = "none" /\ "rollback" \in nd.receipts
                          /\ OnRelease(h, "old")
      BY <1>0, <1>2, <2>1, <2>7 DEF Settled
    <3>3. OnRelease(h, "old") /\ Doing(n) \cap Acting = {}
      BY <2>4, <3>1, <3>2 DEF WorldInv, Restoring, Beyond, Forward
    <3> QED BY <1>3, <1>5, <2>1, <2>2, <2>3, <2>4, <2>7, <3>2, <3>3 DEF Settled, Acting
  <2>8. CASE run.pass \in 4..6
    <3>1. /\ OnRelease(h, "old") /\ Doing(n) \cap (Acting \ {"release"}) = {}
          /\ "release" \notin Doing(n)
          /\ InRestore(n) => "rollback" \in nd.receipts
      BY <1>0, <1>2, <2>8 DEF Settled
    <3> QED BY <1>3, <1>5, <2>1, <2>2, <2>3, <2>4, <2>8, <3>1 DEF Settled
  <2> QED BY <1>0, <1>2, <2>5, <2>6, <2>7, <2>8
<1>11. BackInv'
  <2>1. /\ doc'.operationState = "rollback-required" /\ run'.pass \in 1..Len(BackPasses)
        /\ \A n \in Range(run'.discard) : ~InRestore(n)'
    <3>1. Len(BackPasses) = 7
      BY DEF BackPasses
    <3> QED BY <1>0, <1>2, <1>5, <3>1 DEF InRestore
  <2> QED BY <1>0, <1>4, <1>5, <1>10, <2>1, SettledBack
<1> QED BY <1>6, <1>7, <1>8, <1>9, <1>11 DEF ClusterInv

\* The way back ends: as a rollback if every node is on the old release.
LEMMA EndBackKeeps == ASSUME ClusterInv, EndBack PROVE ClusterInv'
<1>0. /\ TypeOK /\ DocsInv /\ CallInv /\ EndInv
      /\ run.mode = "back" /\ run.call = "none" /\ run.pass \in 1..7
      /\ \A n \in Nodes : Settled(n)
  BY BackIdle DEF EndBack, ClusterInv
<1>1. PICK s \in {"rollback-failed", "rolled-back", "completed"} :
         s = IF run.failed THEN "rollback-failed" ELSE "rolled-back"
  OBVIOUS
<1>2. PICK d : d = [doc EXCEPT !.operationState = s]
  OBVIOUS
<1>3. /\ saved' \in {saved, d} /\ doc' = NoDoc /\ run' = Down /\ faults' \in 0..MaxFaults
      /\ run.pass = 7 \/ run.failed
      /\ UNCHANGED <<journal, host, locked, inv, request, answer>>
  <2>1. Len(BackPasses) = 7
    BY DEF BackPasses
  <2> QED BY <1>0, <1>1, <1>2, <2>1, AgentAssumption
          DEF EndBack, SavedOrNot, Saved, SaveFails, Fault, TypeOK, AgentTypeOK
<1>4. d \in Doc /\ DocInv(d) /\ d.generation = doc.generation /\ d.operationState = s
  BY <1>0, <1>2, CompletedDoc
<1>5. run' \in Run /\ run'.mode = "down" /\ run'.call = "none"
  BY <1>3, DownRun
<1>6. TypeOK' /\ Withdrawn
  BY <1>0, <1>3, <1>4, <1>5, NoDocTyped DEF TypeOK, AgentTypeOK, Withdrawn, Still
<1>7. CallInv'
  BY <1>0, <1>3, <1>5, Uncalled
<1>8. /\ DocsInv' /\ GenerationInv' /\ FleetInv' /\ \A n \in Nodes : NodeInv(n)'
  BY <1>0, <1>3, <1>4, <1>5, <1>6, Recorded
<1>9. EndInv'
  <2>1. CASE saved' = saved
    BY <1>0, <1>3, <1>6, <2>1, EndStill
  <2>2. CASE saved' = d
    <3>1. CASE run.failed
      BY <1>1, <1>4, <2>2, <3>1 DEF EndInv
    <3>2. CASE ~run.failed
      <4>1. \A n \in Nodes : OnRelease(host[n], "old") /\ Doing(n) \cap Acting = {}
        BY <1>0, <1>3, <3>2 DEF Settled
      <4>2. \A n \in Nodes : Doing(n)' = Doing(n)
        BY <1>3 DEF Doing, Phase
      <4> QED BY <1>1, <1>3, <1>4, <2>2, <3>2, <4>1, <4>2 DEF EndInv
    <3> QED BY <3>1, <3>2
  <2> QED BY <1>3, <2>1, <2>2
<1>10. StartInv' /\ ForwardInv' /\ BackInv'
  BY <1>5 DEF StartInv, ForwardInv, BackInv
<1> QED BY <1>6, <1>7, <1>8, <1>9, <1>10 DEF ClusterInv

\* What the way back intends is what the record of the node allows.
LEMMA BackIntended ==
    ASSUME ClusterInv, InBack, run.todo # <<>>
    PROVE  LET n == Head(run.todo) IN
           /\ n \in Nodes /\ InTodo(n) /\ (InRestore(n) <=> run.pass \notin {1, 4})
           /\ Tail(run.todo) \in Seq(Nodes) /\ IsInjective(Tail(run.todo))
           /\ Range(Tail(run.todo)) = Range(run.todo) \ {n}
           /\ BackPhase \in Phases /\ BackMutates \in BOOLEAN
           /\ Intended(n, BackPhase, BackMutates)
<1>0. /\ DocInv(doc) /\ run \in Run /\ run.pass \in 1..7 /\ run.pass \in 1..Len(BackPasses)
      /\ IsInjective(run.todo) /\ \A m \in Nodes : Settled(m)
  BY BackIdle
<1>1. run.todo \in Seq(Nodes)
  BY <1>0 DEF Run
<1>2. PICK n \in Nodes : n = Head(run.todo) /\ InTodo(n)
  BY <1>1, HeadTail DEF InTodo
<1>3. /\ Tail(run.todo) \in Seq(Nodes) /\ IsInjective(Tail(run.todo))
      /\ Range(Tail(run.todo)) = Range(run.todo) \ {n}
  BY <1>0, <1>1, <1>2, HeadTail
<1>4. PICK p \in Phases : p = BackPhase
  BY <1>0, BackPhases
<1>5. PICK mutation \in BOOLEAN : mutation = BackMutates
  BY DEF BackMutates
<1>6. /\ run.pass \in {1, 4, 7} => p = "discard-stage"
      /\ run.pass = 2 => p = "reprepare"
      /\ run.pass = 3 => p = "rollback"
      /\ run.pass = 5 => p = "canary"
      /\ run.pass = 6 => p = "release"
      /\ mutation <=> run.pass \notin {1, 5}
  BY <1>0, <1>4, <1>5, BackPhases
<1> DEFINE nd == doc.nodes[n]
<1>7. RecordInv(nd) /\ Settled(n)
  BY <1>0 DEF DocInv
<1>8. InRestore(n) <=> run.pass \notin {1, 4}
  BY <1>2, <1>7 DEF Settled
<1>9. run.pass >= 5 => /\ ~Unprepared(nd) /\ nd.possiblyMutated /\ ~OnlyStageCleanup(nd)
                       /\ Doing(n) \cap (Acting \ {"release"}) = {}
                       /\ run.pass = 7 => Doing(n) \cap Acting = {}
  <2>1. SUFFICES ASSUME run.pass >= 5
                 PROVE  /\ ~Unprepared(nd) /\ nd.possiblyMutated /\ ~OnlyStageCleanup(nd)
                        /\ Doing(n) \cap (Acting \ {"release"}) = {}
                        /\ run.pass = 7 => Doing(n) \cap Acting = {}
    OBVIOUS
  <2>2. "rollback" \in nd.receipts /\ Doing(n) \cap (Acting \ {"release"}) = {}
        /\ (run.pass # 6 => "release" \notin Doing(n))
    BY <1>0, <1>7, <1>8, <2>1 DEF Settled
  <2>3. ~Unprepared(nd) /\ ~OnlyStageCleanup(nd)
    BY <2>2 DEF Unprepared, OnlyStageCleanup, Beyond
  <2> QED BY <1>7, <2>2, <2>3 DEF RecordInv
<1>10. Intended(n, p, mutation)
  <2>1. CASE run.pass \in {1, 4}
    <3>1. nd.pendingAction \notin Restoring /\ p = "discard-stage"
      BY <1>6, <1>7, <1>8, <2>1 DEF Settled
    <3> QED BY <3>1 DEF Intended, Restoring, Beyond, Forward
  <2>2. CASE run.pass = 2
    <3>1. ~OnlyStageCleanup(nd) /\ p = "reprepare" /\ mutation
      BY <1>2, <1>6, <1>7, <2>2 DEF Settled
    <3> QED BY <3>1 DEF Intended, Restoring
  <2>3. CASE run.pass = 3
    <3>1. nd.state # "rolled-back" /\ p = "rollback" /\ mutation
      BY <1>2, <1>6, <1>7, <1>8, <2>3 DEF Settled
    <3> QED BY <3>1 DEF Intended, Restoring, Beyond, OnlyStageCleanup
  <2>4. CASE run.pass \in {5, 6}
    <3>1. p \in {"canary", "release"}
      BY <1>6, <2>4
    <3> QED BY <1>9, <2>4, <3>1 DEF Intended, Restoring, Beyond, Forward
  <2>5. CASE run.pass = 7
    <3>1. p = "discard-stage"
      BY <1>6, <2>5
    <3> QED BY <1>9, <2>5, <3>1 DEF Intended, Restoring, Beyond, Forward
  <2> QED BY <1>0, <2>1, <2>2, <2>3, <2>4, <2>5
<1> QED BY <1>2, <1>3, <1>4, <1>5, <1>8, <1>10

\* The record of a call back cannot be written, and the node is passed over.
LEMMA IntentFailsBackKeeps == ASSUME ClusterInv, IntentFailsBack PROVE ClusterInv'
<1>0. /\ TypeOK /\ DocsInv /\ CallInv /\ DocInv(doc) /\ doc \in Doc
      /\ run.mode = "back" /\ run.call = "none" /\ run \in Run
      /\ run.pass \in 1..7 /\ run.pass \in 1..Len(BackPasses)
      /\ doc.operationState = "rollback-required"
      /\ IsInjective(run.restore) /\ IsInjective(run.discard)
      /\ \A n \in Range(run.discard) : ~InRestore(n)
      /\ \A n \in Nodes : Settled(n)
      /\ InBack /\ run.todo # <<>>
  BY BackIdle DEF IntentFailsBack, ClusterInv
<1>1. PICK n \in Nodes : n = Head(run.todo)
  BY <1>0, BackIntended
<1>2. PICK p \in Phases : p = BackPhase
  BY <1>0, BackIntended
<1>3. PICK mutation \in BOOLEAN : mutation = BackMutates
  BY <1>0, BackIntended
<1>4. PICK todo : todo = Tail(run.todo)
  OBVIOUS
<1>5. /\ InTodo(n) /\ (InRestore(n) <=> run.pass \notin {1, 4}) /\ Intended(n, p, mutation)
      /\ todo \in Seq(Nodes) /\ IsInjective(todo) /\ Range(todo) = Range(run.todo) \ {n}
  BY <1>0, <1>1, <1>2, <1>3, <1>4, BackIntended
<1>6. PICK d : d = Intent(n, p, mutation)
  OBVIOUS
<1>7. PICK e : e = [d EXCEPT !.nodes[n].state = "rollback-failed"]
  OBVIOUS
<1>8. /\ doc' = e /\ saved' \in {saved, d} /\ faults' \in 0..MaxFaults
      /\ run' = [run EXCEPT !.todo = todo, !.failed = TRUE]
      /\ UNCHANGED <<journal, host, locked, inv, request, answer>>
  BY <1>0, <1>1, <1>2, <1>3, <1>4, <1>6, <1>7, AgentAssumption
     DEF IntentFailsBack, SaveFails, Fault, TypeOK, AgentTypeOK
<1>9. /\ run' \in Run /\ run'.mode = "back" /\ run'.call = "none" /\ run'.pass = run.pass
      /\ run'.todo = todo /\ run'.restore = run.restore /\ run'.discard = run.discard
      /\ run'.failed
  BY <1>0, <1>5, <1>8 DEF Run
<1>10. d \in Doc /\ DocInv(d) /\ d.generation = doc.generation
       /\ d.operationState = doc.operationState
  <2>1. /\ d \in Doc /\ d.generation = doc.generation /\ d.operationState = doc.operationState
        /\ IsInjective(d.mutationOrder)
        /\ \A m \in Nodes : RecordInv(d.nodes[m])
        /\ \A m \in Nodes \ {n} : WorldInv(d.nodes[m], host[m], journal[m], Doing(m))
        /\ WorldInv(d.nodes[n], host[n], journal[n], Doing(n))
    BY <1>0, <1>5, <1>6, IntentKept
  <2> QED BY <2>1 DEF DocInv
<1>11. /\ \A m \in Nodes \ {n} : d.nodes[m] = doc.nodes[m]
       /\ d.nodes[n].receipts = doc.nodes[n].receipts /\ d.nodes[n].pendingAction = p
  BY <1>0, <1>6, IntentDoc DEF DocInv
<1>12. /\ e \in Doc /\ DocInv(e) /\ e.generation = doc.generation
       /\ e.operationState = doc.operationState
       /\ \A m \in Nodes \ {n} : e.nodes[m] = doc.nodes[m]
       /\ e.nodes[n].receipts = doc.nodes[n].receipts /\ e.nodes[n].pendingAction = p
  <2>1. "rollback-failed" \in NodeStates
    BY DEF NodeStates
  <2>2. DocInv(e)
    BY <1>7, <1>10, UnknownKept
  <2> QED BY <1>7, <1>10, <1>11, <2>1, <2>2, StateDoc
<1>13. TypeOK' /\ Withdrawn
  <2>1. AgentTypeOK'
    BY <1>0, <1>8 DEF TypeOK, AgentTypeOK
  <2>2. doc' \in Doc /\ saved' \in Doc
    BY <1>0, <1>8, <1>10, <1>12 DEF TypeOK
  <2>3. Withdrawn
    BY <1>0, <1>8 DEF Withdrawn, Still
  <2> QED BY <1>8, <1>9, <2>1, <2>2, <2>3 DEF TypeOK
<1>14. CallInv'
  BY <1>0, <1>8, <1>9, Uncalled
<1>15. /\ DocsInv' /\ GenerationInv' /\ FleetInv' /\ EndInv' /\ \A m \in Nodes : NodeInv(m)'
  BY <1>0, <1>8, <1>10, <1>12, <1>13, Recorded
<1>16. StartInv' /\ ForwardInv'
  BY <1>9 DEF StartInv, ForwardInv
<1>17. ASSUME NEW m \in Nodes PROVE Settled(m)'
  <2>1. /\ InRestore(m)' <=> InRestore(m)
        /\ InTodo(m)' <=> InTodo(m) /\ m # n
    BY <1>5, <1>9 DEF InRestore, InTodo
  <2>2. /\ Doing(m)' = Doing(m) /\ (Invoked(m)' <=> Invoked(m)) /\ host' = host
        /\ Fresh(m, "rollback") => Fresh(m, "rollback")'
    BY <1>8, <1>12 DEF Doing, Phase, Invoked, Fresh
  <2>3. ~InRestore(m) => Unprepared(doc'.nodes[m]) /\ doc'.nodes[m].pendingAction \notin Restoring
    <3>1. CASE m = n
      <4>1. ~InRestore(n) => p = "discard-stage"
        BY <1>0, <1>2, <1>5, BackPhases
      <4>2. ~InRestore(n) => Unprepared(doc.nodes[n])
        BY <1>0 DEF Settled
      <4> QED BY <1>8, <1>12, <3>1, <4>1, <4>2 DEF Unprepared, Restoring, Beyond, Forward
    <3>2. CASE m # n
      BY <1>0, <1>8, <1>12, <3>2 DEF Settled
    <3> QED BY <3>1, <3>2
  <2>4. CASE m = n
    <3>1. /\ ~InTodo(m)' /\ InTodo(m) /\ (InRestore(m) => run.pass # 1)
          /\ doc'.nodes[m].receipts = doc.nodes[m].receipts
      BY <1>5, <1>8, <1>12, <2>1, <2>4
    <3> QED BY <1>0, <1>9, <2>1, <2>2, <2>3, <3>1 DEF Settled
  <2>5. CASE m # n
    <3>1. doc'.nodes[m] = doc.nodes[m]
      BY <1>8, <1>12, <2>5
    <3> QED BY <1>0, <1>9, <2>1, <2>2, <2>5, <3>1 DEF Settled
  <2> QED BY <2>4, <2>5
<1>18. BackInv'
  <2>1. /\ doc'.operationState = "rollback-required"
        /\ \A m \in Range(run'.discard) : ~InRestore(m)'
    BY <1>0, <1>8, <1>9, <1>12 DEF InRestore
  <2> QED BY <1>0, <1>5, <1>9, <1>17, <2>1, SettledBack
<1> QED BY <1>13, <1>14, <1>15, <1>16, <1>18 DEF ClusterInv

\* The next node of a pass back is recorded and called.
LEMMA CallBackKeeps == ASSUME ClusterInv, CallBack PROVE ClusterInv'
<1>0. /\ TypeOK /\ DocsInv /\ CallInv /\ FleetInv /\ DocInv(doc)
      /\ run.mode = "back" /\ run.call = "none" /\ run \in Run
      /\ run.pass \in 1..7 /\ run.pass \in 1..Len(BackPasses)
      /\ doc.operationState = "rollback-required"
      /\ IsInjective(run.restore) /\ IsInjective(run.discard)
      /\ \A n \in Range(run.discard) : ~InRestore(n)
      /\ \A n \in Nodes : Settled(n)
      /\ InBack /\ run.todo # <<>>
  BY BackIdle DEF CallBack, ClusterInv
<1>1. PICK n \in Nodes : n = Head(run.todo)
  BY <1>0, BackIntended
<1>2. PICK p \in Phases : p = BackPhase
  BY <1>0, BackIntended
<1>3. PICK mutation \in BOOLEAN : mutation = BackMutates
  BY <1>0, BackIntended
<1>4. PICK todo : todo = Tail(run.todo)
  OBVIOUS
<1>5. /\ InTodo(n) /\ (InRestore(n) <=> run.pass \notin {1, 4}) /\ Intended(n, p, mutation)
      /\ todo \in Seq(Nodes) /\ IsInjective(todo) /\ Range(todo) = Range(run.todo) \ {n}
  BY <1>0, <1>1, <1>2, <1>3, <1>4, BackIntended
<1>6. PICK ro \in BOOLEAN : ro = (BackPasses[run.pass] = "reserve")
  OBVIOUS
<1>7. /\ Issue(n, p, mutation, ro)
      /\ run' = [run EXCEPT !.call = n, !.phase = p, !.todo = todo]
  BY <1>1, <1>2, <1>3, <1>4, <1>6 DEF CallBack
<1>8. /\ run' \in Run /\ run'.mode = "back" /\ run'.call = n /\ run'.phase = p
      /\ run'.pass = run.pass /\ run'.failed = run.failed
      /\ run'.todo = todo /\ run'.restore = run.restore /\ run'.discard = run.discard
  BY <1>0, <1>5, <1>7 DEF Run
<1>9. /\ TypeOK' /\ DocsInv' /\ CallInv' /\ GenerationInv' /\ EndInv'
      /\ \A m \in Nodes : NodeInv(m)' /\ (Invoked(m)' <=> Invoked(m))
      /\ Still
      /\ request'[n].phase = p /\ Doing(n)' = Doing(n) \cup {p}
      /\ \A m \in Nodes \ {n} : request'[m] = request[m] /\ Doing(m)' = Doing(m)
      /\ doc'.generation = doc.generation /\ doc'.operationState = doc.operationState
      /\ \A m \in Nodes \ {n} : doc'.nodes[m] = doc.nodes[m]
      /\ doc'.nodes[n].state = doc.nodes[n].state
      /\ doc'.nodes[n].receipts = doc.nodes[n].receipts
      /\ doc'.nodes[n].pendingAction = p
  BY <1>0, <1>5, <1>7, <1>8, Issued
<1>10. /\ run.pass \in {1, 4, 7} => p = "discard-stage"
       /\ run.pass = 2 => p = "reprepare"
       /\ run.pass = 3 => p = "rollback"
       /\ run.pass = 5 => p = "canary"
       /\ run.pass = 6 => p = "release"
  BY <1>0, <1>2, BackPhases
<1>11. \A m \in Nodes : /\ Fresh(m, "rollback") => Fresh(m, "rollback")'
                        /\ host'[m] = host[m]
  BY <1>9, StillFresh DEF Still
<1>12. \A m : /\ InRestore(m)' <=> InRestore(m)
              /\ InTodo(m)' <=> InTodo(m) /\ m # n
  BY <1>5, <1>8 DEF InRestore, InTodo
<1>13. StartInv' /\ ForwardInv'
  BY <1>8 DEF StartInv, ForwardInv
<1>14. ASSUME NEW m \in Nodes
       PROVE  LET nd == doc'.nodes[m]
                  h == host'[m] IN
              /\ InTodo(m)' \/ m = n => (InRestore(m)' <=> run.pass \notin {1, 4})
              /\ ~InRestore(m)' => Unprepared(nd) /\ nd.pendingAction \notin Restoring
              /\ run.pass = 1 /\ InRestore(m)' => ~OnlyStageCleanup(nd)
              /\ run.pass = 2 /\ InTodo(m)' => ~OnlyStageCleanup(nd)
              /\ run.pass <= 2 => Fresh(m, "rollback")'
              /\ run.pass = 2 /\ ~run.failed /\ InRestore(m)' /\ ~InTodo(m)' /\ m # n =>
                   nd.pendingAction = "none" /\ nd.state = "rollback-required" /\ h.fence = "prepared"
              /\ run.pass = 3 /\ InRestore(m)' =>
                   /\ h.fence = "prepared" /\ Doing(m)' \subseteq {"rollback"}
                   /\ InTodo(m)' => nd.pendingAction = "none" /\ nd.state # "rolled-back"
                   /\ InTodo(m)' \/ m = n => Fresh(m, "rollback")' /\ ~Invoked(m)'
                   /\ ~run.failed /\ ~InTodo(m)' /\ m # n =>
                        /\ nd.pendingAction = "none" /\ nd.state = "rolled-back"
                        /\ "rollback" \in nd.receipts /\ OnRelease(h, "old")
              /\ run.pass >= 4 =>
                   /\ OnRelease(h, "old")
                   /\ InRestore(m)' => "rollback" \in nd.receipts
                   /\ Doing(m)' \cap (Acting \ {"release"}) = {}
                   /\ run.pass # 6 \/ (m # n /\ ~run.failed) => "release" \notin Doing(m)'
  <2>1. CASE m = n
    <3>1. /\ InTodo(m) /\ ~InTodo(m)' /\ (InRestore(m)' <=> InRestore(m))
          /\ InRestore(m) <=> run.pass \notin {1, 4}
          /\ doc'.nodes[m].receipts = doc.nodes[m].receipts
          /\ doc'.nodes[m].pendingAction = p /\ host'[m] = host[m]
          /\ Doing(m)' = Doing(m) \cup {p} /\ (Invoked(m)' <=> Invoked(m))
      BY <1>5, <1>9, <1>11, <1>12, <2>1
    <3>2. ~InRestore(m) => Unprepared(doc'.nodes[m]) /\ p \notin Restoring
      <4>1. ~InRestore(m) => Unprepared(doc.nodes[m]) /\ p = "discard-stage"
        BY <1>0, <1>10, <3>1 DEF Settled
      <4> QED BY <3>1, <4>1 DEF Unprepared, Restoring, Beyond, Forward
    <3>3. run.pass >= 4 => p \in {"discard-stage", "canary", "release"} /\ (run.pass # 6 => p # "release")
      BY <1>0, <1>10
    <3> QED BY <1>0, <1>10, <1>11, <2>1, <3>1, <3>2, <3>3 DEF Settled, Acting
  <2>2. CASE m # n
    <3>1. /\ doc'.nodes[m] = doc.nodes[m] /\ Doing(m)' = Doing(m) /\ (Invoked(m)' <=> Invoked(m))
          /\ host'[m] = host[m] /\ (InRestore(m)' <=> InRestore(m)) /\ (InTodo(m)' <=> InTodo(m))
          /\ Fresh(m, "rollback") => Fresh(m, "rollback")'
      BY <1>9, <1>11, <1>12, <2>2
    <3> QED BY <1>0, <2>2, <3>1 DEF Settled
  <2> QED BY <2>1, <2>2
<1>15. BackInv'
  <2>1. /\ doc'.operationState = "rollback-required" /\ run'.pass \in 1..Len(BackPasses)
        /\ \A m \in Range(run.discard) : ~InRestore(m)'
    BY <1>0, <1>8, <1>9, <1>12
  <2>2. (run.call # "none" => run.phase = BackPhase /\ ~InTodo(run.call))'
    <3>1. BackPhase' = BackPhase
      BY <1>8 DEF BackPhase
    <3>2. ~InTodo(n)'
      BY <1>12
    <3> QED BY <1>2, <1>8, <3>1, <3>2 DEF InTodo
  <2> QED BY <1>0, <1>5, <1>8, <1>14, <2>1, <2>2 DEF BackInv
<1>16. FleetInv'
  <2>1. ServesOneRelease' /\ (Uniform => Uniform')
    BY <1>0, <1>11 DEF FleetInv, ServesOneRelease, Uniform
  <2>2. \A m \in Nodes : Doing(m)' \subseteq Doing(m) \cup {p} /\ host'[m] = host[m]
                        /\ (m # n => Doing(m)' = Doing(m))
    BY <1>9, <1>11
  <2>3. p # "swap"
    BY <1>0, <1>10
  <2>4. p = "rollback" =>
          \A m \in Nodes : /\ Doing(m) \cap {"swap", "release"} = {}
                           /\ \/ host[m].fence = "prepared"
                              \/ OnRelease(host[m], "old") /\ host[m].fence # "releasing"
    <3>1. SUFFICES ASSUME p = "rollback", NEW m \in Nodes
                   PROVE  /\ Doing(m) \cap {"swap", "release"} = {}
                          /\ \/ host[m].fence = "prepared"
                             \/ OnRelease(host[m], "old") /\ host[m].fence # "releasing"
      OBVIOUS
    <3>2. run.pass = 3
      BY <1>0, <1>10, <3>1
    <3>3. WorldInv(doc.nodes[m], host[m], journal[m], Doing(m))
      BY <1>0 DEF DocInv
    <3> QED BY <1>0, <3>2, <3>3 DEF Settled, WorldInv
  <2>5. p = "release" =>
          \A m \in Nodes : OnRelease(host[m], "old") /\ Doing(m) \cap {"swap", "rollback"} = {}
    <3>1. p = "release" => run.pass = 6
      BY <1>0, <1>10
    <3> QED BY <1>0, <3>1 DEF Settled, Acting
  <2>6. p = "release" => Uniform
    BY <2>5 DEF Uniform
  <2>7. ASSUME NEW k \in Nodes, NEW m \in Nodes, "swap" \in Doing(k)'
        PROVE  host'[m].fence = "prepared" /\ Doing(m)' \cap {"release", "rollback"} = {}
    <3>1. "swap" \in Doing(k)
      BY <2>2, <2>3, <2>7
    <3>2. p \notin {"rollback", "release"}
      BY <2>4, <2>5, <3>1
    <3> QED BY <1>0, <2>2, <3>1, <3>2 DEF FleetInv
  <2>8. ASSUME NEW k \in Nodes, NEW m \in Nodes, "rollback" \in Doing(k)'
        PROVE  /\ Doing(m)' \cap {"swap", "release"} = {}
               /\ \/ host'[m].fence = "prepared"
                  \/ OnRelease(host'[m], "old") /\ host'[m].fence # "releasing"
    <3>1. CASE p = "rollback"
      BY <2>2, <2>4, <3>1
    <3>2. CASE p # "rollback"
      <4>1. "rollback" \in Doing(k)
        BY <2>2, <2>8, <3>2
      <4>2. p # "release"
        BY <2>5, <4>1
      <4> QED BY <1>0, <2>2, <2>3, <4>1, <4>2 DEF FleetInv
    <3> QED BY <3>1, <3>2
  <2>9. ASSUME NEW m \in Nodes, "release" \in Doing(m)' \/ host'[m].fence = "releasing"
        PROVE  Uniform'
    BY <1>0, <2>1, <2>2, <2>6, <2>9 DEF FleetInv
  <2> QED BY <2>1, <2>7, <2>8, <2>9 DEF FleetInv
<1> QED BY <1>9, <1>13, <1>15, <1>16 DEF ClusterInv

-----------------------------------------------------------------------------
(* The invariant of the coordinator and its nodes.                         *)

\* Before the first operation no document names a phase and every node serves.
LEMMA InitClusterInv == ASSUME Init PROVE ClusterInv
<1>1. AgentTypeOK /\ \A n \in Nodes : NodeInv(n)
  BY InitIInv DEF Init, IInv
<1>2. Down \in Run /\ Down.mode = "down" /\ Down.call = "none"
  BY DownRun
<1>3. TypeOK
  BY <1>1, <1>2, NoDocTyped DEF Init, TypeOK
<1>4. ASSUME NEW n \in Nodes
      PROVE  /\ journal[n] = NewJournal /\ inv[n] = NoInvocation /\ request[n] = NoRequest
             /\ host[n].fence = "open" /\ OnRelease(host[n], "old") /\ answer[n] = "none"
             /\ NoDoc.nodes[n].state = "preflight" /\ NoDoc.nodes[n].receipts = {}
             /\ NoDoc.nodes[n].pendingAction = "none"
  BY DEF Init, AgentInit, OnRelease, Disk, Bytes, NoDoc
<1>5. ASSUME NEW n \in Nodes PROVE Doing(n) = {} /\ ~Invoked(n)
  BY <1>4 DEF Doing, Phase, Invoked, NoInvocation, NoRequest
<1>6. DocInv(NoDoc)
  <2>1. IsInjective(NoDoc.mutationOrder)
    BY DEF NoDoc, IsInjective
  <2>2. ASSUME NEW n \in Nodes
        PROVE  /\ RecordInv(NoDoc.nodes[n])
               /\ WorldInv(NoDoc.nodes[n], host[n], journal[n], Doing(n))
    BY <1>4, <1>5 DEF RecordInv, WorldInv, Unprepared, Restoring, Beyond, Forward
  <2> QED BY <2>1, <2>2 DEF DocInv
<1>7. DocsInv
  BY <1>6 DEF Init, DocsInv
<1>8. CallInv
  BY <1>2, <1>4, OrderAssumption DEF Init, CallInv, NoRequest, NoInvocation
<1>9. GenerationInv
  BY <1>2, <1>4, <1>5 DEF Init, GenerationInv, NewJournal, NoDoc
<1>10. StartInv /\ ForwardInv /\ BackInv
  BY <1>2 DEF Init, StartInv, ForwardInv, BackInv
<1>11. FleetInv
  <2>1. ServesOneRelease
    BY <1>4 DEF ServesOneRelease, OnRelease
  <2> QED BY <1>4, <1>5, <2>1 DEF FleetInv
<1>12. EndInv
  BY DEF Init, EndInv, NoDoc
<1> QED BY <1>1, <1>3, <1>7, <1>8, <1>9, <1>10, <1>11, <1>12 DEF ClusterInv

\* A step that changes nothing keeps it.
LEMMA StutterKeeps == ASSUME ClusterInv, UNCHANGED vars PROVE ClusterInv'
<1>1. \A n \in Nodes : /\ Doing(n)' = Doing(n) /\ (Invoked(n)' <=> Invoked(n))
                       /\ Phase(n)' = Phase(n)
  BY DEF vars, agentVars, Doing, Invoked, Phase
<1>2. TypeOK'
  BY DEF vars, agentVars, ClusterInv, TypeOK, AgentTypeOK
<1>3. Withdrawn /\ locked' = locked /\ saved' = saved /\ doc' = doc /\ run' = run
      /\ inv' = inv /\ request' = request /\ answer' = answer
  BY DEF vars, agentVars, Withdrawn, Still
<1>4. \A n \in Nodes : NodeInv(n)'
  BY <1>3, StillNodes DEF ClusterInv, Withdrawn
<1>5. DocsInv' /\ GenerationInv' /\ FleetInv' /\ EndInv'
  <2>1. DocsInv'
    BY <1>3, DocsStill DEF ClusterInv, DocsInv
  <2>2. GenerationInv'
    BY <1>1, <1>3 DEF ClusterInv, GenerationInv, Withdrawn, Still
  <2>3. FleetInv' /\ EndInv'
    BY <1>3, FleetStill, EndStill DEF ClusterInv
  <2> QED BY <2>1, <2>2, <2>3
<1>6. CallInv'
  BY <1>1, <1>3 DEF ClusterInv, CallInv, OkInv, Withdrawn, Still
<1>7. \A n \in Nodes, p \in Phases : Fresh(n, p)' <=> Fresh(n, p)
  BY <1>1, <1>3 DEF Fresh, Withdrawn, Still
<1>8. StartInv'
  BY <1>3, <1>7 DEF ClusterInv, StartInv, Phases
<1>9. ForwardInv'
  <2>1. host' = host /\ \A n \in Nodes : Due(n)' = Due(n)
    BY <1>3 DEF Withdrawn, Still, Due
  <2>2. {"prepare", "swap", "restart", "release"} \subseteq Phases
    BY DEF Phases
  <2>3. (run.call # "none" => run.phase = Due(run.call))'
        <=> (run.call # "none" => run.phase = Due(run.call))
    BY <1>3 DEF Due
  <2>4. \A pass : StatesIn(pass)' = StatesIn(pass)
    BY DEF StatesIn
  <2>5. ForwardInv
    BY DEF ClusterInv
  <2> QED BY <1>1, <1>3, <1>7, <2>1, <2>2, <2>3, <2>4, <2>5 DEF ForwardInv
<1>10. BackInv'
  <2>1. host' = host /\ BackInv
    BY <1>3 DEF Withdrawn, Still, ClusterInv
  <2>2. "rollback" \in Phases
    BY DEF Phases
  <2>3. BackPhase' = BackPhase
    BY <1>3 DEF BackPhase, InRestore
  <2>4. \A n : (InRestore(n)' <=> InRestore(n)) /\ (InTodo(n)' <=> InTodo(n))
    BY <1>3 DEF InRestore, InTodo
  <2>5. (run.call # "none" => run.phase = BackPhase /\ ~InTodo(run.call))'
        <=> (run.call # "none" => run.phase = BackPhase /\ ~InTodo(run.call))
    BY <1>3, <2>3 DEF InTodo
  <2> QED BY <1>1, <1>3, <1>7, <2>1, <2>2, <2>4, <2>5 DEF BackInv
<1> QED BY <1>2, <1>4, <1>5, <1>6, <1>8, <1>9, <1>10 DEF ClusterInv

(***************************************************************************)
(* The invariant holds in every state of the coordinator and its agents,   *)
(* whatever fails, crashes or times out, for any fleet and any number of   *)
(* coordinator generations.                                                *)
(***************************************************************************)
THEOREM ClusterInvariant == Spec => []ClusterInv
<1>1. Init => ClusterInv
  BY InitClusterInv
<1>2. ClusterInv /\ [Next]_vars => ClusterInv'
  <2> SUFFICES ASSUME ClusterInv, [Next]_vars PROVE ClusterInv'
    OBVIOUS
  <2>1. CASE Deploy \/ Resume \/ Rollback
    BY <2>1, StartKeeps
  <2>2. CASE RecoverPending
    BY <2>2, RecoverKeeps
  <2>3. CASE NothingPending
    BY <2>3, NothingKeeps
  <2>4. CASE CallForward
    BY <2>4, CallForwardKeeps
  <2>5. CASE NextPass
    BY <2>5, NextPassKeeps
  <2>6. CASE BarrierFails
    BY <2>6, BarrierFailsKeeps
  <2>7. CASE Finish
    BY <2>7, FinishKeeps
  <2>8. CASE ReceiptSaved
    BY <2>8, ReceiptSavedKeeps
  <2>9. CASE CallFailed
    BY <2>9, CallFailedKeeps
  <2>10. CASE TurnBack
    BY <2>10, TurnBackKeeps
  <2>11. CASE CallBack
    BY <2>11, CallBackKeeps
  <2>12. CASE NextPassBack
    BY <2>12, NextPassBackKeeps
  <2>13. CASE EndBack
    BY <2>13, EndBackKeeps
  <2>14. CASE IntentFailsForward
    BY <2>14, IntentFailsForwardKeeps
  <2>15. CASE CompletionFails
    BY <2>15, CompletionFailsKeeps
  <2>16. CASE ReceiptFails
    BY <2>16, ReceiptFailsKeeps
  <2>17. CASE IntentFailsBack
    BY <2>17, IntentFailsBackKeeps
  <2>18. CASE CallTimesOut
    BY <2>18, CallTimesOutKeeps
  <2>19. CASE Crash
    BY <2>19, CrashKeeps
  <2>20. CASE AgentNext /\ UNCHANGED coordinatorVars
    BY <2>20, AgentKeeps
  <2>21. CASE UNCHANGED vars
    BY <2>21, StutterKeeps
  <2> QED BY <2>1, <2>2, <2>3, <2>4, <2>5, <2>6, <2>7, <2>8, <2>9, <2>10, <2>11, <2>12, <2>13,
       <2>14, <2>15, <2>16, <2>17, <2>18, <2>19, <2>20, <2>21 DEF Next, CoordinatorStep, WriteFails
<1> QED BY <1>1, <1>2, PTL DEF Spec

(***************************************************************************)
(* The coordinator's document, its file and its agents keep their types.   *)
(***************************************************************************)
THEOREM ClusterTyped == Spec => []TypeOK
<1>1. ClusterInv => TypeOK
  BY DEF ClusterInv
<1> QED BY <1>1, ClusterInvariant, PTL

(***************************************************************************)
(* Gateways that serve the public all run one release.                     *)
(***************************************************************************)
THEOREM FleetServesOneRelease == Spec => []ServesOneRelease
<1>1. ClusterInv => ServesOneRelease
  BY DEF ClusterInv, FleetInv
<1> QED BY <1>1, ClusterInvariant, PTL

(***************************************************************************)
(* What the file says of a finished operation is true of every node.       *)
(***************************************************************************)
THEOREM FinishedFleetIsUniform == Spec => []FinishedIsUniform
<1>1. ClusterInv => FinishedIsUniform
  BY DEF ClusterInv, EndInv, FinishedIsUniform
<1> QED BY <1>1, ClusterInvariant, PTL

(***************************************************************************)
(* No phase of a finished operation is still running on a node that the    *)
(* file holds no pending action of.                                        *)
(***************************************************************************)
THEOREM FinishedFleetIsQuiet == Spec => []FinishedIsQuiet
<1>1. ClusterInv => FinishedIsQuiet
  <2> SUFFICES ASSUME ClusterInv, NEW n \in Nodes, saved.nodes[n].pendingAction = "none"
               PROVE  ~Invoked(n)
    BY DEF FinishedIsQuiet
  <2>1. Doing(n) = {}
    BY DEF ClusterInv, DocsInv, DocInv, WorldInv
  <2>2. PendingInv(n)
    BY DEF ClusterInv, NodeInv
  <2> QED BY <2>1, <2>2 DEF Doing, PendingInv, Phases
<1> QED BY <1>1, ClusterInvariant, PTL

(***************************************************************************)
(* The file says of every node that a deployment has touched that it may   *)
(* have been changed, before the node is touched.                          *)
(***************************************************************************)
THEOREM TouchedNodesAreRecorded == Spec => []TouchedIsRecorded
<1>1. ClusterInv => TouchedIsRecorded
  <2> SUFFICES ASSUME ClusterInv, NEW n \in Nodes,
                      \/ host[n].pointer = "new"
                      \/ host[n].fence # "open" /\ ~Has(journal[n], {"reprepare"})
               PROVE  saved.nodes[n].possiblyMutated
    BY DEF TouchedIsRecorded
  <2>1. /\ RecordInv(saved.nodes[n])
        /\ WorldInv(saved.nodes[n], host[n], journal[n], Doing(n))
    BY DEF ClusterInv, DocsInv, DocInv
  <2>2. CASE host[n].pointer = "new"
    <3>1. ~OnRelease(host[n], "old")
      BY <2>2 DEF OnRelease, Disk, Bytes
    <3> QED BY <2>1, <3>1 DEF WorldInv, RecordInv
  <2>3. CASE host[n].fence # "open" /\ ~Has(journal[n], {"reprepare"})
    BY <2>1, <2>3 DEF WorldInv, RecordInv
  <2> QED BY <2>2, <2>3
<1> QED BY <1>1, ClusterInvariant, PTL

\* The coordinator reaches a node by a call only.
LEMMA OnlyAgentsTouch ==
    ASSUME [Next]_vars, host' # host PROVE AgentNext /\ UNCHANGED coordinatorVars
<1>1. CASE Deploy \/ Resume \/ Rollback \/ CallTimesOut \/ Crash
  BY <1>1 DEF Deploy, Resume, Rollback, CallTimesOut, Crash, agentVars
<1>2. CASE RecoverPending \/ NothingPending \/ CallForward \/ NextPass \/ BarrierFails \/ Finish
  BY <1>2 DEF RecoverPending, NothingPending, CallForward, NextPass, BarrierFails, Finish, Issue, agentVars
<1>3. CASE ReceiptSaved \/ CallFailed \/ TurnBack \/ CallBack \/ NextPassBack \/ EndBack
  BY <1>3 DEF ReceiptSaved, CallFailed, TurnBack, CallBack, NextPassBack, EndBack, Issue, agentVars
<1>4. CASE WriteFails
  BY <1>4 DEF WriteFails, IntentFailsForward, CompletionFails, ReceiptFails, IntentFailsBack
<1>5. CASE UNCHANGED vars
  BY <1>5 DEF vars, agentVars
<1> QED BY <1>1, <1>2, <1>3, <1>4, <1>5 DEF Next, CoordinatorStep

\* A step that moves a node is one of an agent or a gateway, within its effects.
LEMMA HostMoves ==
    ASSUME ClusterInv, [Next]_vars, host' # host
    PROVE  \E n \in Nodes : /\ \A m \in Nodes : HostEffect(m)
                            /\ \A m \in Nodes \ {n} : host'[m] = host[m]
<1>1. PICK n \in Nodes : AgentTurn(n)
  BY OnlyAgentsTouch DEF AgentNext, AgentTurn
<1>2. \A m \in Nodes : WaitInv(m)
  BY CalledNode DEF ClusterInv, CallInv, WaitInv
<1> QED BY <1>1, <1>2, Turns DEF ClusterInv, TypeOK

(***************************************************************************)
(* A pointer moves to the new release behind the fence of the whole fleet, *)
(* and back only while the nodes that are open are on the old one.         *)
(***************************************************************************)
THEOREM SwapsAreBehindFleetFence == Spec => SwapsBehindFleetFence
<1>1. ASSUME ClusterInv, [Next]_vars, NEW n \in Nodes, Bytes(host'[n]) # Bytes(host[n]),
             NEW m \in Nodes
      PROVE  IF Bytes(host'[n]) = "new" THEN Prepared(host[m])
             ELSE host[m].fence = "open" => OnRelease(host[m], "old")
  <2>1. HostEffect(n)
    BY <1>1, HostMoves
  <2>2. IF Bytes(host'[n]) = "new" THEN "swap" \in Doing(n) ELSE "rollback" \in Doing(n)
    BY <1>1, <2>1 DEF HostEffect
  <2> QED BY <1>1, <2>2 DEF ClusterInv, FleetInv, Prepared
<1>2. ClusterInv /\ [Next]_vars =>
        [\A n \in Nodes :
            Bytes(host'[n]) # Bytes(host[n]) =>
               \A m \in Nodes : IF Bytes(host'[n]) = "new" THEN Prepared(host[m])
                               ELSE host[m].fence = "open" => OnRelease(host[m], "old")]_vars
  BY <1>1
<1> QED BY <1>2, ClusterInvariant, PTL DEF Spec, SwapsBehindFleetFence

(***************************************************************************)
(* A gateway opens only when every node is on the release it opens on.     *)
(***************************************************************************)
THEOREM GatewaysOpenOnOneRelease == Spec => OpensOnOneRelease
<1>1. ASSUME ClusterInv, [Next]_vars, NEW n \in Nodes,
             host[n].fence # "open", host'[n].fence = "open", NEW m \in Nodes
      PROVE  OnRelease(host'[m], host[n].loaded)
  <2>1. PICK k \in Nodes : /\ \A i \in Nodes : HostEffect(i)
                           /\ \A i \in Nodes \ {k} : host'[i] = host[i]
    BY <1>1, HostMoves
  <2>2. host[n].fence = "releasing" /\ k = n
    BY <1>1, <2>1 DEF HostEffect
  <2>3. PICK release \in {"old", "new"} : \A i \in Nodes : OnRelease(host[i], release)
    BY <1>1, <2>2 DEF ClusterInv, FleetInv, Uniform
  <2>4. host[n].loaded = release
    BY <2>3 DEF OnRelease
  <2>5. "swap" \notin Doing(n) /\ "rollback" \notin Doing(n)
    BY <1>1, <2>2 DEF ClusterInv, FleetInv
  <2>6. CASE m = n
    BY <2>1, <2>3, <2>4, <2>5, <2>6 DEF HostEffect
  <2>7. CASE m # n
    BY <2>1, <2>2, <2>3, <2>4, <2>7
  <2> QED BY <2>6, <2>7
<1>2. ClusterInv /\ [Next]_vars =>
        [\A n \in Nodes :
            (host[n].fence # "open" /\ host'[n].fence = "open") =>
               \A m \in Nodes : OnRelease(host'[m], host[n].loaded)]_vars
  BY <1>1
<1> QED BY <1>2, ClusterInvariant, PTL DEF Spec, OpensOnOneRelease
=============================================================================
