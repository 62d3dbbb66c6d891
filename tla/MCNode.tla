-------------------------------- MODULE MCNode --------------------------------
(***************************************************************************)
(* What a deployment meets on one node, for TLC: the gateway's fence, or   *)
(* the node's release agent under callers that keep no order.  A behaviour *)
(* is one of either; the other stays in its initial state.                 *)
(*                                                                         *)
(* Operation ids and slots are interchangeable, so TLC reduces by their    *)
(* permutations.                                                           *)
(***************************************************************************)
EXTENDS DeploymentFence, NodeAgentCallers, TLC

VARIABLE part

MCInit ==
    /\ part \in {"fence", "agent"}
    /\ Init
    /\ AgentInit

FenceTurn ==
    /\ part = "fence"
    /\ Next
    /\ UNCHANGED <<part, agentVars>>

AgentTurn ==
    /\ part = "agent"
    /\ CallersNext
    /\ UNCHANGED <<part, vars>>

MCSpec == MCInit /\ [][FenceTurn \/ AgentTurn]_<<part, vars, agentVars>>

Symmetry == Permutations(OpIds) \cup Permutations(Slots)
=============================================================================
