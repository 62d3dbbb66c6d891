---------------------------- MODULE FenceProtocol ----------------------------
(***************************************************************************)
(* What a gateway's deployment fence promises to a coordinator that sees   *)
(* only two things: the durable sidecar beside the configuration and       *)
(* whether the gateway admits new work.  DeploymentFence implements this   *)
(* specification; nothing of the process's memory appears here.            *)
(***************************************************************************)
EXTENDS Naturals

CONSTANTS
    OpIds,          \* deployment operation ids
    NoOp            \* the id of no operation

VARIABLES
    sidecar,        \* last record renamed into place, [state, opId, generation]
    gate            \* "open" while new work is admitted, else "closed"

protocolVars == <<sidecar, gate>>

ActiveSidecar == sidecar.state \in {"draining", "prepared", "canary"}

ProtocolInit ==
    /\ sidecar = [state |-> "none", opId |-> NoOp, generation |-> 0]
    /\ gate = "closed"

\* A process serves traffic only when no fence is in force.
Open ==
    /\ gate = "closed"
    /\ ~ActiveSidecar
    /\ gate' = "open"
    /\ UNCHANGED sidecar

\* prepare closes the gate before anything is durable; so does a crash.
Close ==
    /\ gate = "open"
    /\ gate' = "closed"
    /\ UNCHANGED sidecar

\* A new operation becomes durable behind a closed gate, with a new generation.
Begin(op) ==
    /\ gate = "closed"
    /\ ~ActiveSidecar
    /\ sidecar' = [state |-> "draining", opId |-> op,
                   generation |-> sidecar.generation + 1]
    /\ UNCHANGED gate

\* The phases one operation moves through; only a prepared one is released.
Edges == {<<"draining", "prepared">>, <<"prepared", "canary">>,
          <<"canary", "prepared">>, <<"canary", "draining">>,
          <<"prepared", "released">>}

Advance(to) ==
    /\ gate = "closed"
    /\ <<sidecar.state, to>> \in Edges
    /\ sidecar' = [sidecar EXCEPT !.state = to]
    /\ UNCHANGED gate

ProtocolNext ==
    \/ Open
    \/ Close
    \/ \E op \in OpIds : Begin(op)
    \/ \E to \in {"draining", "prepared", "canary", "released"} : Advance(to)

ProtocolSpec == ProtocolInit /\ [][ProtocolNext]_protocolVars
=============================================================================
