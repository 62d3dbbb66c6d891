---------------------------- MODULE MCRuntimePauses ----------------------------
(***************************************************************************)
(* Slots and pauses for TLC, in one run of two scenes.  In the crowd all   *)
(* requests compete for the slots of a runtime while anybody pauses and    *)
(* resumes it at any time; among the operations it is evictions, watchdogs *)
(* and maintenance that do so, and only the requests in Few use its one    *)
(* slot, under constant settings.                                          *)
(***************************************************************************)
EXTENDS RuntimePauses

CONSTANT Few

VARIABLE scene

MCInit ==
    /\ scene \in {"crowd", "operations"}
    /\ PausesInit
    /\ scene = "operations" => gate.max = 1

Crowd ==
    /\ scene = "crowd"
    /\ Next
    /\ UNCHANGED <<scene, operations>>

Operations ==
    /\ scene = "operations"
    /\ PausesNext
    /\ pool'.active \cup Range(pool'.queue) \subseteq Few
    /\ gate'.max = gate.max
    /\ gate'.guard = gate.guard
    /\ UNCHANGED scene

MCSpec ==
    /\ MCInit
    /\ [][Crowd \/ Operations]_<<scene, pauseVars>>
    /\ RequestFairness
    /\ PausesFairness
=============================================================================
