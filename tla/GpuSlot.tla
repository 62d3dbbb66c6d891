------------------------------- MODULE GpuSlot -------------------------------
(***************************************************************************)
(* What a single-flight media backend promises: one request at a time owns *)
(* the GPU, whatever it started there is over before the next one gets it, *)
(* and a slot whose work cannot be proven over is marked unhealthy and     *)
(* kept by its owner.  ("Owns the one-and-only backend slot for every      *)
(* modality", src/backends/comfyui-media/bridge/jobs.py:31.)               *)
(***************************************************************************)
CONSTANTS
    Requests,   \* requests that may want the GPU
    NoOne       \* the holder of a free slot

VARIABLES
    holder,     \* the request the slot is held for
    atWork,     \* requests that have, or may yet have, work on the GPU
    unhealthy   \* the slot is quarantined: nobody is admitted

vars == <<holder, atWork, unhealthy>>

TypeOK ==
    /\ holder \in Requests \cup {NoOne}
    /\ atWork \subseteq Requests
    /\ unhealthy \in BOOLEAN

Init ==
    /\ holder = NoOne
    /\ atWork = {}
    /\ unhealthy = FALSE

\* A healthy free slot is given to a request.
Admit(r) ==
    /\ holder = NoOne
    /\ ~unhealthy
    /\ holder' = r
    /\ UNCHANGED <<atWork, unhealthy>>

\* The holder sends its job towards the GPU.
Begin(r) ==
    /\ holder = r
    /\ atWork' = atWork \cup {r}
    /\ UNCHANGED <<holder, unhealthy>>

\* The job is over, or can no longer reach the GPU.
End(r) ==
    /\ r \in atWork
    /\ atWork' = atWork \ {r}
    /\ UNCHANGED <<holder, unhealthy>>

\* The holder cannot prove what became of its job.
Quarantine(r) ==
    /\ holder = r
    /\ unhealthy' = TRUE
    /\ UNCHANGED <<holder, atWork>>

\* Giving the slot up clears the holder's own quarantine, never another's.
Release(r) ==
    /\ holder = r
    /\ r \notin atWork
    /\ holder' = NoOne
    /\ unhealthy' = FALSE
    /\ UNCHANGED atWork

Next ==
    \E r \in Requests:
        \/ Admit(r)
        \/ Begin(r)
        \/ End(r)
        \/ Quarantine(r)
        \/ Release(r)

Spec == Init /\ [][Next]_vars

-----------------------------------------------------------------------------
(***************************************************************************)
(* Only the holder of the slot has work on the GPU, and a quarantined slot *)
(* has a holder: two requests never compute at once.                       *)
(***************************************************************************)
WorkIsTheHolders ==
    /\ atWork \subseteq {holder}
    /\ unhealthy => holder # NoOne
=============================================================================
