------------------------------ MODULE MCBackends ------------------------------
(***************************************************************************)
(* The media backends for TLC, in one run.  Each runs on its own, so a     *)
(* behaviour is one of one backend, chosen at the start: the others stay   *)
(* in their initial states, where nothing obliges them to move.            *)
(***************************************************************************)
EXTENDS Naturals, MediaBridge, WarmWorker

CONSTANTS
    SpeechRequests,         \* the Requests of that server
    QueueChunks, MaxChunks

VARIABLES
    backend,
    busy, generation, lease, route, job, queued, unread, yielded, stopped,
    held, step, thread, cancelled

ASSUME BackendsAssumption ==
    /\ None \notin WarmRequests
    /\ QueueChunks \in Nat
    /\ MaxChunks \in Nat

Speech == INSTANCE SpeechServer WITH Requests <- SpeechRequests
Diffusers == INSTANCE DiffusersServer

speechVars == <<busy, generation, lease, route, job, queued, unread, yielded, stopped>>
diffusersVars == <<held, step, thread, cancelled>>
allVars == <<backend, vars, warmVars, speechVars, diffusersVars>>

MCInit ==
    /\ backend \in {"media", "warm", "speech", "diffusers"}
    /\ Init
    /\ WarmInit
    /\ Speech!Init
    /\ Diffusers!Init

MediaTurn ==
    /\ backend = "media"
    /\ Next
    /\ UNCHANGED <<backend, warmVars, speechVars, diffusersVars>>

WarmTurn ==
    /\ backend = "warm"
    /\ WarmNext
    /\ UNCHANGED <<backend, vars, speechVars, diffusersVars>>

SpeechTurn ==
    /\ backend = "speech"
    /\ Speech!Next
    /\ UNCHANGED <<backend, vars, warmVars, diffusersVars>>

DiffusersTurn ==
    /\ backend = "diffusers"
    /\ Diffusers!Next
    /\ UNCHANGED <<backend, vars, warmVars, speechVars>>

MCNext == MediaTurn \/ WarmTurn \/ SpeechTurn \/ DiffusersTurn

MCSpec ==
    /\ MCInit
    /\ [][MCNext]_allVars
    /\ Fairness
    /\ WarmFairness
    /\ Speech!Fairness
    /\ Diffusers!Fairness

-----------------------------------------------------------------------------
\* Every variable of every backend has its type.
BackendsTypeOK == TypeOK /\ WarmTypeOK /\ Speech!TypeOK /\ Diffusers!TypeOK

(***************************************************************************)
(* The backends whose slot is held by a request implement GpuSlot: the     *)
(* bridge's _owner, the audio server's busy flag and the diffusers' lock   *)
(* are never given up while the work of their holder has, or may still     *)
(* get, the GPU.                                                           *)
(***************************************************************************)
BackendsKeepTheSlot ==
    KeepsTheSlot /\ Speech!KeepsTheSlot /\ Diffusers!KeepsTheSlot

(***************************************************************************)
(* What was taken is given back: the slot of the bridge, the busy flag and *)
(* the lock are released at last.                                          *)
(***************************************************************************)
SlotsEnd == SlotSettles /\ Speech!BusyEnds /\ Diffusers!LockEnds
=============================================================================
