--------------------------- MODULE MCGatewayLiveness ---------------------------
(***************************************************************************)
(* What must happen at last in the gateway, for TLC: in its fence or in    *)
(* its scheduler.  A behaviour is one of either; the other stays in its    *)
(* initial state, where nothing obliges it to move.                        *)
(***************************************************************************)
EXTENDS DeploymentFence

CONSTANTS Connections, Groups, NoGroup

VARIABLES
    part,
    mode, closed, req, groups, microNudge, history

Scheduler == INSTANCE RequestScheduler
    WITH Requests <- Connections, Modes <- {}, MaxQueued <- 1,
         MaxBackground <- 2, RampInterval <- 1, IdleTime <- 1

schedulerVars == <<mode, closed, req, groups, microNudge, history>>

MCInit ==
    /\ part \in {"fence", "scheduler"}
    /\ Init
    /\ Scheduler!Init

FenceNext ==
    /\ part = "fence"
    /\ Next
    /\ UNCHANGED <<part, schedulerVars>>

SchedulerNext ==
    /\ part = "scheduler"
    /\ Scheduler!Next
    /\ UNCHANGED <<part, vars>>

\* The fence's operations go on; so does the scheduler, as Scheduler!Fairness says.
MCSpec ==
    /\ MCInit
    /\ [][FenceNext \/ SchedulerNext]_<<part, vars, schedulerVars>>
    /\ WF_vars(OperationStep)
    /\ Scheduler!Fairness

-----------------------------------------------------------------------------
(***************************************************************************)
(* Background work resumes (BackgroundResumes of RequestScheduler): once   *)
(* demand of the higher classes has ceased for good, no background request *)
(* stays in the scheduler's waiting room or between it and a slot.         *)
(***************************************************************************)
BackgroundResumes == Scheduler!BackgroundResumes
=============================================================================
