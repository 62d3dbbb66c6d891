------------------------ MODULE MCClusterDeployment ------------------------
(***************************************************************************)
(* ClusterDeployment for TLC: a worker and the leader.                     *)
(***************************************************************************)
EXTENDS ClusterDeployment

CONSTANTS worker, leader

FleetOrder == <<worker, leader>>
=============================================================================
