---------------------------- MODULE HostPrograms -----------------------------
(***************************************************************************)
(* The programs of the repository on the hosts they run on: deployer-      *)
(* server and its k3s bootstrap on the control plane's host, deployer on   *)
(* the operator's, deployer-agent on a worker's.  A behaviour follows one  *)
(* host; they meet only through the calls whose handlers the other modules *)
(* describe.                                                               *)
(***************************************************************************)
EXTENDS ControlHost, K3sBootstrap, OperatorHost, WorkerHost

VARIABLE host       \* the host this behaviour follows

hostVars == << host, controlVars, k3sVars, operatorVars, workerVars >>

HostInit ==
    /\ host \in {"control plane", "cluster", "operator", "worker"}
    /\ ControlInit /\ K3sInit /\ OperatorInit /\ WorkerInit
    /\ host # "control plane" => commands = Installing

OnControlPlane ==
    /\ host = "control plane"
    /\ ControlNext
    /\ UNCHANGED << host, k3sVars, operatorVars, workerVars >>

OnCluster ==
    /\ host = "cluster"
    /\ K3sNext
    /\ UNCHANGED << host, controlVars, operatorVars, workerVars >>

OnOperator ==
    /\ host = "operator"
    /\ OperatorNext
    /\ UNCHANGED << host, controlVars, k3sVars, workerVars >>

OnWorker ==
    /\ host = "worker"
    /\ WorkerNext
    /\ UNCHANGED << host, controlVars, k3sVars, operatorVars >>

HostNext == OnControlPlane \/ OnCluster \/ OnOperator \/ OnWorker

HostSpec ==
    /\ HostInit /\ [][HostNext]_hostVars
    /\ ControlFairness /\ WorkerFairness
=============================================================================
