---------------------------- MODULE K3sBootstrap -----------------------------
(***************************************************************************)
(* `deployer-server bootstrap k3s`: the k3s server of the control plane's  *)
(* host is installed with a configuration bound to the WireGuard address.  *)
(* The command is run again after it failed, is killed at any step, and    *)
(* the host may lose power; one bootstrap runs at a time.                  *)
(***************************************************************************)
EXTENDS HostFiles

CONSTANTS Addresses     \* WireGuard addresses given to the command

VARIABLES
    k3sConfig,      \* the configuration file
    binary,         \* whether the k3s binary is on the path
    kubeconfig,     \* whether k3s has written its kubeconfig
    running,        \* the configuration k3s runs with, or Absent
    boot            \* the running command

k3sVars == << k3sConfig, binary, kubeconfig, running, boot >>

ConfigFor(address) == [kind |-> "k3s", address |-> address]

NotRunning == [step |-> "none", address |-> 0, force |-> FALSE]

K3sInit ==
    /\ k3sConfig = Clean(Absent)
    /\ binary = FALSE
    /\ kubeconfig = FALSE
    /\ running = Absent
    /\ boot = NotRunning

\* Mutant of DetectExistingInstall: only the kubeconfig is looked for.
DetectKubeconfig == kubeconfig

DetectExistingInstall == binary \/ kubeconfig

\* Bootstrap up to writeConfig: an installation is left alone without
\* --force; where there is none the API's port must be free.
Bootstrap(address, force) ==
    /\ boot = NotRunning
    /\ IF DetectExistingInstall THEN force ELSE running = Absent
    /\ boot' = [step |-> "truncate", address |-> address, force |-> force]
    /\ UNCHANGED << k3sConfig, binary, kubeconfig, running >>

TruncateConfig ==
    /\ boot.step = "truncate"
    /\ k3sConfig' = Truncate(k3sConfig)
    /\ boot' = [boot EXCEPT !.step = "write"]
    /\ UNCHANGED << binary, kubeconfig, running >>

WriteConfig ==
    /\ boot.step = "write"
    /\ k3sConfig' = WriteFile(k3sConfig, ConfigFor(boot.address))
    /\ boot' = [boot EXCEPT !.step = "download"]
    /\ UNCHANGED << binary, kubeconfig, running >>

DownloadInstaller ==
    /\ boot.step = "download"
    /\ boot' = [boot EXCEPT !.step = "install"]
    /\ UNCHANGED << k3sConfig, binary, kubeconfig, running >>

\* The installer puts the binary in place, then starts the service, which
\* reads the configuration and writes the kubeconfig.
InstallBinary ==
    /\ boot.step = "install"
    /\ binary' = TRUE
    /\ boot' = [boot EXCEPT !.step = "start"]
    /\ UNCHANGED << k3sConfig, kubeconfig, running >>

StartService ==
    /\ boot.step = "start"
    /\ running' = k3sConfig.now
    /\ kubeconfig' = TRUE
    /\ boot' = NotRunning
    /\ UNCHANGED << k3sConfig, binary >>

\* The command fails or is killed at any step.
Fail ==
    /\ boot # NotRunning
    /\ boot' = NotRunning
    /\ UNCHANGED << k3sConfig, binary, kubeconfig, running >>

\* After a power loss the service starts again, if its configuration parses.
K3sPowerLoss ==
    /\ k3sConfig' \in AfterPowerLoss(k3sConfig)
    /\ running' = IF kubeconfig /\ k3sConfig'.now.kind = "k3s"
                  THEN k3sConfig'.now ELSE Absent
    /\ boot' = NotRunning
    /\ UNCHANGED << binary, kubeconfig >>

K3sNext ==
    \/ \E address \in Addresses, force \in BOOLEAN : Bootstrap(address, force)
    \/ TruncateConfig \/ WriteConfig \/ DownloadInstaller \/ InstallBinary
    \/ StartService \/ Fail \/ K3sPowerLoss

-----------------------------------------------------------------------------
(* Properties *)

\* Once anything of k3s is installed, also what a failed installer left
\* behind, its configuration is rewritten only by a bootstrap with --force; a
\* power loss may still leave an older or a torn one.
K3sConfigKept ==
    [][ /\ binary \/ kubeconfig
        /\ k3sConfig'.now # k3sConfig.now
        => boot.force \/ K3sPowerLoss ]_k3sVars
=============================================================================
