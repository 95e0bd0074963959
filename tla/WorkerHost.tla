----------------------------- MODULE WorkerHost ------------------------------
(***************************************************************************)
(* A worker's host: the commands of deployer-agent.  `join` enrols the     *)
(* host, `join-k3s` brings up WireGuard and installs the k3s agent, `run`  *)
(* sends heartbeats and is kept running by systemd.  The operator may      *)
(* remove a node and join its host again.  Commands are killed, replies    *)
(* are lost and the host loses power at any step; one of join and join-k3s *)
(* runs at a time.  What the control plane does with an enrolment is the   *)
(* subject of NodeRegistry; here it is one step.                           *)
(***************************************************************************)
EXTENDS HostFiles

CONSTANTS MaxJoins      \* bound on the joins of the host

VARIABLES
    files,      \* WireGuard key, the agent's credential and environment
    interface,  \* key and address of the WireGuard interface, or Absent
    k3sAgent,   \* the interface k3s was installed over, or Absent
    members,    \* nodes the control plane knows, with key, token and address
    enrolled,   \* every node there was
    joins,      \* keys generated so far
    up,         \* whether the control plane answers
    setup,      \* the running join or join-k3s
    agent       \* the agent's service

workerVars == << files, interface, k3sAgent, members, enrolled, joins, up,
                 setup, agent >>

WorkerFiles == {"key", "credential", "env"}

Key(key) == [kind |-> "key", key |-> key]
Credential(token) == [kind |-> "credential", token |-> token]
AgentEnv(hub) == [kind |-> "env", hub |-> hub]
Tunnel(key, address) == [kind |-> "tunnel", key |-> key, address |-> address]

\* Every enrolment has a key, a token and an address of its own; they are
\* numbered by the join that led to it.
Member(key) == [key |-> key, token |-> key, address |-> key]
MemberTunnel(member) == Tunnel(member.key, member.address)

NoSetup == [cmd |-> "none", step |-> "none", key |-> 0, token |-> 0,
            address |-> 0, half |-> FALSE]
NoAgent == [step |-> "stopped", token |-> 0]

Setup(step) == setup' = [setup EXCEPT !.step = step, !.half = FALSE]
Quit == setup' = NoSetup
SetupAt(cmd, step) == setup.cmd = cmd /\ setup.step = step
Put(f, entry) == files' = [files EXCEPT ![f] = entry]

\* A host with the agent's package and its environment file, not yet joined.
WorkerInit ==
    /\ files = [f \in WorkerFiles |->
                  Clean(IF f = "env" THEN AgentEnv(FALSE) ELSE Absent)]
    /\ interface = Absent
    /\ k3sAgent = Absent
    /\ members = {}
    /\ enrolled = {}
    /\ joins = 0
    /\ up = TRUE
    /\ setup = NoSetup
    /\ agent = NoAgent

-----------------------------------------------------------------------------
(* Writing a file: os.WriteFile empties it first. *)

Written(f) == IF f = "key" THEN Key(setup.key) ELSE Credential(setup.token)

\* writeSecretFile
TruncateFile(f) ==
    /\ setup.step = f /\ ~setup.half
    /\ Put(f, Truncate(files[f]))
    /\ setup' = [setup EXCEPT !.half = TRUE]
    /\ UNCHANGED << interface, k3sAgent, members, enrolled, joins, up, agent >>

WriteData(f) ==
    /\ setup.step = f /\ setup.half
    /\ Put(f, WriteFile(files[f], Written(f)))
    /\ IF f = "key" THEN Setup("call") ELSE Quit
    /\ UNCHANGED << interface, k3sAgent, members, enrolled, joins, up, agent >>

-----------------------------------------------------------------------------
(* join *)

\* The key is written before the control plane is asked, with a join token
\* the operator has issued.
Join ==
    /\ setup = NoSetup
    /\ joins < MaxJoins
    /\ joins' = joins + 1
    /\ setup' = [NoSetup EXCEPT !.cmd = "join", !.step = "key",
                                !.key = joins + 1]
    /\ UNCHANGED << files, interface, k3sAgent, members, enrolled, up, agent >>

\* JoinNode; the reply with the credential may be lost.
CallJoinNode ==
    /\ SetupAt("join", "call")
    /\ up
    /\ members' = members \cup {Member(setup.key)}
    /\ enrolled' = enrolled \cup {Member(setup.key)}
    /\ \/ setup' = [setup EXCEPT !.step = "credential", !.token = setup.key]
       \/ Quit
    /\ UNCHANGED << files, interface, k3sAgent, joins, up, agent >>

-----------------------------------------------------------------------------
(* join-k3s *)

\* The credential and the key are read, and the control plane asked for the
\* address of the node the credential belongs to.
JoinK3s ==
    /\ setup = NoSetup
    /\ up
    /\ files["credential"].now.kind = "credential"
    /\ files["key"].now.kind = "key"
    /\ \E member \in members :
           /\ member.token = files["credential"].now.token
           /\ setup' = [cmd |-> "join-k3s", step |-> "hub",
                        key |-> files["key"].now.key, token |-> member.token,
                        address |-> member.address, half |-> FALSE]
    /\ UNCHANGED << files, interface, k3sAgent, members, enrolled, joins, up,
                    agent >>

\* persistWireGuardHubIP: a synced temporary file replaces the environment.
PersistWireGuardHubIP ==
    /\ SetupAt("join-k3s", "hub")
    /\ Put("env", Rename(files["env"], AgentEnv(TRUE)))
    /\ Setup("up")
    /\ UNCHANGED << interface, k3sAgent, members, enrolled, joins, up, agent >>

\* The WireGuard configuration is written, which nothing else reads, and the
\* interface brought up with it; one that is up is left as it is.
EnsureWireGuardUp ==
    /\ SetupAt("join-k3s", "up")
    /\ interface' = IF interface = Absent
                    THEN Tunnel(setup.key, setup.address) ELSE interface
    /\ Setup("check")
    /\ UNCHANGED << files, k3sAgent, members, enrolled, joins, up, agent >>

\* The hub answers a peer it knows, from the address it gave that peer.
Reachable == \E member \in members : interface = MemberTunnel(member)

\* Mutant of CheckVpn: the outcome of the check is ignored.
CheckVpnIgnored ==
    /\ SetupAt("join-k3s", "check")
    /\ Setup("install")
    /\ UNCHANGED << files, interface, k3sAgent, members, enrolled, joins, up,
                    agent >>

\* tcpVPNConnectivityCheck
CheckVpn ==
    /\ SetupAt("join-k3s", "check")
    /\ IF Reachable THEN Setup("install") ELSE Quit
    /\ UNCHANGED << files, interface, k3sAgent, members, enrolled, joins, up,
                    agent >>

\* BootstrapWorker: the configuration of the k3s agent and its installer.
InstallK3s ==
    /\ SetupAt("join-k3s", "install")
    /\ k3sAgent' = interface
    /\ Quit
    /\ UNCHANGED << files, interface, members, enrolled, joins, up, agent >>

-----------------------------------------------------------------------------
(* run *)

\* systemd starts the agent.  Without the server's URL it fails; the
\* credential is read once, and a cut one is no node's.
StartAgent ==
    /\ agent.step \in {"stopped", "failed"}
    /\ agent' =
         IF files["env"].now.kind = "env" /\ Exists(files["credential"])
         THEN [step |-> "send",
               token |-> IF files["credential"].now.kind = "credential"
                         THEN files["credential"].now.token ELSE 0]
         ELSE [NoAgent EXCEPT !.step = "failed"]
    /\ UNCHANGED << files, interface, k3sAgent, members, enrolled, joins, up,
                    setup >>

Known(token) == \E member \in members : member.token = token

\* Mutant of SendHeartbeat: a rejected credential is retried like any error.
SendHeartbeatRetrying ==
    /\ agent.step = "send"
    /\ agent' = [agent EXCEPT !.step =
                    IF up /\ Known(agent.token) THEN "heard" ELSE "backoff"]
    /\ UNCHANGED << files, interface, k3sAgent, members, enrolled, joins, up,
                    setup >>

\* runLoop: after a heartbeat the agent sleeps for its interval, after an
\* error for a growing delay; if its credential is rejected it exits with
\* status 1.
SendHeartbeat ==
    /\ agent.step = "send"
    /\ agent' = [agent EXCEPT !.step =
                    CASE ~up -> "backoff"
                      [] up /\ Known(agent.token) -> "heard"
                      [] OTHER -> "failed"]
    /\ UNCHANGED << files, interface, k3sAgent, members, enrolled, joins, up,
                    setup >>

\* sleepContext
Wake ==
    /\ agent.step \in {"heard", "backoff"}
    /\ agent' = [agent EXCEPT !.step = "send"]
    /\ UNCHANGED << files, interface, k3sAgent, members, enrolled, joins, up,
                    setup >>

\* SIGTERM ends the loop with status 0.
StopAgent ==
    /\ agent.step # "stopped"
    /\ agent' = NoAgent
    /\ UNCHANGED << files, interface, k3sAgent, members, enrolled, joins, up,
                    setup >>

-----------------------------------------------------------------------------
(* The control plane, the operator, and faults *)

\* RemoveNode revokes the node's credential and drops its peer.
Remove(member) ==
    /\ member \in members
    /\ members' = members \ {member}
    /\ UNCHANGED << files, interface, k3sAgent, enrolled, joins, up, setup,
                    agent >>

ControlPlaneFails ==
    /\ up' = ~up
    /\ UNCHANGED << files, interface, k3sAgent, members, enrolled, joins,
                    setup, agent >>

\* join or join-k3s fails or is killed.
KillSetup ==
    /\ setup # NoSetup
    /\ Quit
    /\ UNCHANGED << files, interface, k3sAgent, members, enrolled, joins, up,
                    agent >>

\* Nothing brings the interface up at boot; the agent's service is enabled.
WorkerPowerLoss ==
    /\ \E key \in AfterPowerLoss(files["key"]),
          credential \in AfterPowerLoss(files["credential"]),
          env \in AfterPowerLoss(files["env"]) :
           files' = [files EXCEPT !["key"] = key, !["env"] = env,
                                  !["credential"] = credential]
    /\ interface' = Absent
    /\ setup' = NoSetup
    /\ agent' = [NoAgent EXCEPT !.step = "failed"]
    /\ UNCHANGED << k3sAgent, members, enrolled, joins, up >>

WorkerNext ==
    \/ \E f \in {"key", "credential"} : TruncateFile(f) \/ WriteData(f)
    \/ Join \/ CallJoinNode
    \/ JoinK3s \/ PersistWireGuardHubIP \/ EnsureWireGuardUp \/ CheckVpn
    \/ InstallK3s
    \/ StartAgent \/ SendHeartbeat \/ Wake \/ StopAgent
    \/ \E member \in members : Remove(member)
    \/ ControlPlaneFails \/ KillSetup \/ WorkerPowerLoss

\* systemd restarts a failed agent after five seconds, and its timers fire.
WorkerFairness ==
    /\ WF_workerVars(agent.step = "failed" /\ StartAgent)
    /\ WF_workerVars(SendHeartbeat)
    /\ WF_workerVars(Wake)

-----------------------------------------------------------------------------
(* Properties *)

\* k3s is installed only over a tunnel the hub gave to one node: a key that a
\* failed second join left in the key file, mixed with the address of the
\* first join's credential, never gets there, because the hub does not answer.
InstalledOverEnrolledTunnel ==
    k3sAgent # Absent =>
        \E member \in enrolled : k3sAgent = MemberTunnel(member)

CredentialValid ==
    /\ files["credential"].now.kind = "credential"
    /\ Known(files["credential"].now.token)

\* An agent that is not stopped is heard again and again once the power and
\* the control plane stay up and the credential file holds a valid credential: also
\* when it was started with the credential of a node that has been removed
\* since, or before the host was joined.
AgentIsHeard ==
    /\ <>[](up /\ CredentialValid /\ agent.step # "stopped")
    /\ <>[][~WorkerPowerLoss]_workerVars
    => []<>(agent.step = "heard")
=============================================================================
