------------------------- MODULE HostProgramsProofs --------------------------
(***************************************************************************)
(* Proofs about the hosts, for any number of clients, contexts, endpoints, *)
(* installations, addresses, joins and processes, and any bound on what is *)
(* minted.  A step of a host's program is the only one that changes that   *)
(* host's variables, so each invariant is shown for the program and        *)
(* carried over to HostSpec.                                               *)
(***************************************************************************)
EXTENDS HostPrograms, TLAPS

USE ZenonT(30)

-----------------------------------------------------------------------------
(* bootstrap k3s *)

\* A bootstrap without --force found nothing installed and has not installed
\* anything before it has written its configuration.
K3sInv ==
    /\ boot = [step |-> boot.step, address |-> boot.address, force |-> boot.force]
    /\ boot.step \in {"truncate", "write", "download", "install"} =>
          boot.force \/ ~(binary \/ kubeconfig)

\* Every step of bootstrap k3s preserves its invariant.
LEMMA K3sStep == K3sInv /\ [K3sNext]_k3sVars => K3sInv'
<1> SUFFICES ASSUME K3sInv, [K3sNext]_k3sVars PROVE K3sInv'
  OBVIOUS
<1> USE DEF K3sInv, NotRunning
<1>1. CASE \E address \in Addresses, force \in BOOLEAN : Bootstrap(address, force)
  BY <1>1, SMTT(30) DEF Bootstrap, DetectExistingInstall
<1>2. CASE TruncateConfig
  BY <1>2 DEF TruncateConfig
<1>3. CASE WriteConfig
  BY <1>3 DEF WriteConfig
<1>4. CASE DownloadInstaller
  BY <1>4 DEF DownloadInstaller
<1>5. CASE InstallBinary
  BY <1>5 DEF InstallBinary
<1>6. CASE StartService
  BY <1>6 DEF StartService
<1>7. CASE Fail
  BY <1>7 DEF Fail
<1>8. CASE K3sPowerLoss
  BY <1>8 DEF K3sPowerLoss
<1>9. CASE UNCHANGED k3sVars
  BY <1>9 DEF k3sVars
<1> QED
  BY <1>1, <1>2, <1>3, <1>4, <1>5, <1>6, <1>7, <1>8, <1>9 DEF K3sNext

\* Only writeConfig, with --force or before anything is installed, and a power
\* loss change the k3s configuration file.
THEOREM K3sConfigIsKept == HostSpec => K3sConfigKept
<1>1. HostInit => K3sInv
  BY DEF HostInit, K3sInit, K3sInv, NotRunning
<1>2. [HostNext]_hostVars => [K3sNext]_k3sVars
  BY DEF HostNext, hostVars, OnControlPlane, OnCluster, OnOperator, OnWorker
<1>3. K3sInv /\ [K3sNext]_k3sVars =>
        [ /\ binary \/ kubeconfig
          /\ k3sConfig'.now # k3sConfig.now
          => boot.force \/ K3sPowerLoss ]_k3sVars
  BY DEF K3sInv, K3sNext, Bootstrap, TruncateConfig, WriteConfig, DownloadInstaller,
         InstallBinary, StartService, Fail, k3sVars
<1> QED
  BY <1>1, <1>2, <1>3, K3sStep, PTL DEF HostSpec, K3sConfigKept

-----------------------------------------------------------------------------
(* join, join-k3s *)

SetupShape ==
    setup = [cmd |-> setup.cmd, step |-> setup.step, key |-> setup.key,
             token |-> setup.token, address |-> setup.address,
             half |-> setup.half]

\* Between the connectivity check and the installation the interface is one
\* the control plane gave to a node.
WorkInv ==
    /\ SetupShape
    /\ members \subseteq enrolled
    /\ setup.step = "install" =>
          \E member \in enrolled : interface = MemberTunnel(member)
    /\ InstalledOverEnrolledTunnel

\* A step that installs nothing, and does not get as far, preserves it.
LEMMA QuietStep ==
    ASSUME WorkInv, SetupShape', setup'.step # "install", k3sAgent' = k3sAgent,
           enrolled \subseteq enrolled', members' \subseteq enrolled'
    PROVE  WorkInv'
BY DEF WorkInv, InstalledOverEnrolledTunnel

\* So does one that leaves join and join-k3s and the network alone.
LEMMA OtherStep ==
    ASSUME WorkInv, UNCHANGED << setup, interface, k3sAgent, enrolled >>,
           members' \subseteq members
    PROVE  WorkInv'
BY DEF WorkInv, InstalledOverEnrolledTunnel, SetupShape

\* Every step on a worker's host preserves the invariant.
LEMMA WorkStep == WorkInv /\ [WorkerNext]_workerVars => WorkInv'
<1> SUFFICES ASSUME WorkInv, [WorkerNext]_workerVars PROVE WorkInv'
  OBVIOUS
<1>a. SetupShape /\ members \subseteq enrolled
  BY DEF WorkInv
<1>b. ASSUME Quit PROVE SetupShape' /\ setup'.step # "install"
  BY <1>b DEF Quit, NoSetup, SetupShape
<1>c. ASSUME NEW step, step # "install", Setup(step)
      PROVE  SetupShape' /\ setup'.step # "install"
  BY <1>a, <1>c DEF Setup, SetupShape
<1>1. ASSUME NEW f \in {"key", "credential"}, TruncateFile(f)
      PROVE  WorkInv'
  <2>1. setup.step = f /\ setup' = [setup EXCEPT !.half = TRUE]
    BY <1>1 DEF TruncateFile
  <2>2. SetupShape' /\ setup'.step # "install"
    BY <1>a, <2>1 DEF SetupShape
  <2> QED
    BY <1>1, <1>a, <2>2, QuietStep DEF TruncateFile
<1>2. ASSUME NEW f \in {"key", "credential"}, WriteData(f)
      PROVE  WorkInv'
  <2>1. Setup("call") \/ Quit
    BY <1>2 DEF WriteData
  <2>2. SetupShape' /\ setup'.step # "install"
    BY <1>b, <1>c, <2>1
  <2> QED
    BY <1>2, <1>a, <2>2, QuietStep DEF WriteData
<1>3. CASE Join
  <2>1. SetupShape' /\ setup'.step # "install"
    BY <1>3 DEF Join, NoSetup, SetupShape
  <2> QED
    BY <1>3, <1>a, <2>1, QuietStep DEF Join
<1>4. CASE CallJoinNode
  <2>1. setup' = [setup EXCEPT !.step = "credential", !.token = setup.key] \/ Quit
    BY <1>4 DEF CallJoinNode
  <2>2. SetupShape' /\ setup'.step # "install"
    BY <1>a, <1>b, <2>1 DEF SetupShape
  <2>3. enrolled \subseteq enrolled' /\ members' \subseteq enrolled'
    BY <1>4, <1>a DEF CallJoinNode
  <2> QED
    BY <1>4, <2>2, <2>3, QuietStep DEF CallJoinNode
<1>5. CASE JoinK3s
  <2>1. SetupShape' /\ setup'.step # "install"
    BY <1>5, SMTT(30) DEF JoinK3s, SetupShape
  <2> QED
    BY <1>5, <1>a, <2>1, QuietStep DEF JoinK3s
<1>6. CASE PersistWireGuardHubIP
  BY <1>6, <1>a, <1>c, QuietStep DEF PersistWireGuardHubIP
<1>7. CASE EnsureWireGuardUp
  BY <1>7, <1>a, <1>c, QuietStep DEF EnsureWireGuardUp
<1>8. CASE CheckVpn
  <2>1. CASE Reachable /\ Setup("install")
    <3>1. SetupShape'
      BY <1>a, <2>1 DEF Setup, SetupShape
    <3>2. \E member \in enrolled : interface = MemberTunnel(member)
      BY <1>a, <2>1 DEF Reachable
    <3> QED
      BY <1>8, <3>1, <3>2 DEF CheckVpn, WorkInv, InstalledOverEnrolledTunnel
  <2>2. CASE Quit
    BY <1>8, <1>a, <1>b, <2>2, QuietStep DEF CheckVpn
  <2> QED
    BY <1>8, <2>1, <2>2 DEF CheckVpn
<1>9. CASE InstallK3s
  <2>1. \E member \in enrolled : interface = MemberTunnel(member)
    BY <1>9 DEF InstallK3s, SetupAt, WorkInv
  <2>2. Quit
    BY <1>9 DEF InstallK3s
  <2> QED
    BY <1>9, <1>a, <1>b, <2>1, <2>2 DEF InstallK3s, WorkInv, InstalledOverEnrolledTunnel
<1>10. CASE StartAgent \/ SendHeartbeat \/ Wake \/ StopAgent \/ ControlPlaneFails
  <2>1. UNCHANGED << setup, interface, k3sAgent, enrolled, members >>
    BY <1>10 DEF StartAgent, SendHeartbeat, Wake, StopAgent, ControlPlaneFails
  <2> QED
    BY <2>1, OtherStep
<1>11. ASSUME NEW member \in members, Remove(member)
       PROVE  WorkInv'
  BY <1>11, OtherStep DEF Remove
<1>12. CASE KillSetup
  BY <1>12, <1>a, <1>b, QuietStep DEF KillSetup
<1>13. CASE WorkerPowerLoss
  BY <1>13, <1>a, <1>b, QuietStep DEF WorkerPowerLoss, Quit
<1>14. CASE UNCHANGED workerVars
  BY <1>14, OtherStep DEF workerVars
<1> QED
  BY <1>1, <1>2, <1>3, <1>4, <1>5, <1>6, <1>7, <1>8, <1>9, <1>10, <1>11, <1>12, <1>13,
     <1>14 DEF WorkerNext

\* Whatever join left behind, k3s is only installed over a tunnel of an
\* enrolled node.
THEOREM WorkerTunnelEnrolled == HostSpec => []InstalledOverEnrolledTunnel
<1>1. HostInit => WorkInv
  <2> SUFFICES ASSUME HostInit PROVE WorkInv
    OBVIOUS
  <2>1. setup = NoSetup /\ members = {} /\ enrolled = {} /\ k3sAgent = Absent
    BY DEF HostInit, WorkerInit
  <2>2. SetupShape /\ setup.step # "install"
    BY <2>1 DEF SetupShape, NoSetup
  <2> QED
    BY <2>1, <2>2 DEF WorkInv, InstalledOverEnrolledTunnel
<1>2. [HostNext]_hostVars => [WorkerNext]_workerVars
  BY DEF HostNext, hostVars, OnControlPlane, OnCluster, OnOperator, OnWorker
<1>3. WorkInv => InstalledOverEnrolledTunnel
  BY DEF WorkInv
<1> QED
  BY <1>1, <1>2, <1>3, WorkStep, PTL DEF HostSpec

-----------------------------------------------------------------------------
(* The command line client *)

Configs ==
    [kind : {"config"}, legacy : Endpoints \cup {NoUrl},
     current : Names \cup {NoName},
     contexts : [Names -> [url : Endpoints \cup {NoUrl},
                           identity : Installations \cup {NoIdentity}]]]

\* An invocation is a record of these fields; until it has ended it has an
\* endpoint, and one that saves has a whole configuration in hand.
Shape(i) ==
    i = [step |-> i.step, flow |-> i.flow, name |-> i.name, url |-> i.url,
         bound |-> i.bound, moved |-> i.moved, reached |-> i.reached,
         succeeds |-> i.succeeds, saves |-> i.saves, rebind |-> i.rebind,
         stale |-> i.stale]
Wellformed(c) ==
    /\ Shape(cli[c])
    /\ cli[c].name \in Names \cup {NoName}
    /\ cli[c].bound \in Installations \cup {NoIdentity}
    /\ cli[c].moved \in BOOLEAN /\ cli[c].succeeds \in BOOLEAN
    /\ cli[c].rebind \in BOOLEAN /\ cli[c].stale \in BOOLEAN
    /\ cli[c].step \in {"load", "verify", "input", "send"} =>
          cli[c].url \in Endpoints
    /\ cli[c].step = "save" => cli[c].saves \in Configs

\* After the verification the endpoint belongs to the bound installation,
\* until it changes hands.
Bound(c) ==
    cli[c].bound # NoIdentity /\ ~cli[c].moved =>
        /\ cli[c].step \in {"input", "send"} =>
              servers[cli[c].url] = cli[c].bound
        /\ cli[c].reached \subseteq {cli[c].bound}
        /\ cli[c].succeeds => cli[c].reached = {cli[c].bound}

\* What an invocation is about to save keeps every binding of the file, if the
\* file is still the one it read.
Keeps(c) ==
    cli[c].step = "save" /\ ~cli[c].stale =>
        \A n \in Names :
            \/ BindingOf(config, n) = NoIdentity
            \/ BindingOf(cli[c].saves, n) = BindingOf(config, n)
            \/ cli[c].name = n /\ cli[c].rebind

ClientInv ==
    /\ config \in Configs \cup {Absent}
    /\ servers \in [Endpoints -> Installations]
    /\ cli = [c \in Invocations |-> cli[c]]
    /\ \A c \in Invocations : Wellformed(c) /\ Bound(c) /\ Keeps(c)

EndedAs(reached, bound, moved, succeeds) ==
    [NotInvoked EXCEPT !.step = "ended", !.reached = reached, !.bound = bound,
                       !.moved = moved, !.succeeds = succeeds]
SavingAs(i, saves) == [i EXCEPT !.step = "save", !.saves = saves]

\* The fields of a client that has made its calls.
LEMMA EndedFields ==
    ASSUME NEW reached, NEW bound, NEW moved, NEW succeeds \in BOOLEAN, NEW end,
           end = EndedAs(reached, bound, moved, succeeds)
    PROVE  /\ Shape(end) /\ end.step = "ended" /\ end.name = NoName
           /\ end.bound = bound /\ end.moved = moved /\ end.reached = reached
           /\ end.succeeds = succeeds /\ ~end.rebind /\ end.rebind \in BOOLEAN
           /\ ~end.stale /\ end.stale \in BOOLEAN
BY DEF Shape, NotInvoked, EndedAs

\* The fields of a client that has the configuration it will save.
LEMMA SavingFields ==
    ASSUME NEW i, Shape(i), NEW saves, NEW next,
           next = SavingAs(i, saves)
    PROVE  /\ Shape(next) /\ next.step = "save" /\ next.name = i.name
           /\ next.url = i.url /\ next.bound = i.bound /\ next.moved = i.moved
           /\ next.reached = i.reached /\ next.succeeds = i.succeeds
           /\ next.saves = saves /\ next.rebind = i.rebind
           /\ next.stale = i.stale
BY DEF Shape, SavingAs

\* LoadConfig returns a configuration with the bindings of the file.
LEMMA LoadedConfig ==
    ASSUME config \in Configs \cup {Absent}
    PROVE  /\ LoadConfig \in Configs
           /\ \A n \in Names :
                 BindingOf(config, n) # NoIdentity =>
                     LoadConfig.contexts[n].identity = BindingOf(config, n)
<1>1. EmptyConfig \in Configs
  BY DEF EmptyConfig, Configs, NoContext
<1>2. Absent.kind = "absent"
  BY DEF Absent
<1> QED
  BY <1>1, <1>2 DEF LoadConfig, BindingOf, Configs

\* The invocations other than the one that moves keep their invariant, as long
\* as the file and the endpoints stay.
LEMMA OthersKeep ==
    ASSUME ClientInv, NEW c \in Invocations, NEW invocation,
           Becomes(c, invocation), UNCHANGED << config, servers >>,
           Wellformed(c)', Bound(c)', Keeps(c)'
    PROVE  ClientInv'
<1>1. cli' = [d \in Invocations |-> cli'[d]]
  BY DEF ClientInv, Becomes
<1>2. ASSUME NEW d \in Invocations, d # c
      PROVE  cli'[d] = cli[d]
  BY <1>2 DEF ClientInv, Becomes
<1>3. ASSUME NEW d \in Invocations, d # c
      PROVE  Wellformed(d)' /\ Bound(d)' /\ Keeps(d)'
  BY <1>3, <1>2, SMTT(30) DEF ClientInv, Wellformed, Bound, Keeps, BindingOf
<1> QED
  BY <1>1, <1>3 DEF ClientInv

\* An invocation that ends leaves the invariant behind.
LEMMA EndKeeps ==
    ASSUME ClientInv, NEW c \in Invocations, Ends(c),
           UNCHANGED << config, servers >>
    PROVE  ClientInv'
<1>1. cli'[c] = NotInvoked
  BY DEF ClientInv, Ends, Becomes
<1>2. Wellformed(c)' /\ Bound(c)' /\ Keeps(c)'
  BY <1>1, SMTT(30) DEF Wellformed, Shape, Bound, Keeps, NotInvoked
<1> QED
  BY <1>2, OthersKeep DEF Ends

\* Every step on the operator's host preserves the invariant.
LEMMA ClientStep == ClientInv /\ [OperatorNext]_operatorVars => ClientInv'
<1> SUFFICES ASSUME ClientInv, [OperatorNext]_operatorVars PROVE ClientInv'
  OBVIOUS
<1>a. config \in Configs \cup {Absent}
  BY DEF ClientInv
<1>b. ASSUME NEW c \in Invocations, NEW invocation, Becomes(c, invocation)
      PROVE  cli'[c] = invocation
  BY <1>b DEF ClientInv, Becomes
<1>1. ASSUME NEW c \in Invocations, NEW flow \in Flows,
             NEW name \in Names \cup {NoName}, NEW url \in Endpoints \cup {NoUrl},
             Invoke(c, flow, name, url)
      PROVE  ClientInv'
  <2> DEFINE selected == IF name # NoName THEN name ELSE LoadConfig.current
             context == IF selected # NoName THEN LoadConfig.contexts[selected]
                        ELSE [url |-> IF url # NoUrl THEN url
                                                     ELSE LoadConfig.legacy,
                              identity |-> NoIdentity]
             next == [NotInvoked EXCEPT
                        !.flow = flow, !.url = context.url,
                        !.bound = context.identity,
                        !.step = IF context.identity # NoIdentity
                                 THEN "verify" ELSE AfterVerification(flow)]
  <2>1. LoadConfig \in Configs
    BY <1>a, LoadedConfig
  <2>2. /\ context.url \in Endpoints
        /\ context.identity \in Installations \cup {NoIdentity}
    BY <1>1, <2>1 DEF Invoke, Configs
  <2>3. Becomes(c, next) /\ UNCHANGED << config, servers >>
    BY <1>1 DEF Invoke
  <2> HIDE DEF context
  <2>4. cli'[c] = next
    BY <1>b, <2>3
  <2>5. Wellformed(c)' /\ Bound(c)' /\ Keeps(c)'
    BY <2>2, <2>4 DEF Wellformed, Shape, Bound, Keeps, NotInvoked, AfterVerification
  <2> QED
    BY <2>3, <2>5, OthersKeep
<1>2. ASSUME NEW c \in Invocations, VerifyServerIdentity(c)
      PROVE  ClientInv'
  <2>1. CASE Ends(c)
    BY <1>2, <2>1, EndKeeps DEF VerifyServerIdentity
  <2> DEFINE next == [cli[c] EXCEPT !.step = AfterVerification(cli[c].flow)]
  <2>2. CASE ReportedIdentity(servers[cli[c].url]) = cli[c].bound /\ Becomes(c, next)
    <3>1. cli'[c] = next
      BY <1>b, <2>2
    <3>2. Wellformed(c)' /\ Bound(c)' /\ Keeps(c)'
      BY <1>2, <2>2, <3>1, SMTT(30) DEF VerifyServerIdentity, Wellformed, Shape, Bound, Keeps,
         AfterVerification, ReportedIdentity, ClientInv
    <3> QED
      BY <1>2, <2>2, <3>2, OthersKeep DEF VerifyServerIdentity
  <2> QED
    BY <1>2, <2>1, <2>2 DEF VerifyServerIdentity
<1>3. ASSUME NEW c \in Invocations, ReadInput(c)
      PROVE  ClientInv'
  <2>1. CASE Ends(c)
    BY <1>3, <2>1, EndKeeps DEF ReadInput
  <2> DEFINE next == [cli[c] EXCEPT !.step = "send"]
  <2>2. CASE Becomes(c, next)
    <3>1. cli'[c] = next
      BY <1>b, <2>2
    <3>2. Wellformed(c)' /\ Bound(c)' /\ Keeps(c)'
      BY <1>3, <3>1 DEF ReadInput, Wellformed, Shape, Bound, Keeps, ClientInv
    <3> QED
      BY <1>3, <2>2, <3>2, OthersKeep DEF ReadInput
  <2> QED
    BY <1>3, <2>1, <2>2 DEF ReadInput
<1>4. ASSUME NEW c \in Invocations, Send(c)
      PROVE  ClientInv'
  <2> DEFINE flow == cli[c].flow
             reached == cli[c].reached \cup {servers[cli[c].url]}
             more == [cli[c] EXCEPT !.reached = reached]
             last(outcome) ==
                 [NotInvoked EXCEPT !.step = "ended", !.reached = reached,
                     !.bound = cli[c].bound, !.moved = cli[c].moved,
                     !.succeeds = outcome \in flow.zero]
  <2>a. Wellformed(c) /\ Bound(c) /\ cli[c].step = "send"
    BY <1>4 DEF ClientInv, Send
  <2>1. PICK outcome \in Outcomes(flow) :
           Becomes(c, more) \/ Becomes(c, last(outcome))
    BY <1>4 DEF Send
  <2>2. CASE Becomes(c, more)
    <3>1. cli'[c] = more
      BY <1>b, <2>2
    <3>2. /\ Shape(more) /\ more.step = "send" /\ more.name = cli[c].name
          /\ more.url = cli[c].url /\ more.bound = cli[c].bound
          /\ more.moved = cli[c].moved /\ more.reached = reached
          /\ more.succeeds = cli[c].succeeds /\ more.rebind = cli[c].rebind
          /\ more.stale = cli[c].stale
      BY <1>4, <2>a, SMTT(30) DEF Send, Wellformed, Shape
    <3> HIDE DEF more
    <3>3. Wellformed(c)' /\ Keeps(c)'
      BY <1>4, <2>a, <3>1, <3>2 DEF Send, Wellformed, Keeps
    <3>4. Bound(c)'
      BY <1>4, <2>a, <3>1, <3>2 DEF Send, Bound
    <3> QED
      BY <1>4, <2>2, <3>3, <3>4, OthersKeep DEF Send
  <2>3. CASE Becomes(c, last(outcome))
    <3>1. cli'[c] = last(outcome)
      BY <1>b, <2>3
    <3> DEFINE end == last(outcome)
    <3>2. /\ Shape(end) /\ end.step = "ended" /\ end.name = NoName
          /\ end.bound = cli[c].bound /\ end.moved = cli[c].moved
          /\ end.reached = reached /\ end.succeeds \in BOOLEAN
          /\ end.rebind \in BOOLEAN /\ end.stale \in BOOLEAN
      <4> DEFINE succeeds == outcome \in flow.zero
      <4>1. succeeds \in BOOLEAN
        BY SMTT(30)
      <4>2. end = EndedAs(reached, cli[c].bound, cli[c].moved, succeeds)
        BY DEF EndedAs
      <4> HIDE DEF end, succeeds, reached
      <4> QED
        BY <4>1, <4>2, EndedFields, SMTT(30)
    <3>0. cli'[c] = end
      BY <3>1
    <3> HIDE DEF end
    <3>3. Wellformed(c)' /\ Keeps(c)'
      BY <2>a, <3>0, <3>2 DEF Wellformed, Keeps
    <3>4. Bound(c)'
      BY <2>a, <3>0, <3>2 DEF Bound
    <3> QED
      BY <1>4, <2>3, <3>3, <3>4, OthersKeep DEF Send
  <2> QED
    BY <2>1, <2>2, <2>3
<1>5. ASSUME NEW c \in Invocations, DoctorReport(c)
      PROVE  ClientInv'
  <2> DEFINE next(sound) ==
                 [NotInvoked EXCEPT !.step = "ended", !.reached = cli[c].reached,
                     !.bound = cli[c].bound, !.moved = cli[c].moved,
                     !.succeeds = sound /\ cli[c].flow.zero # {}]
  <2>1. PICK sound \in BOOLEAN : Becomes(c, next(sound))
    BY <1>5 DEF DoctorReport
  <2>2. cli'[c] = next(sound)
    BY <1>b, <2>1
  <2>a. Wellformed(c) /\ Bound(c) /\ cli[c].step = "send" /\ cli[c].reached # {}
    BY <1>5 DEF ClientInv, DoctorReport
  <2> DEFINE end == next(sound)
  <2>b. /\ Shape(end) /\ end.step = "ended" /\ end.name = NoName
        /\ end.bound = cli[c].bound /\ end.moved = cli[c].moved
        /\ end.reached = cli[c].reached /\ end.succeeds \in BOOLEAN
        /\ end.rebind \in BOOLEAN /\ end.stale \in BOOLEAN
    <3> DEFINE succeeds == sound /\ cli[c].flow.zero # {}
    <3>1. succeeds \in BOOLEAN
      OBVIOUS
    <3>2. end = EndedAs(cli[c].reached, cli[c].bound, cli[c].moved, succeeds)
      BY DEF EndedAs
    <3> HIDE DEF end, succeeds
    <3> QED
      BY <3>1, <3>2, EndedFields, SMTT(30)
  <2>c. cli'[c] = end
    BY <2>2
  <2> HIDE DEF end
  <2>d. Wellformed(c)' /\ Keeps(c)'
    BY <2>a, <2>b, <2>c DEF Wellformed, Keeps
  <2>3. Wellformed(c)' /\ Bound(c)' /\ Keeps(c)'
    BY <2>a, <2>b, <2>c, <2>d DEF Bound
  <2> QED
    BY <1>5, <2>1, <2>3, OthersKeep DEF DoctorReport
<1>6. ASSUME NEW c \in Invocations, NEW name \in Names \cup {NoName},
             NEW url \in Endpoints, NEW rebind \in BOOLEAN,
             Login(c, name, url, rebind)
      PROVE  ClientInv'
  <2> DEFINE next == [NotInvoked EXCEPT
                        !.step = "load", !.name = name, !.url = url,
                        !.rebind = rebind,
                        !.bound = ReportedIdentity(servers[url])]
  <2>1. Becomes(c, next)
    BY <1>6 DEF Login
  <2>2. cli'[c] = next
    BY <1>b, <2>1
  <2>3. ReportedIdentity(servers[url]) \in Installations \cup {NoIdentity}
    BY DEF ReportedIdentity, ClientInv
  <2>4. Wellformed(c)' /\ Bound(c)' /\ Keeps(c)'
    BY <2>2, <2>3 DEF Wellformed, Shape, Bound, Keeps, NotInvoked
  <2> QED
    BY <1>6, <2>1, <2>4, OthersKeep DEF Login
<1>7. ASSUME NEW c \in Invocations, LoginLoad(c)
      PROVE  ClientInv'
  <2>1. CASE Ends(c)
    BY <1>7, <2>1, EndKeeps DEF LoginLoad
  <2> DEFINE next == [cli[c] EXCEPT !.step = "save", !.saves = LoggedIn(c)]
  <2>2. CASE ~Refused(c) /\ Becomes(c, next)
    <3>1. cli'[c] = next
      BY <1>b, <2>2
    <3>2. LoadConfig \in Configs
      BY <1>a, LoadedConfig
    <3>3. Wellformed(c) /\ Bound(c) /\ cli[c].url \in Endpoints
      BY <1>7 DEF ClientInv, Wellformed, LoginLoad
    <3>4. LoggedIn(c) \in Configs
      BY <3>2, <3>3 DEF LoggedIn, Configs, Wellformed
    <3>5. \A n \in Names :
             \/ BindingOf(config, n) = NoIdentity
             \/ BindingOf(LoggedIn(c), n) = BindingOf(config, n)
             \/ cli[c].name = n /\ cli[c].rebind
      <4> SUFFICES ASSUME NEW n \in Names, BindingOf(config, n) # NoIdentity
                   PROVE  \/ BindingOf(LoggedIn(c), n) = BindingOf(config, n)
                          \/ cli[c].name = n /\ cli[c].rebind
        OBVIOUS
      <4>1. LoadConfig.contexts[n].identity = BindingOf(config, n)
        BY <1>a, LoadedConfig
      <4>2. BindingOf(LoggedIn(c), n) = LoggedIn(c).contexts[n].identity
        BY <3>4 DEF BindingOf, Configs
      <4>3. CASE cli[c].name = n /\ n # NoName
        <5>1. LoggedIn(c).contexts[n].identity = cli[c].bound
          BY <3>2, <4>3 DEF LoggedIn, Configs
        <5> QED
          BY <2>2, <4>1, <4>2, <4>3, <5>1 DEF Refused
      <4>4. CASE cli[c].name # n \/ n = NoName
        <5>1. LoggedIn(c).contexts[n].identity = LoadConfig.contexts[n].identity
          BY <3>2, <3>3, <4>4 DEF LoggedIn, Configs, Wellformed
        <5> QED
          BY <4>1, <4>2, <5>1
      <4> QED
        BY <4>3, <4>4
    <3>6. Wellformed(c)' /\ Bound(c)' /\ Keeps(c)'
      <4>1. /\ Shape(next) /\ next.step = "save" /\ next.name = cli[c].name
            /\ next.url = cli[c].url /\ next.bound = cli[c].bound
            /\ next.moved = cli[c].moved /\ next.reached = cli[c].reached
            /\ next.succeeds = cli[c].succeeds /\ next.saves = LoggedIn(c)
            /\ next.rebind = cli[c].rebind /\ next.stale = cli[c].stale
        <5>1. Shape(cli[c])
          BY <3>3 DEF Wellformed
        <5>2. next = SavingAs(cli[c], LoggedIn(c))
          BY DEF SavingAs
        <5> HIDE DEF next
        <5> QED
          BY <5>1, <5>2, SavingFields, SMTT(30)
      <4> HIDE DEF next
      <4>2. config' = config
        BY <1>7 DEF LoginLoad
      <4>3. Keeps(c)'
        BY <3>1, <3>5, <4>1, <4>2 DEF Keeps, BindingOf
      <4> QED
        BY <3>1, <3>3, <3>4, <4>1, <4>3 DEF Wellformed, Bound
    <3> QED
      BY <1>7, <2>2, <3>6, OthersKeep DEF LoginLoad
  <2> QED
    BY <1>7, <2>1, <2>2 DEF LoginLoad
<1>8. ASSUME NEW c \in Invocations, NEW name \in Names \cup {NoName},
             UseContext(c, name)
      PROVE  ClientInv'
  <2> DEFINE saved == [LoadConfig EXCEPT !.current = name]
             next == [NotInvoked EXCEPT !.step = "save", !.name = name,
                                        !.saves = saved]
  <2>1. Becomes(c, next)
    BY <1>8 DEF UseContext
  <2>2. cli'[c] = next
    BY <1>b, <2>1
  <2>3. LoadConfig \in Configs /\ saved \in Configs
    BY <1>a, LoadedConfig DEF Configs
  <2>4. \A n \in Names : BindingOf(saved, n) = LoadConfig.contexts[n].identity
    BY <2>3 DEF BindingOf, Configs
  <2>5. \A n \in Names : \/ BindingOf(config, n) = NoIdentity
                         \/ BindingOf(saved, n) = BindingOf(config, n)
    BY <1>a, <2>4, LoadedConfig
  <2> HIDE DEF saved
  <2>6. Wellformed(c)' /\ Bound(c)' /\ Keeps(c)'
    <3>1. config' = config
      BY <1>8 DEF UseContext
    <3>2. Keeps(c)'
      BY <2>2, <2>5, <3>1 DEF Keeps, BindingOf, NotInvoked
    <3> QED
      BY <2>2, <2>3, <3>2 DEF Wellformed, Shape, Bound, NotInvoked
  <2> QED
    BY <1>8, <2>1, <2>6, OthersKeep DEF UseContext
<1>9. ASSUME NEW c \in Invocations, SaveConfig(c)
      PROVE  ClientInv'
  <2>1. config' \in Configs /\ servers' = servers
    BY <1>9 DEF SaveConfig, Saving, Rename, ClientInv, Wellformed
  <2>2. cli' = [d \in Invocations |-> cli'[d]]
    BY <1>9 DEF SaveConfig
  <2>3. ASSUME NEW d \in Invocations
        PROVE  Wellformed(d)' /\ Bound(d)' /\ Keeps(d)'
    <3>1. CASE d = c
      <4>1. cli'[d] = NotInvoked
        BY <1>9, <3>1 DEF SaveConfig
      <4> QED
        BY <4>1, SMTT(30) DEF Wellformed, Shape, Bound, Keeps, NotInvoked
    <3>2. CASE d # c
      <4>1. cli'[d] = [cli[d] EXCEPT !.stale = Saving(d)]
        BY <1>9, <3>2 DEF SaveConfig
      <4>2. Wellformed(d) /\ Bound(d)
        BY DEF ClientInv
      <4> QED
        BY <2>1, <4>1, <4>2 DEF Wellformed, Shape, Bound, Keeps, Saving
    <3> QED
      BY <3>1, <3>2
  <2> QED
    BY <2>1, <2>2, <2>3 DEF ClientInv
<1>10. ASSUME NEW c \in Invocations, End(c)
       PROVE  ClientInv'
  BY <1>10, EndKeeps DEF End
<1>11. ASSUME NEW url \in Endpoints, NEW s \in Installations, MoveEndpoint(url, s)
       PROVE  ClientInv'
  <2>1. config' = config /\ servers' \in [Endpoints -> Installations]
    BY <1>11 DEF MoveEndpoint, ClientInv
  <2>2. cli' = [d \in Invocations |-> cli'[d]]
    BY <1>11 DEF MoveEndpoint
  <2>3. ASSUME NEW d \in Invocations
        PROVE  Wellformed(d)' /\ Bound(d)' /\ Keeps(d)'
    <3>1. cli'[d] = IF cli[d].url = url /\ cli[d].step \in {"input", "send"}
                    THEN [cli[d] EXCEPT !.moved = TRUE] ELSE cli[d]
      BY <1>11 DEF MoveEndpoint
    <3>2. Wellformed(d) /\ Bound(d) /\ Keeps(d)
      BY DEF ClientInv
    <3>3. cli[d].step \in {"input", "send"} /\ cli[d].url # url =>
             servers'[cli[d].url] = servers[cli[d].url]
      BY <1>11, <3>2 DEF MoveEndpoint, ClientInv, Wellformed
    <3>4. Keeps(d)'
      BY <2>1, <3>1, <3>2 DEF Keeps, BindingOf, Wellformed, Shape
    <3> QED
      BY <3>1, <3>2, <3>3, <3>4 DEF Wellformed, Shape, Bound
  <2> QED
    BY <2>1, <2>2, <2>3 DEF ClientInv
<1>12. CASE UNCHANGED operatorVars
  BY <1>12 DEF operatorVars, ClientInv, Wellformed, Bound, Keeps, BindingOf
<1> QED
  BY <1>1, <1>2, <1>3, <1>4, <1>5, <1>6, <1>7, <1>8, <1>9, <1>10, <1>11, <1>12
  DEF OperatorNext, OperatorStep

\* The invariant of the clients holds in every state.
LEMMA ClientInvariant == HostSpec => []ClientInv
<1>1. HostInit => ClientInv
  <2> SUFFICES ASSUME HostInit PROVE ClientInv
    OBVIOUS
  <2>1. /\ config = Absent /\ servers \in [Endpoints -> Installations]
        /\ cli = [c \in Invocations |-> NotInvoked]
    BY InstallationsAssumption DEF HostInit, OperatorInit
  <2>2. ASSUME NEW c \in Invocations
        PROVE  Wellformed(c) /\ Bound(c) /\ Keeps(c)
    <3>1. cli[c] = NotInvoked
      BY <2>1
    <3> QED
      BY <3>1, SMTT(30) DEF Wellformed, Shape, Bound, Keeps, NotInvoked
  <2> QED
    BY <2>1, <2>2 DEF ClientInv
<1>2. [HostNext]_hostVars => [OperatorNext]_operatorVars
  BY DEF HostNext, hostVars, OnControlPlane, OnCluster, OnOperator, OnWorker
<1> QED
  BY <1>1, <1>2, ClientStep, PTL DEF HostSpec

\* For any number of clients, contexts and endpoints: a command under a bound
\* context reaches only the installation it is bound to, and has reached it if
\* it ends with status 0, unless the endpoint changed hands in between.
THEOREM CommandsReachTheirServer == HostSpec => []BoundCommandHolds
<1>1. ClientInv => BoundCommandHolds
  BY DEF ClientInv, Bound, BoundCommandHolds
<1> QED
  BY <1>1, ClientInvariant, PTL

\* SaveConfig changes the binding of a context only after --rebind-server-
\* identity, or for a client that read the file before another one saved it.
THEOREM BindingsAreKept == HostSpec => BindingKept
<1>1. [HostNext]_hostVars => [OperatorNext]_operatorVars
  BY DEF HostNext, hostVars, OnControlPlane, OnCluster, OnOperator, OnWorker
<1>2. ClientInv /\ [OperatorNext]_operatorVars =>
        [ \A n \in Names :
            /\ BindingOf(config, n) # NoIdentity
            /\ BindingOf(config', n) # BindingOf(config, n)
            => \E c \in Invocations :
                  /\ Saving(c)
                  /\ cli[c].stale \/ (cli[c].name = n /\ cli[c].rebind) ]_operatorVars
  <2> SUFFICES ASSUME ClientInv, OperatorNext, NEW n \in Names,
                      BindingOf(config, n) # NoIdentity,
                      BindingOf(config', n) # BindingOf(config, n)
               PROVE  \E c \in Invocations :
                         /\ Saving(c)
                         /\ cli[c].stale \/ (cli[c].name = n /\ cli[c].rebind)
    OBVIOUS
  <2>1. config' # config
    OBVIOUS
  <2>2. PICK c \in Invocations : SaveConfig(c)
    <3>1. ASSUME NEW url, NEW s, MoveEndpoint(url, s) PROVE FALSE
      BY <2>1, <3>1 DEF MoveEndpoint
    <3>2. PICK c \in Invocations : OperatorStep(c)
      BY <3>1 DEF OperatorNext
    <3>3. ASSUME NEW flow, NEW name, NEW url, Invoke(c, flow, name, url) PROVE FALSE
      BY <2>1, <3>3 DEF Invoke
    <3>4. ASSUME NEW name, NEW url, NEW rebind, Login(c, name, url, rebind) PROVE FALSE
      BY <2>1, <3>4 DEF Login
    <3>5. ASSUME NEW name, UseContext(c, name) PROVE FALSE
      BY <2>1, <3>5 DEF UseContext
    <3>6. ~( VerifyServerIdentity(c) \/ ReadInput(c) \/ Send(c) \/ DoctorReport(c)
             \/ LoginLoad(c) \/ End(c) )
      BY <2>1 DEF VerifyServerIdentity, ReadInput, Send, DoctorReport, LoginLoad, End
    <3>7. SaveConfig(c)
      BY <3>2, <3>3, <3>4, <3>5, <3>6 DEF OperatorStep
    <3> QED
      BY <3>7
  <2>3. config' = cli[c].saves /\ Saving(c)
    BY <2>2 DEF SaveConfig, Rename
  <2> QED
    BY <2>3 DEF ClientInv, Keeps, Saving, Wellformed
<1> QED
  BY <1>1, <1>2, ClientInvariant, PTL DEF HostSpec, BindingKept

-----------------------------------------------------------------------------
(* The control plane's host: each property has its own inductive invariant, on *)
(* the files it is about.                                                      *)

DiskShape == disk = [f \in Files |-> disk[f]]

ProcShape(r) ==
    r = [cmd |-> r.cmd, step |-> r.step, key |-> r.key, id |-> r.id,
         token |-> r.token, data |-> r.data, force |-> r.force,
         calling |-> r.calling]

ProcsShape ==
    /\ procs = [p \in Processes |-> procs[p]]
    /\ \A p \in Processes : ProcShape(procs[p])

\* Steps of the other hosts leave this one alone.
LEMMA ControlPlaneSteps == [HostNext]_hostVars => [ControlNext]_controlVars
BY DEF HostNext, hostVars, OnControlPlane, OnCluster, OnOperator, OnWorker

\* What a commit does to the files.
LEMMA CommitEffect ==
    ASSUME DiskShape, NEW rows, Commit(rows)
    PROVE  /\ DiskShape'
           /\ disk'["env"] = disk["env"]
           /\ disk'["artifact"] = disk["artifact"]
           /\ disk'["db"] = Clean(Database(rows))
           /\ disk'["identity"] = Clean(disk["identity"].now)
BY DEF DiskShape, Commit, Files

\* What a power loss does to the files.
LEMMA PowerLossEffect ==
    ASSUME DiskShape, PowerLoss
    PROVE  /\ DiskShape'
           /\ \A f \in Files : \E content \in disk[f].lost : disk'[f] = Clean(content)
<1>1. PICK env \in AfterPowerLoss(disk["env"]), db \in AfterPowerLoss(disk["db"]),
           identity \in AfterPowerLoss(disk["identity"]),
           artifact \in AfterPowerLoss(disk["artifact"]) :
           disk' = [disk EXCEPT !["env"] = env, !["db"] = db,
                        !["identity"] = identity, !["artifact"] = artifact]
  BY DEF PowerLoss
<1>2. /\ disk'["env"] = env /\ disk'["db"] = db
      /\ disk'["identity"] = identity /\ disk'["artifact"] = artifact
      /\ DiskShape'
  BY <1>1 DEF DiskShape, Files
<1> QED
  BY <1>2 DEF AfterPowerLoss, Files

\* What the loss of the database does to the files.
LEMMA LoseDatabaseEffect ==
    ASSUME DiskShape, NEW identityToo \in BOOLEAN, LoseDatabase(identityToo)
    PROVE  /\ DiskShape'
           /\ disk'["env"] = disk["env"]
           /\ disk'["artifact"] = disk["artifact"]
           /\ disk'["db"] = Clean(Absent)
           /\ disk'["identity"] = IF identityToo THEN Clean(Absent) ELSE disk["identity"]
BY DEF DiskShape, LoseDatabase, Files

\* What the other steps do to the files.
LEMMA FileStepEffect ==
    ASSUME DiskShape, NEW f \in Files, NEW entry, disk' = [disk EXCEPT ![f] = entry]
    PROVE  /\ DiskShape'
           /\ disk'[f] = entry
           /\ \A g \in Files : g # f => disk'[g] = disk[g]
BY DEF DiskShape

\* The steps that write no file.
Quiet(p) ==
    \/ \E force \in BOOLEAN : BootstrapServer(p, force)
    \/ BootstrapAdmin(p) \/ PrintToken(p) \/ BackupCreate(p) \/ Snapshot(p)
    \/ BackupRestore(p) \/ ReadArtifact(p) \/ Serve(p) \/ LoadIdentity(p)
    \/ Listen(p) \/ AnswerStatus(p) \/ LeaveStream(p) \/ Signal(p)
    \/ GracefulStop(p) \/ Close(p) \/ Kill(p)

\* They leave the files and what was announced alone.
LEMMA QuietEffect ==
    ASSUME NEW p \in Processes, Quiet(p)
    PROVE  UNCHANGED << disk, announced >>
<1>1. ASSUME NEW force \in BOOLEAN, BootstrapServer(p, force)
      PROVE  UNCHANGED << disk, announced >>
  BY <1>1 DEF BootstrapServer
<1> QED
  BY <1>1 DEF Quiet, BootstrapAdmin, PrintToken, BackupCreate, Snapshot,
     BackupRestore, ReadArtifact, Serve, LoadIdentity, Listen, AnswerStatus,
     LeaveStream, Signal, GracefulStop, Close, Kill

-----------------------------------------------------------------------------
(* Backups *)

\* The artifact is absent for good or linked: then a power loss leaves it or
\* takes its name away.
BackupInv ==
    /\ DiskShape
    /\ disk["artifact"].lost \subseteq {Absent, announced}
    /\ disk["artifact"].now = Absent => disk["artifact"].lost = {Absent}
    /\ BackupIsWhole

\* A step that keeps the artifact preserves the invariant.
LEMMA ArtifactKept ==
    ASSUME BackupInv, DiskShape', disk'["artifact"] = disk["artifact"],
           announced' = announced
    PROVE  BackupInv'
BY DEF BackupInv, BackupIsWhole, Exists

\* Every step on the control plane's host preserves the invariant.
LEMMA BackupStep == BackupInv /\ [ControlNext]_controlVars => BackupInv'
<1> SUFFICES ASSUME BackupInv, [ControlNext]_controlVars PROVE BackupInv'
  OBVIOUS
<1>a. DiskShape
  BY DEF BackupInv
<1>1. ASSUME NEW p \in Processes, Quiet(p) PROVE BackupInv'
  BY <1>1, <1>a, QuietEffect, ArtifactKept DEF DiskShape
<1>2. ASSUME NEW p \in Processes, NEW rows, Commit(rows), announced' = announced
      PROVE  BackupInv'
  BY <1>2, <1>a, CommitEffect, ArtifactKept
<1>3. ASSUME NEW f \in {"env", "db", "identity"}, NEW entry,
             disk' = [disk EXCEPT ![f] = entry], announced' = announced
      PROVE  BackupInv'
  BY <1>3, <1>a, FileStepEffect, ArtifactKept DEF Files
<1>4. ASSUME NEW p \in Processes, PublishArtifact(p) PROVE BackupInv'
  <2>1. CASE ~CanLink(disk["artifact"])
    BY <1>4, <1>a, <2>1, ArtifactKept DEF PublishArtifact, DiskShape
  <2>2. CASE CanLink(disk["artifact"])
    <3>1. /\ disk' = [disk EXCEPT !["artifact"] = Link(disk["artifact"], procs[p].data)]
          /\ announced' = procs[p].data
      BY <1>4, <2>2 DEF PublishArtifact
    <3>2. DiskShape' /\ disk'["artifact"] = Link(disk["artifact"], procs[p].data)
      BY <1>a, <3>1, FileStepEffect DEF Files
    <3>3. disk["artifact"].lost = {Absent}
      BY <2>2 DEF CanLink, Exists, BackupInv
    <3>4. /\ disk'["artifact"].now = announced'
          /\ disk'["artifact"].lost = {Absent, announced'}
      BY <3>1, <3>2, <3>3, SMTT(30) DEF Link
    <3> QED
      BY <3>2, <3>4 DEF BackupInv, BackupIsWhole
  <2> QED
    BY <2>1, <2>2
<1>5. CASE PowerLoss
  <2>1. DiskShape'
    BY <1>5, <1>a, PowerLossEffect
  <2>2. PICK content \in disk["artifact"].lost : disk'["artifact"] = Clean(content)
    BY <1>5, <1>a, PowerLossEffect DEF Files
  <2>3. disk'["artifact"].now = content /\ disk'["artifact"].lost = {content}
    BY <2>2, SMTT(30) DEF Clean
  <2>4. content \in {Absent, announced'}
    BY <1>5 DEF BackupInv, PowerLoss
  <2> QED
    BY <2>1, <2>3, <2>4 DEF BackupInv, BackupIsWhole, Exists
<1>6. ASSUME NEW identityToo \in BOOLEAN, LoseDatabase(identityToo) PROVE BackupInv'
  BY <1>6, <1>a, LoseDatabaseEffect, ArtifactKept DEF LoseDatabase
<1>7. CASE UNCHANGED controlVars
  BY <1>7, <1>a, ArtifactKept DEF controlVars, DiskShape
<1>8. ASSUME NEW p \in Processes, ControlStep(p) PROVE BackupInv'
  <2>1. CASE OpenDatabase(p)
    BY <1>2, <2>1 DEF OpenDatabase
  <2>2. CASE TruncateEnv(p)
    BY <1>3, <2>2 DEF TruncateEnv
  <2>3. CASE WriteEnv(p)
    BY <1>3, <2>3 DEF WriteEnv
  <2>4. CASE CreateToken(p)
    BY <1>2, <2>4 DEF CreateToken
  <2>5. CASE PublishDatabase(p)
    BY <1>3, <1>a, <2>5, ArtifactKept DEF PublishDatabase, DiskShape
  <2>6. CASE PublishIdentity(p)
    BY <1>3, <1>a, <2>6, ArtifactKept DEF PublishIdentity, DiskShape
  <2>7. CASE \E kind \in {"unary", "stream"} : AcceptCall(p, kind)
    BY <1>2, <2>7 DEF AcceptCall
  <2>8. CASE AnswerWrite(p)
    BY <1>2, <2>8 DEF AnswerWrite
  <2> QED
    BY <1>1, <1>4, <1>8, <2>1, <2>2, <2>3, <2>4, <2>5, <2>6, <2>7, <2>8
    DEF ControlStep, Quiet
<1> QED
  BY <1>5, <1>6, <1>7, <1>8 DEF ControlNext

\* Whatever is killed or switched off, a backup that has its final name is the
\* snapshot that was announced.
THEOREM BackupsAreWhole == HostSpec => []BackupIsWhole
<1>1. HostInit => BackupInv
  <2> SUFFICES ASSUME HostInit PROVE BackupInv
    OBVIOUS
  <2>1. DiskShape /\ disk["artifact"] = Clean(Absent) /\ announced = Absent
    BY DEF HostInit, ControlInit, DiskShape, Files
  <2> QED
    BY <2>1, SMTT(30) DEF BackupInv, BackupIsWhole, Clean, Exists
<1>2. BackupInv => BackupIsWhole
  BY DEF BackupInv
<1> QED
  BY <1>1, <1>2, ControlPlaneSteps, BackupStep, PTL DEF HostSpec

-----------------------------------------------------------------------------
(* Identity, tokens and environment *)

\* The rows of the database are on the disk, and the token's is among them.
Stored(db, t) ==
    /\ db = Clean(db.now)
    /\ db.now = Database(db.now.rows)
    /\ t \in db.now.rows

\* What holds of a process r while the files are d: from the link on, its
\* identity is the file's, durably so once it has accepted a call; the row of
\* a token it is about to print is stored; and a bootstrap without --force has
\* found no environment file.
RunsOn(r, d) ==
    /\ r.step = "open" => r.cmd \in {"bootstrap server", "bootstrap admin", "serve"}
    /\ r.step \in {"listen", "serving", "signalled", "draining"} =>
          d["identity"].now = Identity(r.id)
    /\ r.calling # "no" =>
          /\ r.step \in {"serving", "signalled", "draining"}
          /\ d["identity"] = Clean(Identity(r.id))
    /\ r.step = "print" => Stored(d["db"], TokenRow(r.token, r.key))
    /\ r.cmd = "bootstrap server" /\ r.step \in {"open", "truncate"} =>
          r.force \/ ~Exists(d["env"])

\* The identity file is only ever absent or whole.
IdentityWhole(entry) ==
    /\ \A content \in entry.lost : content = Absent \/ content = Identity(content.id)
    /\ entry.now = Absent \/ entry.now = Identity(entry.now.id)

Alone ==
    \A p, q \in Processes :
        procs[p].cmd \in Bootstraps /\ procs[q].cmd \in Bootstraps => p = q

ServerInv ==
    /\ DiskShape /\ ProcsShape /\ Alone
    /\ \A p \in Processes : procs[p].force \in BOOLEAN
    /\ IdentityWhole(disk["identity"])
    /\ told # 0 => disk["identity"] = Clean(Identity(told))
    /\ \A t \in printed : Stored(disk["db"], t)
    /\ \A p \in Processes : RunsOn(procs[p], disk)

\* How one step of a process may change the files: the identity is created or
\* settled, the database created or extended.
IdentityKept(entry, next) ==
    next = entry \/ next = Clean(entry.now) \/ entry.now = Absent
RowsKept(entry, next) ==
    \/ next = entry \/ entry.now = Absent
    \/ \E rows : next = Clean(Database(rows)) /\ entry.now.rows \subseteq rows

\* The contents differ, and Clean, Database and Identity can be undone.
LEMMA Contents ==
    /\ \A id : Identity(id) # Absent /\ Identity(id).id = id
    /\ \A rows : Database(rows) # Absent /\ Database(rows).rows = rows
    /\ \A content : Clean(content).now = content /\ Clean(content).lost = {content}
<1>1. \A id : Identity(id).kind = "identity" /\ Identity(id).id = id
  BY DEF Identity
<1>2. \A rows : Database(rows).kind = "db" /\ Database(rows).rows = rows
  BY DEF Database
<1>3. Absent.kind = "absent"
  BY DEF Absent
<1> QED
  BY <1>1, <1>2, <1>3 DEF Clean

\* What a durable identity file holds.
LEMMA CleanIdentity ==
    ASSUME NEW entry, NEW id, entry = Clean(Identity(id))
    PROVE  entry.now = Identity(id) /\ entry.now # Absent /\ entry.lost = {Identity(id)}
BY Contents

\* The names os.Link makes.
LEMMA Linked ==
    ASSUME NEW entry, NEW content, NEW next, next = Link(entry, content)
    PROVE  next.now = content /\ next.lost = entry.lost \cup {content}
BY DEF Link

\* A linked identity is a whole one, whichever of its names survives.
LEMMA LinkedIsWhole ==
    ASSUME NEW entry, NEW next, NEW id, IdentityWhole(entry),
           next.now = Identity(id), next.lost = entry.lost \cup {Identity(id)}
    PROVE  IdentityWhole(next)
<1>1. Identity(id) = Identity(Identity(id).id)
  BY Contents
<1>2. ASSUME NEW content \in next.lost
      PROVE  content = Absent \/ content = Identity(content.id)
  BY <1>1, <1>2 DEF IdentityWhole
<1> QED
  BY <1>1, <1>2 DEF IdentityWhole

\* An identity file stays what it is.
LEMMA WholeIdentityKept ==
    ASSUME NEW entry, NEW next, NEW id, entry.now = Identity(id),
           IdentityKept(entry, next)
    PROVE  next.now = Identity(id)
<1>1. entry.now # Absent
  BY Contents
<1>2. CASE next = Clean(entry.now)
  BY <1>2, Contents
<1> QED
  BY <1>1, <1>2 DEF IdentityKept

\* Stored rows stay stored.
LEMMA StoredKept ==
    ASSUME NEW entry, NEW next, RowsKept(entry, next), NEW t, Stored(entry, t)
    PROVE  Stored(next, t)
<1>1. entry.now # Absent
  BY Contents DEF Stored
<1>2. CASE next = entry
  BY <1>2
<1>3. ASSUME NEW rows, next = Clean(Database(rows)), entry.now.rows \subseteq rows
      PROVE  Stored(next, t)
  <2>1. next.now = Database(rows) /\ next.now.rows = rows
    BY <1>3, Contents
  <2> QED
    BY <1>3, <2>1 DEF Stored
<1> QED
  BY <1>1, <1>2, <1>3 DEF RowsKept

\* A process that does not move is not disturbed by one that does.
LEMMA RunsOnKept ==
    ASSUME NEW r, NEW d, NEW e, RunsOn(r, d),
           IdentityKept(d["identity"], e["identity"]),
           RowsKept(d["db"], e["db"]),
           e["env"] = d["env"] \/ r.cmd # "bootstrap server"
    PROVE  RunsOn(r, e)
<1>1. r.step \in {"listen", "serving", "signalled", "draining"} =>
          e["identity"].now = Identity(r.id)
  <2>1. r.step \in {"listen", "serving", "signalled", "draining"} =>
          d["identity"].now = Identity(r.id)
    BY DEF RunsOn
  <2> QED
    BY <2>1, WholeIdentityKept
<1>2. r.calling # "no" => e["identity"] = Clean(Identity(r.id))
  BY Contents DEF RunsOn, IdentityKept
<1>3. r.step = "print" => Stored(e["db"], TokenRow(r.token, r.key))
  <2>1. r.step = "print" => Stored(d["db"], TokenRow(r.token, r.key))
    BY DEF RunsOn
  <2> QED
    BY <2>1, StoredKept
<1> QED
  BY <1>1, <1>2, <1>3 DEF RunsOn

\* One process moves.
LEMMA ProcessMoves ==
    ASSUME ServerInv, NEW p \in Processes, NEW r, Become(p, r),
           ProcShape(r), r.force \in BOOLEAN, RunsOn(r, disk'),
           r.cmd \in Bootstraps => procs[p].cmd \in Bootstraps \/ NoBootstrap,
           DiskShape', IdentityWhole(disk'["identity"]),
           IdentityKept(disk["identity"], disk'["identity"]),
           RowsKept(disk["db"], disk'["db"]),
           disk'["env"] = disk["env"] \/ procs[p].cmd = "bootstrap server",
           told' = told \/ disk'["identity"] = Clean(Identity(told')),
           \A t \in printed' : t \in printed \/ Stored(disk'["db"], t)
    PROVE  ServerInv'
<1>1. /\ procs'[p] = r
      /\ \A q \in Processes : q # p => procs'[q] = procs[q]
      /\ procs' = [q \in Processes |-> procs'[q]]
  BY DEF Become, ServerInv, ProcsShape
<1>2. ProcsShape'
  BY <1>1 DEF ServerInv, ProcsShape
<1>3. Alone'
  BY <1>1 DEF ServerInv, Alone, NoBootstrap
<1>4. \A q \in Processes : procs'[q].force \in BOOLEAN
  BY <1>1 DEF ServerInv
<1>5. told' # 0 => disk'["identity"] = Clean(Identity(told'))
  <2> SUFFICES ASSUME told' # 0, told' = told
               PROVE  disk'["identity"] = Clean(Identity(told))
    OBVIOUS
  <2>1. disk["identity"] = Clean(Identity(told))
    BY DEF ServerInv
  <2>2. disk["identity"].now = Identity(told) /\ disk["identity"].now # Absent
    BY <2>1, CleanIdentity
  <2> QED
    BY <2>1, <2>2 DEF IdentityKept
<1>6. \A t \in printed' : Stored(disk'["db"], t)
  BY StoredKept DEF ServerInv
<1>7. ASSUME NEW q \in Processes PROVE RunsOn(procs'[q], disk')
  <2>1. CASE q = p
    BY <1>1, <2>1
  <2>2. CASE q # p
    <3>1. RunsOn(procs[q], disk)
      BY DEF ServerInv
    <3>2. disk'["env"] = disk["env"] \/ procs[q].cmd # "bootstrap server"
      BY <2>2 DEF ServerInv, Alone, Bootstraps
    <3> QED
      BY <1>1, <2>2, <3>1, <3>2, RunsOnKept
  <2> QED
    BY <2>1, <2>2
<1> QED
  BY <1>2, <1>3, <1>4, <1>5, <1>6, <1>7 DEF ServerInv

\* One process moves and the files stay.
LEMMA ProcessMovesQuietly ==
    ASSUME ServerInv, NEW p \in Processes, NEW r, Become(p, r),
           ProcShape(r), r.force \in BOOLEAN, RunsOn(r, disk),
           r.cmd \in Bootstraps => procs[p].cmd \in Bootstraps \/ NoBootstrap,
           UNCHANGED << disk, told, printed >>
    PROVE  ServerInv'
BY ProcessMoves DEF ServerInv, IdentityKept, RowsKept, DiskShape

\* One process moves and commits rows.
LEMMA ProcessCommits ==
    ASSUME ServerInv, NEW p \in Processes, NEW r, Become(p, r),
           ProcShape(r), r.force \in BOOLEAN, RunsOn(r, disk'),
           r.cmd \in Bootstraps => procs[p].cmd \in Bootstraps \/ NoBootstrap,
           NEW rows, Commit(rows), Exists(disk["db"]) => Rows \subseteq rows,
           UNCHANGED << told, printed >>
    PROVE  ServerInv'
<1>1. /\ DiskShape'
      /\ disk'["env"] = disk["env"]
      /\ disk'["db"] = Clean(Database(rows))
      /\ disk'["identity"] = Clean(disk["identity"].now)
  BY CommitEffect DEF ServerInv
<1>2. RowsKept(disk["db"], disk'["db"])
  BY <1>1 DEF RowsKept, Exists, Rows
<1>3. IdentityWhole(disk'["identity"])
  BY <1>1, Contents, SMTT(30) DEF ServerInv, IdentityWhole
<1> QED
  BY <1>1, <1>2, <1>3, ProcessMoves DEF IdentityKept

\* One process exits.
LEMMA ProcessExits ==
    ASSUME ServerInv, NEW p \in Processes, Exit(p), UNCHANGED << disk, told, printed >>
    PROVE  ServerInv'
<1>1. ProcShape(Idle) /\ Idle.force \in BOOLEAN /\ Idle.cmd \notin Bootstraps
  BY DEF ProcShape, Idle, Bootstraps
<1>2. RunsOn(Idle, disk)
  BY DEF RunsOn, Idle
<1> QED
  BY <1>1, <1>2, ProcessMovesQuietly DEF Exit

\* The process p has its part of the invariant.
LEMMA ProcessFacts ==
    ASSUME ServerInv, NEW p \in Processes
    PROVE  /\ ProcShape(procs[p]) /\ procs[p].force \in BOOLEAN
           /\ RunsOn(procs[p], disk)
BY DEF ServerInv, ProcsShape

\* A process that does not run.
LEMMA IdleFields ==
    /\ ProcShape(Idle) /\ Idle.force = FALSE /\ Idle.calling = "no"
    /\ Idle.step = "none" /\ Idle.cmd \notin Bootstraps
BY DEF ProcShape, Idle, Bootstraps

\* bootstrap server and bootstrap admin preserve the invariant.
LEMMA BootstrapStep ==
    ASSUME ServerInv, NEW p \in Processes,
           \/ \E force \in BOOLEAN : BootstrapServer(p, force)
           \/ BootstrapAdmin(p) \/ TruncateEnv(p) \/ WriteEnv(p)
           \/ CreateToken(p) \/ PrintToken(p)
    PROVE  ServerInv'
<1>a. ProcShape(procs[p]) /\ procs[p].force \in BOOLEAN /\ RunsOn(procs[p], disk)
  BY ProcessFacts
<1>1. ASSUME NEW force \in BOOLEAN, BootstrapServer(p, force) PROVE ServerInv'
  <2>1. PICK next, key :
          /\ next = [Idle EXCEPT !.cmd = "bootstrap server", !.step = "open",
                                 !.key = key, !.force = force]
          /\ Become(p, next)
    BY <1>1 DEF BootstrapServer
  <2>2. /\ ProcShape(next) /\ next.cmd = "bootstrap server" /\ next.step = "open"
        /\ next.force = force /\ next.calling = Idle.calling
    BY <2>1 DEF ProcShape, Idle
  <2>3. NoBootstrap /\ (force \/ ~Exists(disk["env"])) /\ UNCHANGED << disk, told, printed >>
    BY <1>1 DEF BootstrapServer
  <2>4. RunsOn(next, disk)
    BY <2>2, <2>3, IdleFields DEF RunsOn
  <2> QED
    BY <2>1, <2>2, <2>3, <2>4, ProcessMovesQuietly
<1>2. ASSUME BootstrapAdmin(p) PROVE ServerInv'
  <2>1. PICK next, key :
          /\ next = [Idle EXCEPT !.cmd = "bootstrap admin", !.step = "open", !.key = key]
          /\ Become(p, next)
    BY <1>2 DEF BootstrapAdmin
  <2>2. /\ ProcShape(next) /\ next.cmd = "bootstrap admin" /\ next.step = "open"
        /\ next.force = Idle.force /\ next.calling = Idle.calling
    BY <2>1 DEF ProcShape, Idle
  <2>3. NoBootstrap /\ UNCHANGED << disk, told, printed >>
    BY <1>2 DEF BootstrapAdmin
  <2>4. RunsOn(next, disk) /\ next.force \in BOOLEAN
    BY <2>2, IdleFields DEF RunsOn
  <2> QED
    BY <2>1, <2>2, <2>3, <2>4, ProcessMovesQuietly
<1>3. ASSUME NEW entry, NEW step \in {"write", "token"},
             procs[p].cmd = "bootstrap server", procs[p].step \in {"truncate", "write"},
             disk' = [disk EXCEPT !["env"] = entry], Step(p, step),
             UNCHANGED << told, printed >>
      PROVE  ServerInv'
  <2>1. /\ DiskShape' /\ disk'["identity"] = disk["identity"]
        /\ disk'["db"] = disk["db"]
    BY <1>3, FileStepEffect DEF ServerInv, Files
  <2>2. PICK next : next = [procs[p] EXCEPT !.step = step] /\ Become(p, next)
    BY <1>3 DEF Step
  <2>3. /\ ProcShape(next) /\ next.step = step /\ next.cmd = procs[p].cmd
        /\ next.force = procs[p].force /\ next.calling = procs[p].calling
    BY <1>a, <2>2 DEF ProcShape
  <2>4. RunsOn(next, disk')
    BY <1>3, <1>a, <2>3 DEF RunsOn
  <2>5. IdentityWhole(disk'["identity"])
    BY <2>1 DEF ServerInv
  <2> QED
    BY <1>3, <1>a, <2>1, <2>2, <2>3, <2>4, <2>5, ProcessMoves
    DEF IdentityKept, RowsKept, Bootstraps
<1>4. ASSUME TruncateEnv(p) PROVE ServerInv'
  BY <1>3, <1>4 DEF TruncateEnv, At
<1>5. ASSUME WriteEnv(p) PROVE ServerInv'
  BY <1>3, <1>5 DEF WriteEnv, At
<1>6. ASSUME CreateToken(p) PROVE ServerInv'
  <2>1. PICK next, token :
          /\ next = [procs[p] EXCEPT !.step = "print", !.token = token]
          /\ Become(p, next) /\ Commit(Rows \cup {TokenRow(token, procs[p].key)})
    BY <1>6 DEF CreateToken
  <2>2. /\ ProcShape(next) /\ next.step = "print" /\ next.cmd = procs[p].cmd
        /\ next.key = procs[p].key /\ next.token = token
        /\ next.force = procs[p].force /\ next.calling = procs[p].calling
    BY <1>a, <2>1 DEF ProcShape
  <2>3. PICK rows : rows = Rows \cup {TokenRow(next.token, next.key)} /\ Commit(rows)
    BY <2>1, <2>2
  <2>4. disk'["db"] = Clean(Database(rows))
    BY <2>3, CommitEffect DEF ServerInv
  <2>5. Stored(disk'["db"], TokenRow(next.token, next.key))
    BY <2>3, <2>4, Contents, SMTT(30) DEF Stored
  <2>6. procs[p].step = "token" /\ UNCHANGED << told, printed >>
    BY <1>6 DEF CreateToken
  <2>7. RunsOn(next, disk')
    BY <1>a, <2>2, <2>5, <2>6 DEF RunsOn
  <2> QED
    BY <1>a, <2>1, <2>2, <2>3, <2>6, <2>7, ProcessCommits
<1>7. ASSUME PrintToken(p) PROVE ServerInv'
  <2>1. /\ procs[p].step = "print" /\ Become(p, Idle) /\ UNCHANGED << disk, told >>
        /\ printed' = printed \cup {TokenRow(procs[p].token, procs[p].key)}
    BY <1>7 DEF PrintToken, Exit
  <2>2. Stored(disk'["db"], TokenRow(procs[p].token, procs[p].key))
    BY <1>a, <2>1 DEF RunsOn
  <2>3. ProcShape(Idle) /\ Idle.force \in BOOLEAN /\ Idle.cmd \notin Bootstraps
    BY DEF ProcShape, Idle, Bootstraps
  <2>4. RunsOn(Idle, disk')
    BY DEF RunsOn, Idle
  <2>5. DiskShape' /\ IdentityWhole(disk'["identity"])
    BY <2>1 DEF ServerInv, DiskShape
  <2>6. IdentityKept(disk["identity"], disk'["identity"]) /\ RowsKept(disk["db"], disk'["db"])
    BY <2>1 DEF IdentityKept, RowsKept
  <2> QED
    BY <2>1, <2>2, <2>3, <2>4, <2>5, <2>6, ProcessMoves
<1> QED
  BY <1>1, <1>2, <1>4, <1>5, <1>6, <1>7

\* db.Open and the backup commands preserve the invariant.
LEMMA BackupCommandStep ==
    ASSUME ServerInv, NEW p \in Processes,
           \/ OpenDatabase(p) \/ BackupCreate(p) \/ Snapshot(p) \/ PublishArtifact(p)
           \/ BackupRestore(p) \/ ReadArtifact(p) \/ PublishDatabase(p)
    PROVE  ServerInv'
<1>a. ProcShape(procs[p]) /\ procs[p].force \in BOOLEAN /\ RunsOn(procs[p], disk)
  BY ProcessFacts
<1>1. ASSUME OpenDatabase(p) PROVE ServerInv'
  <2>1. PICK next, rows :
          /\ next = [procs[p] EXCEPT !.step = AfterOpen(procs[p].cmd)]
          /\ Become(p, next) /\ Commit(rows)
          /\ Exists(disk["db"]) => Rows \subseteq rows
    BY <1>1 DEF OpenDatabase, Step
  <2>2. procs[p].step = "open" /\ UNCHANGED << told, printed >>
    BY <1>1 DEF OpenDatabase
  <2>3. /\ ProcShape(next) /\ next.step = AfterOpen(procs[p].cmd)
        /\ next.cmd = procs[p].cmd /\ next.force = procs[p].force
        /\ next.calling = procs[p].calling
    BY <1>a, <2>1 DEF ProcShape
  <2>4. /\ procs[p].cmd \in {"bootstrap server", "bootstrap admin", "serve"}
        /\ procs[p].calling = "no"
        /\ procs[p].cmd = "bootstrap server" => procs[p].force \/ ~Exists(disk["env"])
    BY <1>a, <2>2 DEF RunsOn
  <2>5. next.step \in {"truncate", "token", "identity"}
    BY <2>3, <2>4 DEF AfterOpen
  <2>6. disk'["env"] = disk["env"]
    BY <2>1, CommitEffect DEF ServerInv
  <2>7. RunsOn(next, disk')
    BY <2>3, <2>4, <2>5, <2>6 DEF RunsOn
  <2> QED
    BY <1>a, <2>1, <2>2, <2>3, <2>7, ProcessCommits
<1>2. ASSUME NEW cmd \in {"backup create", "backup restore"},
             NEW step \in {"snapshot", "read"},
             Become(p, [Idle EXCEPT !.cmd = cmd, !.step = step]),
             UNCHANGED << disk, told, printed >>
      PROVE  ServerInv'
  <2>1. PICK next : next = [Idle EXCEPT !.cmd = cmd, !.step = step] /\ Become(p, next)
    BY <1>2
  <2>2. /\ ProcShape(next) /\ next.cmd = cmd /\ next.step = step
        /\ next.force = Idle.force /\ next.calling = Idle.calling
    BY <2>1 DEF ProcShape, Idle
  <2>3. RunsOn(next, disk) /\ next.force \in BOOLEAN /\ next.cmd \notin Bootstraps
    BY <2>2, IdleFields DEF RunsOn, Bootstraps
  <2> QED
    BY <1>2, <2>1, <2>2, <2>3, ProcessMovesQuietly
<1>3. ASSUME procs[p].step \in {"snapshot", "read"}, NEW data,
             Become(p, [procs[p] EXCEPT !.step = "publish", !.data = data]),
             UNCHANGED << disk, told, printed >>
      PROVE  ServerInv'
  <2>1. PICK next : /\ next = [procs[p] EXCEPT !.step = "publish", !.data = data]
                    /\ Become(p, next)
    BY <1>3
  <2>2. /\ ProcShape(next) /\ next.step = "publish" /\ next.cmd = procs[p].cmd
        /\ next.force = procs[p].force /\ next.calling = procs[p].calling
    BY <1>a, <2>1 DEF ProcShape
  <2>3. RunsOn(next, disk)
    BY <1>3, <1>a, <2>2 DEF RunsOn
  <2> QED
    BY <1>3, <1>a, <2>1, <2>2, <2>3, ProcessMovesQuietly
<1>4. ASSUME NEW f \in {"db", "artifact"}, NEW entry, Exit(p),
             f = "db" => disk["db"].now = Absent,
             disk' = [disk EXCEPT ![f] = entry], UNCHANGED << told, printed >>
      PROVE  ServerInv'
  <2>1. /\ DiskShape' /\ disk'["identity"] = disk["identity"]
        /\ disk'["env"] = disk["env"]
        /\ f = "artifact" => disk'["db"] = disk["db"]
    BY <1>4, FileStepEffect DEF ServerInv, Files
  <2>2. RowsKept(disk["db"], disk'["db"])
    BY <1>4, <2>1 DEF RowsKept
  <2>3. IdentityWhole(disk'["identity"]) /\ IdentityKept(disk["identity"], disk'["identity"])
    BY <2>1 DEF ServerInv, IdentityKept
  <2>4. RunsOn(Idle, disk') /\ Idle.force \in BOOLEAN
    BY IdleFields DEF RunsOn, Bootstraps
  <2> QED
    BY <1>4, <2>1, <2>2, <2>3, <2>4, IdleFields, ProcessMoves DEF Exit
<1>5. ASSUME BackupCreate(p) PROVE ServerInv'
  BY <1>2, <1>5 DEF BackupCreate
<1>6. ASSUME Snapshot(p) PROVE ServerInv'
  BY <1>3, <1>6 DEF Snapshot, At
<1>7. ASSUME PublishArtifact(p) PROVE ServerInv'
  <2>1. CASE CanLink(disk["artifact"])
    BY <1>4, <1>7, <2>1 DEF PublishArtifact
  <2>2. CASE ~CanLink(disk["artifact"])
    BY <1>7, <2>2, ProcessExits DEF PublishArtifact
  <2> QED
    BY <2>1, <2>2
<1>8. ASSUME BackupRestore(p) PROVE ServerInv'
  BY <1>2, <1>8 DEF BackupRestore
<1>9. ASSUME ReadArtifact(p) PROVE ServerInv'
  <2>1. CASE Exit(p)
    BY <1>9, <2>1, ProcessExits DEF ReadArtifact
  <2>2. CASE ~Exit(p)
    BY <1>3, <1>9, <2>2 DEF ReadArtifact, At
  <2> QED
    BY <2>1, <2>2
<1>10. ASSUME PublishDatabase(p) PROVE ServerInv'
  <2>1. CASE CanLink(disk["db"])
    BY <1>4, <1>10, <2>1 DEF PublishDatabase, CanLink, Exists
  <2>2. CASE ~CanLink(disk["db"])
    BY <1>10, <2>2, ProcessExits DEF PublishDatabase
  <2> QED
    BY <2>1, <2>2
<1> QED
  BY <1>1, <1>5, <1>6, <1>7, <1>8, <1>9, <1>10

\* serve preserves the invariant.
LEMMA ServeStep ==
    ASSUME ServerInv, NEW p \in Processes,
           \/ Serve(p) \/ LoadIdentity(p) \/ PublishIdentity(p) \/ Listen(p)
           \/ \E kind \in {"unary", "stream"} : AcceptCall(p, kind)
           \/ AnswerStatus(p) \/ AnswerWrite(p) \/ LeaveStream(p)
           \/ Signal(p) \/ GracefulStop(p) \/ Close(p) \/ Kill(p)
    PROVE  ServerInv'
<1>a. ProcShape(procs[p]) /\ procs[p].force \in BOOLEAN /\ RunsOn(procs[p], disk)
  BY ProcessFacts
<1>1. ASSUME Serve(p) PROVE ServerInv'
  <2>1. PICK next, key :
          /\ next = [Idle EXCEPT !.cmd = "serve", !.step = "open", !.key = key]
          /\ Become(p, next)
    BY <1>1 DEF Serve
  <2>2. /\ ProcShape(next) /\ next.cmd = "serve" /\ next.step = "open"
        /\ next.force = Idle.force /\ next.calling = Idle.calling
    BY <2>1 DEF ProcShape, Idle
  <2>3. RunsOn(next, disk) /\ next.force \in BOOLEAN /\ next.cmd \notin Bootstraps
    BY <2>2, IdleFields DEF RunsOn, Bootstraps
  <2> QED
    BY <1>1, <2>1, <2>2, <2>3, ProcessMovesQuietly DEF Serve
<1>2. ASSUME LoadIdentity(p) PROVE ServerInv'
  <2>1. PICK next, step, id :
          /\ next = [procs[p] EXCEPT !.step = step, !.id = id]
          /\ Become(p, next)
          /\ \/ step = "listen" /\ Exists(disk["identity"]) /\ id = disk["identity"].now.id
             \/ step = "publish identity"
    BY <1>2 DEF LoadIdentity
  <2>2. /\ ProcShape(next) /\ next.step = step /\ next.cmd = procs[p].cmd
        /\ next.id = id /\ next.force = procs[p].force
        /\ next.calling = procs[p].calling
    BY <1>a, <2>1 DEF ProcShape
  <2>3. step = "listen" => disk["identity"].now = Identity(id)
    BY <2>1 DEF ServerInv, IdentityWhole, Exists
  <2>4. procs[p].calling = "no" /\ UNCHANGED << disk, told, printed >>
    BY <1>2, <1>a DEF LoadIdentity, At, RunsOn
  <2>5. RunsOn(next, disk)
    BY <2>1, <2>2, <2>3, <2>4 DEF RunsOn
  <2> QED
    BY <1>a, <2>1, <2>2, <2>4, <2>5, ProcessMovesQuietly
<1>3. ASSUME NEW step \in {"identity", "serving", "signalled", "draining"},
             procs[p].step \in {"publish identity", "listen", "serving", "signalled"},
             procs[p].step \in {"publish identity", "listen"} => procs[p].calling = "no",
             procs[p].step = "publish identity" <=> step = "identity",
             Step(p, step), UNCHANGED << disk, told, printed >>
      PROVE  ServerInv'
  <2>1. PICK next : next = [procs[p] EXCEPT !.step = step] /\ Become(p, next)
    BY <1>3 DEF Step
  <2>2. /\ ProcShape(next) /\ next.step = step /\ next.cmd = procs[p].cmd
        /\ next.id = procs[p].id /\ next.force = procs[p].force
        /\ next.calling = procs[p].calling
    BY <1>a, <2>1 DEF ProcShape
  <2>3. RunsOn(next, disk)
    BY <1>3, <1>a, <2>2 DEF RunsOn
  <2> QED
    BY <1>3, <1>a, <2>1, <2>2, <2>3, ProcessMovesQuietly
<1>4. ASSUME PublishIdentity(p) PROVE ServerInv'
  <2>1. CASE ~CanLink(disk["identity"])
    <3>1. /\ procs[p].step = "publish identity" /\ Step(p, "identity")
          /\ UNCHANGED << disk, told, printed >> /\ procs[p].calling = "no"
      BY <1>4, <1>a, <2>1 DEF PublishIdentity, At, RunsOn
    <3> QED
      BY <1>3, <3>1
  <2>2. CASE CanLink(disk["identity"])
    <3>1. PICK next : next = [procs[p] EXCEPT !.step = "listen"] /\ Become(p, next)
      BY <1>4, <2>2 DEF PublishIdentity, Step
    <3>2. /\ ProcShape(next) /\ next.step = "listen" /\ next.cmd = procs[p].cmd
          /\ next.id = procs[p].id /\ next.force = procs[p].force
          /\ next.calling = procs[p].calling
      BY <1>a, <3>1 DEF ProcShape
    <3>3. /\ DiskShape' /\ disk'["db"] = disk["db"] /\ disk'["env"] = disk["env"]
          /\ disk'["identity"] = Link(disk["identity"], Identity(procs[p].id))
      BY <1>4, <2>2, FileStepEffect DEF PublishIdentity, ServerInv, Files
    <3>4. /\ disk'["identity"].now = Identity(procs[p].id)
          /\ disk'["identity"].lost = disk["identity"].lost \cup {Identity(procs[p].id)}
      <4>1. disk'["identity"] = Link(disk["identity"], Identity(procs[p].id))
        BY <3>3
      <4> QED
        BY ONLY <4>1, Linked
    <3>5. IdentityWhole(disk'["identity"])
      <4>1. IdentityWhole(disk["identity"])
        BY DEF ServerInv
      <4> QED
        BY ONLY <3>4, <4>1, LinkedIsWhole
    <3>6. IdentityKept(disk["identity"], disk'["identity"])
      BY <2>2 DEF IdentityKept, CanLink, Exists
    <3>7. procs[p].calling = "no" /\ UNCHANGED << told, printed >>
      BY <1>4, <1>a DEF PublishIdentity, At, RunsOn
    <3>8. RunsOn(next, disk')
      BY <3>2, <3>4, <3>7 DEF RunsOn
    <3> QED
      BY <1>a, <3>1, <3>2, <3>3, <3>5, <3>6, <3>7, <3>8, ProcessMoves DEF RowsKept
  <2> QED
    BY <2>1, <2>2
<1>5. ASSUME Listen(p) PROVE ServerInv'
  <2>1. CASE Exit(p)
    BY <1>5, <2>1, ProcessExits DEF Listen
  <2>2. CASE Step(p, "serving")
    <3>1. procs[p].step = "listen" /\ procs[p].calling = "no"
      BY <1>5, <1>a DEF Listen, At, RunsOn
    <3> QED
      BY <1>3, <1>5, <2>2, <3>1 DEF Listen
  <2> QED
    BY <1>5, <2>1, <2>2 DEF Listen
<1>6. ASSUME NEW kind \in {"unary", "stream"}, AcceptCall(p, kind) PROVE ServerInv'
  <2>1. PICK next : next = [procs[p] EXCEPT !.calling = kind] /\ Become(p, next)
    BY <1>6 DEF AcceptCall
  <2>2. /\ ProcShape(next) /\ next.step = procs[p].step /\ next.cmd = procs[p].cmd
        /\ next.id = procs[p].id /\ next.force = procs[p].force
        /\ next.calling = kind
    BY <1>a, <2>1 DEF ProcShape
  <2>3. /\ procs[p].step \in {"serving", "signalled"} /\ Commit(Rows)
        /\ UNCHANGED << told, printed >>
    BY <1>6 DEF AcceptCall
  <2>4. disk["identity"].now = Identity(procs[p].id)
    BY <1>a, <2>3 DEF RunsOn
  <2>5. disk'["identity"] = Clean(Identity(next.id))
    BY <2>2, <2>3, <2>4, CommitEffect DEF ServerInv
  <2>6. RunsOn(next, disk')
    <3>1. disk'["identity"].now = Identity(next.id)
      BY <2>5, CleanIdentity
    <3>2. next.step \in {"serving", "signalled"} /\ next.calling # "no"
      BY <2>2, <2>3
    <3> QED
      BY <2>5, <3>1, <3>2 DEF RunsOn
  <2> QED
    BY <1>a, <2>1, <2>2, <2>3, <2>6, ProcessCommits
<1>7. ASSUME NEW next, next = [procs[p] EXCEPT !.calling = "no"],
             procs[p].calling # "no"
      PROVE  /\ ProcShape(next) /\ next.cmd = procs[p].cmd /\ next.id = procs[p].id
             /\ next.force = procs[p].force
             /\ RunsOn(next, disk)
             /\ disk["identity"] = Clean(Identity(procs[p].id))
  <2>1. /\ ProcShape(next) /\ next.step = procs[p].step /\ next.cmd = procs[p].cmd
        /\ next.id = procs[p].id /\ next.force = procs[p].force
        /\ next.calling = "no"
    BY <1>7, <1>a DEF ProcShape
  <2>2. /\ procs[p].step \in {"serving", "signalled", "draining"}
        /\ disk["identity"] = Clean(Identity(procs[p].id))
    BY <1>7, <1>a DEF RunsOn
  <2>3. RunsOn(next, disk)
    <3>1. disk["identity"].now = Identity(procs[p].id)
      BY <2>2, CleanIdentity
    <3> QED
      BY <2>1, <2>2, <3>1 DEF RunsOn
  <2> QED
    BY <2>1, <2>2, <2>3
<1>8. ASSUME AnswerStatus(p) PROVE ServerInv'
  <2>1. PICK next : next = [procs[p] EXCEPT !.calling = "no"] /\ Become(p, next)
    BY <1>8 DEF AnswerStatus
  <2>2. procs[p].calling # "no" /\ told' = procs[p].id /\ UNCHANGED << disk, printed >>
    BY <1>8 DEF AnswerStatus
  <2>3. /\ ProcShape(next) /\ next.cmd = procs[p].cmd /\ next.force = procs[p].force
        /\ RunsOn(next, disk) /\ disk["identity"] = Clean(Identity(procs[p].id))
    BY <1>7, <2>1, <2>2
  <2>4. /\ DiskShape' /\ IdentityWhole(disk'["identity"])
        /\ IdentityKept(disk["identity"], disk'["identity"])
        /\ RowsKept(disk["db"], disk'["db"])
    BY <2>2 DEF ServerInv, DiskShape, IdentityKept, RowsKept
  <2> QED
    BY <1>a, <2>1, <2>2, <2>3, <2>4, ProcessMoves
<1>9. ASSUME AnswerWrite(p) PROVE ServerInv'
  <2>1. PICK next, rows :
          /\ next = [procs[p] EXCEPT !.calling = "no"] /\ Become(p, next)
          /\ Rows \subseteq rows /\ Commit(rows)
    BY <1>9 DEF AnswerWrite
  <2>2. procs[p].calling # "no" /\ UNCHANGED << told, printed >>
    BY <1>9 DEF AnswerWrite
  <2>3. /\ ProcShape(next) /\ next.cmd = procs[p].cmd /\ next.force = procs[p].force
        /\ RunsOn(next, disk)
    BY <1>7, <2>1, <2>2
  <2>4. /\ disk'["env"] = disk["env"] /\ disk'["db"] = Clean(Database(rows))
        /\ disk'["identity"] = Clean(disk["identity"].now)
    BY <2>1, CommitEffect DEF ServerInv
  <2>5. RunsOn(next, disk')
    BY <2>1, <2>3, <2>4, RunsOnKept DEF IdentityKept, RowsKept, Rows
  <2> QED
    BY <1>a, <2>1, <2>2, <2>3, <2>5, ProcessCommits
<1>10. ASSUME LeaveStream(p) PROVE ServerInv'
  <2>1. PICK next : next = [procs[p] EXCEPT !.calling = "no"] /\ Become(p, next)
    BY <1>10 DEF LeaveStream
  <2>2. procs[p].calling # "no" /\ UNCHANGED << disk, told, printed >>
    BY <1>10 DEF LeaveStream
  <2>3. /\ ProcShape(next) /\ next.cmd = procs[p].cmd /\ next.force = procs[p].force
        /\ RunsOn(next, disk)
    BY <1>7, <2>1, <2>2
  <2> QED
    BY <1>a, <2>1, <2>2, <2>3, ProcessMovesQuietly
<1>11. ASSUME Signal(p) PROVE ServerInv'
  BY <1>3, <1>11 DEF Signal
<1>12. ASSUME GracefulStop(p) PROVE ServerInv'
  BY <1>3, <1>12 DEF GracefulStop
<1>13. ASSUME Close(p) \/ Kill(p) PROVE ServerInv'
  BY <1>13, ProcessExits DEF Close, Kill
<1> QED
  BY <1>1, <1>2, <1>4, <1>5, <1>6, <1>8, <1>9, <1>10, <1>11, <1>12, <1>13

\* After a power loss no process runs; what was told and printed was durable.
LEMMA PowerLossStep == ASSUME ServerInv, PowerLoss PROVE ServerInv'
<1>1. DiskShape' /\ \A f \in Files : \E content \in disk[f].lost : disk'[f] = Clean(content)
  BY PowerLossEffect DEF ServerInv
<1>2. procs' = [p \in Processes |-> Idle] /\ UNCHANGED << told, printed >>
  BY DEF PowerLoss
<1>3. \A p \in Processes : procs'[p] = Idle
  BY <1>2
<1>4. ProcsShape' /\ Alone' /\ \A p \in Processes : procs'[p].force \in BOOLEAN
  <2>1. ProcsShape'
    BY <1>2, <1>3, IdleFields DEF ProcsShape
  <2>2. Alone'
    BY <1>3, IdleFields DEF Alone
  <2> QED
    BY <1>3, <2>1, <2>2, IdleFields
<1>5. PICK identity \in disk["identity"].lost : disk'["identity"] = Clean(identity)
  BY <1>1 DEF Files
<1>6. PICK db \in disk["db"].lost : disk'["db"] = Clean(db)
  BY <1>1 DEF Files
<1>7. IdentityWhole(disk'["identity"])
  BY <1>5, Contents, SMTT(30) DEF ServerInv, IdentityWhole
<1>8. told # 0 => disk'["identity"] = Clean(Identity(told))
  <2> SUFFICES ASSUME told # 0 PROVE disk'["identity"] = Clean(Identity(told))
    OBVIOUS
  <2>1. disk["identity"] = Clean(Identity(told))
    BY DEF ServerInv
  <2>2. disk["identity"].lost = {Identity(told)}
    BY <2>1, CleanIdentity
  <2> QED
    BY <1>5, <2>2
<1>9. \A t \in printed : Stored(disk'["db"], t)
  <2> SUFFICES ASSUME NEW t \in printed PROVE Stored(disk'["db"], t)
    OBVIOUS
  <2>1. Stored(disk["db"], t)
    BY DEF ServerInv
  <2>2. disk["db"] = Clean(disk["db"].now)
    BY <2>1 DEF Stored
  <2>3. disk["db"].lost = {disk["db"].now}
    BY <2>2, Contents
  <2> QED
    BY <1>6, <2>1, <2>2, <2>3
<1>10. \A p \in Processes : RunsOn(procs'[p], disk')
  BY <1>3, IdleFields DEF RunsOn, Bootstraps
<1> QED
  BY <1>1, <1>2, <1>4, <1>7, <1>8, <1>9, <1>10 DEF ServerInv

\* The operator loses the database while nothing runs.
LEMMA LoseDatabaseStep ==
    ASSUME ServerInv, NEW identityToo \in BOOLEAN, LoseDatabase(identityToo)
    PROVE  ServerInv'
<1>1. /\ DiskShape'
      /\ disk'["identity"] = IF identityToo THEN Clean(Absent) ELSE disk["identity"]
  BY LoseDatabaseEffect DEF ServerInv
<1>2. /\ \A p \in Processes : procs[p] = Idle
      /\ procs' = procs /\ printed' = {}
      /\ told' = IF identityToo THEN 0 ELSE told
  BY DEF LoseDatabase
<1>3. ProcsShape' /\ Alone' /\ \A p \in Processes : procs'[p].force \in BOOLEAN
  BY <1>2 DEF ServerInv, ProcsShape, Alone
<1>4. IdentityWhole(disk'["identity"])
  BY <1>1, Contents, SMTT(30) DEF ServerInv, IdentityWhole
<1>5. told' # 0 => disk'["identity"] = Clean(Identity(told'))
  BY <1>1, <1>2 DEF ServerInv
<1>6. \A p \in Processes : RunsOn(procs'[p], disk')
  BY <1>2, IdleFields DEF RunsOn, Bootstraps
<1> QED
  BY <1>1, <1>2, <1>3, <1>4, <1>5, <1>6 DEF ServerInv

\* Every step on the control plane's host preserves the invariant.
LEMMA ServerStep == ServerInv /\ [ControlNext]_controlVars => ServerInv'
<1> SUFFICES ASSUME ServerInv, [ControlNext]_controlVars PROVE ServerInv'
  OBVIOUS
<1>1. ASSUME NEW p \in Processes, ControlStep(p) PROVE ServerInv'
  BY <1>1, BootstrapStep, BackupCommandStep, ServeStep DEF ControlStep
<1>2. CASE UNCHANGED controlVars
  BY <1>2 DEF controlVars, ServerInv, DiskShape, ProcsShape, Alone
<1> QED
  BY <1>1, <1>2, PowerLossStep, LoseDatabaseStep DEF ControlNext

\* The invariant holds in every state.
LEMMA ServerInvariant == HostSpec => []ServerInv
<1>1. HostInit => ServerInv
  <2> SUFFICES ASSUME HostInit PROVE ServerInv
    OBVIOUS
  <2>1. /\ DiskShape /\ disk["identity"] = Clean(Absent) /\ told = 0
        /\ procs = [p \in Processes |-> Idle]
    BY DEF HostInit, ControlInit, DiskShape, Files
  <2>2. \A p \in Processes : procs[p] = Idle
    BY <2>1
  <2>3. \A t \in printed : Stored(disk["db"], t)
    <3>1. CASE printed = {}
      BY <3>1
    <3>2. CASE /\ printed = {TokenRow(1, 1)}
               /\ disk["db"] = Clean(Database({TokenRow(1, 1)}))
      BY <3>2, Contents, SMTT(30) DEF Stored
    <3> QED
      BY <3>1, <3>2 DEF HostInit, ControlInit, Files
  <2>4. IdentityWhole(disk["identity"])
    BY <2>1, Contents DEF IdentityWhole
  <2>5. ProcsShape /\ Alone /\ \A p \in Processes : procs[p].force \in BOOLEAN
    BY <2>1, <2>2, IdleFields DEF ProcsShape, Alone
  <2>6. \A p \in Processes : RunsOn(procs[p], disk)
    BY <2>2, IdleFields DEF RunsOn, Bootstraps
  <2> QED
    BY <2>1, <2>3, <2>4, <2>5, <2>6 DEF ServerInv
<1> QED
  BY <1>1, ControlPlaneSteps, ServerStep, PTL DEF HostSpec

\* The identity a client was told is the one on the disk, whatever is killed,
\* restarted or switched off.
THEOREM IdentityIsStable == HostSpec => []IdentityStable
<1>1. ServerInv => IdentityStable
  <2> SUFFICES ASSUME ServerInv, told # 0 PROVE disk["identity"].now = Identity(told)
    BY DEF IdentityStable
  <2>1. disk["identity"] = Clean(Identity(told))
    BY DEF ServerInv
  <2> QED
    BY <2>1, CleanIdentity
<1> QED
  BY <1>1, ServerInvariant, PTL

\* A token that was printed has its row in the database until that is lost.
THEOREM PrintedTokensWork == HostSpec => []PrintedTokenWorks
<1>1. ServerInv => PrintedTokenWorks
  <2> SUFFICES ASSUME ServerInv, NEW t \in printed
               PROVE  Exists(disk["db"]) /\ t \in Rows
    BY DEF PrintedTokenWorks
  <2>1. Stored(disk["db"], t)
    BY DEF ServerInv
  <2> QED
    BY <2>1, Contents DEF Stored, Exists, Rows
<1> QED
  BY <1>1, ServerInvariant, PTL

\* No command takes away what another one stored, however they interleave; a
\* bootstrap without --force included.
THEOREM NothingIsReplaced == HostSpec => NothingReplaced
<1>1. ServerInv /\ [ControlNext]_controlVars =>
        [ \A f \in Files : Replaced(f) =>
            \/ PowerLoss
            \/ \E identityToo \in BOOLEAN : LoseDatabase(identityToo)
            \/ /\ f = "env"
               /\ \E p \in Processes :
                     \/ At(p, "bootstrap server", "truncate") /\ procs[p].force
                     \/ At(p, "bootstrap server", "write") ]_controlVars
  <2> SUFFICES ASSUME ServerInv, ControlNext, NEW f \in Files, Replaced(f), ~PowerLoss,
                      ~\E identityToo \in BOOLEAN : LoseDatabase(identityToo)
               PROVE  /\ f = "env"
                      /\ \E p \in Processes :
                            \/ At(p, "bootstrap server", "truncate") /\ procs[p].force
                            \/ At(p, "bootstrap server", "write")
    OBVIOUS
  <2>a. DiskShape
    BY DEF ServerInv
  <2>b. Exists(disk[f]) /\ disk'[f].now # disk[f].now
    BY DEF Replaced
  <2>1. PICK p \in Processes : ControlStep(p)
    BY DEF ControlNext
  <2>2. ASSUME disk' = disk PROVE FALSE
    BY <2>2, <2>b
  <2>3. ASSUME NEW rows, Commit(rows), Exists(disk["db"]) => Rows \subseteq rows
        PROVE  FALSE
    <3>1. /\ disk'["env"] = disk["env"] /\ disk'["artifact"] = disk["artifact"]
          /\ disk'["db"] = Clean(Database(rows))
          /\ disk'["identity"] = Clean(disk["identity"].now)
      BY <2>3, <2>a, CommitEffect
    <3>2. disk'["identity"].now = disk["identity"].now
      BY <3>1, Contents, SMTT(30)
    <3>3. disk'["db"].now = Database(rows)
      BY <3>1, Contents
    <3>4. f = "db"
      BY <2>b, <3>1, <3>2 DEF Files
    <3>5. Database(rows).kind = "db" /\ Database(rows).rows = rows
      BY DEF Database
    <3> QED
      BY <2>3, <2>b, <3>3, <3>4, <3>5 DEF Replaced
  <2>4. ASSUME NEW g \in Files, NEW entry, disk' = [disk EXCEPT ![g] = entry]
        PROVE  f = g
    BY <2>4, <2>a, <2>b, FileStepEffect
  <2>5. CASE TruncateEnv(p)
    <3>1. f = "env"
      BY <2>4, <2>5 DEF TruncateEnv, Files
    <3>2. At(p, "bootstrap server", "truncate")
      BY <2>5 DEF TruncateEnv
    <3>3. procs[p].force \/ ~Exists(disk["env"])
      BY <3>2 DEF At, ServerInv, RunsOn
    <3> QED
      BY <2>b, <3>1, <3>2, <3>3
  <2>6. CASE WriteEnv(p)
    <3>1. f = "env"
      BY <2>4, <2>6 DEF WriteEnv, Files
    <3> QED
      BY <2>6, <3>1 DEF WriteEnv
  <2>7. CASE Quiet(p)
    BY <2>2, <2>7, QuietEffect
  <2>8. CASE OpenDatabase(p)
    <3>1. PICK rows : Commit(rows) /\ (Exists(disk["db"]) => Rows \subseteq rows)
      BY <2>8 DEF OpenDatabase
    <3> QED
      BY <2>3, <3>1
  <2>9. CASE \/ CreateToken(p) \/ AnswerWrite(p)
             \/ \E kind \in {"unary", "stream"} : AcceptCall(p, kind)
    <3>1. PICK rows : Commit(rows) /\ Rows \subseteq rows
      BY <2>9 DEF CreateToken, AnswerWrite, AcceptCall
    <3> QED
      BY <2>3, <3>1
  <2>10. ASSUME NEW g \in Files, NEW content,
                IF CanLink(disk[g])
                THEN disk' = [disk EXCEPT ![g] = Link(disk[g], content)]
                ELSE disk' = disk
         PROVE  FALSE
    BY <2>10, <2>2, <2>4, <2>b DEF CanLink
  <2>11. CASE PublishArtifact(p)
    BY <2>10, <2>11 DEF PublishArtifact, Files
  <2>12. CASE PublishDatabase(p)
    BY <2>10, <2>12 DEF PublishDatabase, Files
  <2>13. CASE PublishIdentity(p)
    BY <2>10, <2>13 DEF PublishIdentity, Files
  <2> QED
    BY <2>1, <2>5, <2>6, <2>7, <2>8, <2>9, <2>11, <2>12, <2>13 DEF ControlStep, Quiet
<1> QED
  BY <1>1, ServerInvariant, ControlPlaneSteps, PTL DEF HostSpec, NothingReplaced
=============================================================================
