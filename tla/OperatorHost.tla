---------------------------- MODULE OperatorHost -----------------------------
(***************************************************************************)
(* The operator's host: invocations of the deployer command line client.   *)
(* login and "contexts use" rewrite the configuration file; every other  *)
(* command selects a context from it, verifies the identity the context is *)
(* bound to, and makes its call.  An endpoint may change hands at any      *)
(* time, and the control plane may be one that reports no identity.        *)
(***************************************************************************)
EXTENDS HostFiles

CONSTANTS
    Invocations,        \* processes of the client
    Names, NoName,      \* context names
    Endpoints, NoUrl,   \* server URLs
    Installations,      \* control planes
    Reporting,          \* those that report an identity
    NoIdentity,
    FirstServer,        \* the one that has the endpoints at first
    MaxMoves            \* bound on endpoints that change hands

ASSUME InstallationsAssumption ==
    Reporting \subseteq Installations /\ FirstServer \in Installations

VARIABLES
    config,     \* content of the configuration file
    servers,    \* the installation behind each endpoint
    moves,      \* endpoints that changed hands so far
    cli         \* the invocations

operatorVars == << config, servers, moves, cli >>

ReportedIdentity(s) == IF s \in Reporting THEN s ELSE NoIdentity

NoContext == [url |-> NoUrl, identity |-> NoIdentity]
EmptyConfig == [kind |-> "config", legacy |-> NoUrl, current |-> NoName,
                contexts |-> [n \in Names |-> NoContext]]

\* LoadConfig: a file that does not exist is an empty configuration to its
\* callers, one that does not parse stops the command.
Loads == config # Torn
LoadConfig == IF config = Absent THEN EmptyConfig ELSE config

-----------------------------------------------------------------------------
(* The commands, by the call they make, what is read between the           *)
(* verification and the call, and which outcomes end them with status 0.   *)
(* What a call does on the server is the subject of the other modules.  A  *)
(* file that deploy, preflight or environment create reads before all that *)
(* only keeps the command from starting.                                   *)

Command(calls, input, zero) ==
    [calls |-> calls, input |-> input, zero |-> zero]

\* A withdrawn deployment ends with status 1, unless the output is JSON.
Deploy(json) == Command({"DeployApp"}, "none",
                    IF json THEN {"done", "withdrawn"} ELSE {"done"})
\* NotFound is success: the application was already absent.
Delete == Command({"DeleteApp"}, "none", {"done", "absent"})
AppsRequestAction(action) ==
    Command({CASE action = "request" -> "GetDeployRequest"
               [] action = "advance" -> "AdvanceDeployRequest"
               [] action = "recover" -> "RecoverDeployRequest"},
            "none", {"done"})
\* The configuration file, the credentials file or the secret is read late.
AppsWithdraw == Command({"WithdrawDeployRequest"}, "value", {"done"})
RegistryCreate == Command({"CreateRegistryCredential"}, "value", {"done"})
SecretsSet == Command({"SetSecret"}, "value", {"done"})
\* Without --yes the operator is asked.
SecretsRemove == Command({"DeleteSecret"}, "confirmation", {"done"})
NodesRemove == Command({"RemoveNode"}, "confirmation", {"done"})
NodesPurge == Command({"PurgeNode"}, "confirmation", {"done"})
EnvironmentCreate == Command({"CreateEnvironmentBundle"}, "none", {"done"})
NodesAdd == Command({"CreateJoinToken"}, "none", {"done"})
NodesDrain == Command({"DrainNode"}, "none", {"done"})
NodesUncordon == Command({"UncordonNode"}, "none", {"done"})
NodesRename == Command({"RenameNode"}, "none", {"done"})
\* Commands that only read.
AppsList == Command({"ListApps"}, "none", {"done"})
AppsInspect == Command({"InspectApp"}, "none", {"done"})
AppStatus == Command({"GetAppStatus"}, "none", {"done"})
NodesList == Command({"ListNodes"}, "none", {"done"})
NodesInspect == Command({"GetNode"}, "none", {"done"})
SecretsList == Command({"ListSecrets"}, "none", {"done"})
RegistryList == Command({"ListRegistryCredentials"}, "none", {"done"})
RoutesList == Command({"ListRoutes"}, "none", {"done"})
RoutesInspect == Command({"InspectRoute"}, "none", {"done"})
Preflight == Command({"PreflightApp"}, "none", {"done"})
ServerStatus == Command({"GetStatus"}, "none", {"done"})
\* A stream that the operator interrupts is no failure.
Events == Command({"ListEvents"}, "none", {"done"})
EventsWatch == Command({"WatchEvents"}, "none", {"done", "interrupted"})
Logs == Command({"StreamLogs"}, "none", {"done", "interrupted"})
\* Several calls, until one fails; that the routes cannot be listed is only a
\* warning.
Doctor == Command({"GetStatus", "ListNodes", "ListRoutes"}, "none",
                  {"done", "warned"})
\* Calls that fail are findings; it always has unresolved ones.
HostingDoctor == Command({"GetStatus", "ListNodes", "ListRoutes", "ListApps",
                          "GetAppStatus"}, "none", {})

\* dispatch
Commands ==
    {Deploy(json) : json \in BOOLEAN}
    \cup {AppsRequestAction(a) : a \in {"request", "advance", "recover"}}
    \cup {Delete, AppsWithdraw, AppsList, AppsInspect, AppStatus, NodesAdd,
          NodesList, NodesInspect, NodesDrain, NodesUncordon, NodesRemove,
          NodesPurge, NodesRename, SecretsSet, SecretsList, SecretsRemove,
          RegistryCreate, RegistryList, EnvironmentCreate, RoutesList,
          RoutesInspect, Preflight, ServerStatus, Events, EventsWatch, Logs,
          Doctor, HostingDoctor}

\* What the client's steps tell apart of a command.
Flow(command) ==
    [input |-> command.input, zero |-> command.zero,
     many |-> Cardinality(command.calls) > 1]
Flows == {Flow(command) : command \in Commands}
NoFlow == [input |-> "none", zero |-> {}, many |-> FALSE]

NotInvoked == [step |-> "none", flow |-> NoFlow, name |-> NoName,
         url |-> NoUrl, bound |-> NoIdentity, moved |-> FALSE,
         reached |-> {}, succeeds |-> FALSE, saves |-> Absent,
         rebind |-> FALSE, stale |-> FALSE]

Becomes(c, invocation) == cli' = [cli EXCEPT ![c] = invocation]
Ends(c) == Becomes(c, NotInvoked)

OperatorInit ==
    /\ config = Absent
    /\ servers = [url \in Endpoints |-> FirstServer]
    /\ moves = 0
    /\ cli = [c \in Invocations |-> NotInvoked]

-----------------------------------------------------------------------------
(* Commands that call the control plane *)

AfterVerification(flow) ==
    IF flow.input = "none" THEN "send" ELSE "input"

\* resolveRuntimeOptions, for the context named by --context or by
\* DEPLOYER_CONTEXT, or the current one.  It has its own endpoint, which
\* --server may not override; without a context the default is the legacy
\* endpoint.  One such command runs at a time: they share nothing but the
\* configuration, which they only read.
Invoke(c, flow, name, url) ==
    /\ cli[c] = NotInvoked
    /\ \A d \in Invocations : cli[d].flow = NoFlow
    /\ Loads
    /\ LET selected == IF name # NoName THEN name ELSE LoadConfig.current
           context == IF selected # NoName THEN LoadConfig.contexts[selected]
                      ELSE [url |-> IF url # NoUrl THEN url
                                                   ELSE LoadConfig.legacy,
                            identity |-> NoIdentity]
       IN /\ selected # NoName => url = NoUrl
          /\ context.url # NoUrl
          /\ Becomes(c, [NotInvoked EXCEPT
                !.flow = flow,
                !.url = context.url,
                !.bound = context.identity,
                !.step = IF context.identity # NoIdentity
                         THEN "verify" ELSE AfterVerification(flow)])
    /\ UNCHANGED << config, servers, moves >>

\* Mutant of VerifyServerIdentity: a server without an identity is accepted.
VerifyIfReported(c) ==
    /\ cli[c].step = "verify"
    /\ IF ReportedIdentity(servers[cli[c].url]) \in {cli[c].bound, NoIdentity}
       THEN Becomes(c, [cli[c] EXCEPT
                           !.step = AfterVerification(cli[c].flow)])
       ELSE Ends(c)
    /\ UNCHANGED << config, servers, moves >>

VerifyServerIdentity(c) ==
    /\ cli[c].step = "verify"
    /\ IF ReportedIdentity(servers[cli[c].url]) = cli[c].bound
       THEN Becomes(c, [cli[c] EXCEPT
                           !.step = AfterVerification(cli[c].flow)])
       ELSE Ends(c)
    /\ UNCHANGED << config, servers, moves >>

\* The file, the secret or the confirmation; any answer but yes declines.
ReadInput(c) ==
    /\ cli[c].step = "input"
    /\ \/ Becomes(c, [cli[c] EXCEPT !.step = "send"])
       \/ cli[c].flow.input = "confirmation" /\ Ends(c)
    /\ UNCHANGED << config, servers, moves >>

\* How a call ends.  "refused": with an error.  "lost": it may have been
\* carried out, but the answer did not come within the client's ten seconds.
Outcomes(flow) == {"done", "refused", "lost"} \cup flow.zero

\* The call is carried out by whoever has the endpoint now: the connection
\* that was verified is re-established when it breaks.
Send(c) ==
    /\ cli[c].step = "send"
    /\ LET flow == cli[c].flow
           reached == cli[c].reached \cup {servers[cli[c].url]} IN
       \E outcome \in Outcomes(flow) :
           /\ outcome = "warned" => cli[c].reached # {}
           /\ Becomes(c,
                IF flow.many /\ (outcome = "done" \/ flow.zero = {})
                THEN [cli[c] EXCEPT !.reached = reached]
                ELSE [NotInvoked EXCEPT !.step = "ended", !.reached = reached,
                         !.bound = cli[c].bound, !.moved = cli[c].moved,
                         !.succeeds = outcome \in flow.zero])
    /\ UNCHANGED << config, servers, moves >>

\* doctor has made its last call; the status tells what it found.
DoctorReport(c) ==
    /\ cli[c].step = "send" /\ cli[c].reached # {}
    /\ \E sound \in BOOLEAN :
           Becomes(c, [NotInvoked EXCEPT
                          !.step = "ended", !.reached = cli[c].reached,
                          !.bound = cli[c].bound, !.moved = cli[c].moved,
                          !.succeeds = sound /\ cli[c].flow.zero # {}])
    /\ UNCHANGED << config, servers, moves >>

-----------------------------------------------------------------------------
(* login, contexts use *)

\* login: the server's status is asked for before the file is read.
Login(c, name, url, rebind) ==
    /\ cli[c] = NotInvoked
    /\ Becomes(c, [NotInvoked EXCEPT !.step = "load", !.name = name, !.url = url,
                    !.rebind = rebind,
                    !.bound = ReportedIdentity(servers[url])])
    /\ UNCHANGED << config, servers, moves >>

LoggedIn(c) ==
    IF cli[c].name # NoName
    THEN [LoadConfig EXCEPT
             !.contexts[cli[c].name] = [url |-> cli[c].url,
                                        identity |-> cli[c].bound],
             !.current = cli[c].name]
    ELSE [LoadConfig EXCEPT !.legacy = cli[c].url, !.current = NoName]

Refused(c) ==
    /\ cli[c].name # NoName
    /\ LoadConfig.contexts[cli[c].name].identity \notin {NoIdentity, cli[c].bound}
    /\ ~cli[c].rebind

\* Mutant of LoginLoad: only a different identity is refused, not a missing
\* one.
LoginLoadIfReported(c) ==
    /\ cli[c].step = "load"
    /\ IF Loads /\ ~(Refused(c) /\ cli[c].bound # NoIdentity)
       THEN Becomes(c, [cli[c] EXCEPT !.step = "save",
                                     !.saves = LoggedIn(c)])
       ELSE Ends(c)
    /\ UNCHANGED << config, servers, moves >>

\* The binding of the named context is checked, and the new configuration
\* put together.
LoginLoad(c) ==
    /\ cli[c].step = "load"
    /\ IF Loads /\ ~Refused(c)
       THEN Becomes(c, [cli[c] EXCEPT !.step = "save",
                                     !.saves = LoggedIn(c)])
       ELSE Ends(c)
    /\ UNCHANGED << config, servers, moves >>

UseContext(c, name) ==
    /\ cli[c] = NotInvoked
    /\ Loads /\ config # Absent
    /\ name # NoName => LoadConfig.contexts[name] # NoContext
    /\ Becomes(c, [NotInvoked EXCEPT !.step = "save", !.name = name,
                    !.saves = [LoadConfig EXCEPT !.current = name]])
    /\ UNCHANGED << config, servers, moves >>

Saving(c) == cli[c].step = "save"

\* SaveConfig renames a synced temporary file.
SaveConfig(c) ==
    /\ Saving(c)
    /\ config' = Rename(Clean(config), cli[c].saves).now
    /\ cli' = [d \in Invocations |->
                 IF d = c THEN NotInvoked ELSE [cli[d] EXCEPT !.stale = Saving(d)]]
    /\ UNCHANGED << servers, moves >>

-----------------------------------------------------------------------------
(* The environment *)

\* The client ends, with an error or because it was interrupted.
End(c) ==
    /\ cli[c] # NotInvoked
    /\ Ends(c)
    /\ UNCHANGED << config, servers, moves >>

\* Another installation takes over an endpoint.
MoveEndpoint(url, s) ==
    /\ moves < MaxMoves
    /\ servers[url] # s
    /\ servers' = [servers EXCEPT ![url] = s]
    /\ moves' = moves + 1
    /\ cli' = [c \in Invocations |->
                 IF cli[c].url = url /\ cli[c].step \in {"input", "send"}
                 THEN [cli[c] EXCEPT !.moved = TRUE] ELSE cli[c]]
    /\ UNCHANGED config

OperatorStep(c) ==
    \/ \E flow \in Flows, name \in Names \cup {NoName},
          url \in Endpoints \cup {NoUrl} : Invoke(c, flow, name, url)
    \/ VerifyServerIdentity(c) \/ ReadInput(c) \/ Send(c) \/ DoctorReport(c)
    \/ \E name \in Names \cup {NoName}, url \in Endpoints, rebind \in BOOLEAN :
          Login(c, name, url, rebind)
    \/ LoginLoad(c)
    \/ \E name \in Names \cup {NoName} : UseContext(c, name)
    \/ SaveConfig(c) \/ End(c)

OperatorNext ==
    \/ \E c \in Invocations : OperatorStep(c)
    \/ \E url \in Endpoints, s \in Installations : MoveEndpoint(url, s)

-----------------------------------------------------------------------------
(* Properties *)

\* A command under a bound context makes its calls to the installation the
\* context is bound to and to no other, and one that ends with status 0 has
\* made them: also when another login moved the context to a different server
\* meanwhile, or when the server reports no identity.  What escapes is an
\* endpoint that changes hands between the verification and the call; a
\* command that the operator declined has made none.
BoundCommandHolds ==
    \A c \in Invocations :
        cli[c].bound # NoIdentity /\ ~cli[c].moved =>
            /\ cli[c].reached \subseteq {cli[c].bound}
            /\ cli[c].succeeds => cli[c].reached = {cli[c].bound}

BindingOf(content, n) ==
    IF content.kind = "config" THEN content.contexts[n].identity ELSE NoIdentity

\* A context that is bound stays bound to that identity, and its file stays
\* whole, until a login with --rebind-server-identity replaces it; the one
\* exception is a client that read the file before another one saved it.
BindingKept ==
    [][ \A n \in Names :
          /\ BindingOf(config, n) # NoIdentity
          /\ BindingOf(config', n) # BindingOf(config, n)
          => \E c \in Invocations :
                /\ Saving(c)
                /\ cli[c].stale \/ (cli[c].name = n /\ cli[c].rebind) ]_operatorVars
=============================================================================
