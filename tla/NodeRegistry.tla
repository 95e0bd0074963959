---------------------------- MODULE NodeRegistry ----------------------------
(***************************************************************************)
(* The node service (internal/server/node.go): enrolment, heartbeats,      *)
(* worker bootstrap, drain, uncordon, removal, purge and rename of nodes,  *)
(* the offline monitor, and the agent that calls them.  Handlers hold no   *)
(* lock: every database statement, Kubernetes call and WireGuard command   *)
(* batch is a step of its own, and a handler works on the row it read      *)
(* first.  A key names one run of `deployer-agent join`: the key pair it   *)
(* generates and the agent token it is given.                              *)
(***************************************************************************)
EXTENDS PeerAddress, FiniteSets

CONSTANTS
    Names, Ids, Keys, Tokens,   \* node names and ids, agents, join tokens
    Callers,                    \* handlers
    Loads,                      \* the loads a behaviour may be under: the RPCs
                                \* it receives and whether time passes and the
                                \* control plane restarts, whether handlers run
                                \* one at a time, how many names they use
    Faults,                     \* whether a handler may fail half way
    NoKey, NoId, NoName, NoToken, NoCall

ASSUME RegistryAssumption ==
    /\ NoKey \notin Keys /\ NoId \notin Ids /\ NoToken \notin Tokens
    /\ Faults \in BOOLEAN

VARIABLES
    load,         \* the load of this behaviour
    rows,         \* nodes table: name, status, address, key and last heartbeat
    issued,       \* ids newID has produced
    joinTokens,   \* node_join_tokens table
    agentTokens,  \* agent_tokens table, by the agent that holds the token
    agents,       \* the agent processes, and the join token each one used
    booted,       \* agents whose join-k3s succeeded
    kube,         \* Kubernetes Nodes by name
    hub,          \* peers of the hub interface: <<key, address>>
    pinned,       \* ids that retained local storage is pinned to
    calls,        \* handlers in flight
    monitor       \* nodes the offline monitor is about to mark

vars == << load, rows, issued, joinTokens, agentTokens, agents, booted, kube, hub,
           pinned, calls, monitor >>
tokenVars == << joinTokens, agentTokens >>
agentVars == << agents, booted >>
clusterVars == << kube, hub, pinned >>

Absent == [present |-> FALSE, cordoned |-> FALSE, label |-> NoId]

\* What stands in rows for an id that has no row.
NoRow == [name |-> NoName, status |-> "none", ip |-> NoIP, key |-> NoKey, seen |-> "never"]

Known(id) == id \in Ids /\ rows[id] # NoRow
FindByName(n) ==
    IF \E id \in Ids : Known(id) /\ rows[id].name = n
    THEN CHOOSE id \in Ids : Known(id) /\ rows[id].name = n
    ELSE NoId
Find(id) == IF Known(id) THEN rows[id] ELSE NoRow

\* Mutant of Unique: the index on the addresses is missing.
UniqueNames(id, row) ==
    \A j \in Ids \ {id} : Known(j) => rows[j].name # row.name

\* The UNIQUE constraints of the nodes table.
Unique(id, row) ==
    \A j \in Ids \ {id} : Known(j) =>
        /\ rows[j].name # row.name
        /\ row.ip # NoIP => rows[j].ip # row.ip
        /\ row.key # NoKey => rows[j].key # row.key

\* Mutant of DesiredPeers: only nodes that are online stay peers.
OnlinePeers(skip) ==
    {<<rows[id].key, rows[id].ip>> : id \in
        {i \in Ids \ {skip} : Known(i) /\ rows[i].status = "online"
                                       /\ rows[i].key # NoKey}}

\* The peers SyncPeers wants, of every row but the one of skip.
DesiredPeers(skip) ==
    {<<rows[id].key, rows[id].ip>> : id \in
        {i \in Ids \ {skip} : Known(i) /\ rows[i].status # "removed"
                                       /\ rows[i].key # NoKey}}

Init ==
    /\ load \in Loads
    /\ rows = [id \in Ids |-> NoRow]
    /\ issued = {}
    /\ joinTokens = [t \in Tokens |-> [name |-> NoName, state |-> "unissued"]]
    /\ agentTokens = [k \in Keys |-> [node |-> NoId, state |-> "none"]]
    /\ agents = [k \in Keys |-> [state |-> "new", token |-> NoToken]]
    /\ booted = {}
    /\ kube = [n \in Names |-> Absent]
    /\ hub = {}
    /\ pinned = {}
    /\ calls = [c \in Callers |-> NoCall]
    /\ monitor = {}

---------------------------------------------------------------------------
(* The handlers' common steps.                                             *)

\* The RPC reaches the server, and a handler starts.
Accepts(c, op) ==
    /\ calls[c] = NoCall
    /\ op \in load.operations
    /\ load.alone => \A d \in Callers : calls[d] = NoCall

\* The handler of an RPC reads the row of id and goes on at a step.
Begin(c, op, at, n, id) ==
    /\ Accepts(c, op)
    /\ calls' = [calls EXCEPT ![c] =
         [op |-> op, at |-> at, name |-> n, id |-> id, row |-> Find(id),
          ip |-> IF Known(id) THEN rows[id].ip ELSE NoIP,
          key |-> NoKey, token |-> NoToken, to |-> n, peers |-> {}, shown |-> {}]]
At(c, op, at) == calls[c] # NoCall /\ calls[c].op = op /\ calls[c].at = at
AtAny(c, ops, at) == \E op \in ops : At(c, op, at)
Go(c, at) == calls' = [calls EXCEPT ![c].at = at]
End(c) == calls' = [calls EXCEPT ![c] = NoCall]

\* UPDATE nodes ... WHERE id: the row must exist and the indexes accept it.
Update(id, row) ==
    /\ Known(id)
    /\ Unique(id, row)
    /\ rows' = [rows EXCEPT ![id] = row]

SetWireGuard(id, ip, key) == Update(id, [rows[id] EXCEPT !.ip = ip, !.key = key])
UpdateStatus(id, status) == Update(id, [rows[id] EXCEPT !.status = status])
UpdateHeartbeat(id, status) ==
    Update(id, [rows[id] EXCEPT !.status = status, !.seen = "fresh"])

\* The handler returns an error: its context is cancelled, a call fails, or a
\* statement is refused.  An agent that was joining is left without a token.
Dropped(c) ==
    agents' = [k \in Keys |->
        IF calls[c].op = "join" /\ calls[c].key = k
        THEN [agents[k] EXCEPT !.state = "failed"] ELSE agents[k]]
WrittenKey(call) ==
    CASE call.op = "join" /\ call.at = "peer" -> call.key
      [] call.op = "token" /\ call.at = "assign" -> call.row.key
      [] OTHER -> NoKey
Refused(c) ==
    LET call == calls[c] IN
    \/ call.at \in {"create", "assign", "peer", "unpeer"}
       /\ ~Unique(call.id, [name |-> call.name, ip |-> call.ip, key |-> WrittenKey(call)])
    \/ call.at \in {"assign", "peer", "unpeer", "online", "beat", "drained",
                    "schedulable", "mark", "rename", "delete"}
       /\ ~Known(call.id)
    \/ call.at = "rename" /\ FindByName(call.to) # NoId
    \/ call.at = "consume" /\ joinTokens[call.token].state # "open"
    \/ call.at \in {"cordon", "uncordon"} /\ ~kube[call.name].present
    \/ call.at = "kube" /\ kube[call.name].present /\ kube[call.name].label \in pinned
    \/ call.at = "store" /\ \A t \in Tokens : joinTokens[t].state # "unissued"
    \/ call.at = "create" /\ Ids = issued
Abort(c) ==
    /\ calls[c] # NoCall
    /\ Faults \/ Refused(c)
    /\ Dropped(c)
    /\ End(c)
    /\ UNCHANGED << rows, issued, booted, monitor >>
    /\ UNCHANGED << tokenVars, clusterVars >>

---------------------------------------------------------------------------
(* Enrolment.                                                              *)

CreateJoinToken(c, n) ==
    LET id == FindByName(n) IN
    /\ id # NoId => rows[id].status = "pending"
    /\ Cardinality(({joinTokens[t].name : t \in Tokens} \ {NoName}) \cup {n}) <= load.names
    /\ Begin(c, "token", IF id # NoId /\ rows[id].ip # NoIP THEN "store" ELSE "allocate",
             n, id)
    /\ UNCHANGED << rows, issued, monitor, agentVars, tokenVars, clusterVars >>

\* allocateWireGuardIP, for a token and for an enrolment.
Allocate(c) ==
    LET ip == NextPeerIP({rows[id].ip : id \in {i \in Ids : Known(i)}}) IN
    /\ AtAny(c, {"token", "join"}, "allocate")
    /\ IF ip = NoIP
       THEN Dropped(c) /\ End(c)
       ELSE /\ calls' = [calls EXCEPT ![c].ip = ip,
                 ![c].at = IF calls[c].op = "token" THEN "store" ELSE "peer"]
            /\ UNCHANGED agents
    /\ UNCHANGED << rows, issued, booted, monitor, tokenVars, clusterVars >>

StoreToken(c) ==
    /\ At(c, "token", "store")
    /\ \E t \in Tokens :
         /\ joinTokens[t].state = "unissued"
         /\ joinTokens' = [joinTokens EXCEPT ![t] =
                             [name |-> calls[c].name, state |-> "open"]]
    /\ CASE calls[c].id = NoId -> Go(c, "create")
         [] calls[c].id # NoId /\ calls[c].row.ip = NoIP -> Go(c, "assign")
         [] OTHER -> End(c)
    /\ UNCHANGED << rows, issued, monitor, agentTokens, agentVars, clusterVars >>

\* nodes.Create: with the allocated address in CreateJoinToken, without one in
\* enrollNode.
CreateRow(c) ==
    LET row == [name |-> calls[c].name, status |-> "pending", ip |-> calls[c].ip,
                key |-> NoKey, seen |-> "never"]
    IN
    /\ AtAny(c, {"token", "join"}, "create")
    /\ \E id \in Ids \ issued :
         /\ Unique(id, row)
         /\ rows' = [rows EXCEPT ![id] = row]
         /\ issued' = issued \cup {id}
         /\ IF calls[c].op = "token"
            THEN End(c)
            ELSE calls' = [calls EXCEPT ![c].id = id, ![c].row = row, ![c].at = "allocate"]
    /\ UNCHANGED << monitor, agentVars, tokenVars, clusterVars >>

AssignAddress(c) ==
    /\ At(c, "token", "assign")
    /\ SetWireGuard(calls[c].id, calls[c].ip, calls[c].row.key)
    /\ End(c)
    /\ UNCHANGED << issued, monitor, agentVars, tokenVars, clusterVars >>

\* deployer-agent join: a fresh key pair, then JoinNode with a token that is
\* neither used nor expired.
JoinNode(c, k, t) ==
    /\ Accepts(c, "join")
    /\ agents[k].state = "new"
    /\ joinTokens[t].state = "open"
    /\ agents' = [agents EXCEPT ![k].state = "joining"]
    /\ calls' = [calls EXCEPT ![c] =
         [op |-> "join", at |-> "find", name |-> joinTokens[t].name, id |-> NoId,
          row |-> NoRow, ip |-> NoIP, key |-> k, token |-> t,
          to |-> joinTokens[t].name, peers |-> {}, shown |-> {}]]
    /\ UNCHANGED << rows, issued, booted, monitor, tokenVars, clusterVars >>

EnrollFind(c) ==
    LET id == FindByName(calls[c].name) IN
    /\ At(c, "join", "find")
    /\ CASE id = NoId -> Go(c, "create") /\ UNCHANGED agents
         [] id # NoId /\ rows[id].status = "removed" -> Dropped(c) /\ End(c)
         [] OTHER ->
              /\ calls' = [calls EXCEPT ![c].id = id, ![c].row = rows[id],
                             ![c].ip = rows[id].ip,
                             ![c].at = IF rows[id].ip = NoIP THEN "allocate" ELSE "peer"]
              /\ UNCHANGED agents
    /\ UNCHANGED << rows, issued, booted, monitor, tokenVars, clusterVars >>

EnrollPeer(c) ==
    /\ At(c, "join", "peer")
    /\ SetWireGuard(calls[c].id, calls[c].ip, calls[c].key)
    /\ Go(c, "online")
    /\ UNCHANGED << issued, monitor, agentVars, tokenVars, clusterVars >>

EnrollOnline(c) ==
    /\ At(c, "join", "online")
    /\ UpdateHeartbeat(calls[c].id, "online")
    /\ Go(c, "agent")
    /\ UNCHANGED << issued, monitor, agentVars, tokenVars, clusterVars >>

EnrollToken(c) ==
    /\ At(c, "join", "agent")
    /\ agentTokens' = [agentTokens EXCEPT ![calls[c].key] =
                         [node |-> calls[c].id, state |-> "live"]]
    /\ Go(c, "consume")
    /\ UNCHANGED << rows, issued, monitor, joinTokens, agentVars, clusterVars >>

\* Mutant of Consume: the update does not repeat the check that the token is
\* unused.
ConsumeAgain(c) ==
    /\ At(c, "join", "consume")
    /\ joinTokens[calls[c].token].state \in {"open", "used"}
    /\ joinTokens' = [joinTokens EXCEPT ![calls[c].token].state = "used"]
    /\ agents' = [agents EXCEPT ![calls[c].key] =
                    [state |-> "joined", token |-> calls[c].token]]
    /\ End(c)
    /\ UNCHANGED << rows, issued, booted, monitor, agentTokens, clusterVars >>

\* The token is consumed last, by a compare-and-set; the agent then stores its
\* credential.
Consume(c) ==
    /\ At(c, "join", "consume")
    /\ joinTokens[calls[c].token].state = "open"
    /\ joinTokens' = [joinTokens EXCEPT ![calls[c].token].state = "used"]
    /\ agents' = [agents EXCEPT ![calls[c].key] =
                    [state |-> "joined", token |-> calls[c].token]]
    /\ End(c)
    /\ UNCHANGED << rows, issued, booted, monitor, agentTokens, clusterVars >>

---------------------------------------------------------------------------
(* The agent's calls: the heartbeat loop and the worker bootstrap.         *)

\* Authenticator.authenticate for an agent token; the run loop exits when its
\* token is refused.
Authenticate(c, k, op) ==
    /\ agents[k].state = "joined"
    /\ op = "bootstrap" => k \notin booted
    /\ Accepts(c, op)
    /\ IF agentTokens[k].state = "live"
       THEN /\ calls' = [calls EXCEPT ![c] =
                 [op |-> op, at |-> "read", name |-> NoName, id |-> agentTokens[k].node,
                  row |-> NoRow, ip |-> NoIP, key |-> k, token |-> NoToken,
                  to |-> NoName, peers |-> {}, shown |-> {}]]
            /\ UNCHANGED agents
       ELSE /\ op = "heartbeat"
            /\ agents' = [agents EXCEPT ![k].state = "stopped"]
            /\ UNCHANGED calls
    /\ UNCHANGED << rows, issued, booted, monitor, tokenVars, clusterVars >>

\* A missing row is answered NotFound, which the loop retries; a removed node
\* is answered PermissionDenied, on which it exits.
HeartbeatRead(c) ==
    LET id == calls[c].id IN
    /\ At(c, "heartbeat", "read")
    /\ IF Known(id) /\ rows[id].status # "removed"
       THEN /\ calls' = [calls EXCEPT ![c].row = rows[id], ![c].name = rows[id].name,
                                      ![c].at = "beat"]
            /\ UNCHANGED agents
       ELSE /\ agents' = IF Known(id)
                         THEN [agents EXCEPT ![calls[c].key].state = "stopped"]
                         ELSE agents
            /\ End(c)
    /\ UNCHANGED << rows, issued, booted, monitor, tokenVars, clusterVars >>

HeartbeatWrite(c) ==
    /\ At(c, "heartbeat", "beat")
    /\ UpdateHeartbeat(calls[c].id,
                       IF calls[c].row.status = "drained" THEN "drained" ELSE "online")
    /\ Go(c, "label")
    /\ UNCHANGED << issued, monitor, agentVars, tokenVars, clusterVars >>

SyncNodeLabels(c) ==
    LET n == calls[c].name IN
    /\ At(c, "heartbeat", "label")
    /\ kube' = IF kube[n].present THEN [kube EXCEPT ![n].label = calls[c].id] ELSE kube
    /\ End(c)
    /\ UNCHANGED << rows, issued, monitor, hub, pinned, agentVars, tokenVars >>

BootstrapRead(c) ==
    LET id == calls[c].id IN
    /\ At(c, "bootstrap", "read")
    /\ IF Known(id) /\ rows[id].status # "removed" /\ rows[id].ip # NoIP
       THEN calls' = [calls EXCEPT ![c].row = rows[id], ![c].name = rows[id].name,
                                   ![c].at = "list"]
       ELSE End(c)
    /\ UNCHANGED << rows, issued, monitor, agentVars, tokenVars, clusterVars >>

\* The k3s worker joins the cluster under the name in the bootstrap material.
RegisterWorker(c) ==
    LET n == calls[c].name IN
    /\ At(c, "bootstrap", "register")
    /\ kube' = IF kube[n].present THEN kube
               ELSE [kube EXCEPT ![n] = [Absent EXCEPT !.present = TRUE]]
    /\ booted' = booted \cup {calls[c].key}
    /\ End(c)
    /\ UNCHANGED << rows, issued, monitor, agents, hub, pinned, tokenVars >>

---------------------------------------------------------------------------
(* HubController.SyncPeers: nodes are listed, the hub's peers are shown,   *)
(* those not wanted are removed, and the wanted ones are set.  Setting an  *)
(* address takes it from any other peer.                                   *)

Syncing == {"bootstrap", "remove", "purge"}
KeysOf(peers) == {p[1] : p \in peers}
AddressesOf(peers) == {p[2] : p \in peers}

ListPeers(c) ==
    /\ AtAny(c, Syncing, "list")
    /\ calls' = [calls EXCEPT
         ![c].peers = DesiredPeers(IF calls[c].op = "purge" THEN calls[c].id ELSE NoId),
         ![c].at = "show"]
    /\ UNCHANGED << rows, issued, monitor, agentVars, tokenVars, clusterVars >>

ShowPeers(c) ==
    /\ AtAny(c, Syncing, "show")
    /\ calls' = [calls EXCEPT ![c].shown = KeysOf(hub), ![c].at = "apply"]
    /\ UNCHANGED << rows, issued, monitor, agentVars, tokenVars, clusterVars >>

Applied(removed, set) ==
    {<<p[1], IF p[2] \in AddressesOf(set) THEN NoIP ELSE p[2]>> :
        p \in {q \in hub : q[1] \notin removed \cup KeysOf(set)}} \cup set

ApplyPeers(c) ==
    /\ AtAny(c, Syncing, "apply")
    /\ hub' = Applied(calls[c].shown \ KeysOf(calls[c].peers), calls[c].peers)
    /\ Go(c, CASE calls[c].op = "bootstrap" -> "register"
               [] calls[c].op = "remove" -> "reply"
               [] OTHER -> "agents")
    /\ UNCHANGED << rows, issued, monitor, kube, pinned, agentVars, tokenVars >>

\* A command fails: only some of the removals, or all of them and some of the
\* settings, were done.
ApplyPartly(c) ==
    LET stale == calls[c].shown \ KeysOf(calls[c].peers) IN
    /\ AtAny(c, Syncing, "apply")
    /\ Faults
    /\ \E removed \in SUBSET stale, set \in SUBSET calls[c].peers :
         /\ set # {} => removed = stale
         /\ hub' = Applied(removed, set)
    /\ End(c)
    /\ UNCHANGED << rows, issued, monitor, kube, pinned, agentVars, tokenVars >>

---------------------------------------------------------------------------
(* The operator's calls.                                                   *)

DrainNode(c, n) ==
    LET id == FindByName(n) IN
    /\ id # NoId /\ rows[id].status # "removed"
    /\ Begin(c, "drain", "cordon", n, id)
    /\ UNCHANGED << rows, issued, monitor, agentVars, tokenVars, clusterVars >>

UncordonNode(c, n) ==
    LET id == FindByName(n) IN
    /\ id # NoId /\ rows[id].status # "removed"
    /\ Begin(c, "uncordon", "uncordon", n, id)
    /\ UNCHANGED << rows, issued, monitor, agentVars, tokenVars, clusterVars >>

\* setNodeUnschedulable; what DrainNode evicts is not modelled, and its refusal
\* to evict a database instance is an Abort after this step.
SetNodeUnschedulable(c) ==
    LET n == calls[c].name
        cordon == calls[c].op = "drain"
    IN
    /\ AtAny(c, {"drain", "uncordon"}, IF cordon THEN "cordon" ELSE "uncordon")
    /\ kube[n].present
    /\ kube' = [kube EXCEPT ![n].cordoned = cordon]
    /\ Go(c, IF cordon THEN "drained" ELSE "schedulable")
    /\ UNCHANGED << rows, issued, monitor, hub, pinned, agentVars, tokenVars >>

MarkDrained(c) ==
    /\ At(c, "drain", "drained")
    /\ IF calls[c].row.status = "drained"
       THEN UNCHANGED rows
       ELSE UpdateStatus(calls[c].id, "drained")
    /\ End(c)
    /\ UNCHANGED << issued, monitor, agentVars, tokenVars, clusterVars >>

\* Whether the heartbeat that was read is still recent is judged after the
\* Kubernetes call: by then it may have grown old.
MarkSchedulable(c) ==
    /\ At(c, "uncordon", "schedulable")
    /\ \E status \in {"offline"} \cup
                     {s \in {"online"} : calls[c].row.seen = "fresh"} :
         IF calls[c].row.status = status
         THEN UNCHANGED rows
         ELSE UpdateStatus(calls[c].id, status)
    /\ End(c)
    /\ UNCHANGED << issued, monitor, agentVars, tokenVars, clusterVars >>

\* Mutant of RemoveNode: the retained storage of the node is not looked at.
RemoveNodeUnguarded(c, n) ==
    LET id == FindByName(n) IN
    /\ id # NoId
    /\ Begin(c, "remove", IF rows[id].status = "removed" THEN "kube" ELSE "revoke", n, id)
    /\ UNCHANGED << rows, issued, monitor, agentVars, tokenVars, clusterVars >>

\* A node that is removed already has only its cluster state cleaned up again.
RemoveNode(c, n) ==
    LET id == FindByName(n) IN
    /\ id # NoId
    /\ rows[id].status # "removed" => id \notin pinned
    /\ Begin(c, "remove", IF rows[id].status = "removed" THEN "kube" ELSE "revoke", n, id)
    /\ UNCHANGED << rows, issued, monitor, agentVars, tokenVars, clusterVars >>

PurgeNode(c, n) ==
    LET id == FindByName(n) IN
    /\ id # NoId /\ rows[id].status \in {"pending", "removed"}
    /\ id \notin pinned
    /\ Begin(c, "purge", "revoke", n, id)
    /\ UNCHANGED << rows, issued, monitor, agentVars, tokenVars, clusterVars >>

\* Mutant of RevokeTokens: the peer is not disabled before the row is marked.
RevokeTokensOnly(c) ==
    /\ AtAny(c, {"remove", "purge"}, "revoke")
    /\ agentTokens' = [k \in Keys |->
         IF agentTokens[k].node = calls[c].id /\ agentTokens[k].state = "live"
         THEN [agentTokens[k] EXCEPT !.state = "revoked"] ELSE agentTokens[k]]
    /\ Go(c, IF calls[c].op = "remove" THEN "mark" ELSE "kube")
    /\ UNCHANGED << rows, issued, monitor, joinTokens, agentVars, clusterVars >>

RevokeTokens(c) ==
    /\ AtAny(c, {"remove", "purge"}, "revoke")
    /\ agentTokens' = [k \in Keys |->
         IF agentTokens[k].node = calls[c].id /\ agentTokens[k].state = "live"
         THEN [agentTokens[k] EXCEPT !.state = "revoked"] ELSE agentTokens[k]]
    /\ Go(c, IF calls[c].op = "remove" THEN "unpeer" ELSE "kube")
    /\ UNCHANGED << rows, issued, monitor, joinTokens, agentVars, clusterVars >>

\* The address that was read is kept, the key is cleared.
DisablePeer(c) ==
    /\ At(c, "remove", "unpeer")
    /\ SetWireGuard(calls[c].id, calls[c].row.ip, NoKey)
    /\ Go(c, "mark")
    /\ UNCHANGED << issued, monitor, agentVars, tokenVars, clusterVars >>

MarkRemoved(c) ==
    /\ At(c, "remove", "mark")
    /\ UpdateStatus(calls[c].id, "removed")
    /\ Go(c, "kube")
    /\ UNCHANGED << issued, monitor, agentVars, tokenVars, clusterVars >>

\* Controller.RemoveNode checks the storage of the id on the Kubernetes label.
RemoveKubeNode(c) ==
    LET n == calls[c].name IN
    /\ AtAny(c, {"remove", "purge"}, "kube")
    /\ kube[n].present => kube[n].label \notin pinned
    /\ kube' = [kube EXCEPT ![n] = Absent]
    /\ Go(c, "list")
    /\ UNCHANGED << rows, issued, monitor, hub, pinned, agentVars, tokenVars >>

\* nodeWithReadiness, read-only.
ReplyRemoved(c) ==
    /\ At(c, "remove", "reply")
    /\ End(c)
    /\ UNCHANGED << rows, issued, monitor, agentVars, tokenVars, clusterVars >>

DeleteAgentTokens(c) ==
    /\ At(c, "purge", "agents")
    /\ agentTokens' = [k \in Keys |->
         IF agentTokens[k].node = calls[c].id
         THEN [agentTokens[k] EXCEPT !.state = "deleted"] ELSE agentTokens[k]]
    /\ Go(c, "tokens")
    /\ UNCHANGED << rows, issued, monitor, joinTokens, agentVars, clusterVars >>

DeletedTokens(n) ==
    [t \in Tokens |-> IF joinTokens[t].name = n
                      THEN [joinTokens[t] EXCEPT !.state = "deleted"] ELSE joinTokens[t]]

DeleteJoinTokens(c) ==
    /\ AtAny(c, {"purge", "rename"}, "tokens")
    /\ joinTokens' = DeletedTokens(calls[c].name)
    /\ IF calls[c].op = "purge" THEN Go(c, "delete") ELSE End(c)
    /\ UNCHANGED << rows, issued, monitor, agentTokens, agentVars, clusterVars >>

DeleteRow(c) ==
    /\ At(c, "purge", "delete")
    /\ Known(calls[c].id)
    /\ rows' = [rows EXCEPT ![calls[c].id] = NoRow]
    /\ End(c)
    /\ UNCHANGED << issued, monitor, agentVars, tokenVars, clusterVars >>

RenameNode(c, n, to) ==
    LET id == FindByName(n) IN
    /\ n # to
    /\ id # NoId /\ rows[id].status \in {"pending", "removed"}
    /\ FindByName(to) = NoId
    /\ Accepts(c, "rename")
    /\ calls' = [calls EXCEPT ![c] =
         [op |-> "rename", at |-> "rename", name |-> n, id |-> id, row |-> rows[id],
          ip |-> NoIP, key |-> NoKey, token |-> NoToken, to |-> to,
          peers |-> {}, shown |-> {}]]
    /\ UNCHANGED << rows, issued, monitor, agentVars, tokenVars, clusterVars >>

RenameRow(c) ==
    /\ At(c, "rename", "rename")
    /\ Known(calls[c].id)
    /\ Update(calls[c].id, [rows[calls[c].id] EXCEPT !.name = calls[c].to])
    /\ Go(c, "tokens")
    /\ UNCHANGED << issued, monitor, agentVars, tokenVars, clusterVars >>

---------------------------------------------------------------------------
(* Everything that is not an RPC.                                          *)

\* MarkOfflineNodes lists the nodes, then marks the ones that were online and
\* silent; a row that is gone ends the pass.
MonitorList ==
    /\ monitor = {}
    /\ monitor' = {id \in Ids : Known(id) /\ rows[id].status = "online"
                                          /\ rows[id].seen = "stale"}
    /\ monitor' # {}
    /\ UNCHANGED << rows, issued, calls, agentVars, tokenVars, clusterVars >>

MonitorMark(id) ==
    /\ id \in monitor
    /\ IF Known(id)
       THEN UpdateStatus(id, "offline") /\ monitor' = monitor \ {id}
       ELSE UNCHANGED rows /\ monitor' = {}
    /\ UNCHANGED << issued, calls, agentVars, tokenVars, clusterVars >>

\* DEPLOYER_NODE_OFFLINE_AFTER passes since the node's last heartbeat.
Silence(id) ==
    /\ "clock" \in load.operations
    /\ Known(id) /\ rows[id].seen = "fresh"
    /\ rows' = [rows EXCEPT ![id].seen = "stale"]
    /\ UNCHANGED << issued, calls, monitor, agentVars, tokenVars, clusterVars >>

Expire(t) ==
    /\ "clock" \in load.operations
    /\ joinTokens[t].state = "open"
    /\ joinTokens' = [joinTokens EXCEPT ![t].state = "expired"]
    /\ UNCHANGED << rows, issued, calls, monitor, agentTokens, agentVars, clusterVars >>

\* A deployment, which is an RPC of its own, pins its retained storage to the
\* node that carries the id's label.
PinStorage(c, id) ==
    /\ Accepts(c, "pin")
    /\ Known(id) /\ rows[id].status = "online"
    /\ kube[rows[id].name].present /\ kube[rows[id].name].label = id
    /\ pinned' = pinned \cup {id}
    /\ UNCHANGED << rows, issued, calls, monitor, kube, hub, agentVars, tokenVars >>

\* The control plane restarts: the handlers are gone, and restoreHubPeers runs
\* before the first RPC is accepted.
Restart ==
    /\ "restart" \in load.operations
    /\ calls' = [c \in Callers |-> NoCall]
    /\ monitor' = {}
    /\ agents' = [k \in Keys |-> IF agents[k].state = "joining"
                                 THEN [agents[k] EXCEPT !.state = "failed"] ELSE agents[k]]
    /\ hub' = DesiredPeers(NoId)
    /\ UNCHANGED << rows, issued, booted, kube, pinned, tokenVars >>

Handler(c) ==
    \/ Allocate(c) \/ StoreToken(c) \/ CreateRow(c) \/ AssignAddress(c)
    \/ EnrollFind(c) \/ EnrollPeer(c) \/ EnrollOnline(c) \/ EnrollToken(c) \/ Consume(c)
    \/ HeartbeatRead(c) \/ HeartbeatWrite(c) \/ SyncNodeLabels(c)
    \/ BootstrapRead(c) \/ RegisterWorker(c)
    \/ ListPeers(c) \/ ShowPeers(c) \/ ApplyPeers(c) \/ ApplyPartly(c)
    \/ SetNodeUnschedulable(c) \/ MarkDrained(c) \/ MarkSchedulable(c)
    \/ RevokeTokens(c) \/ DisablePeer(c) \/ MarkRemoved(c) \/ RemoveKubeNode(c)
    \/ ReplyRemoved(c) \/ DeleteAgentTokens(c) \/ DeleteJoinTokens(c) \/ DeleteRow(c)
    \/ RenameRow(c) \/ Abort(c)

Request(c) ==
    \/ \E n \in Names : \/ CreateJoinToken(c, n) \/ DrainNode(c, n) \/ UncordonNode(c, n)
                        \/ RemoveNode(c, n) \/ PurgeNode(c, n)
                        \/ \E to \in Names : RenameNode(c, n, to)
    \/ \E k \in Keys, t \in Tokens : JoinNode(c, k, t)
    \/ \E k \in Keys, op \in {"heartbeat", "bootstrap"} : Authenticate(c, k, op)
    \/ \E id \in Ids : PinStorage(c, id)

Next ==
    /\ \/ \E c \in Callers : Request(c) \/ Handler(c)
       \/ MonitorList
       \/ \E id \in Ids : MonitorMark(id) \/ Silence(id)
       \/ \E t \in Tokens : Expire(t)
       \/ Restart
    /\ UNCHANGED load

Spec == Init /\ [][Next]_vars

---------------------------------------------------------------------------
\* However enrolments, removals and renames interleave, no two nodes share a
\* name, a WireGuard address or a key, the hub's address is never given to a
\* node, and a node with a key has an address: a single row that broke the last
\* would make every SyncPeers fail.
PeersDistinct ==
    \A i, j \in Ids : Known(i) /\ Known(j) =>
        /\ i # j => rows[i].name # rows[j].name
        /\ i # j /\ rows[i].ip # NoIP => rows[i].ip # rows[j].ip
        /\ i # j /\ rows[i].key # NoKey => rows[i].key # rows[j].key
        /\ rows[i].ip # HubIP
        /\ rows[i].key # NoKey => rows[i].ip # NoIP

\* A join token admits one agent: of two JoinNode calls that both enrolled with
\* it, Consume lets only one answer with a credential.
TokenAdmitsOnce ==
    \A k, l \in Keys :
        agents[k].token # NoToken /\ agents[k].token = agents[l].token => k = l

\* Calls that come one at a time and may fail half way leave a removed node
\* without a peer key and without a usable agent token: RemoveNode marks the
\* row last.
RemovedIsCutOff ==
    \A id \in Ids : Known(id) /\ rows[id].status = "removed" =>
        /\ rows[id].key = NoKey
        /\ \A k \in Keys : agentTokens[k].node = id => agentTokens[k].state # "live"

\* A worker that was bootstrapped stays a peer of the hub for as long as its
\* key is the one on a row that is not removed, through drains, silence,
\* failed synchronisations and restarts.
WorkerStaysReachable ==
    \A id \in Ids : Known(id) /\ rows[id].status # "removed" /\ rows[id].key \in booted =>
        <<rows[id].key, rows[id].ip>> \in hub

\* A node that holds retained storage keeps its row and its Kubernetes Node.
StorageKeepsItsNode ==
    \A id \in pinned : Known(id) /\ rows[id].status # "removed"

=============================================================================
