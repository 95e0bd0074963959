------------------------- MODULE CandidateOperation -------------------------
(* The coordinator of candidate deployments (internal/server/candidate_*.go)  *)
(* between the journal (CandidateJournal) and the cluster: the application's  *)
(* Service (ActivationGate), one workload per candidate generation beside the *)
(* legacy one, and the application's Ingress.                                 *)
(*                                                                            *)
(* An RPC holds its application's mutation lock (AppMutationLock) from its    *)
(* first step to its return, so an application has at most one call in        *)
(* progress; call[a] is its program counter and its local variables.  A step  *)
(* is one call to the API server or one transaction.  A read followed by a    *)
(* conditional write of what was read is one step.                            *)
EXTENDS CandidateJournal, ActivationGate

CONSTANTS
    NoRequest,      \* no request: an idle call, a Service without annotation
    NoSpec,         \* the content of a Service that does not exist
    NoTarget,       \* no captured target
    MaxLate,        \* writes that may be under way without a caller
    MaxRevision     \* resourceVersions handed out

Owners == Apps \cup Requests
GateRecords == [uid : 0 .. MaxRevision, version : 0 .. MaxRevision, op : Operations(Owners)]
TargetRecords == [sel : Selectors(Owners), port : {c.port : c \in Configs}]
IntentRecords == [requested : Configs, gate : GateRecords, target : TargetRecords]
SpecRecords ==
    [op : Operations(Owners), target : TargetRecords, boot : Requests \cup {NoRequest}, marked : BOOLEAN]

(* What the coordinator serializes into gate_json and intent_json. *)
ASSUME OperationAssumption ==
    /\ Apps \cap Requests = {}
    /\ NoRequest \notin Requests
    /\ NoSpec \notin SpecRecords
    /\ MaxLate \in Nat /\ MaxRevision \in Nat \ {0}
    /\ Gates = GateRecords
    /\ Intents = IntentRecords

VARIABLES
    service,        \* the Service of each application: uid, version, spec
    revision,       \* the last resourceVersion handed out
    pods,           \* the workload of each generation, and of each legacy application
    ingress,        \* the host of each application's Ingress, NoDomain without one
    late,           \* writes whose caller is gone and that may still arrive
    call            \* the call in progress on each application

serviceVars == <<service, revision>>
clusterVars == <<serviceVars, pods, ingress, late>>
vars == <<journalVars, clusterVars, call>>

Idle == [at |-> "idle", kind |-> "none", req |-> NoRequest, gate |-> NoGate, target |-> NoTarget]
Absent == [uid |-> 0, version |-> 0, spec |-> NoSpec]
(* An existing workload is its candidate's own (candidateDeploymentMatches)   *)
(* or the tombstone of its retirement; nothing else writes it.                *)
Running == {"starting", "ready"}
Retiring == {"draining", "retired"}

(* Applications deployed before candidates existed are served by their legacy workload. *)
OpInit ==
    /\ Init
    /\ service = [a \in Apps |->
          IF a \notin live THEN Absent
          ELSE [uid |-> 1, version |-> 1,
                spec |-> [op |-> NoOperation(a), target |-> Target(Legacy(a), desired[a].port),
                          boot |-> NoRequest, marked |-> FALSE]]]
    /\ revision = 1
    /\ pods = [x \in Apps \cup Requests |-> IF x \in live THEN "ready" ELSE "absent"]
    /\ ingress = route
    /\ late = {}
    /\ call = [a \in Apps |-> Idle]

-----------------------------------------------------------------------------
(* The program counter and the locals of a call *)

At(a, label) == call[a].at = label
Req(a) == call[a].req
Withdrawing(a) == call[a].kind = "recover"
Goto(a, label) == call' = [call EXCEPT ![a].at = label]
Hold(a, label, g, t) == call' = [call EXCEPT ![a].at = label, ![a].gate = g, ![a].target = t]
Return(a) == call' = [call EXCEPT ![a] = Idle]

-----------------------------------------------------------------------------
(* Writes to the API server.  A write is performed and its reply received, or *)
(* its reply never arrives: the call fails, and the write may be performed at *)
(* any later time, also after the server restarted.                           *)

ServiceWrite(a, body) == [kind |-> "service", of |-> a, body |-> body]
PodWrite(kind, x) == [kind |-> kind, of |-> x, body |-> Absent]

Perform(w) ==
    \/ /\ w.kind = "service"
       /\ Accepts(service[w.of], w.body)
       /\ revision < MaxRevision
       /\ service' = [service EXCEPT ![w.of] = Written(@, w.body, revision + 1)]
       /\ revision' = IF service' = service THEN revision ELSE revision + 1
       /\ UNCHANGED pods
    \/ /\ w.kind = "start" /\ pods[w.of] = "absent"
       /\ pods' = [pods EXCEPT ![w.of] = "starting"]
       /\ UNCHANGED serviceVars
    \/ /\ \/ w.kind = "tombstone" /\ pods[w.of] = "absent"
          \/ w.kind = "retire" /\ pods[w.of] \in Running
       /\ pods' = [pods EXCEPT ![w.of] = "draining"]
       /\ UNCHANGED serviceVars

(* Of two equal writes only the first to arrive has an effect. *)
Lose(a, w) ==
    /\ Cardinality(late) < MaxLate
    /\ w \notin late
    /\ late' = late \cup {w}
    /\ Return(a)
    /\ UNCHANGED <<serviceVars, pods>>

(* updateActivationGate: the reply carries the new gate. *)
SendService(a, body, label) ==
    \/ /\ Perform(ServiceWrite(a, body))
       /\ Hold(a, label, GateOf(service'[a]), call[a].target)
       /\ UNCHANGED late
    \/ Lose(a, ServiceWrite(a, body))

SendPods(a, w, label) ==
    \/ Perform(w) /\ Goto(a, label) /\ UNCHANGED late
    \/ Lose(a, w)

(* serviceAtGate: the Service is still the one the call holds a token of. *)
AtGate(a) == Exists(service[a]) /\ GateOf(service[a]) = call[a].gate

(* RetireCandidateDeployment: a tombstone, or the workload scaled to zero. *)
Retirement(x) == PodWrite(IF pods[x] = "absent" THEN "tombstone" ELSE "retire", x)

(* A late write arrives, or never does. *)
Arrive(w) ==
    /\ w \in late
    /\ Perform(w)
    /\ late' = late \ {w}

Vanish(w) ==
    /\ w \in late
    /\ late' = late \ {w}
    /\ UNCHANGED <<serviceVars, pods>>

(* Workloads become ready, stop being ready, and drain. *)
Reconcile(x) ==
    /\ \/ pods[x] = "starting" /\ pods' = [pods EXCEPT ![x] = "ready"]
       \/ pods[x] = "ready" /\ pods' = [pods EXCEPT ![x] = "starting"]
       \/ pods[x] = "draining" /\ pods' = [pods EXCEPT ![x] = "retired"]
    /\ UNCHANGED <<serviceVars, late>>

-----------------------------------------------------------------------------
(* What the coordinator reads *)

(* IsInactiveCandidateTarget *)
InactiveTarget(r) == Target(Inactive(r), requested[r].port)

(* RestoredCandidateTargetReady: the selected workload was rendered from c    *)
(* and is fully ready.  A retired workload no longer matches its rendering.   *)
TargetReady(a, t, c) ==
    /\ t.port = c.port
    /\ \/ t.sel = Legacy(a) /\ pods[a] = "ready"
       \/ \E s \in Requests : t.sel = Candidate(s) /\ requested[s] = c /\ pods[s] = "ready"

(* validSavedGate *)
SavedGate(r, g, op) == g.uid = intent[r].gate.uid /\ g.op = op

(* The gate_json of stage "recovering": only the recovery identity. *)
RecoveryMark(r) == [uid |-> 0, version |-> 0, op |-> Recovery(r)]

(* reuseWithdrawnInitialCandidate: the Service is exactly what the withdrawal *)
(* of an earlier initial request left, and that request's workload is gone.   *)
Reusable(a, r) ==
    \E old \in Requests \ {r} :
        /\ old = service[a].spec.boot
        /\ state[old] = "withdrawn" /\ previous[old] = NoConfig
        /\ a \notin live
        /\ stage[old] = "withdrawn" /\ gate[old] = GateOf(service[a])
        /\ intent[old].target = InactiveTarget(old)
        /\ service[a].spec.target = intent[old].target
        /\ pods[old] = "retired"

-----------------------------------------------------------------------------
(* DeployApp, AdvanceDeployRequest, RecoverDeployRequest, WithdrawDeployRequest *)

Open(a, r, kind, label, g) ==
    call' = [call EXCEPT ![a] = [at |-> label, kind |-> kind, req |-> r, gate |-> g, target |-> NoTarget]]

(* CheckCandidateDeletion *)
Marked(a) == Exists(service[a]) /\ service[a].spec.marked

(* Mutant of Resume: the withdrawal marker is not consulted. *)
ResumeAnyway(a, r) ==
    /\ \/ /\ state[r] = "pending"
          /\ \/ stage[r] = "absent" /\ Open(a, r, "advance", "prepare", NoGate)
             \/ /\ stage[r] \in {"fenced", "activated"}
                /\ SavedGate(r, gate[r], Operation(r))
                /\ Open(a, r, "advance", IF stage[r] = "fenced" THEN "candidate" ELSE "observe", gate[r])
       \/ state[r] = "applied" /\ Open(a, r, "advance", "reclaim", NoGate)
    /\ UNCHANGED <<requestVars, checkpointVars, appVars>>

(* A bound request is advanced from what its checkpoint proves; a "prepared"  *)
(* checkpoint is ambiguous and left to recovery.                              *)
Resume(a, r) ==
    /\ \/ /\ state[r] = "pending" /\ r \notin withdrawals
          /\ \/ stage[r] = "absent" /\ Open(a, r, "advance", "prepare", NoGate)
             \/ /\ stage[r] \in {"fenced", "activated"}
                /\ SavedGate(r, gate[r], Operation(r))
                /\ Open(a, r, "advance", IF stage[r] = "fenced" THEN "candidate" ELSE "observe", gate[r])
       \/ state[r] = "applied" /\ Open(a, r, "advance", "reclaim", NoGate)
    /\ UNCHANGED <<requestVars, checkpointVars, appVars>>

(* mutateCandidateRequestLocked with recover: the irrevocable marker first;   *)
(* without a checkpoint the recovery intent is prepared next.                 *)
StartRecovery(a, r) ==
    /\ MarkWithdrawal(r, requested[r])
    /\ Open(a, r, "recover", IF stage[r] = "absent" THEN "prepare" ELSE "recover", NoGate)

(* Mutant of DeployApp: the deletion marker is not looked for. *)
DeployAppUnguarded(a, r) ==
    \/ \E c \in Configs : BeginCandidate(r, c, FALSE) /\ Open(a, r, "advance", "prepare", NoGate)
    \/ Resume(a, r)

(* An RPC takes the application's lock and runs its first transaction.  The   *)
(* deletion check of DeployApp and WithdrawDeployRequest reads the Service    *)
(* before it; a marker that arrives between the two could as well arrive      *)
(* after the transaction, which does not read the cluster.                    *)
DeployApp(a, r) ==
    /\ ~Marked(a)
    /\ \/ \E c \in Configs : BeginCandidate(r, c, FALSE) /\ Open(a, r, "advance", "prepare", NoGate)
       \/ Resume(a, r)

AdvanceDeployRequest(a, r) == Resume(a, r)

RecoverDeployRequest(a, r) == StartRecovery(a, r)

WithdrawDeployRequest(a, r) ==
    /\ ~Marked(a)
    /\ \/ \E c \in Configs : BeginCandidate(r, c, TRUE) /\ Open(a, r, "recover", "prepare", NoGate)
       \/ StartRecovery(a, r)

Rpc(a, r) ==
    /\ call[a] = Idle
    /\ AppOf[r] = a
    /\ \/ DeployApp(a, r) \/ AdvanceDeployRequest(a, r)
       \/ RecoverDeployRequest(a, r) \/ WithdrawDeployRequest(a, r)

-----------------------------------------------------------------------------
(* prepareCandidateRequest and prepareUnstartedRecovery: find or make the     *)
(* Service whose target the request would have to restore.                    *)

ObserveTarget(a) ==
    LET r == Req(a)
        s == service[a]
        first == previous[r] = NoConfig IN
    /\ call[a].at \in {"prepare", "created"}
    /\ \/ /\ ~Exists(s) /\ first /\ At(a, "prepare")
          /\ Goto(a, "create")
       \/ /\ Exists(s) /\ first /\ s.spec.target # InactiveTarget(r)
          /\ Reusable(a, r)
          /\ Hold(a, "reset", GateOf(s), s.spec.target)
       \/ /\ Exists(s) /\ ~Withdrawing(a)
          /\ IF first THEN s.spec.target = InactiveTarget(r) ELSE previous[r].port = requested[r].port
          /\ Goto(a, "capture")
       \/ /\ Exists(s) /\ Withdrawing(a)
          /\ IF first THEN s.spec.target = InactiveTarget(r) ELSE TargetReady(a, s.spec.target, previous[r])
          /\ Hold(a, "intent", GateOf(s), s.spec.target)

(* CreateInactiveCandidateService *)
CreateService(a) ==
    /\ At(a, "create")
    /\ SendService(a, Create(Initial(a, Req(a), requested[Req(a)].port)), "created")

(* ResetInactiveCandidateService.  Recovery keeps the token it returns, an    *)
(* advancing request captures a token of its own.                             *)
ResetService(a) ==
    LET r == Req(a)
        w == Update(service[a], Rebound(r, requested[r].port)) IN
    /\ At(a, "reset")
    /\ AtGate(a)
    /\ \/ /\ Perform(ServiceWrite(a, w))
          /\ IF Withdrawing(a)
             THEN Hold(a, "intent", GateOf(service'[a]), w.spec.target)
             ELSE Hold(a, "capture", NoGate, NoTarget)
          /\ UNCHANGED late
       \/ Lose(a, ServiceWrite(a, w))
-----------------------------------------------------------------------------
(* AdvanceCandidateOperation *)

(* startCandidateOperation captures the token of the operation. *)
Capture(a) ==
    /\ At(a, "capture")
    /\ Exists(service[a])
    /\ Hold(a, "intent", GateOf(service[a]), service[a].spec.target)

(* The token and the target to restore are durable before any traffic change. *)
SaveIntent(a) ==
    LET r == Req(a) IN
    /\ At(a, "intent")
    /\ SaveActivationIntent(r, [requested |-> requested[r], gate |-> call[a].gate, target |-> call[a].target])
    /\ IF Withdrawing(a) THEN Goto(a, "recover") ELSE Goto(a, "fence")

(* FenceActivationGate *)
Fence(a) ==
    /\ At(a, "fence")
    /\ AtGate(a)
    /\ call[a].gate.op # Operation(Req(a))
    /\ SendService(a, Update(service[a], Fenced(service[a], Operation(Req(a)))), "fenced")

RecordFence(a) ==
    /\ At(a, "fenced")
    /\ SavedGate(Req(a), call[a].gate, Operation(Req(a)))
    /\ RecordActivationGate(Req(a), "prepared", "fenced", call[a].gate)
    /\ Goto(a, "candidate")

(* PrepareCandidateDeployment: create-only; a running workload is the one created before. *)
StartCandidate(a) ==
    /\ At(a, "candidate")
    /\ \/ pods[Req(a)] = "absent" /\ SendPods(a, PodWrite("start", Req(a)), "activate")
       \/ pods[Req(a)] \in Running /\ Goto(a, "activate") /\ UNCHANGED <<serviceVars, pods, late>>

(* ActivatePreparedCandidate *)
Activate(a) ==
    LET r == Req(a) IN
    /\ At(a, "activate")
    /\ pods[r] = "ready"
    /\ AtGate(a)
    /\ call[a].gate.op = Operation(r)
    /\ service[a].spec.target.port = requested[r].port
    /\ SendService(a, Update(service[a], Replaced(service[a], Target(Candidate(r), requested[r].port))), "activated")

RecordActivation(a) ==
    /\ At(a, "activated")
    /\ SavedGate(Req(a), call[a].gate, Operation(Req(a)))
    /\ RecordActivationGate(Req(a), "fenced", "activated", call[a].gate)
    /\ Goto(a, "observe")

-----------------------------------------------------------------------------
(* RecoverCandidateOperation *)

(* RestoreCandidateTraffic records the recovery before it changes the Service. *)
RecordRecovery(a) ==
    LET r == Req(a) IN
    /\ At(a, "recover")
    /\ previous[r] = NoConfig => intent[r].target = InactiveTarget(r)
    /\ \/ /\ stage[r] \in {"prepared", "fenced", "activated"}
          /\ RecordActivationGate(r, stage[r], "recovering", RecoveryMark(r))
          /\ Goto(a, "restore")
       \/ /\ stage[r] = "recovering"
          /\ Goto(a, "restore")
          /\ UNCHANGED <<requestVars, checkpointVars, appVars>>
       \/ /\ stage[r] = "withdrawn" /\ SavedGate(r, gate[r], Recovery(r))
          /\ Hold(a, "retire", gate[r], NoTarget)
          /\ UNCHANGED <<requestVars, checkpointVars, appVars>>

(* Mutant of CaptureRecovery: the recovery's own operation proves the restore. *)
CaptureRecoveryTrusting(a) ==
    LET r == Req(a)
        s == service[a] IN
    /\ At(a, "restore")
    /\ Exists(s) /\ s.uid = intent[r].gate.uid
    /\ \/ /\ s.spec.op \in {intent[r].gate.op, Operation(r)} \ {Recovery(r)}
          /\ Hold(a, "recoveryFence", GateOf(s), NoTarget)
       \/ /\ s.spec.op = Recovery(r)
          /\ Hold(a, "restored", GateOf(s), NoTarget)

(* Mutant of CaptureRecovery: the recovery's own operation is not recognized. *)
CaptureRecoveryOnce(a) ==
    LET r == Req(a)
        s == service[a] IN
    /\ At(a, "restore")
    /\ Exists(s) /\ s.uid = intent[r].gate.uid
    /\ s.spec.op \in {intent[r].gate.op, Operation(r)} \ {Recovery(r)}
    /\ Hold(a, "recoveryFence", GateOf(s), NoTarget)

(* The Service must carry the operation the request started from, the         *)
(* request's own, or this recovery's after a lost reply.                      *)
CaptureRecovery(a) ==
    LET r == Req(a)
        s == service[a] IN
    /\ At(a, "restore")
    /\ Exists(s) /\ s.uid = intent[r].gate.uid
    /\ \/ /\ s.spec.op \in {intent[r].gate.op, Operation(r)} \ {Recovery(r)}
          /\ Hold(a, "recoveryFence", GateOf(s), NoTarget)
       \/ /\ s.spec.op = Recovery(r) /\ s.spec.target # intent[r].target
          /\ Hold(a, "replace", GateOf(s), NoTarget)
       \/ /\ s.spec.op = Recovery(r) /\ s.spec.target = intent[r].target
          /\ Hold(a, "restored", GateOf(s), NoTarget)

FenceRecovery(a) ==
    /\ At(a, "recoveryFence")
    /\ AtGate(a)
    /\ SendService(a, Update(service[a], Fenced(service[a], Recovery(Req(a)))), "replace")

(* ReplaceActivationTarget, also when the fence left the predecessor selected. *)
RestoreTarget(a) ==
    /\ At(a, "replace")
    /\ AtGate(a)
    /\ SendService(a, Update(service[a], Replaced(service[a], intent[Req(a)].target)), "restored")

RecordRestored(a) ==
    /\ At(a, "restored")
    /\ SavedGate(Req(a), call[a].gate, Recovery(Req(a)))
    /\ RecordActivationGate(Req(a), "recovering", "withdrawn", call[a].gate)
    /\ Goto(a, "retire")

RetireCandidate(a) ==
    /\ At(a, "retire")
    /\ \/ pods[Req(a)] \notin Retiring /\ SendPods(a, Retirement(Req(a)), "retired")
       \/ pods[Req(a)] \in Retiring /\ Goto(a, "retired") /\ UNCHANGED <<serviceVars, pods, late>>

(* Mutant of CheckRetired: the tombstone alone is taken as proof. *)
CheckTombstone(a) ==
    /\ At(a, "retired")
    /\ pods[Req(a)] \in Retiring
    /\ Goto(a, "observe")

(* CandidateRetired: the tombstone is observed and no pod is left. *)
CheckRetired(a) ==
    /\ At(a, "retired")
    /\ pods[Req(a)] = "retired"
    /\ Goto(a, "observe")
-----------------------------------------------------------------------------
(* CompleteCandidateOperation *)

(* The outcome holds in the cluster at the saved gate: the candidate, or the  *)
(* restored predecessor, is selected and ready.                               *)
Observe(a) ==
    LET r == Req(a)
        t == service[a].spec.target IN
    /\ At(a, "observe")
    /\ AtGate(a)
    /\ IF Withdrawing(a)
       THEN /\ stage[r] = "withdrawn" /\ t = intent[r].target
            /\ previous[r] # NoConfig => TargetReady(a, t, previous[r])
       ELSE /\ stage[r] = "activated" /\ t.sel = Candidate(r)
            /\ TargetReady(a, t, requested[r])
    /\ Hold(a, "route", call[a].gate, t)

(* Mutant of RouteConfig: a withdrawal leaves the candidate's route. *)
RequestedRoute(a) == requested[Req(a)]

(* The configuration whose route the outcome exposes. *)
RouteConfig(a) ==
    LET r == Req(a) IN
    IF ~Withdrawing(a) THEN requested[r]
    ELSE IF previous[r] # NoConfig THEN previous[r]
    ELSE [requested[r] EXCEPT !.domain = NoDomain]

(* ReconcileCandidateRoute *)
ReconcileRoute(a) ==
    /\ At(a, "route")
    /\ AtGate(a)
    /\ service[a].spec.target = call[a].target
    /\ call[a].target.port = RouteConfig(a).port
    /\ ingress' = [ingress EXCEPT ![a] = RouteConfig(a).domain]
    /\ Goto(a, "recheck")
    /\ UNCHANGED <<serviceVars, pods, late>>

Recheck(a) ==
    /\ At(a, "recheck")
    /\ AtGate(a)
    /\ service[a].spec.target = call[a].target
    /\ Goto(a, "finalize")

Finalize(a) ==
    LET r == Req(a) IN
    /\ At(a, "finalize")
    /\ \/ ~Withdrawing(a) /\ FinalizeApplied(r, call[a].gate) /\ Hold(a, "reclaim", NoGate, NoTarget)
       \/ Withdrawing(a) /\ FinalizeWithdrawn(r, call[a].gate) /\ Return(a)

-----------------------------------------------------------------------------
(* reclaimCandidateCapacity: once a request is applied, and nothing else is   *)
(* pending, every other generation and the legacy workload are retired.       *)

Generations(a) == {s \in Requests : AppOf[s] = a /\ state[s] # "absent"}

Reclaim(a) ==
    LET r == Req(a)
        s == service[a] IN
    /\ At(a, "reclaim")
    /\ state[r] = "applied" /\ a \in live /\ desired[a] = requested[r]
    /\ Pending(a) = {}
    /\ Exists(s) /\ ~s.spec.marked
    /\ s.spec.op = Operation(r) /\ s.spec.target.sel = Candidate(r)
    /\ TargetReady(a, s.spec.target, requested[r])
    /\ Hold(a, "reclaiming", GateOf(s), s.spec.target)

RetireOther(a, s) ==
    /\ At(a, "reclaiming")
    /\ AtGate(a)
    /\ s \in Generations(a) \ {Req(a)}
    /\ pods[s] \notin Retiring
    /\ SendPods(a, Retirement(s), "reclaiming")

RetireLegacy(a) ==
    /\ At(a, "reclaiming")
    /\ AtGate(a)
    /\ service[a].spec.target.sel = Candidate(Req(a)) /\ ~service[a].spec.marked
    /\ \A s \in Generations(a) \ {Req(a)} : pods[s] \in Retiring
    /\ pods[a] \in Running
    /\ SendPods(a, Retirement(a), "reclaiming")

-----------------------------------------------------------------------------
(* The call returns: a condition of its next step does not hold, the API      *)
(* server or the database fails, its context ends, or the server stops.       *)
Leave(a) == call[a] # Idle /\ Return(a) /\ UNCHANGED <<journalVars, clusterVars>>

ReadStep(a) ==
    /\ \/ ObserveTarget(a) \/ Capture(a) \/ CaptureRecovery(a) \/ CheckRetired(a)
       \/ Observe(a) \/ Recheck(a) \/ Reclaim(a)
    /\ UNCHANGED <<journalVars, clusterVars>>

WriteStep(a) ==
    /\ \/ CreateService(a) \/ ResetService(a) \/ Fence(a) \/ Activate(a)
       \/ FenceRecovery(a) \/ RestoreTarget(a) \/ StartCandidate(a) \/ RetireCandidate(a)
       \/ \E s \in Requests : RetireOther(a, s)
       \/ RetireLegacy(a)
    /\ UNCHANGED <<journalVars, ingress>>

RouteStep(a) == ReconcileRoute(a) /\ UNCHANGED journalVars

CommitStep(a) ==
    /\ \/ SaveIntent(a) \/ RecordFence(a) \/ RecordActivation(a)
       \/ RecordRecovery(a) \/ RecordRestored(a) \/ Finalize(a)
    /\ UNCHANGED <<clusterVars, deleting>>

RpcStep(a, r) == Rpc(a, r) /\ UNCHANGED <<clusterVars, deleting>>

CallStep(a) == ReadStep(a) \/ WriteStep(a) \/ RouteStep(a) \/ CommitStep(a)

OpNext ==
    \/ \E a \in Apps : CallStep(a) \/ Leave(a) \/ \E r \in Requests : RpcStep(a, r)
    \/ /\ \/ \E w \in late : Arrive(w) \/ Vanish(w)
          \/ \E x \in Apps \cup Requests : Reconcile(x)
       /\ UNCHANGED <<journalVars, ingress, call>>

OpSpec == OpInit /\ [][OpNext]_vars
-----------------------------------------------------------------------------
ServiceRecords == [uid : 0 .. MaxRevision, version : 0 .. MaxRevision, spec : SpecRecords]
WriteRecords ==
    [kind : {"service"}, of : Apps, body : ServiceRecords]
        \cup [kind : {"start", "tombstone", "retire"}, of : Owners, body : {Absent}]
Labels ==
    {"prepare", "create", "created", "reset", "capture", "intent", "fence", "fenced",
     "candidate", "activate", "activated", "recover", "restore", "recoveryFence", "replace",
     "restored", "retire", "retired", "observe", "route", "recheck", "finalize", "reclaim", "reclaiming"}

(* The cluster objects, the writes under way and the call have their types;   *)
(* a Service has content exactly when it exists, and no resourceVersion is    *)
(* newer than the last one handed out.                                        *)
OpTypeOK ==
    /\ TypeOK
    /\ service \in [Apps -> ServiceRecords \cup {Absent}]
    /\ revision \in 1 .. MaxRevision
    /\ pods \in [Owners -> {"absent"} \cup Running \cup Retiring]
    /\ ingress \in [Apps -> Domains]
    /\ late \subseteq WriteRecords
    /\ call \in [Apps -> [at : Labels, kind : {"advance", "recover"}, req : Requests,
                          gate : GateRecords \cup {NoGate}, target : TargetRecords \cup {NoTarget}] \cup {Idle}]
    /\ \A a \in Apps :
          /\ service[a] # Absent => Exists(service[a])
          /\ service[a].version <= revision
          /\ call[a] # Idle => AppOf[call[a].req] = a
    /\ \A w \in late : w.body.version <= revision

Serves(a, sel) == Exists(service[a]) /\ service[a].spec.target.sel = sel

(* The workload that receives an application's traffic is never one that has  *)
(* been told to stop: recovery retires a candidate only after its traffic was *)
(* restored, reclamation retires only what no restore can select again, and   *)
(* no delayed write brings a retired selector back.                           *)
ServedIsRunning ==
    \A a \in Apps :
        /\ Serves(a, Legacy(a)) => pods[a] \in Running
        /\ \A r \in Requests : Serves(a, Candidate(r)) => pods[r] \in Running

(* When no request of an application is open, the cluster shows what the      *)
(* rows say: the Service selects the workload of the active desired state, or *)
(* nothing for a hidden application, and the Ingress has the routed domain.   *)
ClusterMatchesRows ==
    \A a \in Apps : Pending(a) = {} =>
        /\ ingress[a] = route[a]
        /\ a \in live => Exists(service[a]) /\ service[a].spec.target.port = desired[a].port
        /\ \A r \in Requests : Serves(a, Inactive(r)) => a \notin live
        /\ \A r \in Requests : Serves(a, Candidate(r)) =>
              state[r] = "applied" /\ a \in live /\ desired[a] = requested[r]

(* A request that captured its predecessor's target finds it in the Service   *)
(* until its own candidate is selected; no third target ever appears, and the *)
(* predecessor's workload keeps running until the request is decided.         *)
PredecessorRestorable ==
    \A r \in Requests : state[r] = "pending" /\ stage[r] # "absent" =>
        LET a == AppOf[r]
            t == intent[r].target IN
        /\ service[a].uid = intent[r].gate.uid
        /\ service[a].spec.target \in {t, Target(Candidate(r), requested[r].port)}
        /\ t.sel = Legacy(a) => pods[a] \in Running
        /\ \A p \in Requests : t.sel = Candidate(p) => pods[p] \in Running /\ p # r

(* A withdrawn candidate stays withdrawn: once recovery recorded the restored *)
(* traffic its generation is never selected again, and once the withdrawal is *)
(* committed its workload never comes back, whichever writes are still late.  *)
WithdrawnStaysOut ==
    \A r \in Requests :
        /\ stage[r] = "withdrawn" => ~Serves(AppOf[r], Candidate(r))
        /\ state[r] = "withdrawn" => pods[r] = "retired"

(* A withdrawal decision is irrevocable (WithdrawDeployRequest): once it is   *)
(* recorded, whichever calls are made in whichever order, the request's       *)
(* checkpoint never moves towards activation and it is never applied.         *)
WithdrawalBarsActivation ==
    [][\A r \in withdrawals :
          /\ stage'[r] \in Advancing => stage'[r] = stage[r]
          /\ state'[r] # "applied"]_vars

(* Every step of the coordinator is a step of the journal's specification, so *)
(* its callers' obligations hold: one request at a time, and no transaction   *)
(* towards activation once a withdrawal was requested.                        *)
FollowsJournal == Spec
=============================================================================
