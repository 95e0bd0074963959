---------------------- MODULE CandidateOperationProofs ----------------------
(* Proofs about CandidateOperation for every set of applications, requests    *)
(* and configurations, and every number of delayed writes: the coordinator    *)
(* keeps to the journal's specification, so the journal's theorems            *)
(* (CandidateStateProofs) hold of it, and the cluster always shows what the   *)
(* rows and the open request account for.                                     *)
EXTENDS CandidateStateProofs

USE ZenonT(30)

-----------------------------------------------------------------------------
(* Calls *)

(* What the types say of one request. *)
LEMMA RequestTyped ==
    ASSUME TypeOK, NEW r \in Requests
    PROVE  /\ state[r] # "absent" => requested[r] \in Configs
           /\ previous[r] \in Configs \cup {NoConfig}
           /\ stage[r] \notin {"absent", "prepared"} => gate[r] \in Gates
  BY SMTT(30) DEF TypeOK

(* The fields of a call's type are all OpTypeOK says of calls. *)
LEMMA CallsTyped ==
    ASSUME call' \in [Apps -> CallRecords \cup {Idle}], OpTypeOK, NEW a \in Apps,
           call'[a] # Idle => AppOf[call'[a].req] = a,
           \A b \in Apps \ {a} : call'[b] = call[b]
    PROVE  /\ call' \in [Apps -> [at : Labels, kind : {"advance", "recover"}, req : Requests,
                            gate : GateRecords \cup {NoGate}, target : TargetRecords \cup {NoTarget}] \cup {Idle}]
           /\ \A b \in Apps : call'[b] # Idle => AppOf[call'[b].req] = b
<1>1. \A b \in Apps : call[b] # Idle => AppOf[call[b].req] = b
  BY DEF OpTypeOK
<1> QED
  BY <1>1 DEF CallRecords

(* What the invariant says of a call in progress. *)
LEMMA CallFacts ==
    ASSUME OpInv, NEW a \in Apps, call[a].at # "idle"
    PROVE  /\ call[a] # Idle /\ call[a].req \in Requests /\ AppOf[call[a].req] = a
           /\ call[a].kind \in {"advance", "recover"}
           /\ call[a].gate \in GateRecords \cup {NoGate}
           /\ call[a].target \in TargetRecords \cup {NoTarget}
           /\ state[call[a].req] # "absent"
           /\ call[a].kind = "advance" /\ call[a].at \notin {"reclaim", "reclaiming"} =>
                 call[a].req \notin withdrawals
           /\ call[a].at \in {"capture", "fence", "fenced", "candidate", "activate", "activated"} =>
                 call[a].kind = "advance"
           /\ call[a].at \in TokenLabels => call[a].gate \in GateRecords
           /\ call[a].at = "intent" => call[a].target \in TargetRecords
           /\ call[a].at \in {"restore", "recoveryFence", "replace", "restored"} =>
                 stage[call[a].req] = "recovering"
<1>1. call[a] # Idle
  BY LabelNotIdle
<1>2. OpTypeOK /\ CallOK(a)
  BY DEF OpInv
<1>3. call[a] \in CallRecords /\ AppOf[call[a].req] = a
  BY <1>1, <1>2, Called
<1>4. /\ call[a].req \in Requests /\ call[a].kind \in {"advance", "recover"}
      /\ call[a].gate \in GateRecords \cup {NoGate} /\ call[a].target \in TargetRecords \cup {NoTarget}
  BY <1>3 DEF CallRecords
<1> QED
  BY <1>1, <1>2, <1>3, <1>4 DEF CallOK

(* The invariant of a call after a step, from its fields. *)
LEMMA CallOKNext ==
    ASSUME NEW a \in Apps,
           call'[a] # Idle =>
              /\ state'[call'[a].req] # "absent"
              /\ call'[a].kind = "advance" /\ call'[a].at \notin {"reclaim", "reclaiming"} =>
                    call'[a].req \notin withdrawals'
              /\ call'[a].at \in {"capture", "fence", "fenced", "candidate", "activate", "activated"} =>
                    call'[a].kind = "advance"
              /\ call'[a].at \in TokenLabels => call'[a].gate \in GateRecords
              /\ call'[a].at = "intent" => call'[a].target \in TargetRecords
              /\ call'[a].at \in {"restore", "recoveryFence", "replace", "restored"} =>
                    stage'[call'[a].req] = "recovering"
    PROVE  CallOK(a)'
  BY DEF CallOK

(* A call that keeps the token of the Service it read, and perhaps its target. *)
LEMMA HoldService ==
    ASSUME OpTypeOK, ClusterOK, NEW a \in Apps, NEW l \in Labels, call[a] # Idle, Exists(service[a]),
           NEW t \in {service[a].spec.target, NoTarget}, Hold(a, l, GateOf(service[a]), t)
    PROVE  /\ call' \in [Apps -> CallRecords \cup {Idle}]
           /\ call'[a].at = l /\ call'[a].kind = call[a].kind /\ call'[a].req = call[a].req
           /\ call'[a].gate \in GateRecords /\ call'[a].target = t
           /\ service[a].spec.target \in TargetRecords
           /\ \A b \in Apps \ {a} : call'[b] = call[b]
<1>1. GateOf(service[a]) \in GateRecords /\ service[a].spec.target \in TargetRecords
  BY GateTyped
<1> QED
  BY <1>1, HoldMoves, SMTT(30)

(* An accepted write leaves a typed Service with the newest resourceVersion   *)
(* or the one it had.                                                         *)
LEMMA WrittenTyped ==
    ASSUME ClusterOK, NEW a \in Apps, NEW body \in ServiceRecords, revision < MaxRevision
    PROVE  LET s == Written(service[a], body, revision + 1) IN
           s \in ServiceRecords /\ Exists(s) /\ s.version <= revision + 1
              /\ (s # service[a] => s.version = revision + 1)
<1>0. MaxRevision \in Nat /\ revision \in Nat
  BY OperationAssumption, SMTT(30) DEF ClusterOK
<1>1. CASE Exists(service[a]) /\ body.spec = service[a].spec
  BY <1>0, <1>1, GateTyped, SMTT(30) DEF Written, ClusterOK, ServiceRecords
<1>2. CASE ~(Exists(service[a]) /\ body.spec = service[a].spec)
  <2>1. Written(service[a], body, revision + 1) =
          [uid |-> IF Exists(service[a]) THEN service[a].uid ELSE revision + 1,
           version |-> revision + 1, spec |-> body.spec]
    BY <1>2 DEF Written
  <2>2. Exists(service[a]) => service[a].uid \in 0 .. MaxRevision /\ service[a].uid # 0
    BY GateTyped DEF ServiceRecords, Exists
  <2>3. revision + 1 \in 0 .. MaxRevision /\ revision + 1 # 0
    BY <1>0, SMTT(30)
  <2> QED
    BY <1>0, <2>1, <2>2, <2>3, SMTT(30) DEF ServiceRecords, Exists
<1> QED
  BY <1>1, <1>2

(* Performing a typed write keeps the cluster typed. *)
LEMMA PerformTyped ==
    ASSUME ClusterOK, NEW w \in WriteRecords, Perform(w), late' \subseteq late
    PROVE  ClusterOK' /\ (w.kind = "service" => Exists(service'[w.of]))
<1>0. MaxRevision \in Nat /\ revision \in Nat
  BY OperationAssumption, SMTT(30) DEF ClusterOK
<1>1. CASE /\ w.kind = "service"
           /\ revision < MaxRevision
           /\ service' = [service EXCEPT ![w.of] = Written(@, w.body, revision + 1)]
           /\ revision' = IF service' = service THEN revision ELSE revision + 1
           /\ UNCHANGED pods
  <2>1. w.of \in Apps /\ w.body \in ServiceRecords
    BY <1>1 DEF WriteRecords
  <2>2. PICK s \in ServiceRecords : s = Written(service[w.of], w.body, revision + 1)
    BY <1>1, <2>1, WrittenTyped
  <2>3. Exists(s) /\ s.version <= revision + 1 /\ (s # service[w.of] => s.version = revision + 1)
    BY <1>1, <2>1, <2>2, WrittenTyped
  <2>4. service' = [service EXCEPT ![w.of] = s]
    BY <1>1, <2>2
  <2>5. service' \in [Apps -> ServiceRecords \cup {Absent}]
    BY <2>1, <2>4 DEF ClusterOK
  <2>6. revision' \in 1 .. MaxRevision /\ revision <= revision'
    BY <1>0, <1>1, SMTT(30) DEF ClusterOK
  <2>7. \A a \in Apps : service[a].version \in Nat
    BY SMTT(30) DEF ClusterOK, ServiceRecords, Absent
  <2>8. \A a \in Apps : service'[a].version <= revision'
    <3>1. CASE service' = service
      BY <1>1, <3>1 DEF ClusterOK
    <3>2. CASE service' # service
      <4>1. revision' = revision + 1
        BY <1>1, <3>2
      <4>2. \A n \in Nat : n <= revision => n <= revision + 1
        BY <1>0, SMTT(30)
      <4>3. \A a \in Apps : service'[a] = IF a = w.of THEN s ELSE service[a]
        BY <2>1, <2>4 DEF ClusterOK
      <4> QED
        BY <2>3, <2>7, <4>1, <4>2, <4>3 DEF ClusterOK
    <3> QED
      BY <3>1, <3>2
  <2>9. \A v \in late' : v.body.version \in Nat /\ v.body.version <= revision
    BY SMTT(30) DEF ClusterOK, WriteRecords, ServiceRecords, Absent
  <2>10. \A v \in late' : v.body.version <= revision'
    BY <1>0, <2>6, <2>9, SMTT(30)
  <2> QED
    BY <1>1, <2>1, <2>3, <2>4, <2>5, <2>6, <2>8, <2>10 DEF ClusterOK
<1>2. CASE UNCHANGED serviceVars /\ w.kind # "service"
           /\ (\/ pods' = [pods EXCEPT ![w.of] = "starting"] \/ pods' = [pods EXCEPT ![w.of] = "draining"])
  BY <1>2 DEF ClusterOK, serviceVars, Running, Retiring
<1> QED
  BY <1>1, <1>2 DEF Perform

(* A lost write joins the delayed ones. *)
LEMMA LoseTyped ==
    ASSUME ClusterOK, OpTypeOK, NEW a \in Apps, NEW w \in WriteRecords, w.body.version <= revision, Lose(a, w)
    PROVE  ClusterOK' /\ call' \in [Apps -> CallRecords \cup {Idle}] /\ call'[a] = Idle
              /\ \A b \in Apps \ {a} : call'[b] = call[b]
<1>1. Return(a) /\ UNCHANGED <<service, revision, pods>> /\ late' = late \cup {w}
  BY DEF Lose, serviceVars
<1> QED
  BY <1>1, ReturnMoves DEF ClusterOK

(* A write to the Service succeeds and returns the new token, or its reply is lost. *)
LEMMA SendServiceTyped ==
    ASSUME ClusterOK, OpTypeOK, NEW a \in Apps, call[a] # Idle, NEW l \in Labels,
           NEW body \in ServiceRecords, body.version <= revision, SendService(a, body, l)
    PROVE  /\ ClusterOK'
           /\ call' \in [Apps -> CallRecords \cup {Idle}]
           /\ \A b \in Apps \ {a} : call'[b] = call[b]
           /\ call'[a] # Idle =>
                 /\ call'[a].at = l /\ call'[a].kind = call[a].kind /\ call'[a].req = call[a].req
                 /\ call'[a].gate \in GateRecords
<1> DEFINE w == ServiceWrite(a, body)
<1>1. w \in WriteRecords /\ w.kind = "service" /\ w.of = a /\ w.body = body
  BY DEF ServiceWrite, WriteRecords
<1>2. CASE Perform(w) /\ Hold(a, l, GateOf(service'[a]), call[a].target) /\ UNCHANGED late
  <2>1. ClusterOK' /\ Exists(service'[a])
    BY <1>1, <1>2, PerformTyped
  <2>2. service'[a] \in ServiceRecords
    BY <2>1, SMTT(30) DEF ClusterOK, Exists, Absent
  <2>3. GateOf(service'[a]) \in GateRecords
    BY <2>2 DEF GateOf, ServiceRecords, SpecRecords, GateRecords
  <2>4. call[a].target \in TargetRecords \cup {NoTarget}
    BY Called DEF CallRecords
  <2>5. GateOf(service'[a]) \in GateRecords \cup {NoGate}
    BY <2>3
  <2>6. Held(a, l, GateOf(service'[a]), call[a].target)
    BY <1>2, <2>4, <2>5, HoldHeld
  <2> QED
    BY <2>1, <2>3, <2>6 DEF Held
<1>3. CASE Lose(a, w)
  BY <1>1, <1>3, LoseTyped
<1> QED
  BY <1>2, <1>3 DEF SendService

(* A write to a workload succeeds, or its reply is lost. *)
LEMMA SendPodsTyped ==
    ASSUME ClusterOK, OpTypeOK, NEW a \in Apps, call[a] # Idle, NEW l \in Labels,
           NEW x \in Owners, NEW k \in {"start", "tombstone", "retire"}, SendPods(a, PodWrite(k, x), l)
    PROVE  /\ ClusterOK'
           /\ call' \in [Apps -> CallRecords \cup {Idle}]
           /\ \A b \in Apps \ {a} : call'[b] = call[b]
           /\ call'[a] # Idle =>
                 /\ call'[a].at = l /\ call'[a].kind = call[a].kind /\ call'[a].req = call[a].req
                 /\ call'[a].gate = call[a].gate
<1> DEFINE w == PodWrite(k, x)
<1>0. revision \in Nat /\ revision > 0
  BY OperationAssumption, SMTT(30) DEF ClusterOK
<1>1. w \in WriteRecords /\ w.body.version <= revision
  BY <1>0, SMTT(30) DEF PodWrite, WriteRecords, Absent
<1>2. CASE Perform(w) /\ Goto(a, l) /\ UNCHANGED late
  BY <1>1, <1>2, PerformTyped, GotoMoves
<1>3. CASE Lose(a, w)
  BY <1>1, <1>3, LoseTyped
<1> QED
  BY <1>2, <1>3 DEF SendPods

-----------------------------------------------------------------------------
(* Every step of the coordinator is a step of the journal or leaves it alone. *)

(* A call never commits a step its journal does not allow. *)
LEMMA CommitFollows ==
    ASSUME OpInv, NEW a \in Apps, CommitStep(a)
    PROVE  [Next]_journalVars
<1> DEFINE r == call[a].req
<1>0. UNCHANGED deleting /\ deleting = {}
  BY DEF CommitStep, OpInv
<1>1. TypeOK
  BY DEF OpInv, OpTypeOK
<1>2. ASSUME r \in Requests,
             \/ \E i \in Intents : SaveActivationIntent(r, i)
             \/ \E g \in Gates, from, to \in {"prepared", "fenced", "activated", "recovering", "withdrawn"} :
                   /\ to \in Advancing => r \notin withdrawals
                   /\ RecordActivationGate(r, from, to, g)
             \/ r \notin withdrawals /\ \E g \in Gates : FinalizeApplied(r, g)
             \/ \E g \in Gates : FinalizeWithdrawn(r, g)
      PROVE  [Next]_journalVars
  <2>1. RequestStep(r)
    BY <1>0, <1>2 DEF RequestStep
  <2> QED
    BY <1>2, <2>1 DEF Next
<1>3. CASE SaveIntent(a)
  <2>1. r \in Requests /\ call[a].gate \in GateRecords /\ call[a].target \in TargetRecords
    BY <1>3, CallFacts DEF SaveIntent, At, TokenLabels
  <2>2. state[r] = "pending"
    BY <1>3 DEF SaveIntent, SaveActivationIntent, Req
  <2>3. state[r] # "absent"
    BY <2>2
  <2>4. requested[r] \in Configs
    BY <1>1, <2>1, <2>3, RequestTyped
  <2>5. [requested |-> requested[r], gate |-> call[a].gate, target |-> call[a].target] \in Intents
    BY <2>1, <2>4, OperationAssumption DEF IntentRecords
  <2> QED
    BY <1>2, <1>3, <2>1, <2>5 DEF SaveIntent, Req
<1>4. CASE RecordFence(a)
  <2>1. r \in Requests /\ call[a].gate \in Gates /\ r \notin withdrawals
    BY <1>4, CallFacts, OperationAssumption DEF RecordFence, At, TokenLabels
  <2> QED
    BY <1>2, <1>4, <2>1 DEF RecordFence, Req
<1>5. CASE RecordActivation(a)
  <2>1. r \in Requests /\ call[a].gate \in Gates /\ r \notin withdrawals
    BY <1>5, CallFacts, OperationAssumption DEF RecordActivation, At, TokenLabels
  <2> QED
    BY <1>2, <1>5, <2>1 DEF RecordActivation, Req
<1>6. CASE RecordRecovery(a)
  <2>1. r \in Requests
    BY <1>6, CallFacts DEF RecordRecovery, At
  <2>2. RecoveryMark(r) \in Gates
    BY <2>1, OperationAssumption, SMTT(30) DEF RecoveryMark, GateRecords, Recovery, Id, Operations, Owners
  <2>3. CASE /\ stage[r] \in {"prepared", "fenced", "activated"}
             /\ RecordActivationGate(r, stage[r], "recovering", RecoveryMark(r))
    BY <1>2, <2>1, <2>2, <2>3 DEF Advancing
  <2>4. CASE UNCHANGED <<requestVars, checkpointVars, appVars>>
    BY <1>0, <2>4 DEF journalVars
  <2> QED
    BY <1>6, <2>3, <2>4 DEF RecordRecovery, Req
<1>7. CASE RecordRestored(a)
  <2>1. r \in Requests /\ call[a].gate \in Gates
    BY <1>7, CallFacts, OperationAssumption DEF RecordRestored, At, TokenLabels
  <2> QED
    BY <1>2, <1>7, <2>1 DEF RecordRestored, Req, Advancing
<1>8. CASE Finalize(a)
  <2>1. r \in Requests
    BY <1>8, CallFacts DEF Finalize, At
  <2>2. ASSUME gate[r] = call[a].gate, stage[r] \in {"activated", "withdrawn"}
        PROVE  call[a].gate \in Gates
    <3>1. stage[r] \notin {"absent", "prepared"}
      BY <2>2
    <3> QED
      BY <1>1, <2>1, <2>2, <3>1, RequestTyped
  <2>3. CASE ~Withdrawing(a) /\ FinalizeApplied(r, call[a].gate)
    <3>1. call[a].at = "finalize" /\ call[a].kind # "recover"
      BY <1>8, <2>3 DEF Finalize, At, Withdrawing
    <3>2. r \notin withdrawals
      BY <3>1, CallFacts
    <3>3. gate[r] = call[a].gate /\ stage[r] = "activated"
      BY <2>3 DEF FinalizeApplied, Finalizable
    <3>4. call[a].gate \in Gates
      BY <2>2, <3>3
    <3> QED
      BY <1>2, <2>1, <2>3, <3>2, <3>4
  <2>4. CASE FinalizeWithdrawn(r, call[a].gate)
    <3>1. gate[r] = call[a].gate /\ stage[r] = "withdrawn"
      BY <2>4 DEF FinalizeWithdrawn, Finalizable
    <3>2. call[a].gate \in Gates
      BY <2>2, <3>1
    <3> QED
      BY <1>2, <2>1, <2>4, <3>2
  <2> QED
    BY <1>8, <2>3, <2>4 DEF Finalize, Req
<1> QED
  BY <1>3, <1>4, <1>5, <1>6, <1>7, <1>8 DEF CommitStep

(* The first transaction of an RPC is one the journal allows. *)
LEMMA RpcFollows ==
    ASSUME OpInv, NEW a \in Apps, NEW r \in Requests, RpcStep(a, r)
    PROVE  [Next]_journalVars
<1>0. UNCHANGED deleting /\ deleting = {}
  BY DEF RpcStep, OpInv
<1>1. CASE UNCHANGED <<requestVars, checkpointVars, appVars>>
  BY <1>0, <1>1 DEF journalVars
<1>2. CASE \/ \E c \in Configs, w \in BOOLEAN : BeginCandidate(r, c, w)
           \/ \E c \in Configs : MarkWithdrawal(r, c)
  <2>1. RequestStep(r)
    BY <1>0, <1>2 DEF RequestStep
  <2> QED
    BY <2>1 DEF Next
<1>3. StartRecovery(a, r) => \E c \in Configs : MarkWithdrawal(r, c)
  <2> SUFFICES ASSUME StartRecovery(a, r) PROVE \E c \in Configs : MarkWithdrawal(r, c)
    OBVIOUS
  <2>1. MarkWithdrawal(r, requested[r])
    BY DEF StartRecovery
  <2>2. state[r] = "pending"
    BY <2>1 DEF MarkWithdrawal
  <2>3. TypeOK
    BY DEF OpInv, OpTypeOK
  <2>4. requested[r] \in Configs
    BY <2>2, <2>3 DEF TypeOK
  <2> QED
    BY <2>1, <2>4
<1>4. DeployApp(a, r) \/ Resume(a, r) \/ StartRecovery(a, r) \/ WithdrawDeployRequest(a, r)
  BY DEF RpcStep, Rpc, AdvanceDeployRequest, RecoverDeployRequest
<1> QED
  BY <1>1, <1>2, <1>3, <1>4 DEF DeployApp, Resume, WithdrawDeployRequest

(* OpNext follows Next. *)
LEMMA OpNextFollows == OpInv /\ [OpNext]_vars => [Next]_journalVars
<1> SUFFICES ASSUME OpInv, [OpNext]_vars PROVE [Next]_journalVars
  OBVIOUS
<1>1. CASE UNCHANGED journalVars
  BY <1>1
<1>2. ASSUME NEW a \in Apps, CallStep(a) \/ Leave(a) PROVE [Next]_journalVars
  BY <1>2, CommitFollows DEF CallStep, ReadStep, WriteStep, RouteStep, Leave
<1>3. ASSUME NEW a \in Apps, NEW r \in Requests, RpcStep(a, r) PROVE [Next]_journalVars
  BY <1>3, RpcFollows
<1> QED
  BY <1>1, <1>2, <1>3 DEF OpNext, vars

-----------------------------------------------------------------------------
(* A step of the call on a, which touches the rows of a's requests only. *)
LEMMA OpInvClosed ==
    ASSUME OpInv, [OpNext]_vars, NEW a \in Apps,
           ClusterOK', ingress' \in [Apps -> Domains],
           call' \in [Apps -> CallRecords \cup {Idle}],
           \A b \in Apps \ {a} : call'[b] = call[b],
           call'[a] # Idle => AppOf[call'[a].req] = a,
           CallOK(a)',
           \A s \in Requests : AppOf[s] # a =>
              state'[s] = state[s] /\ stage'[s] = stage[s] /\ (s \in withdrawals' => s \in withdrawals),
           \A s \in Requests : stage'[s] # "absent" => intent'[s] \in IntentRecords,
           deleting' = {}
    PROVE  OpInv'
<1>1. IInv'
  BY OpNextFollows, NextIInv DEF OpInv
<1>2. OpTypeOK'
  BY <1>1, CallsTyped DEF OpInv, OpTypeOK, IInv, ClusterOK
<1>3. ASSUME NEW b \in Apps PROVE CallOK(b)'
  <2>1. CASE b # a
    <3>1. call'[b] = call[b] /\ CallOK(b)
      BY <2>1 DEF OpInv
    <3>2. call[b] # Idle => call[b].req \in Requests /\ AppOf[call[b].req] = b
      BY Called DEF OpInv, CallRecords
    <3> QED
      BY <2>1, <3>1, <3>2 DEF CallOK
  <2> QED
    BY <2>1
<1> QED
  BY <1>1, <1>2, <1>3 DEF OpInv

(* The same for a step that leaves the journal alone: what the new label      *)
(* requires of the call.                                                      *)
LEMMA OpInvQuiet ==
    ASSUME OpInv, [OpNext]_vars, UNCHANGED journalVars, NEW a \in Apps, call[a].at # "idle",
           ClusterOK', ingress' \in [Apps -> Domains],
           call' \in [Apps -> CallRecords \cup {Idle}],
           \A b \in Apps \ {a} : call'[b] = call[b],
           call'[a] # Idle =>
              /\ call'[a].req = call[a].req /\ call'[a].kind = call[a].kind
              /\ call'[a].at \in {"reclaim", "reclaiming"} \/ call[a].at \notin {"reclaim", "reclaiming"}
              /\ call'[a].at \in {"capture", "fence", "fenced", "candidate", "activate", "activated"} =>
                    call[a].kind = "advance"
              /\ call'[a].at \in TokenLabels => call'[a].gate \in GateRecords
              /\ call'[a].at = "intent" => call'[a].target \in TargetRecords
              /\ call'[a].at \in {"restore", "recoveryFence", "replace", "restored"} =>
                    stage[call[a].req] = "recovering"
    PROVE  OpInv'
<1>1. UNCHANGED <<state, stage, withdrawals, intent, deleting>>
  BY DEF journalVars, requestVars, checkpointVars
<1>2. /\ AppOf[call[a].req] = a /\ state[call[a].req] # "absent"
      /\ call[a].kind = "advance" /\ call[a].at \notin {"reclaim", "reclaiming"} => call[a].req \notin withdrawals
  BY CallFacts
<1>3. CallOK(a)'
  BY <1>1, <1>2, CallOKNext
<1>4. call'[a] # Idle => AppOf[call'[a].req] = a
  BY <1>2
<1>5. /\ \A r \in Requests : stage[r] # "absent" => intent[r] \in IntentRecords
      /\ deleting = {}
  BY DEF OpInv
<1> QED
  BY <1>1, <1>3, <1>4, <1>5, OpInvClosed

(* Reads of the cluster, and the decisions taken on them. *)
LEMMA ReadOpInv ==
    ASSUME OpInv, [OpNext]_vars, NEW a \in Apps, ReadStep(a)
    PROVE  OpInv'
<1>1. UNCHANGED journalVars /\ UNCHANGED <<service, revision, pods, late, ingress>>
  BY DEF ReadStep, clusterVars, serviceVars
<1>2. OpTypeOK /\ ClusterOK
  BY DEF OpInv, OpTypeOK, ClusterOK
<1>3. ClusterOK' /\ ingress' \in [Apps -> Domains]
  BY <1>1, <1>2 DEF ClusterOK, OpTypeOK
<1>4. ASSUME call[a].at # "idle", NEW l \in Labels, Goto(a, l), call[a].at \notin {"reclaim", "reclaiming"},
             l \notin TokenLabels, l \notin {"intent", "restore", "recoveryFence", "replace", "restored"},
             l \in {"capture", "fence", "fenced", "candidate", "activate", "activated"} => call[a].kind = "advance"
      PROVE  OpInv'
  <2>1. /\ call' \in [Apps -> CallRecords \cup {Idle}]
        /\ \A b \in Apps \ {a} : call'[b] = call[b]
        /\ call'[a].at = l /\ call'[a].kind = call[a].kind /\ call'[a].req = call[a].req
    BY <1>2, <1>4, GotoMoves, LabelNotIdle
  <2> QED
    BY <1>1, <1>3, <1>4, <2>1, OpInvQuiet
<1>5. ASSUME call[a].at # "idle", NEW l \in Labels, NEW t \in {service[a].spec.target, NoTarget},
             Exists(service[a]), Hold(a, l, GateOf(service[a]), t),
             l = "reclaiming" \/ call[a].at \notin {"reclaim", "reclaiming"},
             l \notin {"capture", "fence", "fenced", "candidate", "activate", "activated"},
             l = "intent" => t = service[a].spec.target,
             l \in {"restore", "recoveryFence", "replace", "restored"} => call[a].at = "restore"
      PROVE  OpInv'
  <2>1. /\ call' \in [Apps -> CallRecords \cup {Idle}]
        /\ call'[a].at = l /\ call'[a].kind = call[a].kind /\ call'[a].req = call[a].req
        /\ call'[a].gate \in GateRecords /\ call'[a].target = t
        /\ service[a].spec.target \in TargetRecords
        /\ \A b \in Apps \ {a} : call'[b] = call[b]
    BY <1>2, <1>5, HoldService, LabelNotIdle, ZenonT(40)
  <2>2. call[a].at = "restore" => stage[call[a].req] = "recovering"
    BY CallFacts
  <2> QED
    BY <1>1, <1>3, <1>5, <2>1, <2>2, OpInvQuiet
<1> USE DEF Labels, TokenLabels
<1>6. CASE ObserveTarget(a)
  <2>1. call[a].at \in {"prepare", "created"}
    BY <1>6 DEF ObserveTarget
  <2>2. CASE Goto(a, "create")
    BY <1>4, <2>1, <2>2
  <2>3. CASE Exists(service[a]) /\ Hold(a, "reset", GateOf(service[a]), service[a].spec.target)
    BY <1>5, <2>1, <2>3
  <2>4. CASE Goto(a, "capture") /\ ~Withdrawing(a)
    <3>1. call[a].kind = "advance"
      BY <2>1, <2>4, CallFacts DEF Withdrawing
    <3> QED
      BY <1>4, <2>1, <2>4, <3>1
  <2>5. CASE Exists(service[a]) /\ Hold(a, "intent", GateOf(service[a]), service[a].spec.target)
    BY <1>5, <2>1, <2>5
  <2> QED
    BY <1>6, <2>2, <2>3, <2>4, <2>5 DEF ObserveTarget
<1>7. CASE Capture(a)
  BY <1>5, <1>7 DEF Capture, At
<1>8. CASE CaptureRecovery(a)
  <2>1. /\ call[a].at = "restore" /\ Exists(service[a])
        /\ \E l \in {"recoveryFence", "replace", "restored"} : Hold(a, l, GateOf(service[a]), NoTarget)
    BY <1>8 DEF CaptureRecovery, At
  <2> QED
    BY <1>5, <2>1
<1>9. CASE CheckRetired(a)
  BY <1>4, <1>9 DEF CheckRetired, At
<1>10. CASE Observe(a)
  <2>1. call[a].at = "observe" /\ Exists(service[a]) /\ Hold(a, "route", GateOf(service[a]), service[a].spec.target)
    BY <1>10 DEF Observe, At, AtGate
  <2> QED
    BY <1>5, <2>1
<1>11. CASE Recheck(a)
  BY <1>4, <1>11 DEF Recheck, At
<1>12. CASE Reclaim(a)
  <2>1. call[a].at = "reclaim" /\ Exists(service[a]) /\ Hold(a, "reclaiming", GateOf(service[a]), service[a].spec.target)
    BY <1>12, ZenonT(40) DEF Reclaim, At
  <2> QED
    BY <1>5, <2>1
<1> QED
  BY <1>6, <1>7, <1>8, <1>9, <1>10, <1>11, <1>12 DEF ReadStep

(* What the calls write to the Service. *)
LEMMA BodiesTyped ==
    ASSUME OpInv, NEW a \in Apps, call[a] # Idle
    PROVE  LET r == call[a].req
               s == service[a] IN
           /\ Create(Initial(a, r, requested[r].port)) \in ServiceRecords
           /\ Exists(s) =>
                /\ Update(s, Rebound(r, requested[r].port)) \in ServiceRecords
                /\ Update(s, Fenced(s, Operation(r))) \in ServiceRecords
                /\ Update(s, Fenced(s, Recovery(r))) \in ServiceRecords
                /\ Update(s, Replaced(s, Target(Candidate(r), requested[r].port))) \in ServiceRecords
                /\ stage[r] # "absent" => Update(s, Replaced(s, intent[r].target)) \in ServiceRecords
<1> DEFINE r == call[a].req
           s == service[a]
<1>1. r \in Requests /\ state[r] # "absent"
  BY Called DEF OpInv, CallOK, CallRecords
<1>2. requested[r].port \in {c.port : c \in Configs}
  BY <1>1, SMTT(30) DEF OpInv, OpTypeOK, TypeOK
<1>3. /\ NoOperation(a) \in Operations(Owners) /\ Operation(r) \in Operations(Owners)
      /\ Recovery(r) \in Operations(Owners) /\ Bootstrap(r) \in Operations(Owners)
  BY <1>1 DEF NoOperation, Operation, Recovery, Bootstrap, Id, Operations, Owners
<1>4. Target(Inactive(r), requested[r].port) \in TargetRecords /\ Target(Candidate(r), requested[r].port) \in TargetRecords
  BY <1>1, <1>2 DEF Target, Inactive, Candidate, Id, Selectors, TargetRecords, Owners
<1>5. stage[r] # "absent" => intent[r].target \in TargetRecords
  BY <1>1 DEF OpInv, IntentRecords
<1>6. Initial(a, r, requested[r].port) \in SpecRecords /\ Rebound(r, requested[r].port) \in SpecRecords
  BY <1>1, <1>3, <1>4 DEF Initial, Rebound, SpecRecords
<1>7. 0 \in 0 .. MaxRevision
  BY OperationAssumption, SMTT(30)
<1>8. Create(Initial(a, r, requested[r].port)) \in ServiceRecords
  BY <1>6, <1>7 DEF Create, ServiceRecords
<1>9. ASSUME NEW spec \in SpecRecords, Exists(s) PROVE Update(s, spec) \in ServiceRecords
  BY <1>9, GateTyped DEF Update, ServiceRecords, OpInv, OpTypeOK, ClusterOK
<1>10. ASSUME NEW op \in Operations(Owners), Exists(s) PROVE Fenced(s, op) \in SpecRecords
  <2>1. s.spec \in SpecRecords
    BY <1>10, GateTyped DEF OpInv, OpTypeOK, ClusterOK
  <2> QED
    BY <2>1 DEF Fenced, SpecRecords
<1>11. ASSUME NEW t \in TargetRecords, Exists(s) PROVE Replaced(s, t) \in SpecRecords
  <2>1. s.spec \in SpecRecords
    BY <1>11, GateTyped DEF OpInv, OpTypeOK, ClusterOK
  <2> QED
    BY <2>1 DEF Replaced, SpecRecords
<1> QED
  BY <1>3, <1>4, <1>5, <1>6, <1>8, <1>9, <1>10, <1>11

(* Writes to the Service and to workloads. *)
LEMMA WriteOpInv ==
    ASSUME OpInv, [OpNext]_vars, NEW a \in Apps, WriteStep(a)
    PROVE  OpInv'
<1> DEFINE r == call[a].req
           s == service[a]
           AdvanceLabels == {"capture", "fence", "fenced", "candidate", "activate", "activated"}
<1>1. UNCHANGED journalVars /\ UNCHANGED ingress
  BY DEF WriteStep
<1>2. OpTypeOK /\ ClusterOK
  BY DEF OpInv, OpTypeOK, ClusterOK
<1>3. ingress' \in [Apps -> Domains] /\ s.version <= revision /\ 0 <= revision
  BY <1>1, <1>2, OperationAssumption, SMTT(30) DEF ClusterOK, OpTypeOK
<1>4. \A spec : Create(spec).version = 0 /\ Update(s, spec).version = s.version
  BY DEF Create, Update
<1>5. ASSUME call[a].at # "idle", call[a].at \notin {"reclaim", "reclaiming"},
             NEW l \in {"created", "fenced", "activated", "replace", "restored"},
             NEW body \in ServiceRecords, body.version <= revision, SendService(a, body, l),
             l \in {"fenced", "activated"} => call[a].kind = "advance",
             l \in {"replace", "restored"} => stage[r] = "recovering"
      PROVE  OpInv'
  <2>1. l \in Labels /\ (l \in AdvanceLabels => l \in {"fenced", "activated"})
        /\ (l \in {"restore", "recoveryFence", "replace", "restored"} => l \in {"replace", "restored"}) /\ l # "intent"
    BY DEF Labels
  <2>2. call[a] # Idle
    BY <1>5, LabelNotIdle
  <2>3. /\ ClusterOK' /\ call' \in [Apps -> CallRecords \cup {Idle}]
        /\ \A b \in Apps \ {a} : call'[b] = call[b]
        /\ call'[a] # Idle =>
              /\ call'[a].at = l /\ call'[a].kind = call[a].kind /\ call'[a].req = r
              /\ call'[a].gate \in GateRecords
    BY <1>2, <1>5, <2>1, <2>2, SendServiceTyped
  <2> QED
    BY <1>1, <1>3, <1>5, <2>1, <2>3, OpInvQuiet
<1>6. ASSUME call[a].at # "idle", NEW l \in {"activate", "retired", "reclaiming"},
             l = "reclaiming" \/ call[a].at \notin {"reclaim", "reclaiming"},
             NEW x \in Owners, NEW k \in {"start", "tombstone", "retire"}, SendPods(a, PodWrite(k, x), l),
             l = "activate" => call[a].at = "candidate"
      PROVE  OpInv'
  <2>1. /\ l \in Labels /\ (l \in AdvanceLabels \/ l \in TokenLabels => l = "activate") /\ l # "intent"
        /\ l \notin {"restore", "recoveryFence", "replace", "restored"}
    BY DEF Labels, TokenLabels
  <2>2. call[a] # Idle
    BY <1>6, LabelNotIdle
  <2>3. /\ ClusterOK' /\ call' \in [Apps -> CallRecords \cup {Idle}]
        /\ \A b \in Apps \ {a} : call'[b] = call[b]
        /\ call'[a] # Idle =>
              /\ call'[a].at = l /\ call'[a].kind = call[a].kind /\ call'[a].req = r
              /\ call'[a].gate = call[a].gate
    BY <1>2, <1>6, <2>1, <2>2, SendPodsTyped
  <2>4. call[a].at = "candidate" => call[a].kind = "advance" /\ call[a].gate \in GateRecords
    BY CallFacts DEF TokenLabels
  <2> QED
    BY <1>1, <1>3, <1>6, <2>1, <2>3, <2>4, OpInvQuiet
<1>7. ASSUME call[a].at # "idle", call[a].at \notin {"reclaim", "reclaiming"}, UNCHANGED <<serviceVars, pods, late>>,
             NEW l \in {"activate", "retired"}, Goto(a, l), l = "activate" => call[a].at = "candidate"
      PROVE  OpInv'
  <2>1. /\ l \in Labels /\ (l \in AdvanceLabels \/ l \in TokenLabels => l = "activate") /\ l # "intent"
        /\ l \notin {"restore", "recoveryFence", "replace", "restored"}
    BY DEF Labels, TokenLabels
  <2>2. ClusterOK'
    BY <1>2, <1>7 DEF ClusterOK, serviceVars
  <2>3. /\ call' \in [Apps -> CallRecords \cup {Idle}]
        /\ \A b \in Apps \ {a} : call'[b] = call[b]
        /\ call'[a].at = l /\ call'[a].kind = call[a].kind /\ call'[a].req = r /\ call'[a].gate = call[a].gate
    BY <1>2, <1>7, <2>1, GotoMoves, LabelNotIdle
  <2>4. call[a].at = "candidate" => call[a].kind = "advance" /\ call[a].gate \in GateRecords
    BY CallFacts DEF TokenLabels
  <2> QED
    BY <1>1, <1>3, <1>7, <2>1, <2>2, <2>3, <2>4, OpInvQuiet
<1>8. \A x \in Owners : \E k \in {"start", "tombstone", "retire"} : Retirement(x) = PodWrite(k, x)
  BY DEF Retirement
<1>9. call[a].at # "idle" => r \in Owners
  BY CallFacts, ZenonT(40) DEF Owners
<1>10. CASE CreateService(a)
  <2>1. call[a].at = "create" /\ SendService(a, Create(Initial(a, r, requested[r].port)), "created")
    BY <1>10 DEF CreateService, At, Req
  <2>2. Create(Initial(a, r, requested[r].port)) \in ServiceRecords
    BY <2>1, LabelNotIdle, BodiesTyped
  <2> QED
    BY <1>3, <1>4, <1>5, <2>1, <2>2
<1>11. CASE ResetService(a)
  <2> DEFINE w == Update(s, Rebound(r, requested[r].port))
             sent == ServiceWrite(a, w)
  <2>1. call[a].at = "reset" /\ Exists(s)
    BY <1>11 DEF ResetService, At, AtGate
  <2>2. call[a] # Idle /\ w \in ServiceRecords /\ w.version <= revision
    BY <1>3, <1>4, <2>1, LabelNotIdle, BodiesTyped, ZenonT(40)
  <2>3. w.spec.target \in TargetRecords
    BY <2>2 DEF ServiceRecords, SpecRecords
  <2>4. sent \in WriteRecords /\ sent.body = w /\ sent.kind = "service" /\ sent.of = a
    BY <2>2 DEF ServiceWrite, WriteRecords
  <2> HIDE DEF w, sent
  <2>5. CASE Lose(a, sent)
    <3>1. ClusterOK' /\ call' \in [Apps -> CallRecords \cup {Idle}] /\ call'[a] = Idle
          /\ \A b \in Apps \ {a} : call'[b] = call[b]
      BY <1>2, <2>2, <2>4, <2>5, LoseTyped
    <3> QED
      BY <1>1, <1>3, <2>1, <3>1, OpInvQuiet
  <2>6. CASE /\ Perform(sent) /\ UNCHANGED late
             /\ \/ Hold(a, "intent", GateOf(service'[a]), w.spec.target)
                \/ Hold(a, "capture", NoGate, NoTarget) /\ ~Withdrawing(a)
    <3>1. ClusterOK' /\ Exists(service'[a])
      BY <1>2, <2>4, <2>6, PerformTyped
    <3>2. service'[a] \in ServiceRecords
      BY <3>1, SMTT(30) DEF ClusterOK, Exists, Absent
    <3>3. GateOf(service'[a]) \in GateRecords
      BY <3>2 DEF GateOf, ServiceRecords, SpecRecords, GateRecords
    <3>4. "intent" \in Labels /\ "capture" \in Labels /\ "capture" \notin TokenLabels
      BY DEF Labels, TokenLabels
    <3>5. CASE Hold(a, "intent", GateOf(service'[a]), w.spec.target)
      <4>1. PICK g \in GateRecords, t \in TargetRecords : Hold(a, "intent", g, t)
        BY <2>3, <3>3, <3>5
      <4>2. /\ call' \in [Apps -> CallRecords \cup {Idle}]
            /\ \A b \in Apps \ {a} : call'[b] = call[b]
            /\ call'[a].at = "intent" /\ call'[a].kind = call[a].kind /\ call'[a].req = r
            /\ call'[a].gate = g /\ call'[a].target = t
        <5>1. OpTypeOK /\ call[a] # Idle /\ "intent" \in Labels
          BY <1>2, <2>2, <3>4
        <5>2. g \in GateRecords \cup {NoGate} /\ t \in TargetRecords \cup {NoTarget}
          BY <4>1
        <5>3. Held(a, "intent", g, t)
          BY <4>1, <5>1, <5>2, HoldHeld
        <5> QED
          BY <5>3 DEF Held
      <4> QED
        BY <1>1, <1>3, <2>1, <3>1, <4>1, <4>2, OpInvQuiet
    <3>6. CASE Hold(a, "capture", NoGate, NoTarget) /\ ~Withdrawing(a)
      <4>1. /\ call' \in [Apps -> CallRecords \cup {Idle}]
            /\ \A b \in Apps \ {a} : call'[b] = call[b]
            /\ call'[a].at = "capture" /\ call'[a].kind = call[a].kind /\ call'[a].req = r
        BY <1>2, <2>2, <3>4, <3>6, HoldMoves
      <4>2. call[a].kind = "advance"
        BY <2>1, <3>6, CallFacts, ZenonT(40) DEF Withdrawing
      <4> QED
        BY <1>1, <1>3, <2>1, <3>1, <3>4, <4>1, <4>2, OpInvQuiet
    <3> QED
      BY <2>6, <3>5, <3>6
  <2> QED
    BY <1>11, <2>5, <2>6 DEF ResetService, Req, w, sent
<1>12. CASE Fence(a)
  <2>1. /\ call[a].at = "fence" /\ Exists(s)
        /\ SendService(a, Update(s, Fenced(s, Operation(r))), "fenced")
    BY <1>12 DEF Fence, At, AtGate, Req
  <2>2. call[a].kind = "advance" /\ Update(s, Fenced(s, Operation(r))) \in ServiceRecords
    BY <2>1, CallFacts, BodiesTyped, ZenonT(40)
  <2> QED
    BY <1>3, <1>4, <1>5, <2>1, <2>2
<1>13. CASE Activate(a)
  <2>1. /\ call[a].at = "activate" /\ Exists(s)
        /\ SendService(a, Update(s, Replaced(s, Target(Candidate(r), requested[r].port))), "activated")
    BY <1>13 DEF Activate, At, AtGate, Req
  <2>2. /\ call[a].kind = "advance"
        /\ Update(s, Replaced(s, Target(Candidate(r), requested[r].port))) \in ServiceRecords
    BY <2>1, CallFacts, BodiesTyped, ZenonT(40)
  <2> QED
    BY <1>3, <1>4, <1>5, <2>1, <2>2
<1>14. CASE FenceRecovery(a)
  <2>1. /\ call[a].at = "recoveryFence" /\ Exists(s)
        /\ SendService(a, Update(s, Fenced(s, Recovery(r))), "replace")
    BY <1>14 DEF FenceRecovery, At, AtGate, Req
  <2>2. stage[r] = "recovering" /\ Update(s, Fenced(s, Recovery(r))) \in ServiceRecords
    BY <2>1, CallFacts, BodiesTyped, ZenonT(40)
  <2> QED
    BY <1>3, <1>4, <1>5, <2>1, <2>2
<1>15. CASE RestoreTarget(a)
  <2>1. /\ call[a].at = "replace" /\ Exists(s)
        /\ SendService(a, Update(s, Replaced(s, intent[r].target)), "restored")
    BY <1>15 DEF RestoreTarget, At, AtGate, Req
  <2>2. stage[r] = "recovering"
    BY <2>1, CallFacts
  <2>3. Update(s, Replaced(s, intent[r].target)) \in ServiceRecords
    BY <2>1, <2>2, CallFacts, BodiesTyped, ZenonT(40)
  <2> QED
    BY <1>3, <1>4, <1>5, <2>1, <2>2, <2>3
<1>16. CASE StartCandidate(a)
  <2>1. /\ call[a].at = "candidate"
        /\ \/ SendPods(a, PodWrite("start", r), "activate")
           \/ Goto(a, "activate") /\ UNCHANGED <<serviceVars, pods, late>>
    BY <1>16 DEF StartCandidate, At, Req
  <2> QED
    BY <1>6, <1>7, <1>9, <2>1
<1>17. CASE RetireCandidate(a)
  <2>1. /\ call[a].at = "retire"
        /\ \/ SendPods(a, Retirement(r), "retired")
           \/ Goto(a, "retired") /\ UNCHANGED <<serviceVars, pods, late>>
    BY <1>17 DEF RetireCandidate, At, Req
  <2> QED
    BY <1>6, <1>7, <1>8, <1>9, <2>1
<1>18. CASE \E q \in Requests : RetireOther(a, q)
  <2>1. PICK q \in Owners : call[a].at = "reclaiming" /\ SendPods(a, Retirement(q), "reclaiming")
    BY <1>18 DEF RetireOther, At, Owners
  <2> QED
    BY <1>6, <1>8, <2>1
<1>19. CASE RetireLegacy(a)
  <2>1. call[a].at = "reclaiming" /\ SendPods(a, Retirement(a), "reclaiming") /\ a \in Owners
    BY <1>19 DEF RetireLegacy, At, Owners
  <2> QED
    BY <1>6, <1>8, <2>1
<1> QED
  BY <1>10, <1>11, <1>12, <1>13, <1>14, <1>15, <1>16, <1>17, <1>18, <1>19 DEF WriteStep

(* The Ingress write, and every early return. *)
LEMMA RouteOpInv ==
    ASSUME OpInv, [OpNext]_vars, NEW a \in Apps, RouteStep(a) \/ Leave(a)
    PROVE  OpInv'
<1>1. UNCHANGED journalVars /\ UNCHANGED <<service, revision, pods, late>>
  BY ZenonT(40) DEF RouteStep, Leave, ReconcileRoute, clusterVars, serviceVars
<1>2. OpTypeOK /\ ClusterOK
  BY DEF OpInv, OpTypeOK, ClusterOK
<1>3. ClusterOK'
  BY <1>1, <1>2 DEF ClusterOK
<1>4. CASE RouteStep(a)
  <2>1. /\ call[a].at = "route" /\ Goto(a, "recheck")
        /\ ingress' = [ingress EXCEPT ![a] = RouteConfig(a).domain]
    BY <1>4 DEF RouteStep, ReconcileRoute, At
  <2>2. call[a].req \in Requests /\ state[call[a].req] # "absent"
    BY <2>1, CallFacts, ZenonT(40)
  <2>3. requested[call[a].req] \in Configs /\ previous[call[a].req] \in Configs \cup {NoConfig}
    BY <1>2, <2>2, RequestTyped DEF OpTypeOK
  <2>4. RouteConfig(a).domain \in Domains
    BY <2>2, <2>3, DomainType, SMTT(30) DEF RouteConfig, Req
  <2>5. ingress' \in [Apps -> Domains]
    BY <1>2, <2>1, <2>4 DEF OpTypeOK
  <2>6. "recheck" \in Labels /\ "recheck" \notin TokenLabels
    BY DEF Labels, TokenLabels
  <2>7. /\ call' \in [Apps -> CallRecords \cup {Idle}]
        /\ \A b \in Apps \ {a} : call'[b] = call[b]
        /\ call'[a].at = "recheck" /\ call'[a].kind = call[a].kind /\ call'[a].req = call[a].req
    BY <1>2, <2>1, <2>6, GotoMoves, LabelNotIdle
  <2> QED
    BY <1>1, <1>3, <2>1, <2>5, <2>6, <2>7, OpInvQuiet
<1>5. CASE Leave(a)
  <2>1. call[a] # Idle /\ Return(a) /\ UNCHANGED ingress
    BY <1>5, ZenonT(40) DEF Leave, clusterVars
  <2>2. call[a].at # "idle"
    BY <1>2, <2>1, Called DEF Labels
  <2>3. ingress' \in [Apps -> Domains]
    BY <1>2, <2>1 DEF OpTypeOK
  <2> QED
    BY <1>1, <1>2, <1>3, <2>1, <2>2, <2>3, ReturnMoves, OpInvQuiet
<1> QED
  BY <1>4, <1>5

(* The transactions of a call in progress. *)
LEMMA CommitOpInv ==
    ASSUME OpInv, [OpNext]_vars, NEW a \in Apps, CommitStep(a)
    PROVE  OpInv'
<1> DEFINE r == call[a].req
           AdvanceLabels == {"capture", "fence", "fenced", "candidate", "activate", "activated"}
           RestoreLabels == {"restore", "recoveryFence", "replace", "restored"}
<1>1. UNCHANGED <<service, revision, pods, late, ingress>> /\ deleting' = {}
  BY ZenonT(40) DEF CommitStep, clusterVars, serviceVars, OpInv
<1>2. OpTypeOK /\ ClusterOK /\ TypeOK
  BY DEF OpInv, OpTypeOK, ClusterOK
<1>3. ClusterOK' /\ ingress' \in [Apps -> Domains]
  BY <1>1, <1>2 DEF ClusterOK, OpTypeOK
<1>4. \A s \in Requests : stage[s] # "absent" => intent[s] \in IntentRecords
  BY DEF OpInv
<1>5. ASSUME call[a].at # "idle", call[a].at \notin {"reclaim", "reclaiming"},
             withdrawals' = withdrawals, state'[r] # "absent",
             \A s \in Requests \ {r} : state'[s] = state[s] /\ stage'[s] = stage[s] /\ intent'[s] = intent[s],
             stage'[r] # "absent" => intent'[r] \in IntentRecords,
             call' \in [Apps -> CallRecords \cup {Idle}],
             \A b \in Apps \ {a} : call'[b] = call[b],
             call'[a] # Idle =>
                /\ call'[a].req = r /\ call'[a].kind = call[a].kind /\ call'[a].at # "intent"
                /\ call'[a].at \in AdvanceLabels => call[a].kind = "advance"
                /\ call'[a].at \in TokenLabels => call'[a].gate \in GateRecords
                /\ call'[a].at \in RestoreLabels => stage'[r] = "recovering"
      PROVE  OpInv'
  <2>1. r \in Requests /\ AppOf[r] = a /\ (call[a].kind = "advance" => r \notin withdrawals)
    BY <1>5, CallFacts
  <2>2. CallOK(a)'
    BY <1>5, <2>1, CallOKNext, ZenonT(40)
  <2>3. \A s \in Requests : AppOf[s] # a =>
           state'[s] = state[s] /\ stage'[s] = stage[s] /\ (s \in withdrawals' => s \in withdrawals)
    BY <1>5, <2>1
  <2>4. \A s \in Requests : stage'[s] # "absent" => intent'[s] \in IntentRecords
    BY <1>4, <1>5
  <2>5. call'[a] # Idle => AppOf[call'[a].req] = a
    BY <1>5, <2>1
  <2> QED
    BY <1>1, <1>3, <1>5, <2>2, <2>3, <2>4, <2>5, OpInvClosed
<1>6. ASSUME call[a].at # "idle", call[a].at \notin {"reclaim", "reclaiming"},
             NEW e, NEW n, NEW g, RecordActivationGate(r, e, n, g)
      PROVE  /\ withdrawals' = withdrawals /\ state'[r] # "absent"
             /\ \A s \in Requests \ {r} : state'[s] = state[s] /\ stage'[s] = stage[s] /\ intent'[s] = intent[s]
             /\ intent'[r] \in IntentRecords
             /\ stage'[r] = n
  <2>1. r \in Requests
    BY <1>6, CallFacts
  <2>2. /\ UNCHANGED <<withdrawals, state, intent>> /\ state[r] = "pending"
        /\ stage[r] = e /\ stage' = [stage EXCEPT ![r] = n] /\ e # "absent"
    BY <1>6 DEF RecordActivationGate, ValidCheckpointTransition, requestVars
  <2>3. stage \in [Requests -> Stages]
    BY <1>2 DEF TypeOK
  <2> QED
    BY <1>4, <2>1, <2>2, <2>3
<1>7. ASSUME call[a].at # "idle", call[a].at \notin {"reclaim", "reclaiming"},
             UNCHANGED <<requestVars, checkpointVars, appVars>>
      PROVE  /\ withdrawals' = withdrawals /\ state'[r] # "absent"
             /\ \A s \in Requests \ {r} : state'[s] = state[s] /\ stage'[s] = stage[s] /\ intent'[s] = intent[s]
             /\ stage'[r] # "absent" => intent'[r] \in IntentRecords
             /\ stage'[r] = stage[r]
  <2>1. r \in Requests /\ state[r] # "absent"
    BY <1>7, CallFacts
  <2>2. UNCHANGED <<withdrawals, state, intent, stage>>
    BY <1>7 DEF requestVars, checkpointVars
  <2> QED
    BY <1>4, <2>1, <2>2
<1>8. ASSUME call[a].at # "idle", NEW l \in Labels, Goto(a, l)
      PROVE  /\ call' \in [Apps -> CallRecords \cup {Idle}]
             /\ \A b \in Apps \ {a} : call'[b] = call[b]
             /\ call'[a].at = l /\ call'[a].kind = call[a].kind /\ call'[a].req = r
             /\ call'[a].gate = call[a].gate
  BY <1>2, <1>8, GotoMoves, LabelNotIdle, ZenonT(40)
<1>9. CASE SaveIntent(a)
  <2>1. /\ call[a].at = "intent"
        /\ SaveActivationIntent(r, [requested |-> requested[r], gate |-> call[a].gate, target |-> call[a].target])
        /\ Goto(a, "recover") \/ (Goto(a, "fence") /\ ~Withdrawing(a))
    BY <1>9 DEF SaveIntent, At, Req
  <2>2. /\ r \in Requests /\ call[a].gate \in GateRecords /\ call[a].target \in TargetRecords
        /\ call[a].kind \in {"advance", "recover"}
    BY <2>1, CallFacts, ZenonT(40) DEF TokenLabels
  <2>3. /\ UNCHANGED <<withdrawals, state>> /\ state[r] = "pending"
        /\ stage' = [stage EXCEPT ![r] = "prepared"]
        /\ intent' = [intent EXCEPT ![r] = [requested |-> requested[r], gate |-> call[a].gate, target |-> call[a].target]]
    BY <2>1 DEF SaveActivationIntent, requestVars
  <2>4. requested[r] \in Configs /\ stage \in [Requests -> Stages] /\ intent \in [Requests -> Intents \cup {NoIntent}]
    BY <1>2, <2>2, <2>3, SMTT(30) DEF TypeOK
  <2>5. intent'[r] \in IntentRecords
    BY <2>2, <2>3, <2>4, ZenonT(40) DEF IntentRecords
  <2>6. \A s \in Requests \ {r} : state'[s] = state[s] /\ stage'[s] = stage[s] /\ intent'[s] = intent[s]
    BY <2>2, <2>3, <2>4
  <2>7. "recover" \in Labels /\ "fence" \in Labels /\ "recover" \notin TokenLabels
    BY DEF Labels, TokenLabels
  <2>8. CASE Goto(a, "recover")
    BY <1>5, <1>8, <2>1, <2>3, <2>5, <2>6, <2>7, <2>8
  <2>9. CASE Goto(a, "fence") /\ ~Withdrawing(a)
    <3>1. call[a].kind = "advance"
      BY <2>2, <2>9 DEF Withdrawing
    <3> QED
      BY <1>5, <1>8, <2>1, <2>2, <2>3, <2>5, <2>6, <2>7, <2>9, <3>1, ZenonT(40)
  <2> QED
    BY <2>1, <2>8, <2>9
<1>10. CASE RecordFence(a)
  <2>1. call[a].at = "fenced" /\ RecordActivationGate(r, "prepared", "fenced", call[a].gate) /\ Goto(a, "candidate")
    BY <1>10 DEF RecordFence, At, Req
  <2>2. call[a].kind = "advance" /\ call[a].gate \in GateRecords
    BY <2>1, CallFacts DEF TokenLabels
  <2>3. "candidate" \in Labels
    BY DEF Labels
  <2> QED
    BY <1>5, <1>6, <1>8, <2>1, <2>2, <2>3
<1>11. CASE RecordActivation(a)
  <2>1. call[a].at = "activated" /\ RecordActivationGate(r, "fenced", "activated", call[a].gate) /\ Goto(a, "observe")
    BY <1>11 DEF RecordActivation, At, Req
  <2>2. "observe" \in Labels /\ "observe" \notin TokenLabels
    BY DEF Labels, TokenLabels
  <2> QED
    BY <1>5, <1>6, <1>8, <2>1, <2>2
<1>12. CASE RecordRecovery(a)
  <2>1. /\ call[a].at = "recover"
        /\ \/ RecordActivationGate(r, stage[r], "recovering", RecoveryMark(r)) /\ Goto(a, "restore")
           \/ stage[r] = "recovering" /\ Goto(a, "restore") /\ UNCHANGED <<requestVars, checkpointVars, appVars>>
           \/ Hold(a, "retire", gate[r], NoTarget) /\ stage[r] = "withdrawn"
              /\ UNCHANGED <<requestVars, checkpointVars, appVars>>
    BY <1>12 DEF RecordRecovery, At, Req
  <2>2. /\ "restore" \in Labels /\ "retire" \in Labels
        /\ "restore" \notin TokenLabels /\ "retire" \notin TokenLabels
    BY DEF Labels, TokenLabels
  <2>3. CASE RecordActivationGate(r, stage[r], "recovering", RecoveryMark(r)) /\ Goto(a, "restore")
    <3>1. /\ withdrawals' = withdrawals /\ state'[r] # "absent"
          /\ \A s \in Requests \ {r} : state'[s] = state[s] /\ stage'[s] = stage[s] /\ intent'[s] = intent[s]
          /\ intent'[r] \in IntentRecords
          /\ stage'[r] = "recovering"
      BY <1>6, <2>1, <2>3
    <3>2. /\ call' \in [Apps -> CallRecords \cup {Idle}]
          /\ \A b \in Apps \ {a} : call'[b] = call[b]
          /\ call'[a].at = "restore" /\ call'[a].kind = call[a].kind /\ call'[a].req = r
      BY <1>8, <2>1, <2>2, <2>3
    <3> QED
      BY <1>5, <2>1, <2>2, <3>1, <3>2
  <2>4. CASE stage[r] = "recovering" /\ Goto(a, "restore") /\ UNCHANGED <<requestVars, checkpointVars, appVars>>
    BY <1>5, <1>7, <1>8, <2>1, <2>2, <2>4
  <2>5. CASE Hold(a, "retire", gate[r], NoTarget) /\ stage[r] = "withdrawn"
             /\ UNCHANGED <<requestVars, checkpointVars, appVars>>
    <3>1. r \in Requests /\ call[a] # Idle
      BY <2>1, CallFacts, ZenonT(40)
    <3>2. gate[r] \in GateRecords \cup {NoGate}
      BY <1>2, <3>1, OperationAssumption DEF TypeOK
    <3>3. /\ call' \in [Apps -> CallRecords \cup {Idle}]
          /\ \A b \in Apps \ {a} : call'[b] = call[b]
          /\ call'[a].at = "retire" /\ call'[a].kind = call[a].kind /\ call'[a].req = r
      BY <1>2, <2>2, <2>5, <3>1, <3>2, HoldMoves
    <3> QED
      BY <1>5, <1>7, <2>1, <2>2, <2>5, <3>3
  <2> QED
    BY <2>1, <2>3, <2>4, <2>5
<1>13. CASE RecordRestored(a)
  <2>1. call[a].at = "restored" /\ RecordActivationGate(r, "recovering", "withdrawn", call[a].gate) /\ Goto(a, "retire")
    BY <1>13 DEF RecordRestored, At, Req
  <2>2. "retire" \in Labels /\ "retire" \notin TokenLabels
    BY DEF Labels, TokenLabels
  <2> QED
    BY <1>5, <1>6, <1>8, <2>1, <2>2
<1>14. CASE Finalize(a)
  <2>1. /\ call[a].at = "finalize"
        /\ \/ FinalizeApplied(r, call[a].gate) /\ Hold(a, "reclaim", NoGate, NoTarget)
           \/ FinalizeWithdrawn(r, call[a].gate) /\ Return(a)
    BY <1>14 DEF Finalize, At, Req
  <2>2. r \in Requests /\ call[a] # Idle
    <3>1. call[a].at = "finalize"
      BY <2>1
    <3> QED
      BY <3>1, CallFacts
  <2>3. /\ UNCHANGED <<withdrawals, stage, intent>> /\ state[r] = "pending"
        /\ \E o \in Terminal : state' = [state EXCEPT ![r] = o]
    BY <2>1 DEF FinalizeApplied, FinalizeWithdrawn, Finalizable, Decide, checkpointVars, Terminal
  <2>4. state \in [Requests -> {"absent", "pending"} \cup Terminal]
    BY <1>2 DEF TypeOK
  <2>5. /\ state'[r] # "absent"
        /\ \A s \in Requests \ {r} : state'[s] = state[s] /\ stage'[s] = stage[s] /\ intent'[s] = intent[s]
        /\ stage'[r] # "absent" => intent'[r] \in IntentRecords
    BY <1>4, <2>2, <2>3, <2>4 DEF Terminal
  <2>6. "reclaim" \in Labels /\ "reclaim" \notin TokenLabels
    BY DEF Labels, TokenLabels
  <2>7. CASE Hold(a, "reclaim", NoGate, NoTarget)
    <3>1. /\ call' \in [Apps -> CallRecords \cup {Idle}]
          /\ \A b \in Apps \ {a} : call'[b] = call[b]
          /\ call'[a].at = "reclaim" /\ call'[a].kind = call[a].kind /\ call'[a].req = r
      BY <1>2, <2>2, <2>6, <2>7, HoldMoves
    <3> QED
      BY <1>5, <2>1, <2>3, <2>5, <2>6, <3>1, ZenonT(40)
  <2>8. CASE Return(a)
    BY <1>2, <1>5, <2>1, <2>3, <2>5, <2>8, ReturnMoves
  <2> QED
    BY <2>1, <2>7, <2>8
<1> QED
  BY <1>9, <1>10, <1>11, <1>12, <1>13, <1>14 DEF CommitStep

(* An RPC that takes the lock and runs its first transaction. *)
LEMMA RpcOpInv ==
    ASSUME OpInv, [OpNext]_vars, NEW a \in Apps, NEW r \in Requests, RpcStep(a, r)
    PROVE  OpInv'
<1> DEFINE AdvanceLabels == {"capture", "fence", "fenced", "candidate", "activate", "activated"}
           RestoreLabels == {"restore", "recoveryFence", "replace", "restored"}
<1>1. UNCHANGED <<service, revision, pods, late, ingress>> /\ deleting' = {} /\ AppOf[r] = a
  BY ZenonT(40) DEF RpcStep, Rpc, clusterVars, serviceVars, OpInv
<1>2. OpTypeOK /\ ClusterOK /\ TypeOK
  BY DEF OpInv, OpTypeOK, ClusterOK
<1>3. ClusterOK' /\ ingress' \in [Apps -> Domains]
  BY <1>1, <1>2, ZenonT(40) DEF ClusterOK, OpTypeOK
<1>4. \A s \in Requests : stage[s] # "absent" => intent[s] \in IntentRecords
  BY DEF OpInv
<1>5. ASSUME UNCHANGED <<stage, intent>>, state'[r] # "absent",
             \A s \in Requests \ {r} : state'[s] = state[s] /\ (s \in withdrawals' => s \in withdrawals),
             NEW k \in {"advance", "recover"}, NEW l \in Labels, NEW g \in GateRecords \cup {NoGate},
             Open(a, r, k, l, g),
             l \notin RestoreLabels /\ l # "intent",
             k = "advance" => l = "reclaim" \/ r \notin withdrawals',
             l \in AdvanceLabels => k = "advance",
             l \in TokenLabels => g \in GateRecords
      PROVE  OpInv'
  <2>1. /\ call' \in [Apps -> CallRecords \cup {Idle}]
        /\ call'[a].at = l /\ call'[a].kind = k /\ call'[a].req = r /\ call'[a].gate = g
        /\ \A b \in Apps \ {a} : call'[b] = call[b]
    BY <1>2, <1>5, OpenMoves, SMTT(30)
  <2>2. CallOK(a)'
    BY <1>5, <2>1, CallOKNext, ZenonT(40)
  <2>3. \A s \in Requests : AppOf[s] # a =>
           state'[s] = state[s] /\ stage'[s] = stage[s] /\ (s \in withdrawals' => s \in withdrawals)
    BY <1>1, <1>5
  <2>4. \A s \in Requests : stage'[s] # "absent" => intent'[s] \in IntentRecords
    BY <1>4, <1>5
  <2>5. call'[a] # Idle => AppOf[call'[a].req] = a
    BY <1>1, <2>1
  <2> QED
    BY <1>1, <1>3, <2>1, <2>2, <2>3, <2>4, <2>5, OpInvClosed, ZenonT(40)
<1>6. /\ {"prepare", "recover", "candidate", "observe", "reclaim"} \subseteq Labels
      /\ "prepare" \notin TokenLabels /\ "recover" \notin TokenLabels
      /\ "observe" \notin TokenLabels /\ "reclaim" \notin TokenLabels
  BY DEF Labels, TokenLabels
<1>7. ASSUME NEW c \in Configs, NEW w \in BOOLEAN, BeginCandidate(r, c, w),
             Open(a, r, IF w THEN "recover" ELSE "advance", "prepare", NoGate)
      PROVE  OpInv'
  <2>1. /\ UNCHANGED <<stage, intent>> /\ state[r] = "absent" /\ state' = [state EXCEPT ![r] = "pending"]
        /\ withdrawals' = IF w THEN withdrawals \cup {r} ELSE withdrawals
    BY <1>7, ZenonT(40) DEF BeginCandidate, checkpointVars
  <2>2. state'[r] # "absent" /\ \A s \in Requests \ {r} : state'[s] = state[s] /\ (s \in withdrawals' => s \in withdrawals)
    BY <1>2, <2>1 DEF TypeOK
  <2>3. ~w => r \notin withdrawals'
    BY <1>2, <2>1 DEF TypeOK
  <2>4. CASE w
    BY <1>5, <1>6, <1>7, <2>1, <2>2, <2>4
  <2>5. CASE ~w
    BY <1>5, <1>6, <1>7, <2>1, <2>2, <2>3, <2>5
  <2> QED
    BY <2>4, <2>5
<1>8. CASE StartRecovery(a, r)
  <2>1. /\ UNCHANGED <<stage, intent, state>> /\ withdrawals' = withdrawals \cup {r} /\ state[r] = "pending"
        /\ \E l \in {"prepare", "recover"} : Open(a, r, "recover", l, NoGate)
    BY <1>8 DEF StartRecovery, MarkWithdrawal, checkpointVars
  <2> QED
    BY <1>5, <1>6, <2>1
<1>9. CASE Resume(a, r)
  <2>1. UNCHANGED <<stage, intent, state, withdrawals>>
    BY <1>9, ZenonT(40) DEF Resume, requestVars, checkpointVars
  <2>2. \/ state[r] = "pending" /\ r \notin withdrawals /\ Open(a, r, "advance", "prepare", NoGate)
        \/ /\ state[r] = "pending" /\ r \notin withdrawals /\ stage[r] \in {"fenced", "activated"}
           /\ \E l \in {"candidate", "observe"} : Open(a, r, "advance", l, gate[r])
        \/ state[r] = "applied" /\ Open(a, r, "advance", "reclaim", NoGate)
    BY <1>9 DEF Resume
  <2>3. stage[r] \in {"fenced", "activated"} => gate[r] \in GateRecords
    BY <1>2, OperationAssumption DEF TypeOK
  <2> QED
    BY <1>5, <1>6, <2>1, <2>2, <2>3
<1> QED
  BY <1>7, <1>8, <1>9 DEF RpcStep, Rpc, DeployApp, AdvanceDeployRequest, RecoverDeployRequest, WithdrawDeployRequest

(* Delayed writes and the cluster's own controllers leave calls and journal alone. *)
LEMMA ClusterOpInv ==
    ASSUME OpInv, [OpNext]_vars, UNCHANGED <<journalVars, ingress, call>>,
           \/ \E w \in late : Arrive(w) \/ Vanish(w)
           \/ \E x \in Apps \cup Requests : Reconcile(x)
    PROVE  OpInv'
<1>1. OpTypeOK /\ ClusterOK
  BY DEF OpInv, OpTypeOK, ClusterOK
<1>2. ClusterOK'
  <2>1. ASSUME NEW w \in late, Arrive(w) PROVE ClusterOK'
    <3>1. w \in WriteRecords /\ late' \subseteq late /\ Perform(w)
      BY <1>1, <2>1 DEF Arrive, ClusterOK
    <3> QED
      BY <1>1, <3>1, PerformTyped
  <2>2. ASSUME NEW w \in late, Vanish(w) PROVE ClusterOK'
    BY <1>1, <2>2 DEF Vanish, ClusterOK, serviceVars
  <2>3. ASSUME NEW x \in Owners, Reconcile(x) PROVE ClusterOK'
    BY <1>1, <2>3 DEF Reconcile, ClusterOK, serviceVars, Running, Retiring
  <2> QED
    BY <2>1, <2>2, <2>3 DEF Owners
<1>3. IInv'
  BY OpNextFollows, NextIInv DEF OpInv
<1>4. UNCHANGED <<state, stage, withdrawals, intent, deleting, ingress, call>>
  BY DEF journalVars, requestVars, checkpointVars
<1>5. OpTypeOK'
  BY <1>1, <1>2, <1>3, <1>4 DEF OpTypeOK, ClusterOK, IInv
<1>6. \A a \in Apps : CallOK(a)'
  BY <1>4, ZenonT(40) DEF OpInv, CallOK
<1> QED
  BY <1>3, <1>4, <1>5, <1>6, ZenonT(40) DEF OpInv

-----------------------------------------------------------------------------
(* The initial state satisfies the invariant. *)
LEMMA InitOpInv == OpInit => OpInv
<1> SUFFICES ASSUME OpInit PROVE OpInv
  OBVIOUS
<1>1. IInv
  BY InitIInv DEF OpInit
<1>2. /\ \A a \in Apps : call[a] = Idle
      /\ \A r \in Requests : stage[r] = "absent"
      /\ deleting = {} /\ late = {} /\ revision = 1
  BY DEF OpInit, Init
<1>3. 1 \in 0 .. MaxRevision /\ 1 \in 1 .. MaxRevision
  BY OperationAssumption, SMTT(30)
<1>4. ASSUME NEW a \in live
      PROVE  [op |-> NoOperation(a), target |-> Target(Legacy(a), desired[a].port), boot |-> NoRequest, marked |-> FALSE]
                \in SpecRecords
  <2>1. a \in Apps /\ desired[a] \in Configs
    BY <1>1, <1>4 DEF IInv, TypeOK
  <2>2. NoOperation(a) \in Operations(Owners) /\ Target(Legacy(a), desired[a].port) \in TargetRecords
    BY <2>1 DEF NoOperation, Id, Operations, Owners, Target, Legacy, Selectors, TargetRecords
  <2> QED
    BY <2>2 DEF SpecRecords
<1>5. /\ service \in [Apps -> ServiceRecords \cup {Absent}]
      /\ \A a \in Apps : (service[a] # Absent => Exists(service[a])) /\ service[a].version <= 1
  BY <1>3, <1>4, SMTT(30) DEF OpInit, ServiceRecords, Absent, Exists
<1>6. pods \in [Owners -> {"absent"} \cup Running \cup Retiring]
  BY DEF OpInit, Owners, Running
<1>7. ingress \in [Apps -> Domains]
  BY <1>1 DEF OpInit, IInv, TypeOK
<1>8. call \in [Apps -> [at : Labels, kind : {"advance", "recover"}, req : Requests,
                gate : GateRecords \cup {NoGate}, target : TargetRecords \cup {NoTarget}] \cup {Idle}]
  BY DEF OpInit
<1>9. OpTypeOK
  BY <1>1, <1>2, <1>3, <1>5, <1>6, <1>7, <1>8 DEF OpTypeOK, IInv
<1> QED
  BY <1>1, <1>2, <1>9 DEF OpInv, CallOK

(* Every step preserves the invariant. *)
LEMMA NextOpInv == OpInv /\ [OpNext]_vars => OpInv'
<1> SUFFICES ASSUME OpInv, [OpNext]_vars PROVE OpInv'
  OBVIOUS
<1>1. CASE UNCHANGED vars
  <2>1. UNCHANGED <<service, revision, pods, ingress, late, call, state, stage, withdrawals, intent, deleting>>
        /\ UNCHANGED journalVars
    BY <1>1 DEF vars, clusterVars, serviceVars, journalVars, requestVars, checkpointVars
  <2>2. IInv'
    BY OpNextFollows, NextIInv, ZenonT(40) DEF OpInv
  <2>3. OpTypeOK'
    BY <2>1, <2>2 DEF OpInv, OpTypeOK, IInv
  <2>4. \A a \in Apps : CallOK(a)'
    BY <2>1 DEF OpInv, CallOK
  <2> QED
    BY <2>1, <2>2, <2>3, <2>4 DEF OpInv
<1>2. ASSUME NEW a \in Apps, CallStep(a) \/ Leave(a) PROVE OpInv'
  BY <1>2, ReadOpInv, WriteOpInv, RouteOpInv, CommitOpInv DEF CallStep
<1>3. ASSUME NEW a \in Apps, NEW r \in Requests, RpcStep(a, r) PROVE OpInv'
  BY <1>3, RpcOpInv
<1> QED
  BY <1>1, <1>2, <1>3, ClusterOpInv DEF OpNext

(* The invariant of the coordinator: every call in progress belongs to a      *)
(* bound request, holds what its next step needs, and no call that may still  *)
(* activate its request overlaps a recorded withdrawal.                       *)
THEOREM OperationInvariant == OpSpec => []OpInv
  BY InitOpInv, NextOpInv, PTL DEF OpSpec

(* Types of cluster, delayed writes and calls. *)
THEOREM OperationTypes == OpSpec => []OpTypeOK
<1>1. OpInv => OpTypeOK
  BY DEF OpInv
<1> QED
  BY <1>1, OperationInvariant, PTL

(* The coordinator implements the journal's specification: its lock, its      *)
(* marker checks and its early returns discharge what CandidateJournal        *)
(* assumes of its callers.                                                    *)
THEOREM OperationFollowsJournal == OpSpec => FollowsJournal
<1>1. OpInit => Init
  BY DEF OpInit
<1> QED
  BY <1>1, OpNextFollows, OperationInvariant, PTL DEF OpSpec, Spec, FollowsJournal

(* So the journal's promise to callers, the ledger, is kept end to end. *)
THEOREM OperationRefinesLedger == OpSpec => ImplementsLedger
  BY OperationFollowsJournal, JournalRefinesLedger, PTL DEF FollowsJournal

(* A withdrawal decision is irrevocable: see WithdrawalBarsActivation. *)
THEOREM OperationWithdrawalIrrevocable == OpSpec => WithdrawalBarsActivation
<1> DEFINE Barred == \A r \in withdrawals :
                        /\ stage'[r] \in Advancing => stage'[r] = stage[r]
                        /\ state'[r] # "applied"
<1>1. OpInit => WithdrawnNotApplied
  BY DEF OpInit, Init, WithdrawnNotApplied
<1>2. OpInv /\ WithdrawnNotApplied /\ [OpNext]_vars => WithdrawnNotApplied' /\ Barred
  BY OpNextFollows, NextBarred DEF OpInv
<1>3. OpInv /\ WithdrawnNotApplied /\ [OpNext]_vars => [Barred]_vars
  BY <1>2
<1> HIDE DEF Barred
<1>4. OpSpec => []WithdrawnNotApplied
  BY <1>1, <1>2, OperationInvariant, PTL DEF OpSpec
<1>5. OpSpec => [][Barred]_vars
  BY <1>3, <1>4, OperationInvariant, PTL DEF OpSpec
<1> QED
  BY <1>5 DEF WithdrawalBarsActivation, Barred

-----------------------------------------------------------------------------
(* Transactions *)

(* The checkpoint of the open request moves: what is left to show is that the *)
(* Service is where the new stage has it, and that the stage still accounts   *)
(* for the writes under way.                                                  *)
LEMMA StageObject ==
    ASSUME OpInv, NEW a \in Apps, ObjectInv(a), NEW r \in Pending(a),
           UNCHANGED <<service, pods, late, ingress>>,
           UNCHANGED <<state, requested, previous, desired, live, route>>,
           \A q \in Requests \ {r} : stage'[q] = stage[q] /\ intent'[q] = intent[q],
           stage'[r] # "absent", stage[r] = "withdrawn" => stage'[r] = "withdrawn",
           Phase(r)', Wants(a, intent'[r].target.sel),
           \A c : MayChange(r, service[a], c) => c = service[a].spec \/ MayChange(r, service[a], c)'
    PROVE  ObjectInv(a)' /\ OnlyRows(a)
<1>1. /\ r \in Requests /\ AppOf[r] = a /\ state[r] = "pending"
      /\ \A q \in Requests : AppOf[q] = a /\ state[q] = "pending" => q = r
  BY Single
<1>2. \A q \in Requests : AppOf[q] = a => (Opened(q)' <=> q = r)
  BY <1>1 DEF Opened
<1>3. Exists(service[a])
  BY <1>1 DEF Phase, Shows
<1>4. \A q \in Requests : stage[q] # "absent" => stage'[q] # "absent"
  BY <1>1
<1>5. ServiceInv(a)'
  BY <1>1, <1>2, <1>3, <1>4 DEF ObjectInv, ServiceInv
<1>6. \A sel : Wants(a, sel)' => Wants(a, sel)
  BY <1>2 DEF Wants, Serves
<1>7. \A q \in Requests : Over(q) => Over(q)'
  BY <1>1 DEF Over
<1>8. \A x : Spare(a, x) => Spare(a, x)'
  BY <1>6, <1>7 DEF Spare
<1>9. Pending(a)' = Pending(a) /\ \A q \in Pending(a) : q = r
  BY <1>1 DEF Pending
<1>10. \A body : Fits(a, body) => Fits(a, body)'
  BY <1>3, <1>9 DEF Fits
<1>11. LateInv(a)'
  BY <1>8, <1>10 DEF ObjectInv, LateInv, Permitted
<1>12. PodsInv(a)'
  BY <1>6 DEF ObjectInv, PodsInv
<1>13. RowsInv(a)'
  BY <1>1, <1>9 DEF ObjectInv, RowsInv
<1>14. OnlyRows(a)
  BY <1>1, <1>4 DEF OnlyRows
<1> QED
  BY <1>5, <1>11, <1>12, <1>13, <1>14 DEF ObjectInv

(* A checkpoint transition whose call knows what the Service shows. *)
LEMMA StageShows ==
    ASSUME NEW r, NEW e, NEW n, NEW first, NEW running, NEW i, NEW port, NEW s,
           ValidCheckpointTransition(e, n), s.spec \in SpecRecords,
           Shows(r, e, s, i.target, i.gate, Target(Candidate(r), port)),
           n = "fenced" => s.spec.op = Operation(r),
           n = "activated" => s.spec.target = Target(Candidate(r), port),
           n = "withdrawn" => s.spec.op = Recovery(r) /\ s.spec.target = i.target
    PROVE  /\ Shows(r, n, s, i.target, i.gate, Target(Candidate(r), port))
           /\ \A c : Changes(r, e, first, running, i, port, s, c) =>
                 c = s.spec \/ Changes(r, n, first, running, i, port, s, c)
<1>1. Operation(r) # Recovery(r)
  BY Identities
<1>2. Shows(r, n, s, i.target, i.gate, Target(Candidate(r), port))
  BY <1>1 DEF Shows, ValidCheckpointTransition
<1>3. \A t : s.spec.target = t => Replaced(s, t) = s.spec
  BY DEF Replaced, SpecRecords
<1>4. ASSUME NEW c, Changes(r, e, first, running, i, port, s, c)
      PROVE  c = s.spec \/ Changes(r, n, first, running, i, port, s, c)
  <2>1. i.gate.op \notin {Operation(r), Recovery(r)}
    BY DEF Shows
  <2>2. CASE n = "fenced" /\ e = "prepared"
    BY <1>4, <2>1, <2>2 DEF Changes
  <2>3. CASE n = "activated" /\ e = "fenced"
    BY <1>3, <1>4, <2>1, <2>3 DEF Changes
  <2>4. CASE n = "recovering" /\ e \in {"prepared", "fenced", "activated"}
    BY <1>4, <2>4 DEF Changes
  <2>5. CASE n = "withdrawn" /\ e = "recovering"
    BY <1>1, <1>3, <1>4, <2>1, <2>5 DEF Changes
  <2> QED
    BY <2>2, <2>3, <2>4, <2>5 DEF ValidCheckpointTransition
<1> QED
  BY <1>2, <1>4

(* The Service is where a request that reaches stage n has it. *)
Reached(a, r, n) ==
    /\ n = "fenced" => service[a].spec.op = Operation(r)
    /\ n = "activated" => service[a].spec.target = CandidateTarget(r)
    /\ n = "withdrawn" => service[a].spec.op = Recovery(r) /\ service[a].spec.target = intent[r].target

(* What recording the stage keeps, and what it changes. *)
Recorded(a, r, n) ==
    /\ ObjectInv(a)' /\ OnlyRows(a)
    /\ UNCHANGED <<state, requested, previous, intent>> /\ state[r] = "pending" /\ stage'[r] = n

(* RecordActivationGate *)
LEMMA RecordObject ==
    ASSUME OpInv, NEW a \in Apps, ObjectInv(a), NEW r \in Requests, AppOf[r] = a,
           UNCHANGED <<service, pods, late, ingress>>,
           NEW e, NEW n, NEW g, RecordActivationGate(r, e, n, g), Reached(a, r, n)
    PROVE  Recorded(a, r, n)
<1>0. /\ n = "fenced" => service[a].spec.op = Operation(r)
      /\ n = "activated" => service[a].spec.target = CandidateTarget(r)
      /\ n = "withdrawn" => service[a].spec.op = Recovery(r) /\ service[a].spec.target = intent[r].target
  BY DEF Reached
<1>1. /\ state[r] = "pending" /\ ValidCheckpointTransition(e, n) /\ stage[r] = e
      /\ stage' = [stage EXCEPT ![r] = n]
      /\ UNCHANGED <<state, requested, previous, intent, desired, live, route>>
  BY DEF RecordActivationGate, requestVars, appVars
<1>2. stage \in [Requests -> Stages] /\ ClusterOK
  BY DEF OpInv, OpTypeOK, TypeOK, ClusterOK
<1>3. stage'[r] = n /\ \A q \in Requests \ {r} : stage'[q] = stage[q] /\ intent'[q] = intent[q]
  BY <1>1, <1>2
<1>4. e # "absent" /\ n # "absent" /\ e # "withdrawn"
  BY <1>1 DEF ValidCheckpointTransition
<1>5. r \in Pending(a) /\ Opened(r)
  BY <1>1, <1>4 DEF Pending, Opened
<1>6. Phase(r)
  BY <1>5 DEF ObjectInv, ServiceInv
<1>7. Shows(r, e, service[a], intent[r].target, intent[r].gate, Target(Candidate(r), requested[r].port))
  BY <1>1, <1>6 DEF Phase, CandidateTarget
<1>8. service[a].spec \in SpecRecords
  BY <1>2, <1>7, GateTyped DEF Shows
<1>9. /\ Shows(r, n, service[a], intent[r].target, intent[r].gate, Target(Candidate(r), requested[r].port))
      /\ \A c : Changes(r, e, previous[r] = NoConfig, pods[r] \in Running, intent[r], requested[r].port, service[a], c) =>
             \/ c = service[a].spec
             \/ Changes(r, n, previous[r] = NoConfig, pods[r] \in Running, intent[r], requested[r].port, service[a], c)
  BY <1>0, <1>1, <1>7, <1>8, StageShows DEF CandidateTarget
<1>10. Phase(r)'
  <2>1. Settled(AppOf[r], intent[r].target)'
    BY <1>1, <1>6 DEF Phase, Settled
  <2> QED
    BY <1>1, <1>3, <1>9, <2>1 DEF Phase, CandidateTarget
<1>11. \A c : MayChange(r, service[a], c) => c = service[a].spec \/ MayChange(r, service[a], c)'
  BY <1>1, <1>3, <1>9 DEF MayChange
<1>12. Wants(a, intent'[r].target.sel)
  BY <1>1, <1>5 DEF Wants
<1>13. ObjectInv(a)' /\ OnlyRows(a)
  BY <1>1, <1>3, <1>4, <1>5, <1>10, <1>11, <1>12, StageObject
<1> QED
  BY <1>1, <1>3, <1>13 DEF Recorded

(* SaveActivationIntent, with the token and the target of the Service. *)
LEMMA IntentObject ==
    ASSUME OpInv, NEW a \in Apps, ObjectInv(a), NEW r \in Requests, AppOf[r] = a,
           UNCHANGED <<service, pods, late, ingress>>, Exists(service[a]),
           previous[r] = NoConfig => service[a].spec.target = InactiveTarget(r),
           SaveActivationIntent(r, [requested |-> requested[r], gate |-> GateOf(service[a]), target |-> service[a].spec.target])
    PROVE  /\ ObjectInv(a)' /\ OnlyRows(a)
           /\ UNCHANGED <<state, requested, previous>> /\ state[r] = "pending" /\ stage'[r] = "prepared"
           /\ intent'[r].gate = GateOf(service[a])
<1> DEFINE i == [requested |-> requested[r], gate |-> GateOf(service[a]), target |-> service[a].spec.target]
<1>1. /\ state[r] = "pending" /\ stage[r] = "absent"
      /\ stage' = [stage EXCEPT ![r] = "prepared"] /\ intent' = [intent EXCEPT ![r] = i]
      /\ UNCHANGED <<state, requested, previous, desired, live, route>>
  BY DEF SaveActivationIntent, requestVars, appVars
<1>2. stage \in [Requests -> Stages] /\ intent \in [Requests -> Intents \cup {NoIntent}]
  BY DEF OpInv, OpTypeOK, TypeOK
<1>3. /\ stage'[r] = "prepared" /\ intent'[r].gate = GateOf(service[a]) /\ intent'[r].target = service[a].spec.target
      /\ \A q \in Requests \ {r} : stage'[q] = stage[q] /\ intent'[q] = intent[q]
  BY <1>1, <1>2
<1>4. r \in Pending(a)
  BY <1>1 DEF Pending
<1>5. \A q \in Requests : AppOf[q] = a => ~Opened(q)
  BY <1>1, <1>4, NoneOpened
<1>6. Settled(a, service[a].spec.target) /\ service[a].spec.op \notin {Operation(r), Recovery(r)}
  BY <1>1, <1>5 DEF ObjectInv, ServiceInv
<1>7. Phase(r)'
  <2>1. Settled(AppOf[r], intent[r].target)'
    BY <1>1, <1>3, <1>6 DEF Settled
  <2>2. Shows(r, "prepared", service[a], service[a].spec.target, GateOf(service[a]), CandidateTarget(r))
    BY <1>6 DEF Shows, GateOf
  <2>3. CandidateTarget(r)' = CandidateTarget(r)
    BY <1>1 DEF CandidateTarget
  <2> QED
    BY <1>3, <2>1, <2>2, <2>3 DEF Phase
<1>8. \A c : ~MayChange(r, service[a], c)
  BY <1>1 DEF MayChange, Changes, InactiveTarget
<1>9. Wants(a, intent'[r].target.sel)
  BY <1>3 DEF Wants, Serves
<1>10. ObjectInv(a)' /\ OnlyRows(a)
  BY <1>1, <1>3, <1>4, <1>7, <1>8, <1>9, StageObject
<1> QED
  BY <1>1, <1>3, <1>10

(* The open request is decided: the Service is accounted for by the rows, and *)
(* nothing under way can change it.                                           *)
LEMMA DecidedObject ==
    ASSUME OpInv, NEW a \in Apps, ObjectInv(a), NEW r \in Pending(a), NEW o \in Terminal,
           UNCHANGED <<service, pods, late, ingress>>, UNCHANGED <<stage, intent, requested, previous>>,
           state' = [state EXCEPT ![r] = o],
           stage[r] \in {"activated", "withdrawn"},
           o = "withdrawn" => pods[r] = "retired",
           Settled(a, service[a].spec.target)',
           \A b \in Apps \ {a} : desired'[b] = desired[b] /\ (b \in live' <=> b \in live) /\ route'[b] = route[b],
           route'[a] = IF a \in live' THEN desired'[a].domain ELSE NoDomain,
           ingress[a] = route'[a]
    PROVE  ObjectInv(a)' /\ OnlyRows(a)
<1>1. /\ r \in Requests /\ AppOf[r] = a /\ state[r] = "pending"
      /\ \A q \in Requests : AppOf[q] = a /\ state[q] = "pending" => q = r
  BY Single
<1>2. state \in [Requests -> {"absent", "pending"} \cup Terminal]
  BY DEF OpInv, OpTypeOK, TypeOK
<1>3. state'[r] = o /\ \A q \in Requests \ {r} : state'[q] = state[q]
  BY <1>1, <1>2
<1>4. \A q \in Requests : AppOf[q] = a => ~Opened(q)'
  BY <1>1, <1>3 DEF Opened, Terminal
<1>5. Opened(r) /\ Phase(r)
  BY <1>1 DEF Opened, ObjectInv, ServiceInv
<1>6. Exists(service[a])
  BY <1>1, <1>5 DEF Phase, Shows
<1>7. ServiceInv(a)'
  BY <1>4, <1>6 DEF ObjectInv, ServiceInv
<1>8. \A sel : Wants(a, sel)' => Wants(a, sel)
  BY <1>4 DEF Wants, Serves
<1>9. \A q \in Requests : Over(q) => Over(q)'
  BY <1>3 DEF Over
<1>10. \A x : Spare(a, x) => Spare(a, x)'
  BY <1>8, <1>9 DEF Spare
<1>11. \A q \in Pending(a) : \A c : ~MayChange(q, service[a], c)
  BY <1>1 DEF Pending, MayChange, Changes
<1>12. \A body : Fits(a, body) => Fits(a, body)'
  BY <1>6, <1>11 DEF Fits
<1>13. LateInv(a)'
  BY <1>10, <1>12 DEF ObjectInv, LateInv, Permitted
<1>14. PodsInv(a)'
  BY <1>3, <1>8 DEF ObjectInv, PodsInv
<1>15. RowsInv(a)'
  BY <1>3 DEF ObjectInv, RowsInv, Terminal
<1>16. OnlyRows(a)
  BY <1>1, <1>3 DEF OnlyRows
<1> QED
  BY <1>7, <1>13, <1>14, <1>15, <1>16 DEF ObjectInv

(* Finalize "applied" *)
LEMMA AppliedObject ==
    ASSUME OpInv, NEW a \in Apps, ObjectInv(a), NEW r \in Requests, AppOf[r] = a,
           UNCHANGED <<service, pods, late, ingress>>, NEW g, FinalizeApplied(r, g),
           ingress[a] = requested[r].domain
    PROVE  ObjectInv(a)' /\ OnlyRows(a)
<1>1. /\ state[r] = "pending" /\ stage[r] = "activated"
      /\ state' = [state EXCEPT ![r] = "applied"]
      /\ desired' = [desired EXCEPT ![a] = requested[r]] /\ live' = live \cup {a}
      /\ route' = [route EXCEPT ![a] = requested[r].domain]
      /\ UNCHANGED <<stage, intent, requested, previous>>
  BY DEF FinalizeApplied, Finalizable, Decide, checkpointVars
<1>2. /\ state \in [Requests -> {"absent", "pending"} \cup Terminal]
      /\ desired \in [Apps -> Configs \cup {NoConfig}] /\ route \in [Apps -> Domains]
  BY DEF OpInv, OpTypeOK, TypeOK
<1>3. /\ desired'[a] = requested[r] /\ a \in live' /\ route'[a] = requested[r].domain /\ state'[r] = "applied"
      /\ \A b \in Apps \ {a} : desired'[b] = desired[b] /\ (b \in live' <=> b \in live) /\ route'[b] = route[b]
  BY <1>1, <1>2
<1>4. r \in Pending(a) /\ Opened(r) /\ "applied" \in Terminal
  BY <1>1 DEF Pending, Opened, Terminal
<1>5. service[a].spec.target = CandidateTarget(r)
  BY <1>1, <1>4 DEF ObjectInv, ServiceInv, Phase, Shows
<1>6. CandidateTarget(r).sel = Candidate(r) /\ CandidateTarget(r).port = requested[r].port
  BY DEF CandidateTarget, Target
<1>7. Settled(a, service[a].spec.target)'
  <2>1. PICK t : t = service[a].spec.target
    OBVIOUS
  <2>2. t.sel = Candidate(r) /\ t.port = desired'[a].port
    BY <1>3, <1>5, <1>6, <2>1
  <2>3. \A x : Candidate(r) # Inactive(x) /\ (Candidate(r) = Candidate(x) => r = x)
    BY Identities
  <2>4. a \in live' /\ state'[r] = "applied" /\ desired'[a] = requested'[r] /\ t = service'[a].spec.target
    BY <1>1, <1>3, <2>1
  <2> QED
    BY <2>2, <2>3, <2>4 DEF Settled
<1> QED
  BY <1>1, <1>3, <1>4, <1>7, DecidedObject

(* Finalize "withdrawn" *)
LEMMA WithdrawnObject ==
    ASSUME OpInv, NEW a \in Apps, ObjectInv(a), NEW r \in Requests, AppOf[r] = a,
           UNCHANGED <<service, pods, late, ingress>>, NEW g, FinalizeWithdrawn(r, g), pods[r] = "retired",
           ingress[a] = IF previous[r] # NoConfig THEN previous[r].domain ELSE NoDomain
    PROVE  ObjectInv(a)' /\ OnlyRows(a)
<1>1. /\ state[r] = "pending" /\ stage[r] = "withdrawn"
      /\ state' = [state EXCEPT ![r] = "withdrawn"]
      /\ route' = IF previous[r] = NoConfig THEN [route EXCEPT ![a] = NoDomain] ELSE route
      /\ UNCHANGED <<stage, intent, requested, previous, desired, live>>
  BY DEF FinalizeWithdrawn, Finalizable, Decide, checkpointVars
<1>2. state \in [Requests -> {"absent", "pending"} \cup Terminal] /\ route \in [Apps -> Domains]
  BY DEF OpInv, OpTypeOK, TypeOK
<1>3. r \in Pending(a) /\ Opened(r) /\ "withdrawn" \in Terminal
  BY <1>1 DEF Pending, Opened, Terminal
<1>4. /\ previous[r] = NoConfig <=> a \notin live
      /\ previous[r] # NoConfig => previous[r] = desired[a]
  BY <1>3, Single
<1>5. RowsInv(a)
  BY DEF ObjectInv
<1>6. /\ \A b \in Apps \ {a} : desired'[b] = desired[b] /\ (b \in live' <=> b \in live) /\ route'[b] = route[b]
      /\ route'[a] = IF a \in live' THEN desired'[a].domain ELSE NoDomain
      /\ ingress[a] = route'[a]
  BY <1>1, <1>2, <1>4, <1>5 DEF RowsInv
<1>7. Settled(a, service[a].spec.target)
  BY <1>1, <1>3 DEF ObjectInv, ServiceInv, Phase, Shows
<1>8. \A q \in Requests : state[q] = "applied" => state'[q] = "applied"
  BY <1>1, <1>2
<1>9. Settled(a, service[a].spec.target)'
  BY <1>1, <1>7, <1>8 DEF Settled
<1> QED
  BY <1>1, <1>3, <1>6, <1>9, DecidedObject

(* beginCandidate: nothing is under way that could reach the Service. *)
LEMMA BeginObject ==
    ASSUME OpInv, NEW a \in Apps, ObjectInv(a), NEW r \in Requests, AppOf[r] = a,
           UNCHANGED <<service, pods, late, ingress>>,
           NEW c \in Configs, NEW w \in BOOLEAN, BeginCandidate(r, c, w)
    PROVE  ObjectInv(a)' /\ OnlyRows(a) /\ state'[r] = "pending" /\ stage'[r] = "absent"
<1>1. /\ state[r] = "absent" /\ Pending(a) = {}
      /\ state' = [state EXCEPT ![r] = "pending"]
      /\ requested' = [requested EXCEPT ![r] = c]
      /\ previous' = [previous EXCEPT ![r] = PreviousOf(a)]
      /\ desired' = [desired EXCEPT ![a] = IF @ = NoConfig THEN c ELSE @]
      /\ UNCHANGED <<stage, intent, live, route>>
  BY DEF BeginCandidate, checkpointVars
<1>2. TypeOK
  BY DEF OpInv, OpTypeOK
<1>3. /\ state'[r] = "pending"
      /\ \A q \in Requests \ {r} : state'[q] = state[q] /\ requested'[q] = requested[q] /\ previous'[q] = previous[q]
      /\ \A b \in Apps \ {a} : desired'[b] = desired[b]
      /\ a \in live => desired'[a] = desired[a]
  BY <1>1, <1>2 DEF TypeOK
<1>4. stage[r] = "absent"
  BY <1>1 DEF ObjectInv, RowsInv
<1>5. \A q \in Requests : AppOf[q] = a => ~Opened(q) /\ ~Opened(q)'
  BY <1>1, <1>3, <1>4, SMTT(30) DEF Pending, Opened
<1>6. \A t : Settled(a, t) => Settled(a, t)'
  BY <1>1, <1>3 DEF Settled
<1>7. ServiceInv(a)'
  BY <1>1, <1>5, <1>6 DEF ObjectInv, ServiceInv
<1>8. \A sel : Wants(a, sel)' <=> Wants(a, sel)
  BY <1>5 DEF Wants, Serves
<1>9. \A q \in Requests : Over(q) => Over(q)'
  BY <1>1, <1>3, <1>4 DEF Over, Terminal
<1>10. \A x : Spare(a, x) => Spare(a, x)'
  BY <1>8, <1>9 DEF Spare
<1>11. \A body : Fits(a, body) => Fits(a, body)'
  BY <1>1 DEF Fits
<1>12. LateInv(a)'
  BY <1>10, <1>11 DEF ObjectInv, LateInv, Permitted
<1>13. PodsInv(a)'
  BY <1>3, <1>8 DEF ObjectInv, PodsInv
<1>14. RowsInv(a)'
  BY <1>1, <1>3, <1>4 DEF ObjectInv, RowsInv, Pending
<1>15. OnlyRows(a)
  BY <1>1, <1>3 DEF OnlyRows
<1> QED
  BY <1>1, <1>3, <1>4, <1>7, <1>12, <1>13, <1>14, <1>15 DEF ObjectInv

-----------------------------------------------------------------------------
(* Transactions *)

(* A transaction of a call on a leaves the cluster alone. *)
LEMMA Committed ==
    ASSUME OpInv, ClusterInv, NEW a \in Apps, UNCHANGED clusterVars, OnlyRows(a),
           ObjectInv(a)', CallInv(a)', \A b \in Apps \ {a} : call'[b] = call[b]
    PROVE  ClusterInv'
<1>1. UNCHANGED <<service, revision, pods, late, ingress>> /\ revision \in Nat
  BY RevisionNat DEF clusterVars, serviceVars
<1>2. OnlyObjects(a)
  BY <1>1, VersionOrder DEF OnlyObjects
<1> QED
  BY <1>1, <1>2, Focus

LEMMA CommitCluster ==
    ASSUME OpInv, ClusterInv, NEW a \in Apps, CommitStep(a)
    PROVE  ClusterInv'
<1> DEFINE r == call[a].req
           k == call[a].kind
           Rest == \A b \in Apps \ {a} : call'[b] = call[b]
           Conclusion == ObjectInv(a)' /\ OnlyRows(a) /\ CallInv(a)' /\ Rest
<1>0. UNCHANGED <<service, pods, late, ingress>>
  BY DEF CommitStep, clusterVars, serviceVars
<1>1. UNCHANGED <<service, revision, pods, late, ingress>> /\ UNCHANGED clusterVars
  BY DEF CommitStep, clusterVars, serviceVars
<1>2. OpTypeOK /\ ObjectInv(a) /\ CallInv(a)
  BY DEF OpInv, ClusterInv
<1>3. call[a].at \in {"intent", "fenced", "activated", "recover", "restored", "finalize"}
  BY DEF CommitStep, SaveIntent, RecordFence, RecordActivation, RecordRecovery, RecordRestored, Finalize, At
<1>4. call[a] # Idle
  BY <1>3, LabelNotIdle
<1>5. r \in Requests /\ AppOf[r] = a
  BY <1>2, <1>4, Called DEF CallRecords
<1>6. /\ KnowsRows(call[a].at, r, call[a].gate)
      /\ KnowsService(a, call[a].at, r, call[a].gate, call[a].target)
      /\ KnowsOutcome(a, call[a].at, r, k)
  BY <1>2, <1>4 DEF CallInv
<1>7. ASSUME NEW l \in Labels, Goto(a, l)
      PROVE  /\ Rest /\ call'[a].at = l /\ call'[a].kind = k /\ call'[a].req = r
             /\ call'[a].gate = call[a].gate /\ call'[a].target = call[a].target
  BY <1>2, <1>4, <1>7, GotoMoves
<1>8. call[a].at = "activated" => k = "advance"
  BY <1>4 DEF OpInv, CallOK
<1> HIDE DEF r, k
<1>9. ASSUME SaveIntent(a) PROVE Conclusion
  <2>1. /\ call[a].at = "intent"
        /\ SaveActivationIntent(r, [requested |-> requested[r], gate |-> call[a].gate, target |-> call[a].target])
        /\ \E l \in {"recover", "fence"} : Goto(a, l)
    BY <1>9 DEF SaveIntent, At, Req, r
  <2>2. PICK l \in {"recover", "fence"} : Goto(a, l)
    BY <2>1
  <2>3. /\ Exists(service[a]) /\ call[a].gate = GateOf(service[a]) /\ call[a].target = service[a].spec.target
        /\ previous[r] = NoConfig => service[a].spec.target = InactiveTarget(r)
    BY <1>6, <2>1 DEF KnowsService
  <2>4. SaveActivationIntent(r, [requested |-> requested[r], gate |-> GateOf(service[a]), target |-> service[a].spec.target])
    BY <2>1, <2>3
  <2>5. /\ ObjectInv(a)' /\ OnlyRows(a)
        /\ state' = state /\ state[r] = "pending" /\ stage'[r] = "prepared"
        /\ intent'[r].gate = GateOf(service[a])
    BY <1>1, <1>2, <1>5, <2>3, <2>4, IntentObject
  <2>6. l \in Labels
    BY DEF Labels
  <2>7. Rest /\ call'[a].at = l /\ call'[a].req = r /\ call'[a].gate = call[a].gate
    BY <1>7, <2>2, <2>6
  <2>8. CallInv(a)'
    BY <2>3, <2>5, <2>7 DEF CallInv, KnowsRows, KnowsService, KnowsOutcome, Unprepared, Prepared
  <2> QED
    BY <2>5, <2>7, <2>8
<1>10. ASSUME RecordFence(a) PROVE Conclusion
  <2>1. call[a].at = "fenced" /\ RecordActivationGate(r, "prepared", "fenced", call[a].gate) /\ Goto(a, "candidate")
    BY <1>10 DEF RecordFence, At, Req, r
  <2>2. service[a].spec.op = Operation(r)
    BY <1>6, <2>1 DEF KnowsService
  <2>3. ObjectInv(a)' /\ OnlyRows(a) /\ state' = state /\ state[r] = "pending" /\ stage'[r] = "fenced"
    <3>1. Reached(a, r, "fenced")
      BY <2>2 DEF Reached
    <3>2. Recorded(a, r, "fenced")
      BY <1>0, <1>2, <1>5, <2>1, <3>1, RecordObject
    <3> QED
      BY <3>2 DEF Recorded
  <2>4. Rest /\ call'[a].at = "candidate" /\ call'[a].req = r
    BY <1>7, <2>1 DEF Labels
  <2>5. CallInv(a)'
    BY <2>3, <2>4 DEF CallInv, KnowsRows, KnowsService, KnowsOutcome, Unprepared, Prepared
  <2> QED
    BY <2>3, <2>4, <2>5
<1>11. ASSUME RecordActivation(a) PROVE Conclusion
  <2>1. call[a].at = "activated" /\ RecordActivationGate(r, "fenced", "activated", call[a].gate) /\ Goto(a, "observe")
    BY <1>11 DEF RecordActivation, At, Req, r
  <2>2. service[a].spec.target = CandidateTarget(r)
    BY <1>6, <2>1 DEF KnowsService
  <2>3. ObjectInv(a)' /\ OnlyRows(a) /\ state' = state /\ state[r] = "pending" /\ stage'[r] = "activated"
    <3>1. Reached(a, r, "activated")
      BY <2>2 DEF Reached
    <3>2. Recorded(a, r, "activated")
      BY <1>0, <1>2, <1>5, <2>1, <3>1, RecordObject
    <3> QED
      BY <3>2 DEF Recorded
  <2>4. Rest /\ call'[a].at = "observe" /\ call'[a].req = r /\ call'[a].kind = "advance"
    BY <1>7, <1>8, <2>1 DEF Labels
  <2>5. CallInv(a)'
    BY <2>3, <2>4 DEF CallInv, KnowsRows, KnowsService, KnowsOutcome, Unprepared, Prepared
  <2> QED
    BY <2>3, <2>4, <2>5
<1>12. ASSUME RecordRecovery(a) PROVE Conclusion
  <2>1. state[r] = "pending"
    BY <1>6, <1>12 DEF RecordRecovery, At, KnowsRows, Prepared
  <2>2. ASSUME NEW e, RecordActivationGate(r, e, "recovering", RecoveryMark(r)), Goto(a, "restore") PROVE Conclusion
    <3>1. ObjectInv(a)' /\ OnlyRows(a) /\ state' = state
      <4>1. Reached(a, r, "recovering")
        BY DEF Reached
      <4>2. Recorded(a, r, "recovering")
        BY <1>0, <1>2, <1>5, <2>2, <4>1, RecordObject
      <4> QED
        BY <4>2 DEF Recorded
    <3>2. Rest /\ call'[a].at = "restore" /\ call'[a].req = r
      BY <1>7, <2>2 DEF Labels
    <3>3. CallInv(a)'
      BY <2>1, <3>1, <3>2 DEF CallInv, KnowsRows, KnowsService, KnowsOutcome, Unprepared, Prepared
    <3> QED
      BY <3>1, <3>2, <3>3
  <2>3. ASSUME UNCHANGED <<requestVars, checkpointVars, appVars>>
        PROVE  ObjectInv(a)' /\ OnlyRows(a) /\ state' = state /\ stage' = stage
    <3>1. UNCHANGED journalVars
      BY <2>3 DEF CommitStep, journalVars
    <3>2. SameRows(a) /\ OnlyRows(a)
      BY <3>1, JournalKept
    <3>3. state' = state /\ stage' = stage
      BY <2>3 DEF requestVars, checkpointVars
    <3> QED
      BY <1>1, <1>2, <3>2, <3>3, QuietObject
  <2>4. ASSUME Goto(a, "restore"), UNCHANGED <<requestVars, checkpointVars, appVars>> PROVE Conclusion
    <3>1. ObjectInv(a)' /\ OnlyRows(a) /\ state' = state
      BY <2>3, <2>4
    <3>2. Rest /\ call'[a].at = "restore" /\ call'[a].req = r
      BY <1>7, <2>4 DEF Labels
    <3>3. CallInv(a)'
      BY <2>1, <3>1, <3>2 DEF CallInv, KnowsRows, KnowsService, KnowsOutcome, Unprepared, Prepared
    <3> QED
      BY <3>1, <3>2, <3>3
  <2>5. ASSUME stage[r] = "withdrawn", Hold(a, "retire", gate[r], NoTarget),
               UNCHANGED <<requestVars, checkpointVars, appVars>>
        PROVE  Conclusion
    <3>1. ObjectInv(a)' /\ OnlyRows(a) /\ state' = state /\ stage' = stage
      BY <2>3, <2>5
    <3>2. gate[r] \in GateRecords \cup {NoGate}
      BY <1>5, OperationAssumption DEF OpInv, OpTypeOK, TypeOK
    <3>3. PICK g : g = gate[r]
      OBVIOUS
    <3>4. "retire" \in Labels /\ NoTarget \in TargetRecords \cup {NoTarget}
      BY DEF Labels
    <3>5. Rest /\ call'[a].at = "retire" /\ call'[a].req = r
      BY <1>2, <1>4, <2>5, <3>2, <3>3, <3>4, HoldMoves DEF r
    <3>6. CallInv(a)'
      BY <2>1, <2>5, <3>1, <3>5 DEF CallInv, KnowsRows, KnowsService, KnowsOutcome, Unprepared, Prepared
    <3> QED
      BY <3>1, <3>5, <3>6
  <2> QED
    BY <1>12, <2>2, <2>4, <2>5 DEF RecordRecovery, Req, r
<1>13. ASSUME RecordRestored(a) PROVE Conclusion
  <2>1. call[a].at = "restored" /\ RecordActivationGate(r, "recovering", "withdrawn", call[a].gate) /\ Goto(a, "retire")
    BY <1>13 DEF RecordRestored, At, Req, r
  <2>2. service[a].spec.op = Recovery(r) /\ service[a].spec.target = intent[r].target
    BY <1>6, <2>1 DEF KnowsService
  <2>3. ObjectInv(a)' /\ OnlyRows(a) /\ state' = state /\ state[r] = "pending" /\ stage'[r] = "withdrawn"
    <3>1. Reached(a, r, "withdrawn")
      BY <2>2 DEF Reached
    <3>2. Recorded(a, r, "withdrawn")
      BY <1>0, <1>2, <1>5, <2>1, <3>1, RecordObject
    <3> QED
      BY <3>2 DEF Recorded
  <2>4. Rest /\ call'[a].at = "retire" /\ call'[a].req = r
    BY <1>7, <2>1 DEF Labels
  <2>5. CallInv(a)'
    BY <2>3, <2>4 DEF CallInv, KnowsRows, KnowsService, KnowsOutcome, Unprepared, Prepared
  <2> QED
    BY <2>3, <2>4, <2>5
<1>14. ASSUME Finalize(a) PROVE Conclusion
  <2>1. /\ call[a].at = "finalize"
        /\ \/ k # "recover" /\ FinalizeApplied(r, call[a].gate) /\ Hold(a, "reclaim", NoGate, NoTarget)
           \/ k = "recover" /\ FinalizeWithdrawn(r, call[a].gate) /\ Return(a)
    BY <1>14 DEF Finalize, At, Req, Withdrawing, r, k
  <2>2. (k = "recover" => pods[r] = "retired") /\ ingress[a] = RouteConfig(a).domain
    BY <1>6, <2>1 DEF KnowsOutcome
  <2>3. ASSUME k # "recover", FinalizeApplied(r, call[a].gate), Hold(a, "reclaim", NoGate, NoTarget) PROVE Conclusion
    <3>1. ingress[a] = requested[r].domain
      BY <2>2, <2>3 DEF RouteConfig, Req, Withdrawing, r, k
    <3>2. ObjectInv(a)' /\ OnlyRows(a)
      BY <1>1, <1>2, <1>5, <2>3, <3>1, AppliedObject
    <3>3. /\ "reclaim" \in Labels /\ NoGate \in GateRecords \cup {NoGate} /\ NoTarget \in TargetRecords \cup {NoTarget}
      BY DEF Labels
    <3>4. Rest /\ call'[a].at = "reclaim"
      BY <1>2, <1>4, <2>3, <3>3, HoldMoves
    <3>5. CallInv(a)'
      BY <3>4 DEF CallInv, KnowsRows, KnowsService, KnowsOutcome, Unprepared, Prepared
    <3> QED
      BY <3>2, <3>4, <3>5
  <2>4. ASSUME k = "recover", FinalizeWithdrawn(r, call[a].gate), Return(a) PROVE Conclusion
    <3>1. state[r] = "pending"
      BY <2>4 DEF FinalizeWithdrawn, Finalizable
    <3>2. requested[r] \in Configs
      BY <1>5, <3>1, Single DEF Pending
    <3>3. [requested[r] EXCEPT !.domain = NoDomain].domain = NoDomain
      BY <3>2, JournalAssumption
    <3>4. ingress[a] = IF previous[r] # NoConfig THEN previous[r].domain ELSE NoDomain
      BY <2>2, <2>4, <3>3 DEF RouteConfig, Req, Withdrawing, r, k
    <3>5. ObjectInv(a)' /\ OnlyRows(a)
      BY <1>1, <1>2, <1>5, <2>2, <2>4, <3>4, WithdrawnObject
    <3>6. Rest /\ call'[a] = Idle
      BY <1>2, <2>4, ReturnMoves
    <3> QED
      BY <3>5, <3>6 DEF CallInv
  <2> QED
    BY <2>1, <2>3, <2>4
<1>15. Conclusion
  BY <1>9, <1>10, <1>11, <1>12, <1>13, <1>14 DEF CommitStep
<1> QED
  BY <1>1, <1>15, Committed

(* A request is bound, resumed or withdrawn. *)
LEMMA RpcCluster ==
    ASSUME OpInv, ClusterInv, NEW a \in Apps, NEW r \in Requests, RpcStep(a, r)
    PROVE  ClusterInv'
<1> DEFINE Rest == \A b \in Apps \ {a} : call'[b] = call[b]
           Conclusion == ObjectInv(a)' /\ OnlyRows(a) /\ CallInv(a)' /\ Rest
<1>1. UNCHANGED <<service, revision, pods, late, ingress>> /\ UNCHANGED clusterVars /\ AppOf[r] = a
  BY DEF RpcStep, Rpc, clusterVars, serviceVars
<1>2. OpTypeOK /\ TypeOK /\ ObjectInv(a)
  BY DEF OpInv, OpTypeOK, ClusterInv
<1>3. ASSUME NEW k \in {"advance", "recover"}, NEW l \in {"prepare", "recover", "candidate", "observe", "reclaim"},
             NEW g \in GateRecords \cup {NoGate}, Open(a, r, k, l, g),
             l # "reclaim" => state'[r] = "pending",
             l = "prepare" => stage'[r] = "absent",
             l = "recover" => stage'[r] # "absent",
             l = "candidate" => stage'[r] = "fenced",
             l = "observe" => k = "advance"
      PROVE  CallInv(a)' /\ Rest
  <2>1. l \in Labels
    BY DEF Labels
  <2>2. call'[a].at = l /\ call'[a].kind = k /\ call'[a].req = r /\ call'[a].gate = g /\ Rest
    BY <1>2, <1>3, <2>1, OpenMoves, SMTT(30)
  <2> QED
    BY <1>3, <2>2 DEF CallInv, KnowsRows, KnowsService, KnowsOutcome, Unprepared, Prepared
<1>4. ASSUME UNCHANGED <<state, stage, intent, requested, previous, desired, live, route>>
      PROVE  ObjectInv(a)' /\ OnlyRows(a)
  <2>1. SameRows(a) /\ OnlyRows(a)
    BY <1>4 DEF SameRows, OnlyRows
  <2> QED
    BY <1>1, <1>2, <2>1, QuietObject
<1>5. ASSUME NEW c \in Configs, NEW w \in BOOLEAN, BeginCandidate(r, c, w),
             NEW k \in {"advance", "recover"}, Open(a, r, k, "prepare", NoGate)
      PROVE  Conclusion
  <2>1. ObjectInv(a)' /\ OnlyRows(a) /\ state'[r] = "pending" /\ stage'[r] = "absent"
    BY <1>1, <1>2, <1>5, BeginObject
  <2> QED
    BY <1>3, <1>5, <2>1
<1>6. ASSUME StartRecovery(a, r) PROVE Conclusion
  <2>1. /\ state[r] = "pending" /\ UNCHANGED <<state, stage, intent, requested, previous, desired, live, route>>
        /\ Open(a, r, "recover", IF stage[r] = "absent" THEN "prepare" ELSE "recover", NoGate)
    BY <1>6 DEF StartRecovery, MarkWithdrawal, checkpointVars, appVars
  <2>2. ObjectInv(a)' /\ OnlyRows(a)
    BY <1>4, <2>1
  <2>3. PICK l \in {"prepare", "recover"} :
            /\ Open(a, r, "recover", l, NoGate)
            /\ l = "prepare" <=> stage[r] = "absent"
    BY <2>1
  <2> QED
    BY <1>3, <2>1, <2>2, <2>3
<1>7. ASSUME Resume(a, r) PROVE Conclusion
  <2>1. UNCHANGED <<state, stage, intent, requested, previous, desired, live, route>>
    BY <1>7 DEF Resume, requestVars, checkpointVars, appVars
  <2>2. ObjectInv(a)' /\ OnlyRows(a)
    BY <1>4, <2>1
  <2>3. gate[r] \in GateRecords \cup {NoGate}
    BY <1>2, OperationAssumption DEF TypeOK
  <2>4. PICK l \in {"prepare", "candidate", "observe", "reclaim"}, g \in GateRecords \cup {NoGate} :
            /\ Open(a, r, "advance", l, g)
            /\ l # "reclaim" => state[r] = "pending"
            /\ l = "prepare" => stage[r] = "absent"
            /\ l = "candidate" => stage[r] = "fenced"
    BY <1>7, <2>3 DEF Resume
  <2> QED
    BY <1>3, <2>1, <2>2, <2>4
<1>8. Conclusion
  BY <1>5, <1>6, <1>7 DEF RpcStep, Rpc, DeployApp, AdvanceDeployRequest, RecoverDeployRequest, WithdrawDeployRequest
<1> QED
  BY <1>1, <1>8, Committed

-----------------------------------------------------------------------------
(* The invariant holds initially: what is live is served by its legacy        *)
(* workload, no request is bound and no write is under way.                   *)
LEMMA InitCluster ==
    ASSUME OpInit, OpInv
    PROVE  ClusterInv
<1> SUFFICES ASSUME NEW a \in Apps PROVE ObjectInv(a) /\ CallInv(a)
  BY DEF ClusterInv
<1>1. /\ \A r \in Requests : state[r] = "absent" /\ stage[r] = "absent"
      /\ route = [b \in Apps |-> IF b \in live THEN desired[b].domain ELSE NoDomain]
      /\ ingress = route /\ late = {} /\ call[a] = Idle
      /\ pods[a] = IF a \in live THEN "ready" ELSE "absent"
  BY DEF OpInit, Init
<1>2. a \in live =>
        Exists(service[a]) /\ service[a].spec.op = NoOperation(a) /\ service[a].spec.target = Target(Legacy(a), desired[a].port)
  BY SMTT(30) DEF OpInit, Exists
<1>3. a \notin live => ~Exists(service[a])
  BY DEF OpInit, Exists, Absent
<1>4. Target(Legacy(a), desired[a].port).sel = Legacy(a) /\ Target(Legacy(a), desired[a].port).port = desired[a].port
  BY DEF Target
<1>5. \A r \in Requests : ~Opened(r)
  BY <1>1 DEF Opened
<1>6. a \in live => Settled(a, service[a].spec.target)
  BY <1>2, <1>4, Identities DEF Settled
<1>7. ServiceInv(a)
  BY <1>2, <1>3, <1>5, <1>6, Identities DEF ServiceInv
<1>8. \A sel : Wants(a, sel) => a \in live /\ sel = Legacy(a)
  BY <1>2, <1>3, <1>4, <1>5 DEF Wants, Serves
<1>9. PodsInv(a)
  <2>1. a \in live => pods[a] \in Running
    BY <1>1 DEF Running
  <2>2. ASSUME NEW x \in Requests PROVE ~Wants(a, Candidate(x)) /\ state[x] # "withdrawn"
    <3>1. Candidate(x) # Legacy(a)
      BY Identities
    <3>2. state[x] = "absent"
      BY <1>1
    <3> QED
      BY <1>8, <3>1, <3>2
  <2> QED
    BY <1>8, <2>1, <2>2 DEF PodsInv
<1>10. RowsInv(a)
  BY <1>1 DEF RowsInv
<1>11. LateInv(a)
  BY <1>1 DEF LateInv
<1> QED
  BY <1>1, <1>7, <1>9, <1>10, <1>11 DEF ObjectInv, CallInv

(* Every step preserves it. *)
LEMMA NextCluster ==
    ASSUME OpInv, OpInv', ClusterInv, [OpNext]_vars
    PROVE  ClusterInv'
<1>1. ASSUME NEW a \in Apps, CallStep(a) \/ Leave(a) PROVE ClusterInv'
  BY <1>1, ReadCluster, WriteCluster, RouteCluster, CommitCluster DEF CallStep
<1>2. ASSUME NEW a \in Apps, NEW r \in Requests, RpcStep(a, r) PROVE ClusterInv'
  BY <1>2, RpcCluster
<1>3. ASSUME UNCHANGED <<journalVars, ingress, call>>, NEW w \in late, Arrive(w) \/ Vanish(w) PROVE ClusterInv'
  BY <1>3, ArriveCluster, DriftCluster
<1>4. ASSUME UNCHANGED <<journalVars, ingress, call>>, NEW x \in Apps \cup Requests, Reconcile(x) PROVE ClusterInv'
  BY <1>4, DriftCluster DEF Owners
<1>5. CASE UNCHANGED vars
  <2>1. UNCHANGED <<service, revision, pods, late, ingress, call>> /\ UNCHANGED journalVars /\ revision \in Nat
    BY <1>5, RevisionNat DEF vars, clusterVars, serviceVars
  <2>2. ASSUME NEW a \in Apps PROVE ObjectInv(a)' /\ CallInv(a)'
    <3>1. SameRows(a) /\ ObjectInv(a) /\ CallInv(a)
      BY <2>1, JournalKept DEF ClusterInv
    <3>2. revision <= revision'
      BY <2>1, VersionOrder
    <3> QED
      BY <2>1, <3>1, <3>2, QuietObject, QuietCall
  <2> QED
    BY <2>2 DEF ClusterInv
<1> QED
  BY <1>1, <1>2, <1>3, <1>4, <1>5 DEF OpNext

-----------------------------------------------------------------------------
(* The invariant of cluster and journal: every Service, workload and Ingress  *)
(* is accounted for by the rows and the one open request, and a write still   *)
(* under way can only do what its request may still do.                       *)
THEOREM OperationCluster == OpSpec => []ClusterInv
<1>1. OpInit => ClusterInv
  BY InitCluster, InitOpInv
<1>2. OpInv /\ OpInv' /\ ClusterInv /\ [OpNext]_vars => ClusterInv'
  BY NextCluster
<1> QED
  BY <1>1, <1>2, OperationInvariant, PTL DEF OpSpec

(* The workload that receives traffic was never told to stop: see ServedIsRunning. *)
THEOREM OperationServesRunning == OpSpec => []ServedIsRunning
<1>1. OpInv /\ ClusterInv => ServedIsRunning
  <2> SUFFICES ASSUME OpInv, ClusterInv, NEW a \in Apps
               PROVE  /\ Serves(a, Legacy(a)) => pods[a] \in Running
                      /\ \A r \in Requests : Serves(a, Candidate(r)) => pods[r] \in Running
    BY DEF ServedIsRunning
  <2>1. ServiceInv(a) /\ PodsInv(a)
    BY DEF ClusterInv, ObjectInv
  <2>2. \A sel : Serves(a, sel) => Wants(a, sel)
    BY DEF Wants
  <2> QED
    BY <2>1, <2>2, Selected DEF PodsInv
<1> QED
  BY <1>1, OperationInvariant, OperationCluster, PTL

(* Without an open request the cluster shows the rows: see ClusterMatchesRows. *)
THEOREM OperationClusterMatchesRows == OpSpec => []ClusterMatchesRows
<1>1. OpInv /\ ClusterInv => ClusterMatchesRows
  <2> SUFFICES ASSUME OpInv, ClusterInv, NEW a \in Apps, Pending(a) = {}
               PROVE  /\ ingress[a] = route[a]
                      /\ a \in live => Exists(service[a]) /\ service[a].spec.target.port = desired[a].port
                      /\ \A r \in Requests : Serves(a, Inactive(r)) => a \notin live
                      /\ \A r \in Requests : Serves(a, Candidate(r)) =>
                            state[r] = "applied" /\ a \in live /\ desired[a] = requested[r]
    BY DEF ClusterMatchesRows
  <2>1. ServiceInv(a) /\ RowsInv(a)
    BY DEF ClusterInv, ObjectInv
  <2>2. \A r \in Requests : AppOf[r] = a => ~Opened(r)
    BY DEF Pending, Opened
  <2>3. Exists(service[a]) => Settled(a, service[a].spec.target)
    BY <2>1, <2>2 DEF ServiceInv
  <2>4. a \in live => Exists(service[a])
    BY <2>1 DEF ServiceInv
  <2>5. ingress[a] = route[a]
    BY <2>1 DEF RowsInv
  <2> QED
    BY <2>3, <2>4, <2>5 DEF Settled, Serves
<1> QED
  BY <1>1, OperationInvariant, OperationCluster, PTL

(* An open request can always be undone: see PredecessorRestorable. *)
THEOREM OperationRestorable == OpSpec => []PredecessorRestorable
<1>1. OpInv /\ ClusterInv => PredecessorRestorable
  <2> SUFFICES ASSUME OpInv, ClusterInv, NEW r \in Requests, state[r] = "pending", stage[r] # "absent"
               PROVE  /\ service[AppOf[r]].uid = intent[r].gate.uid
                      /\ service[AppOf[r]].spec.target \in {intent[r].target, Target(Candidate(r), requested[r].port)}
                      /\ intent[r].target.sel = Legacy(AppOf[r]) => pods[AppOf[r]] \in Running
                      /\ \A p \in Requests : intent[r].target.sel = Candidate(p) => pods[p] \in Running /\ p # r
    BY DEF PredecessorRestorable
  <2>1. PICK a \in Apps : a = AppOf[r]
    BY JournalAssumption
  <2>2. ServiceInv(a) /\ PodsInv(a)
    BY DEF ClusterInv, ObjectInv
  <2>3. Opened(r) /\ Wants(a, intent[r].target.sel)
    BY <2>1 DEF Opened, Wants
  <2>4. Phase(r)
    BY <2>1, <2>2, <2>3 DEF ServiceInv
  <2>5. service[a].uid = intent[r].gate.uid /\ service[a].spec.target \in {intent[r].target, CandidateTarget(r)}
    BY <2>1, <2>4 DEF Phase, Shows
  <2>6. intent[r].target.sel = Legacy(a) => pods[a] \in Running
    BY <2>2, <2>3 DEF PodsInv
  <2>7. ASSUME NEW p \in Requests, intent[r].target.sel = Candidate(p) PROVE pods[p] \in Running /\ p # r
    <3>1. AppOf[p] = a /\ state[p] = "applied"
      BY <2>1, <2>4, <2>7 DEF Phase, Settled
    <3> QED
      BY <2>2, <2>3, <2>7, <3>1 DEF PodsInv
  <2> QED
    BY <2>1, <2>5, <2>6, <2>7 DEF CandidateTarget
<1> QED
  BY <1>1, OperationInvariant, OperationCluster, PTL

(* A withdrawn generation is never selected and never runs again: see         *)
(* WithdrawnStaysOut.                                                         *)
THEOREM OperationWithdrawnStaysOut == OpSpec => []WithdrawnStaysOut
<1>1. OpInv /\ ClusterInv => WithdrawnStaysOut
  <2> SUFFICES ASSUME OpInv, ClusterInv, NEW r \in Requests
               PROVE  /\ stage[r] = "withdrawn" => ~Serves(AppOf[r], Candidate(r))
                      /\ state[r] = "withdrawn" => pods[r] = "retired"
    BY DEF WithdrawnStaysOut
  <2>1. PICK a \in Apps : a = AppOf[r]
    BY JournalAssumption
  <2>2. ServiceInv(a) /\ PodsInv(a)
    BY DEF ClusterInv, ObjectInv
  <2>3. Serves(a, Candidate(r)) => stage[r] # "withdrawn"
    BY <2>2, Selected DEF Wants
  <2> QED
    BY <2>1, <2>2, <2>3 DEF PodsInv
<1> QED
  BY <1>1, OperationInvariant, OperationCluster, PTL
=============================================================================
