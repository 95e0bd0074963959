----------------------- MODULE CandidateDeletionProofs -----------------------
(* Proofs about CandidateDeletion for every set of applications, requests and *)
(* configurations, every number of delayed writes and no bound on failures:   *)
(* while the deletion marker is on the Service no request is open, and when   *)
(* the marked Service is gone nothing of the application is left.             *)
(*                                                                            *)
(* The invariant says little of the data: only that records have their        *)
(* fields and that no resourceVersion is newer than the last one handed out.  *)
(* What it says of the control is stated per application and per delayed      *)
(* write, and a step of one application disturbs only that application's.     *)
EXTENDS CandidateDeletionLiveness, TLAPS

USE ZenonT(30)

DelInit == OpInit /\ deletion = [a \in Apps |-> NoDeletion]

(* The steps of DelLiveNext without its budget of faults. *)
DelNext ==
    \/ OpNext /\ (\A a \in deleting : call'[a] = call[a]) /\ UNCHANGED deletion
    \/ \E a \in Apps : StartDelete(a) \/ DeletionStep(a) \/ StopDelete(a)
    \/ \E w \in late : ArriveRemoval(w)

DelSpec == DelInit /\ [][DelNext]_delVars

-----------------------------------------------------------------------------
(* The invariant *)

CallFields == {"at", "kind", "req", "gate", "target"}
SpecFields == {"op", "target", "boot", "marked"}
WriteKinds == {"service", "start", "tombstone", "retire", "remove"}

ShapesOK ==
    /\ DOMAIN call = Apps /\ \A a \in Apps : DOMAIN call[a] = CallFields
    /\ DOMAIN deletion = Apps /\ \A a \in Apps : DOMAIN deletion[a] = {"at", "gate"}
    /\ DOMAIN state = Requests /\ DOMAIN stage = Requests
    /\ DOMAIN pods = Owners /\ DOMAIN ingress = Apps /\ DOMAIN route = Apps

ServiceOK(a) ==
    /\ service[a].uid \in Nat /\ service[a].version \in Nat
    /\ service[a].version <= revision
    /\ Exists(service[a]) => DOMAIN service[a].spec = SpecFields

ServicesOK ==
    /\ revision \in Nat
    /\ DOMAIN service = Apps
    /\ \A a \in Apps : ServiceOK(a)

(* A request has a checkpoint only when it is bound, and an open request with *)
(* a checkpoint has the Service whose target the checkpoint saved.            *)
RowOK(r) ==
    /\ state[r] = "absent" => stage[r] = "absent"
    /\ state[r] = "pending" /\ stage[r] # "absent" => Exists(service[AppOf[r]])

(* No workload of the generation runs, and no delayed write starts it. *)
Quiet(s) ==
    \/ pods[s] \in Retiring
    \/ pods[s] = "absent" /\ \A w \in late : w.kind = "start" => w.of # s

Gone(a) ==
    /\ a \notin live
    /\ ingress[a] = NoDomain
    /\ route[a] = NoDomain
    /\ pods[a] \notin Running
    /\ \A s \in Requests : AppOf[s] = a => Quiet(s)

(* A delayed write is one some call sent: never a marker, and a start only of *)
(* a generation that is bound.                                                *)
WriteOK(w) ==
    /\ w.kind \in WriteKinds
    /\ w.body.version \in Nat /\ w.body.version <= revision
    /\ w.kind \in {"service", "remove"} => w.of \in Apps
    /\ w.kind = "service" => DOMAIN w.body.spec = SpecFields /\ ~w.body.spec.marked
    /\ w.kind = "start" => w.of \in Requests /\ state[w.of] # "absent"
    /\ w.kind = "remove" => w.body.uid # 0

(* A delayed removal that would still be accepted finds the marked Service of *)
(* an application of which nothing else is left.                              *)
RemovalOK(w) ==
    w.kind = "remove" /\ Accepts(service[w.of], w.body) => Marked(w.of) /\ Gone(w.of)

WritesOK == \A w \in late : WriteOK(w) /\ RemovalOK(w)

(* A call works on an open request until it reclaims, and from its first      *)
(* reading of the Service on the Service exists.                              *)
CallOK(a) ==
    call[a] # Idle =>
        /\ call[a].req \in Requests /\ AppOf[call[a].req] = a
        /\ call[a].at \notin {"reclaim", "reclaiming"} => state[call[a].req] = "pending"
        /\ call[a].at \notin {"prepare", "create", "reclaim", "reclaiming"} => Exists(service[a])

NoneOpen(a) == \A r \in Requests : AppOf[r] = a => state[r] # "pending"

LockOK(a) == a \in deleting => call[a] = Idle /\ NoneOpen(a)

MarkOK(a) == Marked(a) => NoneOpen(a)

(* The Service goes last. *)
AbsentOK(a) == ~Exists(service[a]) => Gone(a)

(* What DeleteApp has achieved at each of its steps. *)
Progress(a, l) ==
    /\ l \in {"cleanup", "routes", "hide", "finish"} =>
          \A s \in Requests : AppOf[s] = a /\ state[s] # "absent" => Quiet(s)
    /\ l \in {"routes", "hide", "finish"} =>
          /\ ingress[a] = NoDomain
          /\ pods[a] \notin Running
          /\ \A s \in Requests : AppOf[s] = a => Quiet(s)
    /\ l \in {"hide", "finish"} => route[a] = NoDomain
    /\ l = "finish" => a \notin live

ProgressOK(a) == a \in deleting => Progress(a, deletion[a].at)

ClusterOK ==
    /\ ServicesOK
    /\ WritesOK
    /\ \A r \in Requests : RowOK(r)
    /\ \A a \in Apps : MarkOK(a) /\ AbsentOK(a)

CallsOK == \A a \in Apps : CallOK(a) /\ LockOK(a)

DelInv ==
    /\ ShapesOK
    /\ ClusterOK
    /\ CallsOK
    /\ \A a \in Apps : ProgressOK(a)

-----------------------------------------------------------------------------
(* Calls *)

(* The call of one application moved on, or returned; the others did not. *)
OthersKept(a) == DOMAIN call' = Apps /\ \A b \in Apps : b # a => call'[b] = call[b]

Moved(a, l) ==
    /\ OthersKept(a)
    /\ DOMAIN call'[a] = CallFields
    /\ call'[a].at = l
    /\ call'[a].req = call[a].req

Returned(a) == OthersKept(a) /\ call'[a] = Idle

(* Goto changes the label of one call. *)
LEMMA GotoMoves ==
    ASSUME ShapesOK, NEW a \in Apps, NEW l, Goto(a, l)
    PROVE  Moved(a, l)
  BY SMTT(30) DEF ShapesOK, Goto, Moved, OthersKept, CallFields

(* Hold changes the label, the token and the target of one call. *)
LEMMA HoldMoves ==
    ASSUME ShapesOK, NEW a \in Apps, NEW l, NEW g, NEW t, Hold(a, l, g, t)
    PROVE  Moved(a, l)
  BY SMTT(30) DEF ShapesOK, Hold, Moved, OthersKept, CallFields

(* Return ends one call. *)
LEMMA ReturnReturns ==
    ASSUME ShapesOK, NEW a \in Apps, Return(a)
    PROVE  Returned(a)
  BY SMTT(30) DEF ShapesOK, Return, Returned, OthersKept

(* The fields of an idle call. *)
LEMMA IdleFields == DOMAIN Idle = CallFields /\ Idle.at = "idle"
  BY SMTT(30) DEF Idle, CallFields

(* What the invariant says of a call that is at a label. *)
LEMMA CallFacts ==
    ASSUME DelInv, NEW a \in Apps, call[a].at # "idle"
    PROVE  /\ call[a] # Idle /\ a \notin deleting
           /\ call[a].req \in Requests /\ AppOf[call[a].req] = a
           /\ call[a].at \notin {"reclaim", "reclaiming"} => state[call[a].req] = "pending"
           /\ call[a].at \notin {"prepare", "create", "reclaim", "reclaiming"} => Exists(service[a])
<1>1. CallOK(a) /\ LockOK(a)
  BY DEF DelInv, CallsOK
<1>2. call[a] # Idle
  BY IdleFields
<1> QED
  BY <1>1, <1>2 DEF CallOK, LockOK

(* A Service that exists under an open request carries no marker. *)
LEMMA OpenUnmarked ==
    ASSUME DelInv, NEW a \in Apps, NEW r \in Requests, AppOf[r] = a, state[r] = "pending", Exists(service[a])
    PROVE  ~service[a].spec.marked
<1>1. MarkOK(a)
  BY DEF DelInv, ClusterOK
<1> QED
  BY <1>1 DEF MarkOK, Marked, NoneOpen

(* The calls after a step of one application's call, or of none. *)
LEMMA CallsKept ==
    ASSUME DelInv, NEW a \in Apps, OthersKept(a), DOMAIN call'[a] = CallFields,
           CallOK(a)', LockOK(a)',
           \A b \in Apps : Exists(service[b]) => Exists(service'[b]),
           \A r \in Requests : AppOf[r] # a => state'[r] = state[r],
           \A b \in Apps : b # a /\ b \in deleting' => b \in deleting
    PROVE  CallsOK' /\ DOMAIN call' = Apps /\ \A b \in Apps : DOMAIN call'[b] = CallFields
<1>1. DOMAIN call' = Apps /\ \A b \in Apps : DOMAIN call'[b] = CallFields
  BY DEF DelInv, ShapesOK, OthersKept
<1>2. ASSUME NEW b \in Apps, b # a PROVE CallOK(b)'
  <2>1. CallOK(b) /\ call'[b] = call[b]
    BY <1>2 DEF DelInv, CallsOK, OthersKept
  <2>2. CASE call[b] = Idle
    BY <2>1, <2>2 DEF CallOK
  <2>3. CASE call[b] # Idle
    <3>1. PICK k : k = call[b]
      OBVIOUS
    <3>2. /\ k.req \in Requests /\ AppOf[k.req] = b
          /\ k.at \notin {"reclaim", "reclaiming"} => state[k.req] = "pending"
          /\ k.at \notin {"prepare", "create", "reclaim", "reclaiming"} => Exists(service[b])
      BY <2>1, <2>3, <3>1 DEF CallOK
    <3>3. state'[k.req] = state[k.req] /\ (Exists(service[b]) => Exists(service'[b]))
      BY <1>2, <3>2
    <3> QED
      BY <2>1, <3>1, <3>2, <3>3 DEF CallOK
  <2> QED
    BY <2>2, <2>3
<1>3. ASSUME NEW b \in Apps, b # a PROVE LockOK(b)'
  <2>1. LockOK(b) /\ call'[b] = call[b]
    BY <1>3 DEF DelInv, CallsOK, OthersKept
  <2> QED
    BY <1>3, <2>1 DEF LockOK, NoneOpen
<1> QED
  BY <1>1, <1>2, <1>3 DEF CallsOK

(* A call in progress moves on or returns. *)
LEMMA CallMoves ==
    ASSUME DelInv, NEW a \in Apps, call[a] # Idle, NEW l,
           \/ Returned(a)
           \/ /\ Moved(a, l)
              /\ l \in {"reclaim", "reclaiming"} \/ state'[call[a].req] = "pending"
              /\ l \in {"create", "reclaim", "reclaiming"} \/ Exists(service'[a]),
           \A b \in Apps : Exists(service[b]) => Exists(service'[b]),
           \A r \in Requests : AppOf[r] # a => state'[r] = state[r],
           deleting' = deleting
    PROVE  CallsOK' /\ DOMAIN call' = Apps /\ \A b \in Apps : DOMAIN call'[b] = CallFields
<1>1. OthersKept(a) /\ DOMAIN call'[a] = CallFields
  BY IdleFields DEF Moved, Returned
<1>2. CallOK(a) /\ LockOK(a)
  BY DEF DelInv, CallsOK
<1>3. CallOK(a)'
  BY <1>2 DEF Moved, Returned, CallOK
<1>4. LockOK(a)'
  BY <1>2 DEF LockOK
<1> QED
  BY <1>1, <1>3, <1>4, CallsKept

-----------------------------------------------------------------------------
(* Writes to the cluster *)

(* One Service gets a new resourceVersion and new content, or none does. *)
ServiceChange(a, sp) ==
    /\ DOMAIN service' = Apps
    /\ revision' \in Nat /\ revision <= revision'
    /\ \A b \in Apps :
          \/ service'[b] = service[b]
          \/ /\ b = a
             /\ service'[b].uid \in Nat \ {0}
             /\ revision' = revision + 1 /\ service'[b].version = revision'
             /\ service'[b].spec = sp

(* A workload never becomes one that runs, except those of S. *)
PodChange(S) ==
    /\ DOMAIN pods' = Owners
    /\ \A x \in Owners \ S :
          pods'[x] = pods[x] \/ pods'[x] \in Retiring \/ pods[x] \in Running

(* What a Service write does. *)
LEMMA ServicePerformed ==
    ASSUME DelInv, NEW a \in Apps, NEW body, NEW w,
           w.kind = "service", w.of = a, w.body = body, Perform(w)
    PROVE  ServiceChange(a, body.spec) /\ pods' = pods /\ Exists(service'[a])
<1>2. /\ service' = [service EXCEPT ![a] = Written(service[a], body, revision + 1)]
      /\ revision' = IF service' = service THEN revision ELSE revision + 1
      /\ pods' = pods
  BY DEF Perform
<1>3. revision \in Nat /\ DOMAIN service = Apps /\ \A b \in Apps : service[b].uid \in Nat
  BY DEF DelInv, ClusterOK, ServicesOK, ServiceOK
<1>4. \A b \in Apps : b # a => service'[b] = service[b]
  BY <1>2, <1>3
<1>5. service'[a] = Written(service[a], body, revision + 1)
  BY <1>2, <1>3
<1>6. CASE Exists(service[a]) /\ body.spec = service[a].spec
  <2>1. service'[a] = service[a]
    BY <1>5, <1>6 DEF Written
  <2>2. revision' \in Nat /\ revision <= revision'
    BY <1>2, <1>3, SMTT(30)
  <2> QED
    BY <1>2, <1>3, <1>4, <1>6, <2>1, <2>2 DEF ServiceChange
<1>7. CASE ~(Exists(service[a]) /\ body.spec = service[a].spec)
  <2>1. /\ service'[a].uid = IF Exists(service[a]) THEN service[a].uid ELSE revision + 1
        /\ service'[a].version = revision + 1
        /\ service'[a].spec = body.spec
    BY <1>5, <1>7, SMTT(30) DEF Written
  <2>2. service'[a].uid \in Nat \ {0}
    BY <1>3, <2>1, SMTT(30) DEF Exists
  <2>3. CASE service' = service
    BY <1>2, <1>3, <2>2, <2>3, SMTT(30) DEF ServiceChange, Exists
  <2>4. CASE service' # service
    <3>1. revision' = revision + 1 /\ revision' \in Nat /\ revision <= revision'
      BY <1>2, <1>3, <2>4, SMTT(30)
    <3>2. DOMAIN service' = Apps
      BY <1>2, <1>3
    <3> QED
      BY <1>2, <1>4, <2>1, <2>2, <3>1, <3>2 DEF ServiceChange, Exists
  <2> QED
    BY <2>3, <2>4
<1> QED
  BY <1>6, <1>7

(* A new resourceVersion is not the one a delayed write names. *)
LEMMA VersionIsNew ==
    ASSUME NEW m \in Nat, NEW n \in Nat, m <= n
    PROVE  m # n + 1 /\ m <= n + 1
  BY SMTT(30)

(* A Service write keeps what the invariant says of the cluster, when it is   *)
(* no marker or no request is open.                                           *)
LEMMA ServiceChangeKeeps ==
    ASSUME DelInv, NEW a \in Apps, NEW sp, ServiceChange(a, sp),
           DOMAIN sp = SpecFields, sp.marked => NoneOpen(a),
           UNCHANGED <<journalVars, pods, ingress>>, late' \subseteq late
    PROVE  /\ \A b \in Apps : Exists(service[b]) => Exists(service'[b])
           /\ ClusterOK'
           /\ \A l : \A b \in Apps : Progress(b, l) => Progress(b, l)'
<1>1. \A b \in Apps : Exists(service[b]) => Exists(service'[b])
  BY DEF ServiceChange, Exists
<1>2. UNCHANGED <<state, stage, live, route, deleting>>
  BY DEF journalVars, requestVars, checkpointVars, appVars
<1>3. \A s \in Requests : Quiet(s) => Quiet(s)'
  BY DEF Quiet
<1>4. \A b \in Apps : Gone(b) => Gone(b)'
  BY <1>2, <1>3 DEF Gone
<1>5. ServicesOK'
  <2>1. revision' \in Nat /\ DOMAIN service' = Apps /\ revision \in Nat /\ revision <= revision'
    BY DEF ServiceChange, DelInv, ClusterOK, ServicesOK
  <2>2. ASSUME NEW b \in Apps PROVE ServiceOK(b)'
    <3>1. ServiceOK(b)
      BY DEF DelInv, ClusterOK, ServicesOK
    <3>2. CASE service'[b] = service[b]
      <4>1. service[b].version \in Nat /\ service[b].version <= revision'
        BY <2>1, <3>1, SMTT(30) DEF ServiceOK
      <4> QED
        BY <3>1, <3>2, <4>1 DEF ServiceOK
    <3>3. CASE service'[b] # service[b]
      <4>1. service'[b].uid \in Nat /\ service'[b].version = revision' /\ DOMAIN service'[b].spec = SpecFields
        BY <3>3 DEF ServiceChange
      <4>2. service'[b].version \in Nat /\ service'[b].version <= revision'
        BY <2>1, <4>1, SMTT(30)
      <4> QED
        BY <4>1, <4>2 DEF ServiceOK
    <3> QED
      BY <3>2, <3>3
  <2> QED
    BY <2>1, <2>2 DEF ServicesOK
<1>6. ASSUME NEW w \in late' PROVE WriteOK(w)' /\ RemovalOK(w)'
  <2>1. w \in late /\ WriteOK(w) /\ RemovalOK(w)
    BY DEF DelInv, ClusterOK, WritesOK
  <2>2. w.body.version \in Nat /\ w.body.version <= revision'
    <3>1. revision' \in Nat /\ revision \in Nat /\ revision <= revision'
      BY DEF ServiceChange, DelInv, ClusterOK, ServicesOK
    <3>2. w.body.version \in Nat /\ w.body.version <= revision
      BY <2>1 DEF WriteOK
    <3> QED
      BY <3>1, <3>2, SMTT(30)
  <2>3. WriteOK(w)'
    BY <1>2, <2>1, <2>2 DEF WriteOK
  <2>4. CASE w.kind = "remove"
    <3>1. w.of \in Apps
      BY <2>1, <2>4 DEF WriteOK
    <3>2. CASE service'[w.of] = service[w.of]
      BY <1>4, <2>1, <2>3, <3>1, <3>2 DEF RemovalOK, Marked
    <3>3. CASE service'[w.of] # service[w.of]
      <4>1. revision' = revision + 1 /\ service'[w.of].version = revision'
        BY <3>1, <3>3 DEF ServiceChange
      <4>2. revision \in Nat /\ w.body.version \in Nat /\ w.body.version <= revision
        BY <2>1 DEF WriteOK, DelInv, ClusterOK, ServicesOK
      <4>3. w.body.version # revision + 1
        BY <4>2, VersionIsNew
      <4> QED
        BY <2>3, <4>1, <4>3 DEF RemovalOK, Accepts
    <3> QED
      BY <3>2, <3>3
  <2>5. CASE w.kind # "remove"
    BY <2>3, <2>5 DEF RemovalOK
  <2> QED
    BY <2>3, <2>4, <2>5
<1>7. \A r \in Requests : RowOK(r)'
  BY <1>1, <1>2, JournalAssumption DEF DelInv, ClusterOK, RowOK
<1>8. ASSUME NEW b \in Apps PROVE MarkOK(b)' /\ AbsentOK(b)'
  <2>1. MarkOK(b) /\ AbsentOK(b)
    BY DEF DelInv, ClusterOK
  <2>2. AbsentOK(b)'
    BY <1>1, <1>4, <2>1 DEF AbsentOK
  <2>3. MarkOK(b)'
    <3>1. CASE service'[b] = service[b]
      BY <1>2, <2>1, <3>1 DEF MarkOK, Marked, NoneOpen
    <3>2. CASE service'[b] # service[b]
      BY <1>2, <3>2 DEF ServiceChange, MarkOK, Marked, NoneOpen
    <3> QED
      BY <3>1, <3>2
  <2> QED
    BY <2>2, <2>3
<1>9. \A l : \A b \in Apps : Progress(b, l) => Progress(b, l)'
  BY <1>2, <1>3 DEF Progress
<1> QED
  BY <1>1, <1>5, <1>6, <1>7, <1>8, <1>9 DEF ClusterOK, WritesOK

(* A generation whose workload may start: its start is already under way, or  *)
(* its request is open and the Service exists.                                *)
MayStart(s) ==
    \/ ~Quiet(s)
    \/ state[s] = "pending" /\ Exists(service[AppOf[s]])

(* A workload write, and a delayed write sent, arrived or lost, keep what the *)
(* invariant says of the cluster.                                             *)
LEMMA PodChangeKeeps ==
    ASSUME DelInv, NEW S \in SUBSET Requests, PodChange(S),
           \A s \in S : MayStart(s),
           UNCHANGED <<requestVars, checkpointVars, appVars, serviceVars, ingress>>,
           \A w \in late' : w \in late \/
               (WriteOK(w) /\ RemovalOK(w) /\ (w.kind = "start" => w.of \in S))
    PROVE  /\ ClusterOK'
           /\ \A l : \A b \in deleting \cap Apps : Progress(b, l) => Progress(b, l)'
<1>1. UNCHANGED <<state, stage, live, route, service, revision>>
  BY DEF requestVars, checkpointVars, appVars, serviceVars
<1>2. Requests \subseteq Owners /\ Apps \subseteq Owners /\ \A a \in Apps : a \notin S
  BY OperationAssumption DEF Owners
<1>3. ASSUME NEW s \in Requests, s \notin S, Quiet(s) PROVE Quiet(s)'
  <2>1. s \in Owners \ S
    BY <1>2, <1>3
  <2>2. pods'[s] = pods[s] \/ pods'[s] \in Retiring \/ pods[s] \in Running
    BY <2>1 DEF PodChange
  <2>3. CASE pods[s] \in Retiring
    <3>1. pods[s] \notin Running
      BY <2>3 DEF Retiring, Running
    <3> QED
      BY <2>2, <2>3, <3>1 DEF Quiet
  <2>4. CASE pods[s] = "absent" /\ \A w \in late : w.kind = "start" => w.of # s
    <3>1. pods[s] \notin Running
      BY <2>4 DEF Running
    <3>2. \A w \in late' : w.kind = "start" => w.of # s
      BY <1>3, <2>4
    <3> QED
      BY <2>2, <2>4, <3>1, <3>2 DEF Quiet
  <2> QED
    BY <1>3, <2>3, <2>4 DEF Quiet
<1>4. ASSUME NEW b \in Apps, pods[b] \notin Running PROVE pods'[b] \notin Running
  <2>1. pods'[b] = pods[b] \/ pods'[b] \in Retiring
    BY <1>2, <1>4 DEF PodChange
  <2> QED
    BY <1>4, <2>1 DEF Retiring, Running
<1>5. ASSUME NEW b \in Apps, NoneOpen(b) \/ ~Exists(service[b]), Gone(b) PROVE Gone(b)'
  <2>1. ASSUME NEW s \in Requests, AppOf[s] = b PROVE Quiet(s)'
    <3>1. Quiet(s)
      BY <1>5, <2>1 DEF Gone
    <3>2. s \notin S
      BY <1>5, <2>1, <3>1 DEF MayStart, NoneOpen
    <3> QED
      BY <1>3, <3>1, <3>2
  <2> QED
    BY <1>1, <1>4, <1>5, <2>1 DEF Gone
<1>6. ServicesOK'
  BY <1>1 DEF DelInv, ClusterOK, ServicesOK, ServiceOK
<1>7. ASSUME NEW w \in late' PROVE WriteOK(w)' /\ RemovalOK(w)'
  <2>1. WriteOK(w) /\ RemovalOK(w)
    BY DEF DelInv, ClusterOK, WritesOK
  <2>2. WriteOK(w)'
    BY <1>1, <2>1 DEF WriteOK
  <2>3. ASSUME w.kind = "remove", Accepts(service[w.of], w.body) PROVE Marked(w.of)' /\ Gone(w.of)'
    <3>1. w.of \in Apps /\ Marked(w.of) /\ Gone(w.of)
      BY <2>1, <2>3 DEF WriteOK, RemovalOK
    <3>2. NoneOpen(w.of)
      BY <3>1 DEF DelInv, ClusterOK, MarkOK
    <3> QED
      BY <1>1, <1>5, <3>1, <3>2 DEF Marked
  <2> QED
    BY <1>1, <2>2, <2>3 DEF RemovalOK
<1>8. \A r \in Requests : RowOK(r)'
  BY <1>1 DEF DelInv, ClusterOK, RowOK
<1>9. ASSUME NEW b \in Apps PROVE MarkOK(b)' /\ AbsentOK(b)'
  <2>1. MarkOK(b) /\ AbsentOK(b)
    BY DEF DelInv, ClusterOK
  <2>2. MarkOK(b)'
    BY <1>1, <2>1 DEF MarkOK, Marked, NoneOpen
  <2>3. AbsentOK(b)'
    BY <1>1, <1>5, <2>1 DEF AbsentOK
  <2> QED
    BY <2>2, <2>3
<1>10. ASSUME NEW l, NEW b \in deleting \cap Apps, Progress(b, l) PROVE Progress(b, l)'
  <2>1. NoneOpen(b)
    BY DEF DelInv, CallsOK, LockOK
  <2>2. ASSUME NEW s \in Requests, AppOf[s] = b, Quiet(s) PROVE Quiet(s)'
    <3>1. s \notin S
      BY <2>1, <2>2 DEF MayStart, NoneOpen
    <3> QED
      BY <1>3, <2>2, <3>1
  <2> QED
    BY <1>1, <1>4, <1>10, <2>2 DEF Progress
<1> QED
  BY <1>6, <1>7, <1>8, <1>9, <1>10 DEF ClusterOK, WritesOK

(* The create-only start makes one workload run. *)
LEMMA StartPerformed ==
    ASSUME DelInv, NEW w, w.kind = "start", Perform(w)
    PROVE  PodChange({w.of}) /\ UNCHANGED serviceVars
<1>1. DOMAIN pods = Owners
  BY DEF DelInv, ShapesOK
<1>2. pods' = [pods EXCEPT ![w.of] = "starting"] /\ UNCHANGED serviceVars
  BY DEF Perform
<1>3. DOMAIN pods' = Owners /\ \A x \in Owners \ {w.of} : pods'[x] = pods[x]
  BY <1>1, <1>2
<1> QED
  BY <1>2, <1>3 DEF PodChange

(* No other workload write does. *)
LEMMA RetirePerformed ==
    ASSUME DelInv, NEW w, w.kind # "start", w.kind # "service", Perform(w)
    PROVE  PodChange({}) /\ UNCHANGED serviceVars
<1>1. DOMAIN pods = Owners
  BY DEF DelInv, ShapesOK
<1>2. pods' = [pods EXCEPT ![w.of] = "draining"] /\ UNCHANGED serviceVars
  BY DEF Perform
<1>3. DOMAIN pods' = Owners /\ \A x \in Owners : pods'[x] = pods[x] \/ pods'[x] = "draining"
  BY <1>1, <1>2
<1> QED
  BY <1>2, <1>3 DEF PodChange, Retiring

(* Nothing happens to the workloads. *)
LEMMA PodsUnchanged ==
    ASSUME DelInv, NEW S, pods' = pods
    PROVE  PodChange(S)
  BY DEF DelInv, ShapesOK, PodChange

-----------------------------------------------------------------------------
(* Steps of the coordinator *)

(* Only the calls, the deletions' own steps and the cluster may have changed: *)
(* the invariant is its parts.                                                *)
LEMMA Together ==
    ASSUME DelInv, ClusterOK', CallsOK',
           DOMAIN call' = Apps, \A b \in Apps : DOMAIN call'[b] = CallFields,
           DOMAIN pods' = Owners,
           UNCHANGED <<requestVars, checkpointVars, appVars, deleting, ingress, deletion>>,
           \A l : \A b \in deleting \cap Apps : Progress(b, l) => Progress(b, l)'
    PROVE  DelInv'
<1>1. ShapesOK'
  BY DEF DelInv, ShapesOK, requestVars, checkpointVars, appVars
<1>2. ASSUME NEW b \in Apps PROVE ProgressOK(b)'
  <2>1. ProgressOK(b)
    BY DEF DelInv
  <2>2. Progress(b, deletion[b].at) /\ b \in deleting => Progress(b, deletion[b].at)'
    <3> DEFINE l == deletion[b].at
    <3>1. PICK m : m = l
      OBVIOUS
    <3>2. b \in deleting /\ Progress(b, m) => Progress(b, m)'
      OBVIOUS
    <3> QED
      BY <3>1, <3>2 DEF Progress
  <2> QED
    BY <2>1, <2>2 DEF ProgressOK
<1> QED
  BY <1>1, <1>2 DEF DelInv

(* A step that only reads: the call moves on, or returns. *)
LEMMA CallOnlyKeeps ==
    ASSUME DelInv, NEW a \in Apps, call[a] # Idle, NEW l,
           \/ Returned(a)
           \/ /\ Moved(a, l)
              /\ l \in {"reclaim", "reclaiming"} \/ state[call[a].req] = "pending"
              /\ l \in {"create", "reclaim", "reclaiming"} \/ Exists(service[a]),
           UNCHANGED <<journalVars, clusterVars, deletion>>
    PROVE  DelInv'
<1>1. UNCHANGED <<requestVars, checkpointVars, appVars, deleting, serviceVars, service, pods, ingress, late, state>>
  BY DEF journalVars, clusterVars, serviceVars, requestVars
<1>2. CallsOK' /\ DOMAIN call' = Apps /\ \A b \in Apps : DOMAIN call'[b] = CallFields
  BY <1>1, CallMoves
<1>3. PodChange({}) /\ {} \in SUBSET Requests
  BY <1>1, PodsUnchanged
<1>4. ClusterOK' /\ \A m : \A b \in deleting \cap Apps : Progress(b, m) => Progress(b, m)'
  BY <1>1, <1>3, PodChangeKeeps
<1>5. DOMAIN pods' = Owners
  BY <1>3 DEF PodChange
<1> QED
  BY <1>1, <1>2, <1>4, <1>5, Together

(* A call sends a Service write without a marker. *)
LEMMA ServiceWriteKeeps ==
    ASSUME DelInv, NEW a \in Apps, call[a] # Idle, NEW l, NEW body,
           state[call[a].req] = "pending",
           body.version \in Nat, body.version <= revision,
           DOMAIN body.spec = SpecFields, ~body.spec.marked,
           \/ Perform(ServiceWrite(a, body)) /\ Moved(a, l) /\ UNCHANGED late
           \/ Lose(a, ServiceWrite(a, body)),
           UNCHANGED <<journalVars, ingress, deletion>>
    PROVE  DelInv'
<1>1. UNCHANGED <<requestVars, checkpointVars, appVars, deleting, state>>
  BY DEF journalVars, requestVars
<1>2. CASE Perform(ServiceWrite(a, body)) /\ Moved(a, l) /\ UNCHANGED late
  <2>1. ServiceChange(a, body.spec) /\ pods' = pods /\ Exists(service'[a])
    <3>1. PICK w : w = ServiceWrite(a, body)
      OBVIOUS
    <3>2. w.kind = "service" /\ w.of = a /\ w.body = body /\ Perform(w)
      BY <1>2, <3>1 DEF ServiceWrite
    <3> QED
      BY <3>2, ServicePerformed
  <2>2. PICK sp : sp = body.spec
    OBVIOUS
  <2>3. ServiceChange(a, sp) /\ DOMAIN sp = SpecFields /\ (sp.marked => NoneOpen(a)) /\ late' \subseteq late
    BY <1>2, <2>1, <2>2
  <2>4. UNCHANGED <<journalVars, pods, ingress>>
    BY <2>1
  <2>5. /\ \A b \in Apps : Exists(service[b]) => Exists(service'[b])
        /\ ClusterOK'
        /\ \A m : \A b \in Apps : Progress(b, m) => Progress(b, m)'
    BY <2>3, <2>4, ServiceChangeKeeps
  <2>6. CallsOK' /\ DOMAIN call' = Apps /\ \A b \in Apps : DOMAIN call'[b] = CallFields
    BY <1>1, <1>2, <2>1, <2>5, CallMoves
  <2>7. DOMAIN pods' = Owners
    BY <2>1 DEF DelInv, ShapesOK
  <2> QED
    BY <1>1, <2>5, <2>6, <2>7, Together
<1>3. CASE Lose(a, ServiceWrite(a, body))
  <2> DEFINE w == ServiceWrite(a, body)
  <2>1. late' = late \cup {w} /\ Return(a) /\ UNCHANGED <<serviceVars, pods>>
    BY <1>3 DEF Lose
  <2>2. w.kind = "service" /\ w.of = a /\ w.body = body
    BY DEF ServiceWrite
  <2>3. WriteOK(w) /\ RemovalOK(w) /\ w.kind # "start"
    BY <2>2 DEF WriteOK, RemovalOK, WriteKinds
  <2> HIDE DEF w
  <2>4. PodChange({}) /\ {} \in SUBSET Requests
    BY <2>1, PodsUnchanged
  <2>5. ClusterOK' /\ \A m : \A b \in deleting \cap Apps : Progress(b, m) => Progress(b, m)'
    BY <1>1, <2>1, <2>3, <2>4, PodChangeKeeps
  <2>6. Returned(a)
    BY <2>1, ReturnReturns DEF DelInv
  <2>7. CallsOK' /\ DOMAIN call' = Apps /\ \A b \in Apps : DOMAIN call'[b] = CallFields
    BY <1>1, <2>1, <2>6, CallMoves DEF serviceVars
  <2>8. DOMAIN pods' = Owners
    BY <2>4 DEF PodChange
  <2> QED
    BY <1>1, <2>5, <2>7, <2>8, Together
<1> QED
  BY <1>2, <1>3

(* A call sends a workload write; only its own open request's is a start. *)
LEMMA PodWriteKeeps ==
    ASSUME DelInv, NEW a \in Apps, call[a] # Idle, NEW l, NEW k \in {"start", "tombstone", "retire"}, NEW x,
           k = "start" => x \in Requests /\ state[x] = "pending" /\ Exists(service[AppOf[x]]),
           l \in {"reclaim", "reclaiming"} \/ (state[call[a].req] = "pending" /\ Exists(service[a])),
           \/ Perform(PodWrite(k, x)) /\ Moved(a, l) /\ UNCHANGED late
           \/ Lose(a, PodWrite(k, x)),
           UNCHANGED <<journalVars, ingress, deletion>>
    PROVE  DelInv'
<1> DEFINE w == PodWrite(k, x)
           S == IF k = "start" THEN {x} ELSE {}
<1>1. UNCHANGED <<requestVars, checkpointVars, appVars, deleting, state>>
  BY DEF journalVars, requestVars
<1>2. w.kind = k /\ w.of = x /\ w.body.version = 0
  BY DEF PodWrite, Absent
<1>3. revision \in Nat
  BY DEF DelInv, ClusterOK, ServicesOK
<1>4. w.body.version \in Nat /\ w.body.version <= revision
  BY <1>2, <1>3, SMTT(30)
<1>5. WriteOK(w) /\ RemovalOK(w) /\ (w.kind = "start" => w.of \in S)
  BY <1>2, <1>4 DEF WriteOK, RemovalOK, WriteKinds
<1>6. S \in SUBSET Requests /\ \A s \in S : MayStart(s)
  BY DEF MayStart
<1>7. PodChange(S) /\ UNCHANGED serviceVars /\ (late' = late \/ late' = late \cup {w})
  <2>1. CASE Perform(w) /\ UNCHANGED late
    <3>1. PICK v : v = w
      OBVIOUS
    <3>2. v.kind = k /\ v.of = x /\ v.kind # "service" /\ Perform(v)
      BY <1>2, <2>1, <3>1
    <3>3. CASE k = "start"
      BY <2>1, <3>2, <3>3, StartPerformed
    <3>4. CASE k # "start"
      BY <2>1, <3>2, <3>4, RetirePerformed
    <3> QED
      BY <3>3, <3>4
  <2>2. CASE Lose(a, w)
    BY <2>2, PodsUnchanged DEF Lose
  <2> QED
    BY <2>1, <2>2
<1>8. Moved(a, l) \/ Returned(a)
  BY ReturnReturns DEF DelInv, Lose
<1> HIDE DEF w, S
<1>9. ClusterOK' /\ \A m : \A b \in deleting \cap Apps : Progress(b, m) => Progress(b, m)'
  BY <1>1, <1>5, <1>6, <1>7, PodChangeKeeps
<1>10. CallsOK' /\ DOMAIN call' = Apps /\ \A b \in Apps : DOMAIN call'[b] = CallFields
  BY <1>1, <1>7, <1>8, CallMoves DEF serviceVars
<1>11. DOMAIN pods' = Owners
  BY <1>7 DEF PodChange
<1> QED
  BY <1>1, <1>9, <1>10, <1>11, Together

(* The reading steps. *)
LEMMA ReadStepKeeps ==
    ASSUME DelInv, NEW a \in Apps, ReadStep(a), UNCHANGED deletion
    PROVE  DelInv'
<1>1. UNCHANGED <<journalVars, clusterVars, deletion>>
  BY DEF ReadStep
<1>2. ShapesOK
  BY DEF DelInv
<1>3. CASE ObserveTarget(a)
  <2>1. call[a].at \in {"prepare", "created"}
    BY <1>3 DEF ObserveTarget
  <2>2. call[a] # Idle /\ state[call[a].req] = "pending"
    BY <2>1, CallFacts
  <2>3. CASE Goto(a, "create")
    BY <1>1, <1>2, <2>2, <2>3, GotoMoves, CallOnlyKeeps
  <2>4. CASE Exists(service[a]) /\ Goto(a, "capture")
    BY <1>1, <1>2, <2>2, <2>4, GotoMoves, CallOnlyKeeps
  <2>5. ASSUME Exists(service[a]), NEW l \in {"reset", "intent"}, NEW g, NEW t, Hold(a, l, g, t) PROVE DelInv'
    BY <1>1, <1>2, <2>2, <2>5, HoldMoves, CallOnlyKeeps
  <2> QED
    BY <1>3, <2>3, <2>4, <2>5 DEF ObserveTarget
<1>4. CASE Capture(a)
  <2>1. call[a].at = "capture" /\ Exists(service[a]) /\ Hold(a, "intent", GateOf(service[a]), service[a].spec.target)
    BY <1>4 DEF Capture, At
  <2>2. call[a] # Idle /\ state[call[a].req] = "pending"
    BY <2>1, CallFacts
  <2>3. Moved(a, "intent")
    BY <1>2, <2>1, HoldMoves
  <2> QED
    BY <1>1, <2>1, <2>2, <2>3, CallOnlyKeeps
<1>5. CASE CaptureRecovery(a)
  <2>1. call[a].at = "restore" /\ Exists(service[a])
    BY <1>5 DEF CaptureRecovery, At
  <2>2. call[a] # Idle /\ state[call[a].req] = "pending"
    BY <2>1, CallFacts
  <2>3. PICK l \in {"recoveryFence", "replace", "restored"} : Hold(a, l, GateOf(service[a]), NoTarget)
    BY <1>5 DEF CaptureRecovery
  <2>4. Moved(a, l)
    BY <1>2, <2>3, HoldMoves
  <2> QED
    BY <1>1, <2>1, <2>2, <2>4, CallOnlyKeeps
<1>6. CASE CheckRetired(a)
  <2>1. call[a].at = "retired" /\ Goto(a, "observe")
    BY <1>6 DEF CheckRetired, At
  <2>2. call[a] # Idle /\ state[call[a].req] = "pending" /\ Exists(service[a])
    BY <2>1, CallFacts
  <2>3. Moved(a, "observe")
    BY <1>2, <2>1, GotoMoves
  <2> QED
    BY <1>1, <2>2, <2>3, CallOnlyKeeps
<1>7. CASE Observe(a)
  <2>1. call[a].at = "observe" /\ Hold(a, "route", call[a].gate, service[a].spec.target)
    BY <1>7 DEF Observe, At
  <2>2. call[a] # Idle /\ state[call[a].req] = "pending" /\ Exists(service[a])
    BY <2>1, CallFacts
  <2>3. Moved(a, "route")
    BY <1>2, <2>1, HoldMoves
  <2> QED
    BY <1>1, <2>2, <2>3, CallOnlyKeeps
<1>8. CASE Recheck(a)
  <2>1. call[a].at = "recheck" /\ Goto(a, "finalize")
    BY <1>8 DEF Recheck, At
  <2>2. call[a] # Idle /\ state[call[a].req] = "pending" /\ Exists(service[a])
    BY <2>1, CallFacts
  <2>3. Moved(a, "finalize")
    BY <1>2, <2>1, GotoMoves
  <2> QED
    BY <1>1, <2>2, <2>3, CallOnlyKeeps
<1>9. CASE Reclaim(a)
  <2>1. call[a].at = "reclaim" /\ Hold(a, "reclaiming", GateOf(service[a]), service[a].spec.target)
    BY <1>9 DEF Reclaim, At
  <2>2. call[a] # Idle
    BY <2>1, CallFacts
  <2>3. Moved(a, "reclaiming")
    BY <1>2, <2>1, HoldMoves
  <2> QED
    BY <1>1, <2>2, <2>3, CallOnlyKeeps
<1> QED
  BY <1>3, <1>4, <1>5, <1>6, <1>7, <1>8, <1>9 DEF ReadStep

(* A call returns early. *)
LEMMA LeaveKeeps ==
    ASSUME DelInv, NEW a \in Apps, Leave(a), UNCHANGED deletion
    PROVE  DelInv'
<1>1. call[a] # Idle /\ Return(a) /\ UNCHANGED <<journalVars, clusterVars, deletion>>
  BY DEF Leave
<1>2. Returned(a)
  BY <1>1, ReturnReturns DEF DelInv
<1> QED
  BY <1>1, <1>2, CallOnlyKeeps

(* The content a call computes from an existing Service keeps its marker. *)
LEMMA SpecEdited ==
    ASSUME DelInv, NEW a \in Apps, Exists(service[a]), ~service[a].spec.marked, NEW v
    PROVE  /\ DOMAIN Fenced(service[a], v) = SpecFields /\ ~Fenced(service[a], v).marked
           /\ DOMAIN Replaced(service[a], v) = SpecFields /\ ~Replaced(service[a], v).marked
<1>1. DOMAIN service[a].spec = SpecFields
  BY DEF DelInv, ClusterOK, ServicesOK, ServiceOK
<1> QED
  BY <1>1, SMTT(30) DEF Fenced, Replaced, SpecFields

(* The content a call writes anew. *)
LEMMA SpecNew ==
    ASSUME NEW a, NEW r, NEW p
    PROVE  /\ DOMAIN Initial(a, r, p) = SpecFields /\ ~Initial(a, r, p).marked
           /\ DOMAIN Rebound(r, p) = SpecFields /\ ~Rebound(r, p).marked
           /\ DOMAIN Deleting(a, p, r) = SpecFields
  BY SMTT(30) DEF Initial, Rebound, Deleting, SpecFields

(* An update names the version the Service has. *)
LEMMA UpdateVersion ==
    ASSUME DelInv, NEW a \in Apps, NEW sp
    PROVE  /\ Update(service[a], sp).version \in Nat
           /\ Update(service[a], sp).version <= revision
           /\ Update(service[a], sp).spec = sp
<1>1. ServiceOK(a)
  BY DEF DelInv, ClusterOK, ServicesOK
<1> QED
  BY <1>1 DEF ServiceOK, Update

(* A creation names none. *)
LEMMA CreateVersion ==
    ASSUME DelInv, NEW sp
    PROVE  /\ Create(sp).version \in Nat
           /\ Create(sp).version <= revision
           /\ Create(sp).spec = sp
<1>1. revision \in Nat
  BY DEF DelInv, ClusterOK, ServicesOK
<1> QED
  BY <1>1, SMTT(30) DEF Create

(* updateActivationGate *)
LEMMA SendServiceKeeps ==
    ASSUME DelInv, NEW a \in Apps, call[a] # Idle, NEW l, NEW body,
           state[call[a].req] = "pending",
           body.version \in Nat, body.version <= revision,
           DOMAIN body.spec = SpecFields, ~body.spec.marked,
           SendService(a, body, l),
           UNCHANGED <<journalVars, ingress, deletion>>
    PROVE  DelInv'
<1>1. \/ Perform(ServiceWrite(a, body)) /\ Moved(a, l) /\ UNCHANGED late
      \/ Lose(a, ServiceWrite(a, body))
  BY HoldMoves DEF SendService, DelInv
<1> QED
  BY <1>1, ServiceWriteKeeps

(* ... computed from the Service. *)
LEMMA SendUpdateKeeps ==
    ASSUME DelInv, NEW a \in Apps, call[a] # Idle, NEW l, NEW sp,
           state[call[a].req] = "pending",
           DOMAIN sp = SpecFields, ~sp.marked,
           SendService(a, Update(service[a], sp), l),
           UNCHANGED <<journalVars, ingress, deletion>>
    PROVE  DelInv'
<1>1. PICK body : body = Update(service[a], sp)
  OBVIOUS
<1>2. body.version \in Nat /\ body.version <= revision /\ body.spec = sp
  BY <1>1, UpdateVersion
<1>3. SendService(a, body, l) /\ DOMAIN body.spec = SpecFields /\ ~body.spec.marked
  BY <1>1, <1>2
<1> QED
  BY <1>2, <1>3, SendServiceKeeps

(* The Service writes of a call. *)
LEMMA GateStepKeeps ==
    ASSUME DelInv, NEW a \in Apps,
           \/ CreateService(a) \/ ResetService(a) \/ Fence(a) \/ Activate(a)
           \/ FenceRecovery(a) \/ RestoreTarget(a),
           UNCHANGED <<journalVars, ingress, deletion>>
    PROVE  DelInv'
<1>1. ASSUME call[a].at \in {"reset", "fence", "activate", "recoveryFence", "replace"}
      PROVE  /\ call[a] # Idle /\ state[call[a].req] = "pending"
             /\ Exists(service[a]) /\ ~service[a].spec.marked
  <2>1. /\ call[a] # Idle /\ call[a].req \in Requests /\ AppOf[call[a].req] = a
        /\ state[call[a].req] = "pending" /\ Exists(service[a])
    BY <1>1, CallFacts
  <2> QED
    BY <2>1, OpenUnmarked
<1>2. CASE CreateService(a)
  <2>1. call[a].at = "create"
    BY <1>2 DEF CreateService, At
  <2>2. call[a] # Idle /\ state[call[a].req] = "pending"
    BY <2>1, CallFacts
  <2>3. PICK sp : sp = Initial(a, Req(a), requested[Req(a)].port)
    OBVIOUS
  <2>4. DOMAIN sp = SpecFields /\ ~sp.marked
    BY <2>3, SpecNew
  <2>5. PICK body : body = Create(sp)
    OBVIOUS
  <2>6. body.version \in Nat /\ body.version <= revision /\ body.spec = sp
    BY <2>5, CreateVersion
  <2>7. SendService(a, body, "created") /\ DOMAIN body.spec = SpecFields /\ ~body.spec.marked
    BY <1>2, <2>3, <2>4, <2>5, <2>6 DEF CreateService
  <2> QED
    BY <2>2, <2>6, <2>7, SendServiceKeeps
<1>3. CASE ResetService(a)
  <2>1. call[a].at = "reset"
    BY <1>3 DEF ResetService, At
  <2>2. PICK sp : sp = Rebound(Req(a), requested[Req(a)].port)
    OBVIOUS
  <2>3. DOMAIN sp = SpecFields /\ ~sp.marked
    BY <2>2, SpecNew
  <2>4. PICK body : body = Update(service[a], sp)
    OBVIOUS
  <2>5. body.version \in Nat /\ body.version <= revision /\ body.spec = sp
    BY <2>4, UpdateVersion
  <2>6. \/ /\ Perform(ServiceWrite(a, body)) /\ UNCHANGED late
           /\ \/ Hold(a, "intent", GateOf(service'[a]), body.spec.target)
              \/ Hold(a, "capture", NoGate, NoTarget)
        \/ Lose(a, ServiceWrite(a, body))
    BY <1>3, <2>2, <2>4 DEF ResetService
  <2>7. PICK l : \/ Perform(ServiceWrite(a, body)) /\ Moved(a, l) /\ UNCHANGED late
                 \/ Lose(a, ServiceWrite(a, body))
    <3>1. ShapesOK
      BY DEF DelInv
    <3>2. CASE Hold(a, "intent", GateOf(service'[a]), body.spec.target) /\ ~Lose(a, ServiceWrite(a, body))
      <4>1. Moved(a, "intent")
        BY <3>1, <3>2, HoldMoves
      <4> QED
        BY <2>6, <3>2, <4>1
    <3>3. CASE Hold(a, "capture", NoGate, NoTarget) /\ ~Lose(a, ServiceWrite(a, body))
      <4>1. Moved(a, "capture")
        BY <3>1, <3>3, HoldMoves
      <4> QED
        BY <2>6, <3>3, <4>1
    <3> QED
      BY <2>6, <3>2, <3>3
  <2>8. DOMAIN body.spec = SpecFields /\ ~body.spec.marked
    BY <2>3, <2>5
  <2> QED
    BY <1>1, <2>1, <2>5, <2>7, <2>8, ServiceWriteKeeps
<1>4. CASE Fence(a)
  <2>1. call[a].at = "fence"
    BY <1>4 DEF Fence, At
  <2>2. PICK sp : sp = Fenced(service[a], Operation(Req(a)))
    OBVIOUS
  <2>3. DOMAIN sp = SpecFields /\ ~sp.marked
    BY <1>1, <2>1, <2>2, SpecEdited
  <2>4. SendService(a, Update(service[a], sp), "fenced")
    BY <1>4, <2>2 DEF Fence
  <2> QED
    BY <1>1, <2>1, <2>3, <2>4, SendUpdateKeeps
<1>5. CASE Activate(a)
  <2>1. call[a].at = "activate"
    BY <1>5 DEF Activate, At
  <2>2. PICK sp : sp = Replaced(service[a], Target(Candidate(Req(a)), requested[Req(a)].port))
    OBVIOUS
  <2>3. DOMAIN sp = SpecFields /\ ~sp.marked
    BY <1>1, <2>1, <2>2, SpecEdited
  <2>4. SendService(a, Update(service[a], sp), "activated")
    BY <1>5, <2>2 DEF Activate
  <2> QED
    BY <1>1, <2>1, <2>3, <2>4, SendUpdateKeeps
<1>6. CASE FenceRecovery(a)
  <2>1. call[a].at = "recoveryFence"
    BY <1>6 DEF FenceRecovery, At
  <2>2. PICK sp : sp = Fenced(service[a], Recovery(Req(a)))
    OBVIOUS
  <2>3. DOMAIN sp = SpecFields /\ ~sp.marked
    BY <1>1, <2>1, <2>2, SpecEdited
  <2>4. SendService(a, Update(service[a], sp), "replace")
    BY <1>6, <2>2 DEF FenceRecovery
  <2> QED
    BY <1>1, <2>1, <2>3, <2>4, SendUpdateKeeps
<1>7. CASE RestoreTarget(a)
  <2>1. call[a].at = "replace"
    BY <1>7 DEF RestoreTarget, At
  <2>2. PICK sp : sp = Replaced(service[a], intent[Req(a)].target)
    OBVIOUS
  <2>3. DOMAIN sp = SpecFields /\ ~sp.marked
    BY <1>1, <2>1, <2>2, SpecEdited
  <2>4. SendService(a, Update(service[a], sp), "restored")
    BY <1>7, <2>2 DEF RestoreTarget
  <2> QED
    BY <1>1, <2>1, <2>3, <2>4, SendUpdateKeeps
<1> QED
  BY <1>2, <1>3, <1>4, <1>5, <1>6, <1>7

(* A workload write of a call. *)
LEMMA SendPodsKeeps ==
    ASSUME DelInv, NEW a \in Apps, call[a] # Idle, NEW l, NEW k \in {"start", "tombstone", "retire"}, NEW x,
           k = "start" => x \in Requests /\ state[x] = "pending" /\ Exists(service[AppOf[x]]),
           l \in {"reclaim", "reclaiming"} \/ (state[call[a].req] = "pending" /\ Exists(service[a])),
           SendPods(a, PodWrite(k, x), l),
           UNCHANGED <<journalVars, ingress, deletion>>
    PROVE  DelInv'
<1>1. \/ Perform(PodWrite(k, x)) /\ Moved(a, l) /\ UNCHANGED late
      \/ Lose(a, PodWrite(k, x))
  BY GotoMoves DEF SendPods, DelInv
<1> QED
  BY <1>1, PodWriteKeeps

(* RetireCandidateDeployment never starts a workload. *)
LEMMA RetirementKind ==
    ASSUME NEW x
    PROVE  \E k \in {"tombstone", "retire"} : Retirement(x) = PodWrite(k, x)
  BY DEF Retirement

(* The workload writes of a call. *)
LEMMA WorkloadStepKeeps ==
    ASSUME DelInv, NEW a \in Apps,
           \/ StartCandidate(a) \/ RetireCandidate(a)
           \/ \E s \in Requests : RetireOther(a, s)
           \/ RetireLegacy(a),
           UNCHANGED <<journalVars, ingress, deletion>>
    PROVE  DelInv'
<1>1. ShapesOK
  BY DEF DelInv
<1>2. CASE StartCandidate(a)
  <2>1. call[a].at = "candidate"
    BY <1>2 DEF StartCandidate, At
  <2>2. /\ call[a] # Idle /\ call[a].req \in Requests /\ AppOf[call[a].req] = a
        /\ state[call[a].req] = "pending" /\ Exists(service[a])
    BY <2>1, CallFacts
  <2>3. CASE SendPods(a, PodWrite("start", Req(a)), "activate")
    BY <2>2, <2>3, SendPodsKeeps DEF Req
  <2>4. CASE Goto(a, "activate") /\ UNCHANGED <<serviceVars, pods, late>>
    <3>1. Moved(a, "activate")
      BY <1>1, <2>4, GotoMoves
    <3>2. UNCHANGED <<journalVars, clusterVars, deletion>>
      BY <2>4 DEF clusterVars
    <3> QED
      BY <2>2, <3>1, <3>2, CallOnlyKeeps
  <2> QED
    BY <1>2, <2>3, <2>4 DEF StartCandidate
<1>3. CASE RetireCandidate(a)
  <2>1. call[a].at = "retire"
    BY <1>3 DEF RetireCandidate, At
  <2>2. call[a] # Idle /\ state[call[a].req] = "pending" /\ Exists(service[a])
    BY <2>1, CallFacts
  <2>3. CASE SendPods(a, Retirement(Req(a)), "retired")
    <3>1. PICK k \in {"tombstone", "retire"} : Retirement(Req(a)) = PodWrite(k, Req(a))
      BY RetirementKind
    <3>2. SendPods(a, PodWrite(k, Req(a)), "retired") /\ k # "start" /\ k \in {"start", "tombstone", "retire"}
      BY <2>3, <3>1
    <3> QED
      BY <2>2, <3>2, SendPodsKeeps
  <2>4. CASE Goto(a, "retired") /\ UNCHANGED <<serviceVars, pods, late>>
    <3>1. Moved(a, "retired")
      BY <1>1, <2>4, GotoMoves
    <3>2. UNCHANGED <<journalVars, clusterVars, deletion>>
      BY <2>4 DEF clusterVars
    <3> QED
      BY <2>2, <3>1, <3>2, CallOnlyKeeps
  <2> QED
    BY <1>3, <2>3, <2>4 DEF RetireCandidate
<1>4. ASSUME NEW x, At(a, "reclaiming"), SendPods(a, Retirement(x), "reclaiming") PROVE DelInv'
  <2>1. call[a] # Idle
    BY <1>4, CallFacts DEF At
  <2>2. PICK k \in {"tombstone", "retire"} : Retirement(x) = PodWrite(k, x)
    BY RetirementKind
  <2>3. SendPods(a, PodWrite(k, x), "reclaiming") /\ k # "start" /\ k \in {"start", "tombstone", "retire"}
    BY <1>4, <2>2
  <2> QED
    BY <2>1, <2>3, SendPodsKeeps
<1> QED
  BY <1>2, <1>3, <1>4 DEF RetireOther, RetireLegacy

(* The writing steps. *)
LEMMA WriteStepKeeps ==
    ASSUME DelInv, NEW a \in Apps, WriteStep(a), UNCHANGED deletion
    PROVE  DelInv'
  BY GateStepKeeps, WorkloadStepKeeps DEF WriteStep

(* A call changes rows, the route or the Ingress of its application while its *)
(* request is open and the Service exists.                                    *)
LEMMA RowStepKeeps ==
    ASSUME DelInv, NEW a \in Apps, NEW l,
           call[a].at \notin {"idle", "prepare", "create", "reclaim", "reclaiming"},
           DOMAIN state' = Requests, DOMAIN stage' = Requests, DOMAIN route' = Apps, DOMAIN ingress' = Apps,
           UNCHANGED <<serviceVars, pods, late, deleting, deletion>>,
           \A r \in Requests : AppOf[r] # a => state'[r] = state[r] /\ stage'[r] = stage[r],
           \A r \in Requests : state'[r] = "absent" => state[r] = "absent" /\ stage'[r] = stage[r],
           \A b \in Apps : b # a =>
               (b \in live' <=> b \in live) /\ route'[b] = route[b] /\ ingress'[b] = ingress[b],
           Returned(a) \/
               (Moved(a, l) /\ (l \in {"reclaim", "reclaiming"} \/ state'[call[a].req] = "pending"))
    PROVE  DelInv'
<1>1. /\ call[a] # Idle /\ a \notin deleting
      /\ call[a].req \in Requests /\ AppOf[call[a].req] = a
      /\ state[call[a].req] = "pending" /\ Exists(service[a])
  BY CallFacts
<1>2. ~Marked(a)
  BY <1>1, OpenUnmarked DEF Marked
<1>3. UNCHANGED <<service, revision>>
  BY DEF serviceVars
<1>4. \A s \in Requests : Quiet(s) <=> Quiet(s)'
  BY DEF Quiet
<1>5. \A b \in Apps : b # a /\ Gone(b) => Gone(b)'
  BY <1>4 DEF Gone
<1>6. ServicesOK'
  BY <1>3 DEF DelInv, ClusterOK, ServicesOK, ServiceOK
<1>7. ASSUME NEW w \in late' PROVE WriteOK(w)' /\ RemovalOK(w)'
  <2>1. WriteOK(w) /\ RemovalOK(w)
    BY DEF DelInv, ClusterOK, WritesOK
  <2>2. WriteOK(w)'
    BY <1>3, <2>1 DEF WriteOK
  <2>3. ASSUME w.kind = "remove", Accepts(service[w.of], w.body) PROVE Marked(w.of)' /\ Gone(w.of)'
    <3>1. w.of \in Apps /\ Marked(w.of) /\ Gone(w.of)
      BY <2>1, <2>3 DEF WriteOK, RemovalOK
    <3>2. w.of # a
      BY <1>2, <3>1
    <3> QED
      BY <1>3, <1>5, <3>1, <3>2 DEF Marked
  <2> QED
    BY <1>3, <2>2, <2>3 DEF RemovalOK
<1>8. ASSUME NEW r \in Requests PROVE RowOK(r)'
  <2>1. RowOK(r)
    BY DEF DelInv, ClusterOK
  <2>2. CASE AppOf[r] = a
    BY <1>1, <1>3, <2>1, <2>2 DEF RowOK
  <2>3. CASE AppOf[r] # a
    BY <1>3, <2>1, <2>3 DEF RowOK
  <2> QED
    BY <2>2, <2>3
<1>9. ASSUME NEW b \in Apps PROVE MarkOK(b)' /\ AbsentOK(b)'
  <2>1. MarkOK(b) /\ AbsentOK(b)
    BY DEF DelInv, ClusterOK
  <2>2. CASE b = a
    BY <1>1, <1>2, <1>3, <2>2 DEF MarkOK, AbsentOK, Marked
  <2>3. CASE b # a
    <3>1. MarkOK(b)'
      BY <1>3, <2>1, <2>3 DEF MarkOK, Marked, NoneOpen
    <3>2. AbsentOK(b)'
      BY <1>3, <1>5, <2>1, <2>3 DEF AbsentOK
    <3> QED
      BY <3>1, <3>2
  <2> QED
    BY <2>2, <2>3
<1>10. ClusterOK'
  BY <1>6, <1>7, <1>8, <1>9 DEF ClusterOK, WritesOK
<1>11. CallsOK' /\ DOMAIN call' = Apps /\ \A b \in Apps : DOMAIN call'[b] = CallFields
  BY <1>1, <1>3, CallMoves
<1>12. ShapesOK'
  BY <1>11 DEF DelInv, ShapesOK
<1>13. ASSUME NEW b \in Apps PROVE ProgressOK(b)'
  <2>1. CASE b \notin deleting
    BY <2>1 DEF ProgressOK
  <2>2. CASE b \in deleting
    <3>1. b # a /\ Progress(b, deletion[b].at)
      BY <1>1, <2>2 DEF DelInv, ProgressOK
    <3>2. PICK m : m = deletion[b].at
      OBVIOUS
    <3>3. b # a /\ Progress(b, m)
      BY <3>1, <3>2
    <3>4. Progress(b, m)'
      BY <1>4, <3>3 DEF Progress
    <3>5. deletion'[b].at = m
      BY <3>2
    <3> QED
      BY <3>4, <3>5 DEF ProgressOK, Progress
  <2> QED
    BY <2>1, <2>2
<1> QED
  BY <1>10, <1>11, <1>12, <1>13 DEF DelInv

(* ReconcileCandidateRoute *)
LEMMA RouteStepKeeps ==
    ASSUME DelInv, NEW a \in Apps, RouteStep(a), UNCHANGED deletion
    PROVE  DelInv'
<1>1. /\ call[a].at = "route"
      /\ ingress' = [ingress EXCEPT ![a] = RouteConfig(a).domain]
      /\ Goto(a, "recheck")
      /\ UNCHANGED <<serviceVars, pods, late>>
      /\ UNCHANGED journalVars
  BY DEF RouteStep, ReconcileRoute, At
<1>2. UNCHANGED <<state, stage, live, route, deleting>>
  BY <1>1 DEF journalVars, requestVars, checkpointVars, appVars
<1>3. ShapesOK
  BY DEF DelInv
<1>4. Moved(a, "recheck")
  BY <1>1, <1>3, GotoMoves
<1>5. DOMAIN state' = Requests /\ DOMAIN stage' = Requests /\ DOMAIN route' = Apps /\ DOMAIN ingress' = Apps
  BY <1>1, <1>2, <1>3 DEF ShapesOK
<1>6. \A b \in Apps : b # a => ingress'[b] = ingress[b]
  BY <1>1, <1>3 DEF ShapesOK
<1>7. state[call[a].req] = "pending"
  BY <1>1, CallFacts
<1> QED
  BY <1>1, <1>2, <1>4, <1>5, <1>6, <1>7, RowStepKeeps

(* A checkpoint transaction: the stage of the call's open request. *)
LEMMA CheckpointKeeps ==
    ASSUME DelInv, NEW a \in Apps, NEW l, NEW v,
           call[a].at \notin {"idle", "prepare", "create", "reclaim", "reclaiming"},
           stage' = [stage EXCEPT ![call[a].req] = v] \/ stage' = stage,
           UNCHANGED <<requestVars, appVars, clusterVars, deleting, deletion>>,
           Moved(a, l)
    PROVE  DelInv'
<1>1. UNCHANGED <<state, live, route, ingress, serviceVars, pods, late>>
  BY DEF requestVars, appVars, clusterVars
<1>2. ShapesOK
  BY DEF DelInv
<1>3. call[a].req \in Requests /\ AppOf[call[a].req] = a /\ state[call[a].req] = "pending"
  BY CallFacts
<1>4. DOMAIN state' = Requests /\ DOMAIN stage' = Requests /\ DOMAIN route' = Apps /\ DOMAIN ingress' = Apps
  BY <1>1, <1>2 DEF ShapesOK
<1>5. \A r \in Requests : r # call[a].req => stage'[r] = stage[r]
  BY <1>2 DEF ShapesOK
<1>6. \A r \in Requests : AppOf[r] # a => stage'[r] = stage[r]
  BY <1>3, <1>5
<1>7. \A r \in Requests : state'[r] = "absent" => stage'[r] = stage[r]
  BY <1>1, <1>3, <1>5
<1> QED
  BY <1>1, <1>3, <1>4, <1>6, <1>7, RowStepKeeps

(* Finalize *)
LEMMA FinalizeKeeps ==
    ASSUME DelInv, NEW a \in Apps, Finalize(a), UNCHANGED <<clusterVars, deleting, deletion>>
    PROVE  DelInv'
<1> DEFINE r == call[a].req
<1>1. call[a].at = "finalize"
  BY DEF Finalize, At
<1>2. r \in Requests /\ AppOf[r] = a /\ state[r] = "pending"
  BY <1>1, CallFacts
<1>3. ShapesOK
  BY DEF DelInv
<1>4. PICK o \in {"applied", "withdrawn"} : state' = [state EXCEPT ![r] = o]
  BY DEF Finalize, FinalizeApplied, FinalizeWithdrawn, Decide, Req
<1>5. UNCHANGED checkpointVars
  BY DEF Finalize, FinalizeApplied, FinalizeWithdrawn, Decide
<1>6. stage' = stage
  BY <1>5 DEF checkpointVars
<1>7. \/ live' = live \cup {a} /\ \E d : route' = [route EXCEPT ![a] = d]
      \/ live' = live /\ (route' = route \/ \E d : route' = [route EXCEPT ![a] = d])
  <2>1. CASE FinalizeApplied(r, call[a].gate)
    BY <1>2, <2>1 DEF FinalizeApplied
  <2>2. CASE FinalizeWithdrawn(r, call[a].gate)
    BY <1>2, <2>2 DEF FinalizeWithdrawn
  <2> QED
    BY <2>1, <2>2 DEF Finalize, Req
<1>8. DOMAIN route' = Apps /\ \A b \in Apps : b # a => (b \in live' <=> b \in live) /\ route'[b] = route[b]
  BY <1>3, <1>7 DEF ShapesOK
<1>9. UNCHANGED <<serviceVars, pods, late, ingress>>
  BY DEF clusterVars
<1>10. DOMAIN state' = Requests /\ DOMAIN stage' = Requests /\ DOMAIN ingress' = Apps
  BY <1>3, <1>4, <1>6, <1>9 DEF ShapesOK
<1>11. \A q \in Requests : q # r => state'[q] = state[q]
  BY <1>3, <1>4 DEF ShapesOK
<1>12. state'[r] # "absent"
  BY <1>2, <1>3, <1>4 DEF ShapesOK
<1>13. Returned(a) \/ Moved(a, "reclaim")
  BY <1>3, HoldMoves, ReturnReturns DEF Finalize
<1>14. \A q \in Requests : AppOf[q] # a => state'[q] = state[q] /\ stage'[q] = stage[q]
  BY <1>2, <1>6, <1>11
<1>15. \A q \in Requests : state'[q] = "absent" => state[q] = "absent" /\ stage'[q] = stage[q]
  BY <1>6, <1>11, <1>12
<1> HIDE DEF r
<1>16. call[a].at \notin {"idle", "prepare", "create", "reclaim", "reclaiming"}
  BY <1>1
<1> QED
  BY <1>8, <1>9, <1>10, <1>13, <1>14, <1>15, <1>16, RowStepKeeps

(* The transactions of a call. *)
LEMMA CommitStepKeeps ==
    ASSUME DelInv, NEW a \in Apps, CommitStep(a), UNCHANGED deletion
    PROVE  DelInv'
<1>1. UNCHANGED <<clusterVars, deleting, deletion>>
  BY DEF CommitStep
<1>2. ShapesOK
  BY DEF DelInv
<1>3. CASE SaveIntent(a)
  <2>1. /\ call[a].at = "intent" /\ stage' = [stage EXCEPT ![call[a].req] = "prepared"]
        /\ UNCHANGED <<requestVars, appVars>>
    BY <1>3 DEF SaveIntent, SaveActivationIntent, At, Req
  <2>2. PICK l : Moved(a, l)
    BY <1>2, <1>3, GotoMoves DEF SaveIntent
  <2> QED
    BY <1>1, <2>1, <2>2, CheckpointKeeps
<1>4. CASE RecordFence(a)
  <2>1. /\ call[a].at = "fenced" /\ Goto(a, "candidate")
        /\ stage' = [stage EXCEPT ![call[a].req] = "fenced"]
        /\ UNCHANGED <<requestVars, appVars>>
    BY <1>4 DEF RecordFence, RecordActivationGate, At, Req
  <2>2. Moved(a, "candidate")
    BY <1>2, <2>1, GotoMoves
  <2> QED
    BY <1>1, <2>1, <2>2, CheckpointKeeps
<1>5. CASE RecordActivation(a)
  <2>1. /\ call[a].at = "activated" /\ Goto(a, "observe")
        /\ stage' = [stage EXCEPT ![call[a].req] = "activated"]
        /\ UNCHANGED <<requestVars, appVars>>
    BY <1>5 DEF RecordActivation, RecordActivationGate, At, Req
  <2>2. Moved(a, "observe")
    BY <1>2, <2>1, GotoMoves
  <2> QED
    BY <1>1, <2>1, <2>2, CheckpointKeeps
<1>6. CASE RecordRecovery(a)
  <2>1. call[a].at = "recover"
    BY <1>6 DEF RecordRecovery, At
  <2>2. PICK l : Goto(a, l) \/ Hold(a, l, gate[Req(a)], NoTarget)
    BY <1>6 DEF RecordRecovery
  <2>3. Moved(a, l)
    BY <1>2, <2>2, GotoMoves, HoldMoves
  <2>4. /\ stage' = [stage EXCEPT ![call[a].req] = "recovering"] \/ stage' = stage
        /\ UNCHANGED <<requestVars, appVars>>
    BY <1>6 DEF RecordRecovery, RecordActivationGate, Req, checkpointVars
  <2> QED
    BY <1>1, <2>1, <2>3, <2>4, CheckpointKeeps
<1>7. CASE RecordRestored(a)
  <2>1. /\ call[a].at = "restored" /\ Goto(a, "retire")
        /\ stage' = [stage EXCEPT ![call[a].req] = "withdrawn"]
        /\ UNCHANGED <<requestVars, appVars>>
    BY <1>7 DEF RecordRestored, RecordActivationGate, At, Req
  <2>2. Moved(a, "retire")
    BY <1>2, <2>1, GotoMoves
  <2> QED
    BY <1>1, <2>1, <2>2, CheckpointKeeps
<1>8. CASE Finalize(a)
  BY <1>1, <1>8, FinalizeKeeps
<1> QED
  BY <1>3, <1>4, <1>5, <1>6, <1>7, <1>8 DEF CommitStep

(* A new call works on one request. *)
Opened(a, r, l) ==
    /\ OthersKept(a)
    /\ DOMAIN call'[a] = CallFields
    /\ call'[a].at = l
    /\ call'[a].req = r

(* Open starts one call. *)
LEMMA OpenOpens ==
    ASSUME ShapesOK, NEW a \in Apps, NEW r, NEW k, NEW l, NEW g, Open(a, r, k, l, g)
    PROVE  Opened(a, r, l)
  BY SMTT(30) DEF ShapesOK, Open, Opened, OthersKept, CallFields

(* A request is bound only where no marker is, or a bound one is taken up     *)
(* again; while DeleteApp holds the lock neither happens.                     *)
LEMMA OpenedKeeps ==
    ASSUME DelInv, NEW a \in Apps, NEW r \in Requests, AppOf[r] = a, a \notin deleting, NEW l,
           \/ state' = state
           \/ ~Marked(a) /\ state[r] = "absent" /\ state' = [state EXCEPT ![r] = "pending"],
           UNCHANGED <<stage, live, route, clusterVars, deleting, deletion>>,
           Opened(a, r, l),
           l = "reclaim" \/ (state'[r] = "pending" /\ (l = "prepare" \/ stage[r] # "absent"))
    PROVE  DelInv'
<1>1. UNCHANGED <<service, revision, pods, ingress, late>>
  BY DEF clusterVars, serviceVars
<1>2. /\ DOMAIN state' = Requests
      /\ \A q \in Requests : q # r => state'[q] = state[q]
      /\ state'[r] = state[r] \/ (~Marked(a) /\ state[r] = "absent" /\ state'[r] = "pending")
  BY DEF DelInv, ShapesOK
<1>3. \A s \in Requests : Quiet(s) <=> Quiet(s)'
  BY <1>1 DEF Quiet
<1>4. \A b \in Apps : Gone(b) => Gone(b)'
  BY <1>1, <1>3 DEF Gone
<1>5. ServicesOK'
  BY <1>1 DEF DelInv, ClusterOK, ServicesOK, ServiceOK
<1>6. ASSUME NEW w \in late' PROVE WriteOK(w)' /\ RemovalOK(w)'
  <2>1. WriteOK(w) /\ RemovalOK(w)
    BY <1>1 DEF DelInv, ClusterOK, WritesOK
  <2>2. WriteOK(w)'
    BY <1>1, <1>2, <2>1 DEF WriteOK
  <2>3. RemovalOK(w)'
    BY <1>1, <1>4, <2>1 DEF RemovalOK, Marked, WriteOK
  <2> QED
    BY <2>2, <2>3
<1>7. ASSUME NEW q \in Requests PROVE RowOK(q)'
  <2>1. RowOK(q)
    BY DEF DelInv, ClusterOK
  <2>2. CASE state'[q] = state[q]
    BY <1>1, <2>1, <2>2 DEF RowOK
  <2>3. CASE state'[q] # state[q]
    BY <1>2, <2>1, <2>3 DEF RowOK
  <2> QED
    BY <2>2, <2>3
<1>8. ASSUME NEW b \in Apps PROVE MarkOK(b)' /\ AbsentOK(b)'
  <2>1. MarkOK(b) /\ AbsentOK(b)
    BY DEF DelInv, ClusterOK
  <2>2. AbsentOK(b)'
    BY <1>1, <1>4, <2>1 DEF AbsentOK
  <2>3. MarkOK(b)'
    BY <1>1, <1>2, <2>1 DEF MarkOK, Marked, NoneOpen
  <2> QED
    BY <2>2, <2>3
<1>9. ClusterOK'
  BY <1>5, <1>6, <1>7, <1>8 DEF ClusterOK, WritesOK
<1>10. CallOK(a)'
  <2>1. ASSUME l # "reclaim", l # "prepare" PROVE Exists(service[a])
    <3>1. RowOK(r) /\ state'[r] = "pending" /\ stage[r] # "absent"
      BY <2>1 DEF DelInv, ClusterOK
    <3> QED
      BY <1>2, <3>1 DEF RowOK
  <2> QED
    BY <1>1, <2>1 DEF CallOK, Opened
<1>11. LockOK(a)'
  BY DEF LockOK
<1>12. CallsOK' /\ DOMAIN call' = Apps /\ \A b \in Apps : DOMAIN call'[b] = CallFields
  BY <1>1, <1>2, <1>10, <1>11, CallsKept DEF Opened
<1>13. ShapesOK'
  BY <1>1, <1>2, <1>12 DEF DelInv, ShapesOK
<1>14. ASSUME NEW b \in Apps PROVE ProgressOK(b)'
  <2>1. CASE b \notin deleting
    BY <2>1 DEF ProgressOK
  <2>2. CASE b \in deleting
    <3>1. b # a /\ Progress(b, deletion[b].at)
      BY <2>2 DEF DelInv, ProgressOK
    <3>2. PICK m : m = deletion[b].at
      OBVIOUS
    <3>3. \A s \in Requests : AppOf[s] = b => state'[s] = state[s]
      BY <1>2, <3>1
    <3>4. Progress(b, m)'
      BY <1>1, <1>3, <3>1, <3>2, <3>3 DEF Progress
    <3>5. deletion'[b].at = m
      BY <3>2
    <3> QED
      BY <3>4, <3>5 DEF ProgressOK, Progress
  <2> QED
    BY <2>1, <2>2
<1> QED
  BY <1>9, <1>12, <1>13, <1>14 DEF DelInv

(* The first step of an RPC. *)
LEMMA RpcStepKeeps ==
    ASSUME DelInv, NEW a \in Apps, NEW r \in Requests, RpcStep(a, r),
           \A b \in deleting : call'[b] = call[b], UNCHANGED deletion
    PROVE  DelInv'
<1>1. call[a] = Idle /\ AppOf[r] = a /\ UNCHANGED <<clusterVars, deleting, deletion>>
  BY DEF RpcStep, Rpc
<1>2. ShapesOK
  BY DEF DelInv
<1>3. ASSUME NEW k, NEW l, NEW g, l # "idle", Open(a, r, k, l, g) PROVE Opened(a, r, l) /\ a \notin deleting
  <2>1. Opened(a, r, l)
    BY <1>2, <1>3, OpenOpens
  <2>2. call'[a] # call[a]
    BY <1>1, <1>3, <2>1, IdleFields DEF Opened
  <2> QED
    BY <2>1, <2>2
<1>4. ASSUME NEW c, NEW wd, NEW k, ~Marked(a), BeginCandidate(r, c, wd), Open(a, r, k, "prepare", NoGate)
      PROVE  DelInv'
  <2>1. /\ state[r] = "absent" /\ state' = [state EXCEPT ![r] = "pending"]
        /\ UNCHANGED <<stage, live, route>>
    BY <1>4 DEF BeginCandidate, checkpointVars
  <2>2. Opened(a, r, "prepare") /\ a \notin deleting
    BY <1>3, <1>4
  <2>3. state'[r] = "pending"
    BY <1>2, <2>1 DEF ShapesOK
  <2> QED
    BY <1>1, <1>4, <2>1, <2>2, <2>3, OpenedKeeps
<1>5. ASSUME NEW k, NEW l, NEW g, l # "idle", Open(a, r, k, l, g),
             UNCHANGED <<state, stage, live, route>>,
             l = "reclaim" \/ (state[r] = "pending" /\ (l = "prepare" \/ stage[r] # "absent"))
      PROVE  DelInv'
  <2>1. Opened(a, r, l) /\ a \notin deleting
    BY <1>3, <1>5
  <2> QED
    BY <1>1, <1>5, <2>1, OpenedKeeps
<1>6. CASE Resume(a, r)
  <2>1. UNCHANGED <<state, stage, live, route>>
    BY <1>6 DEF Resume, requestVars, checkpointVars, appVars
  <2>2. CASE state[r] = "pending" /\ stage[r] = "absent" /\ Open(a, r, "advance", "prepare", NoGate)
    BY <1>5, <2>1, <2>2
  <2>3. CASE /\ state[r] = "pending" /\ stage[r] \in {"fenced", "activated"}
             /\ Open(a, r, "advance", IF stage[r] = "fenced" THEN "candidate" ELSE "observe", gate[r])
    <3>1. PICK l \in {"candidate", "observe"} : Open(a, r, "advance", l, gate[r])
      BY <2>3
    <3>2. l # "idle" /\ stage[r] # "absent"
      BY <2>3, <3>1
    <3> QED
      BY <1>5, <2>1, <2>3, <3>1, <3>2
  <2>4. CASE Open(a, r, "advance", "reclaim", NoGate)
    BY <1>5, <2>1, <2>4
  <2> QED
    BY <1>6, <2>2, <2>3, <2>4 DEF Resume
<1>7. CASE StartRecovery(a, r)
  <2>1. UNCHANGED <<state, stage, live, route>> /\ state[r] = "pending"
    BY <1>7 DEF StartRecovery, MarkWithdrawal, checkpointVars, appVars
  <2>2. CASE stage[r] = "absent" /\ Open(a, r, "recover", "prepare", NoGate)
    BY <1>5, <2>1, <2>2
  <2>3. CASE stage[r] # "absent" /\ Open(a, r, "recover", "recover", NoGate)
    BY <1>5, <2>1, <2>3
  <2> QED
    BY <1>7, <2>2, <2>3 DEF StartRecovery
<1> QED
  BY <1>4, <1>6, <1>7
     DEF RpcStep, Rpc, DeployApp, AdvanceDeployRequest, RecoverDeployRequest, WithdrawDeployRequest

-----------------------------------------------------------------------------
(* Steps of the cluster *)

(* The calls, when no call takes a step. *)
LEMMA CallsSame ==
    ASSUME DelInv, call' = call, UNCHANGED <<state, deleting>>,
           \A b \in Apps : Exists(service[b]) => Exists(service'[b])
    PROVE  CallsOK' /\ DOMAIN call' = Apps /\ \A b \in Apps : DOMAIN call'[b] = CallFields
<1>1. \A b \in Apps : CallOK(b) /\ LockOK(b)
  BY DEF DelInv, CallsOK
<1>2. \A b \in Apps : CallOK(b)'
  BY <1>1 DEF CallOK
<1>3. \A b \in Apps : LockOK(b)'
  BY <1>1 DEF LockOK, NoneOpen
<1> QED
  BY <1>2, <1>3 DEF CallsOK, DelInv, ShapesOK

(* Workloads change, or a delayed write does not arrive. *)
LEMMA QuietStepKeeps ==
    ASSUME DelInv, NEW S \in SUBSET Requests, PodChange(S), \A s \in S : MayStart(s),
           UNCHANGED <<journalVars, serviceVars, ingress, call, deletion>>, late' \subseteq late
    PROVE  DelInv'
<1>1. UNCHANGED <<requestVars, checkpointVars, appVars, deleting, state, service>>
  BY DEF journalVars, requestVars, serviceVars
<1>2. ClusterOK' /\ \A l : \A b \in deleting \cap Apps : Progress(b, l) => Progress(b, l)'
  BY <1>1, PodChangeKeeps
<1>3. CallsOK' /\ DOMAIN call' = Apps /\ \A b \in Apps : DOMAIN call'[b] = CallFields
  BY <1>1, CallsSame
<1>4. DOMAIN pods' = Owners
  BY DEF PodChange
<1> QED
  BY <1>1, <1>2, <1>3, <1>4, Together

(* A delayed write arrives. *)
LEMMA ArriveKeeps ==
    ASSUME DelInv, NEW w \in late, Arrive(w), UNCHANGED <<journalVars, ingress, call, deletion>>
    PROVE  DelInv'
<1>1. Perform(w) /\ late' \subseteq late
  BY DEF Arrive
<1>2. WriteOK(w)
  BY DEF DelInv, ClusterOK, WritesOK
<1>3. CASE w.kind = "service"
  <2>1. w.of \in Apps /\ DOMAIN w.body.spec = SpecFields /\ ~w.body.spec.marked
    BY <1>2, <1>3 DEF WriteOK
  <2>2. PICK a \in Apps : a = w.of
    BY <2>1
  <2>3. PICK body : body = w.body
    OBVIOUS
  <2>4. PICK sp : sp = body.spec
    OBVIOUS
  <2>5. ServiceChange(a, sp) /\ pods' = pods
    BY <1>1, <1>3, <2>2, <2>3, <2>4, ServicePerformed
  <2>6. DOMAIN sp = SpecFields /\ (sp.marked => NoneOpen(a))
    BY <2>1, <2>3, <2>4
  <2>7. UNCHANGED <<journalVars, pods, ingress>>
    BY <2>5
  <2>8. /\ \A b \in Apps : Exists(service[b]) => Exists(service'[b])
        /\ ClusterOK'
        /\ \A m : \A b \in Apps : Progress(b, m) => Progress(b, m)'
    BY <1>1, <2>5, <2>6, <2>7, ServiceChangeKeeps
  <2>9. UNCHANGED <<requestVars, checkpointVars, appVars, deleting, state>>
    BY DEF journalVars, requestVars
  <2>10. CallsOK' /\ DOMAIN call' = Apps /\ \A b \in Apps : DOMAIN call'[b] = CallFields
    BY <2>8, <2>9, CallsSame
  <2>11. DOMAIN pods' = Owners
    BY <2>5 DEF DelInv, ShapesOK
  <2> QED
    BY <2>8, <2>9, <2>10, <2>11, Together
<1>4. CASE w.kind \in {"start", "tombstone", "retire"}
  <2> DEFINE S == IF w.kind = "start" THEN {w.of} ELSE {}
  <2>1. PodChange(S) /\ UNCHANGED serviceVars
    <3>1. CASE w.kind = "start"
      BY <1>1, <3>1, StartPerformed
    <3>2. CASE w.kind # "start"
      <4>1. w.kind # "service"
        BY <1>4
      <4> QED
        BY <1>1, <3>2, <4>1, RetirePerformed
    <3> QED
      BY <3>1, <3>2
  <2>2. S \in SUBSET Requests
    BY <1>2 DEF WriteOK
  <2>3. ASSUME w.kind = "start" PROVE ~Quiet(w.of)
    <3>1. pods[w.of] = "absent"
      BY <1>1, <2>3 DEF Perform
    <3>2. pods[w.of] \notin Retiring
      BY <3>1 DEF Retiring
    <3> QED
      BY <2>3, <3>2 DEF Quiet
  <2>4. \A s \in S : MayStart(s)
    BY <2>3 DEF MayStart
  <2> HIDE DEF S
  <2> QED
    BY <1>1, <2>1, <2>2, <2>4, QuietStepKeeps
<1>5. w.kind # "remove"
  BY <1>1 DEF Perform
<1> QED
  BY <1>2, <1>3, <1>4, <1>5 DEF WriteOK, WriteKinds

(* A delayed write never arrives. *)
LEMMA VanishKeeps ==
    ASSUME DelInv, NEW w \in late, Vanish(w), UNCHANGED <<journalVars, ingress, call, deletion>>
    PROVE  DelInv'
<1>1. late' \subseteq late /\ UNCHANGED <<serviceVars, pods>>
  BY DEF Vanish
<1>2. PodChange({}) /\ {} \in SUBSET Requests
  BY <1>1, PodsUnchanged
<1> QED
  BY <1>1, <1>2, QuietStepKeeps

(* Workloads become ready, stop being ready, and drain. *)
LEMMA ReconcileKeeps ==
    ASSUME DelInv, NEW x \in Owners, Reconcile(x), UNCHANGED <<journalVars, ingress, call, deletion>>
    PROVE  DelInv'
<1>1. UNCHANGED serviceVars /\ late' \subseteq late
  BY DEF Reconcile
<1>2. DOMAIN pods = Owners
  BY DEF DelInv, ShapesOK
<1>3. PodChange({})
  <2>1. PICK v : /\ pods' = [pods EXCEPT ![x] = v]
                 /\ v = "retired" \/ pods[x] \in {"starting", "ready"}
    BY DEF Reconcile
  <2>2. DOMAIN pods' = Owners /\ pods'[x] = v /\ \A y \in Owners : y # x => pods'[y] = pods[y]
    BY <1>2, <2>1
  <2> QED
    BY <2>1, <2>2 DEF PodChange, Retiring, Running
<1> QED
  BY <1>1, <1>3, QuietStepKeeps

-----------------------------------------------------------------------------
(* Steps of DeleteApp *)

(* One application's deletion took a step; the others did not. *)
OthersStay(a) ==
    /\ DOMAIN deletion' = Apps /\ DOMAIN deletion'[a] = {"at", "gate"}
    /\ \A b \in Apps : b # a => deletion'[b] = deletion[b] /\ (b \in deleting' <=> b \in deleting)

(* Continue changes the label of one deletion. *)
LEMMA ContinueMoves ==
    ASSUME ShapesOK, NEW a \in Apps, NEW l, Continue(a, l), deleting' = deleting
    PROVE  OthersStay(a) /\ deletion'[a].at = l
  BY SMTT(30) DEF ShapesOK, Continue, OthersStay

(* The call takes the token of the marker. *)
LEMMA TokenMoves ==
    ASSUME ShapesOK, NEW a \in Apps, NEW l, NEW g,
           deletion' = [deletion EXCEPT ![a] = [at |-> l, gate |-> g]], deleting' = deleting
    PROVE  OthersStay(a) /\ deletion'[a].at = l
  BY SMTT(30) DEF ShapesOK, OthersStay

(* DeleteApp returns, or its process dies. *)
LEMMA AbandonMoves ==
    ASSUME ShapesOK, NEW a \in Apps, Abandon(a), EndDelete(a)
    PROVE  /\ OthersStay(a) /\ a \notin deleting'
           /\ UNCHANGED <<requestVars, checkpointVars, appVars>>
<1>1. DOMAIN deletion' = Apps /\ deletion'[a] = NoDeletion /\ \A b \in Apps : b # a => deletion'[b] = deletion[b]
  BY DEF ShapesOK, Abandon
<1>2. DOMAIN NoDeletion = {"at", "gate"}
  BY SMTT(30) DEF NoDeletion
<1> QED
  BY <1>1, <1>2 DEF EndDelete, OthersStay

(* What the invariant says of a deletion in progress. *)
LEMMA DeletionFacts ==
    ASSUME DelInv, NEW a \in Apps, a \in deleting
    PROVE  call[a] = Idle /\ NoneOpen(a) /\ Progress(a, deletion[a].at)
  BY DEF DelInv, CallsOK, LockOK, ProgressOK

(* A step of DeleteApp that writes neither the Service nor a workload: rows   *)
(* and Ingress of the application only ever disappear.                        *)
LEMMA DeletionRowsKeep ==
    ASSUME DelInv, NEW a \in Apps, NEW l, OthersStay(a),
           UNCHANGED <<state, stage, serviceVars, pods, late, call>>,
           DOMAIN route' = Apps, DOMAIN ingress' = Apps,
           \A b \in Apps : /\ b \in live' => b \in live
                           /\ route'[b] \in {route[b], NoDomain}
                           /\ ingress'[b] \in {ingress[b], NoDomain},
           a \notin deleting' \/
               (call[a] = Idle /\ NoneOpen(a) /\ deletion'[a].at = l /\ Progress(a, l)')
    PROVE  DelInv'
<1>1. UNCHANGED <<service, revision>>
  BY DEF serviceVars
<1>2. \A s \in Requests : Quiet(s) <=> Quiet(s)'
  BY DEF Quiet
<1>3. \A b \in Apps : Gone(b) => Gone(b)'
  BY <1>2 DEF Gone
<1>4. ServicesOK'
  BY <1>1 DEF DelInv, ClusterOK, ServicesOK, ServiceOK
<1>5. ASSUME NEW w \in late' PROVE WriteOK(w)' /\ RemovalOK(w)'
  <2>1. WriteOK(w) /\ RemovalOK(w)
    BY DEF DelInv, ClusterOK, WritesOK
  <2>2. WriteOK(w)'
    BY <1>1, <2>1 DEF WriteOK
  <2>3. RemovalOK(w)'
    BY <1>1, <1>3, <2>1 DEF RemovalOK, Marked, WriteOK
  <2> QED
    BY <2>2, <2>3
<1>6. \A r \in Requests : RowOK(r)'
  BY <1>1 DEF DelInv, ClusterOK, RowOK
<1>7. ASSUME NEW b \in Apps PROVE MarkOK(b)' /\ AbsentOK(b)'
  <2>1. MarkOK(b) /\ AbsentOK(b)
    BY DEF DelInv, ClusterOK
  <2> QED
    BY <1>1, <1>3, <2>1 DEF AbsentOK, MarkOK, Marked, NoneOpen
<1>8. ClusterOK'
  BY <1>4, <1>5, <1>6, <1>7 DEF ClusterOK, WritesOK
<1>9. ASSUME NEW b \in Apps PROVE CallOK(b)' /\ LockOK(b)'
  <2>1. CallOK(b) /\ LockOK(b)
    BY DEF DelInv, CallsOK
  <2>2. CallOK(b)'
    BY <1>1, <2>1 DEF CallOK
  <2>3. LockOK(b)'
    BY <2>1 DEF LockOK, NoneOpen, OthersStay
  <2> QED
    BY <2>2, <2>3
<1>10. ShapesOK'
  BY DEF DelInv, ShapesOK, OthersStay
<1>11. ASSUME NEW b \in Apps, b \in deleting' PROVE Progress(b, deletion[b].at)'
  <2>1. CASE b = a
    BY <1>11, <2>1 DEF Progress
  <2>2. CASE b # a
    <3>1. b \in deleting /\ deletion'[b] = deletion[b]
      BY <1>11, <2>2 DEF OthersStay
    <3>2. PICK m : m = deletion[b].at
      OBVIOUS
    <3>3. Progress(b, m)
      BY <3>1, <3>2, DeletionFacts
    <3>4. Progress(b, m)'
      BY <1>2, <3>3 DEF Progress
    <3> QED
      BY <3>1, <3>2, <3>4 DEF Progress
  <2> QED
    BY <2>1, <2>2
<1> QED
  BY <1>8, <1>9, <1>10, <1>11 DEF DelInv, CallsOK, ProgressOK

(* A step of DeleteApp that writes the cluster, or whose reply is lost. *)
LEMMA DeletionWriteKeeps ==
    ASSUME DelInv, NEW a \in Apps, a \in deleting, NEW l, OthersStay(a), ClusterOK',
           \A m : \A b \in deleting \cap Apps : Progress(b, m) => Progress(b, m)',
           UNCHANGED <<requestVars, checkpointVars, appVars, ingress>>, DOMAIN pods' = Owners,
           \A b \in Apps : Exists(service[b]) => Exists(service'[b]),
           call' = call \/ Returned(a),
           a \notin deleting' \/ (deleting' = deleting /\ deletion'[a].at = l /\ Progress(a, l))
    PROVE  DelInv'
<1>1. UNCHANGED <<state, stage, live, route>>
  BY DEF requestVars, checkpointVars, appVars
<1>2. call[a] = Idle /\ NoneOpen(a)
  BY DeletionFacts
<1>3. OthersKept(a) /\ call'[a] = Idle
  BY <1>2 DEF Returned, OthersKept, DelInv, ShapesOK
<1>4. DOMAIN call'[a] = CallFields
  BY <1>3, IdleFields
<1>5. CallOK(a)' /\ LockOK(a)'
  BY <1>1, <1>2, <1>3 DEF CallOK, LockOK, NoneOpen
<1>6. \A b \in Apps : b # a /\ b \in deleting' => b \in deleting
  BY DEF OthersStay
<1>7. CallsOK' /\ DOMAIN call' = Apps /\ \A b \in Apps : DOMAIN call'[b] = CallFields
  BY <1>1, <1>3, <1>4, <1>5, <1>6, CallsKept
<1>8. ShapesOK'
  BY <1>1, <1>7 DEF DelInv, ShapesOK, OthersStay
<1>9. ASSUME NEW b \in Apps, b \in deleting' PROVE Progress(b, deletion[b].at)'
  <2>1. PICK m : m = deletion'[b].at
    OBVIOUS
  <2>2. b \in deleting /\ Progress(b, m)
    <3>1. CASE b = a
      BY <1>9, <2>1, <3>1
    <3>2. CASE b # a
      BY <1>9, <2>1, <3>2, DeletionFacts DEF OthersStay
    <3> QED
      BY <3>1, <3>2
  <2>3. Progress(b, m)'
    BY <2>2
  <2> QED
    BY <2>1, <2>3 DEF Progress
<1> QED
  BY <1>7, <1>8, <1>9 DEF DelInv, ProgressOK

(* A step of DeleteApp lost its reply; the write may still arrive. *)
LEMMA LoseDeletionKeeps ==
    ASSUME DelInv, NEW a \in Apps, a \in deleting, NEW w, LoseDeletion(a, w), UNCHANGED ingress,
           WriteOK(w), RemovalOK(w), w.kind # "start"
    PROVE  DelInv'
<1>1. late' = late \cup {w} /\ Return(a) /\ UNCHANGED <<serviceVars, pods>> /\ EndDelete(a) /\ Abandon(a)
  BY DEF LoseDeletion, Lose
<1>2. ShapesOK
  BY DEF DelInv
<1>3. OthersStay(a) /\ a \notin deleting' /\ UNCHANGED <<requestVars, checkpointVars, appVars>>
  BY <1>1, <1>2, AbandonMoves
<1>4. Returned(a)
  BY <1>1, <1>2, ReturnReturns
<1>5. PodChange({}) /\ {} \in SUBSET Requests
  BY <1>1, PodsUnchanged
<1>6. ClusterOK' /\ \A m : \A b \in deleting \cap Apps : Progress(b, m) => Progress(b, m)'
  BY <1>1, <1>3, <1>5, PodChangeKeeps
<1>7. DOMAIN pods' = Owners /\ service' = service
  BY <1>1, <1>5 DEF PodChange, serviceVars
<1> QED
  BY <1>3, <1>4, <1>6, <1>7, DeletionWriteKeeps

(* A retirement sent by DeleteApp. *)
LEMMA SendRetirementKeeps ==
    ASSUME DelInv, NEW a \in Apps, a \in deleting, NEW l, NEW x, SendDeletion(a, Retirement(x), l),
           UNCHANGED ingress, Progress(a, l)
    PROVE  DelInv'
<1>1. PICK k \in {"tombstone", "retire"} : Retirement(x) = PodWrite(k, x)
  BY RetirementKind
<1>2. PICK w : w = PodWrite(k, x)
  OBVIOUS
<1>3. w.kind = k /\ w.body.version = 0
  BY <1>2 DEF PodWrite, Absent
<1>4. revision \in Nat
  BY DEF DelInv, ClusterOK, ServicesOK
<1>5. w.body.version \in Nat /\ w.body.version <= revision
  BY <1>3, <1>4, SMTT(30)
<1>6. WriteOK(w) /\ RemovalOK(w) /\ w.kind # "start"
  BY <1>3, <1>5 DEF WriteOK, RemovalOK, WriteKinds
<1>7. \/ Perform(w) /\ Continue(a, l) /\ UNCHANGED <<journalVars, late, call>>
      \/ LoseDeletion(a, w)
  BY <1>1, <1>2 DEF SendDeletion
<1>8. CASE Perform(w) /\ Continue(a, l) /\ UNCHANGED <<journalVars, late, call>>
  <2>1. UNCHANGED <<requestVars, checkpointVars, appVars, deleting>>
    BY <1>8 DEF journalVars
  <2>2. OthersStay(a) /\ deletion'[a].at = l
    BY <1>8, <2>1, ContinueMoves DEF DelInv
  <2>3. w.kind # "service"
    BY <1>3
  <2>4. PodChange({}) /\ UNCHANGED serviceVars
    BY <1>6, <1>8, <2>3, RetirePerformed
  <2>5. PodChange({}) /\ {} \in SUBSET Requests
    BY <2>4
  <2>6. ClusterOK' /\ \A m : \A b \in deleting \cap Apps : Progress(b, m) => Progress(b, m)'
    BY <1>8, <2>1, <2>4, <2>5, PodChangeKeeps
  <2>7. DOMAIN pods' = Owners /\ service' = service
    BY <2>4, <2>5 DEF PodChange, serviceVars
  <2> QED
    BY <1>8, <2>1, <2>2, <2>6, <2>7, DeletionWriteKeeps
<1>9. CASE LoseDeletion(a, w)
  BY <1>6, <1>9, LoseDeletionKeeps
<1> QED
  BY <1>7, <1>8, <1>9

(* DeleteApp begins: nothing of the application is pending. *)
LEMMA StartDeleteKeeps ==
    ASSUME DelInv, NEW a \in Apps, StartDelete(a)
    PROVE  DelInv'
<1>1. /\ call[a] = Idle /\ Pending(a) = {} /\ deleting' = deleting \cup {a}
      /\ UNCHANGED <<requestVars, checkpointVars, appVars, clusterVars, call>>
      /\ deletion' = [deletion EXCEPT ![a].at = "mark"]
  BY DEF StartDelete, BeginDelete
<1>2. NoneOpen(a)
  BY <1>1 DEF Pending, NoneOpen
<1>3. DOMAIN deletion = Apps /\ DOMAIN deletion[a] = {"at", "gate"}
  BY DEF DelInv, ShapesOK
<1>4. /\ DOMAIN deletion' = Apps /\ DOMAIN deletion'[a] = {"at", "gate"}
      /\ deletion'[a].at = "mark" /\ \A b \in Apps : b # a => deletion'[b] = deletion[b]
  BY <1>1, <1>3, SMTT(30)
<1>5. OthersStay(a)
  BY <1>1, <1>4 DEF OthersStay
<1>6. UNCHANGED <<state, stage, live, route, ingress, serviceVars, pods, late, call>>
  BY <1>1 DEF requestVars, checkpointVars, appVars, clusterVars
<1>7. DOMAIN route' = Apps /\ DOMAIN ingress' = Apps
  BY <1>6 DEF DelInv, ShapesOK
<1>8. Progress(a, "mark")'
  BY DEF Progress
<1> QED
  BY <1>1, <1>2, <1>4, <1>5, <1>6, <1>7, <1>8, DeletionRowsKeep

(* A step of DeleteApp that only moves on. *)
LEMMA DeletionMovesOn ==
    ASSUME DelInv, NEW a \in Apps, a \in deleting, NEW l, OthersStay(a), deletion'[a].at = l,
           UNCHANGED <<journalVars, clusterVars, call>>, Progress(a, l)'
    PROVE  DelInv'
<1>1. UNCHANGED <<state, stage, live, route, ingress, serviceVars, pods, late, call, deleting>>
  BY DEF journalVars, requestVars, checkpointVars, appVars, clusterVars
<1>2. DOMAIN route' = Apps /\ DOMAIN ingress' = Apps
  BY <1>1 DEF DelInv, ShapesOK
<1>3. call[a] = Idle /\ NoneOpen(a)
  BY DeletionFacts
<1> QED
  BY <1>1, <1>2, <1>3, DeletionRowsKeep

(* BeginCandidateDeletion, whose write is performed before the call returns. *)
LEMMA MarkServiceKeeps ==
    ASSUME ~LateMarkers, DelInv, NEW a \in Apps, MarkService(a)
    PROVE  DelInv'
<1>1. a \in deleting
  BY DEF MarkService, Deleted
<1>2. ShapesOK
  BY DEF DelInv
<1>3. Progress(a, "retire") /\ Progress(a, "retire")'
  BY DEF Progress
<1>4. CASE /\ deletion' = [deletion EXCEPT ![a] = [at |-> "retire", gate |-> GateOf(service[a])]]
           /\ UNCHANGED <<journalVars, serviceVars, pods, late, call>>
  <2>1. deleting' = deleting /\ UNCHANGED <<journalVars, clusterVars, call>>
    BY <1>4 DEF journalVars, clusterVars, MarkService
  <2>2. OthersStay(a) /\ deletion'[a].at = "retire"
    BY <1>2, <1>4, <2>1, TokenMoves
  <2> QED
    BY <1>1, <1>3, <2>1, <2>2, DeletionMovesOn
<1>5. CASE /\ Perform(ServiceWrite(a, MarkerWrite(a)))
           /\ deletion' = [deletion EXCEPT ![a] = [at |-> "retire", gate |-> GateOf(service'[a])]]
           /\ UNCHANGED <<journalVars, late, call>>
  <2>1. UNCHANGED <<requestVars, checkpointVars, appVars, deleting, ingress>>
    BY <1>5 DEF journalVars, MarkService
  <2>2. OthersStay(a) /\ deletion'[a].at = "retire"
    BY <1>2, <1>5, <2>1, TokenMoves
  <2>3. PICK body : body = MarkerWrite(a)
    OBVIOUS
  <2>4. DOMAIN body.spec = SpecFields
    <3>1. CASE Exists(service[a])
      <4>1. body = Update(service[a], Deleting(a, desired[a].port, service[a].spec.boot))
        BY <2>3, <3>1 DEF MarkerWrite
      <4> QED
        BY <4>1, SpecNew DEF Update
    <3>2. CASE ~Exists(service[a])
      <4>1. body = Create(Deleting(a, desired[a].port, NoRequest))
        BY <2>3, <3>2 DEF MarkerWrite
      <4> QED
        BY <4>1, SpecNew DEF Create
    <3> QED
      BY <3>1, <3>2
  <2>5. PICK w : w = ServiceWrite(a, body)
    OBVIOUS
  <2>6. w.kind = "service" /\ w.of = a /\ w.body = body /\ Perform(w)
    BY <1>5, <2>3, <2>5 DEF ServiceWrite
  <2>7. PICK sp : sp = body.spec
    OBVIOUS
  <2>8. ServiceChange(a, sp) /\ pods' = pods
    BY <2>6, <2>7, ServicePerformed
  <2>9. DOMAIN sp = SpecFields /\ (sp.marked => NoneOpen(a)) /\ late' \subseteq late
    BY <1>1, <1>5, <2>4, <2>7, DeletionFacts
  <2>10. UNCHANGED <<journalVars, pods, ingress>>
    BY <1>5, <2>1, <2>8
  <2>11. /\ \A b \in Apps : Exists(service[b]) => Exists(service'[b])
         /\ ClusterOK'
         /\ \A m : \A b \in Apps : Progress(b, m) => Progress(b, m)'
    BY <2>8, <2>9, <2>10, ServiceChangeKeeps
  <2>12. DOMAIN pods' = Owners
    BY <1>2, <2>8 DEF ShapesOK
  <2> QED
    BY <1>1, <1>3, <1>5, <2>1, <2>2, <2>11, <2>12, DeletionWriteKeeps
<1> QED
  BY <1>4, <1>5 DEF MarkService

(* RetireCandidateDeployment for every generation, and for the legacy workload. *)
LEMMA RetireStepsKeep ==
    ASSUME DelInv, NEW a \in Apps,
           DrainLegacy(a) \/ (\E s \in Requests : RetireGeneration(a, s))
    PROVE  DelInv'
<1>1. CASE DrainLegacy(a)
  <2>1. /\ a \in deleting /\ deletion[a].at = "cleanup"
        /\ SendDeletion(a, Retirement(a), "cleanup") /\ UNCHANGED ingress
    BY <1>1 DEF DrainLegacy, Deleted
  <2>2. Progress(a, "cleanup")
    BY <2>1, DeletionFacts
  <2> QED
    BY <2>1, <2>2, SendRetirementKeeps
<1>2. ASSUME NEW s \in Requests, RetireGeneration(a, s) PROVE DelInv'
  <2>1. a \in deleting /\ SendDeletion(a, Retirement(s), "retire") /\ UNCHANGED ingress
    BY <1>2 DEF RetireGeneration, Deleted
  <2>2. Progress(a, "retire")
    BY DEF Progress
  <2> QED
    BY <2>1, <2>2, SendRetirementKeeps
<1> QED
  BY <1>1, <1>2

(* Every generation that is bound is retired. *)
LEMMA AwaitRetiredKeeps ==
    ASSUME DelInv, NEW a \in Apps, AwaitRetired(a)
    PROVE  DelInv'
<1>1. /\ a \in deleting /\ Continue(a, "cleanup") /\ UNCHANGED <<journalVars, clusterVars, call>>
      /\ \A s \in Generations(a) : pods[s] = "retired"
  BY DEF AwaitRetired, Deleted
<1>2. UNCHANGED <<deleting, state, pods>>
  BY <1>1 DEF journalVars, requestVars, clusterVars
<1>3. OthersStay(a) /\ deletion'[a].at = "cleanup"
  BY <1>1, <1>2, ContinueMoves DEF DelInv
<1>4. \A s \in Requests : AppOf[s] = a /\ state[s] # "absent" => Quiet(s)'
  BY <1>1, <1>2 DEF Generations, Quiet, Retiring
<1>5. Progress(a, "cleanup")'
  BY <1>2, <1>4 DEF Progress
<1> QED
  BY <1>1, <1>3, <1>5, DeletionMovesOn

(* CleanupCandidateDeletion: a generation that is not bound has no workload   *)
(* and none under way, one that is bound was awaited.                         *)
LEMMA CleanUpKeeps ==
    ASSUME DelInv, NEW a \in Apps, CleanUp(a)
    PROVE  DelInv'
<1>1. /\ a \in deleting /\ deletion[a].at = "cleanup" /\ Continue(a, "routes")
      /\ \A x \in Workloads(a) : pods[x] \in {"absent", "retired"}
      /\ ingress' = [ingress EXCEPT ![a] = NoDomain]
      /\ UNCHANGED <<journalVars, serviceVars, pods, late, call>>
  BY DEF CleanUp, Deleted
<1>2. UNCHANGED <<state, stage, live, route, deleting>>
  BY <1>1 DEF journalVars, requestVars, checkpointVars, appVars
<1>3. ShapesOK
  BY DEF DelInv
<1>4. OthersStay(a) /\ deletion'[a].at = "routes"
  BY <1>1, <1>2, <1>3, ContinueMoves
<1>5. DOMAIN route' = Apps /\ DOMAIN ingress' = Apps /\ \A b \in Apps : ingress'[b] \in {ingress[b], NoDomain}
  BY <1>1, <1>2, <1>3 DEF ShapesOK
<1>6. ingress'[a] = NoDomain
  BY <1>1, <1>3 DEF ShapesOK
<1>7. pods[a] \notin Running
  BY <1>1 DEF Workloads, Running
<1>8. call[a] = Idle /\ NoneOpen(a) /\ Progress(a, "cleanup")
  BY <1>1, DeletionFacts
<1>9. ASSUME NEW s \in Requests, AppOf[s] = a PROVE Quiet(s)
  <2>1. CASE state[s] # "absent"
    BY <1>8, <1>9, <2>1 DEF Progress
  <2>2. CASE state[s] = "absent"
    <3>1. \A w \in late : w.kind = "start" => w.of # s
      BY <2>2 DEF DelInv, ClusterOK, WritesOK, WriteOK
    <3>2. pods[s] \in {"absent", "retired"}
      BY <1>1, <1>9 DEF Workloads
    <3> QED
      BY <3>1, <3>2 DEF Quiet, Retiring
  <2> QED
    BY <2>1, <2>2
<1>10. \A s \in Requests : AppOf[s] = a => Quiet(s)'
  BY <1>1, <1>9 DEF Quiet
<1>11. Progress(a, "routes")'
  BY <1>1, <1>6, <1>7, <1>10 DEF Progress
<1> QED
  BY <1>1, <1>2, <1>4, <1>5, <1>8, <1>11, DeletionRowsKeep

(* The rows: routes, then the application. *)
LEMMA RowsGoKeeps ==
    ASSUME DelInv, NEW a \in Apps, ClearRoutes(a) \/ HideRow(a)
    PROVE  DelInv'
<1>1. a \in deleting /\ ShapesOK
  BY DEF ClearRoutes, HideRow, Deleted, DelInv
<1>2. call[a] = Idle /\ NoneOpen(a) /\ Progress(a, deletion[a].at)
  BY <1>1, DeletionFacts
<1>3. CASE ClearRoutes(a)
  <2>1. /\ deletion[a].at = "routes" /\ Continue(a, "hide")
        /\ route' = [route EXCEPT ![a] = NoDomain]
        /\ UNCHANGED <<requestVars, checkpointVars, live, deleting, clusterVars, call>>
    BY <1>3 DEF ClearRoutes, Deleted, DeleteRoutes
  <2>2. UNCHANGED <<state, stage, live, ingress, serviceVars, pods, late, call, deleting>>
    BY <2>1 DEF requestVars, checkpointVars, clusterVars
  <2>3. OthersStay(a) /\ deletion'[a].at = "hide"
    BY <1>1, <2>1, ContinueMoves
  <2>4. /\ DOMAIN route' = Apps /\ DOMAIN ingress' = Apps /\ route'[a] = NoDomain
        /\ \A b \in Apps : route'[b] \in {route[b], NoDomain}
    BY <1>1, <2>1, <2>2 DEF ShapesOK
  <2>5. \A s \in Requests : Quiet(s) => Quiet(s)'
    BY <2>2 DEF Quiet
  <2>6. Progress(a, "routes")
    BY <1>2, <2>1
  <2>7. Progress(a, "hide")'
    BY <2>2, <2>4, <2>5, <2>6 DEF Progress
  <2> QED
    BY <1>2, <2>2, <2>3, <2>4, <2>7, DeletionRowsKeep
<1>4. CASE HideRow(a)
  <2>1. /\ deletion[a].at = "hide" /\ Continue(a, "finish") /\ UNCHANGED <<clusterVars, call>>
        /\ IF a \in live THEN MarkDeleted(a) ELSE UNCHANGED journalVars
    BY <1>4 DEF HideRow, Deleted
  <2>2. UNCHANGED <<state, stage, route, deleting>> /\ live' = live \ {a}
    <3>1. CASE a \in live
      BY <2>1, <3>1 DEF MarkDeleted, requestVars, checkpointVars
    <3>2. CASE a \notin live
      BY <2>1, <3>2 DEF journalVars, requestVars, checkpointVars, appVars
    <3> QED
      BY <3>1, <3>2
  <2>3. UNCHANGED <<ingress, serviceVars, pods, late, call>>
    BY <2>1 DEF clusterVars
  <2>4. OthersStay(a) /\ deletion'[a].at = "finish"
    BY <1>1, <2>1, <2>2, ContinueMoves
  <2>5. DOMAIN route' = Apps /\ DOMAIN ingress' = Apps
    BY <1>1, <2>2, <2>3 DEF ShapesOK
  <2>6. \A s \in Requests : Quiet(s) => Quiet(s)'
    BY <2>3 DEF Quiet
  <2>7. Progress(a, "hide")
    BY <1>2, <2>1
  <2>8. Progress(a, "finish")'
    BY <2>2, <2>3, <2>6, <2>7 DEF Progress
  <2> QED
    BY <1>2, <2>2, <2>3, <2>4, <2>5, <2>8, DeletionRowsKeep
<1> QED
  BY <1>3, <1>4

(* DeleteApp returns early. *)
LEMMA StopDeleteKeeps ==
    ASSUME DelInv, NEW a \in Apps, StopDelete(a)
    PROVE  DelInv'
<1>1. EndDelete(a) /\ Abandon(a) /\ UNCHANGED <<clusterVars, call>>
  BY DEF StopDelete
<1>2. OthersStay(a) /\ a \notin deleting' /\ UNCHANGED <<requestVars, checkpointVars, appVars>>
  BY <1>1, AbandonMoves DEF DelInv
<1>3. UNCHANGED <<state, stage, live, route, ingress, serviceVars, pods, late, call>>
  BY <1>1, <1>2 DEF requestVars, checkpointVars, appVars, clusterVars
<1>4. DOMAIN route' = Apps /\ DOMAIN ingress' = Apps
  BY <1>3 DEF DelInv, ShapesOK
<1> QED
  BY <1>2, <1>3, <1>4, DeletionRowsKeep

(* The Service of an application of which nothing is left is removed.  Calls  *)
(* that still run are past their request's decision.                          *)
LEMMA RemoveKeeps ==
    ASSUME DelInv, NEW a \in Apps, Gone(a), NoneOpen(a),
           service' = [service EXCEPT ![a] = Absent],
           UNCHANGED <<requestVars, checkpointVars, appVars, revision, pods, ingress, call>>,
           late' \subseteq late,
           \/ UNCHANGED <<deletion, deleting>>
           \/ OthersStay(a) /\ a \notin deleting'
    PROVE  DelInv'
<1>1. UNCHANGED <<state, stage, live, route>>
  BY DEF requestVars, checkpointVars, appVars
<1>2. /\ DOMAIN service' = Apps /\ service'[a] = Absent
      /\ \A b \in Apps : b # a => service'[b] = service[b]
  BY DEF DelInv, ClusterOK, ServicesOK
<1>3. Absent.uid = 0 /\ Absent.version = 0
  BY DEF Absent
<1>4. \A s \in Requests : Quiet(s) => Quiet(s)'
  BY DEF Quiet
<1>5. \A b \in Apps : Gone(b) => Gone(b)'
  BY <1>1, <1>4 DEF Gone
<1>6. ServicesOK'
  <2>1. revision \in Nat /\ revision' = revision /\ \A b \in Apps : ServiceOK(b)
    BY DEF DelInv, ClusterOK, ServicesOK
  <2>2. ServiceOK(a)'
    <3>1. 0 \in Nat /\ 0 <= revision'
      BY <2>1, SMTT(30)
    <3> QED
      BY <1>2, <1>3, <3>1 DEF ServiceOK, Exists
  <2>3. \A b \in Apps : b # a => ServiceOK(b)'
    BY <1>2, <2>1 DEF ServiceOK
  <2> QED
    BY <1>2, <2>1, <2>2, <2>3 DEF ServicesOK
<1>7. ASSUME NEW w \in late' PROVE WriteOK(w)' /\ RemovalOK(w)'
  <2>1. WriteOK(w) /\ RemovalOK(w)
    BY DEF DelInv, ClusterOK, WritesOK
  <2>2. WriteOK(w)'
    BY <1>1, <2>1 DEF WriteOK
  <2>3. CASE w.of = a
    BY <1>2, <1>3, <2>1, <2>2, <2>3 DEF RemovalOK, Accepts, WriteOK
  <2>4. CASE w.of # a
    BY <1>2, <1>5, <2>1, <2>2, <2>4 DEF RemovalOK, Marked, WriteOK
  <2> QED
    BY <2>2, <2>3, <2>4
<1>8. ASSUME NEW r \in Requests PROVE RowOK(r)'
  <2>1. RowOK(r) /\ AppOf[r] \in Apps
    BY JournalAssumption DEF DelInv, ClusterOK
  <2> QED
    BY <1>1, <1>2, <2>1 DEF RowOK, NoneOpen
<1>9. ASSUME NEW b \in Apps PROVE MarkOK(b)' /\ AbsentOK(b)'
  <2>1. MarkOK(b) /\ AbsentOK(b)
    BY DEF DelInv, ClusterOK
  <2>2. CASE b = a
    BY <1>2, <1>3, <1>5, <2>2 DEF MarkOK, AbsentOK, Marked, Exists
  <2>3. CASE b # a
    BY <1>1, <1>2, <1>5, <2>1, <2>3 DEF MarkOK, AbsentOK, Marked, NoneOpen
  <2> QED
    BY <2>2, <2>3
<1>10. ClusterOK'
  BY <1>6, <1>7, <1>8, <1>9 DEF ClusterOK, WritesOK
<1>11. ASSUME NEW b \in Apps PROVE CallOK(b)' /\ LockOK(b)'
  <2>1. CallOK(b) /\ LockOK(b)
    BY DEF DelInv, CallsOK
  <2>2. CallOK(b)'
    <3>1. CASE b = a
      BY <1>1, <2>1, <3>1 DEF CallOK, NoneOpen
    <3>2. CASE b # a
      BY <1>1, <1>2, <2>1, <3>2 DEF CallOK
    <3> QED
      BY <3>1, <3>2
  <2>3. LockOK(b)'
    BY <1>1, <2>1 DEF LockOK, NoneOpen, OthersStay
  <2> QED
    BY <2>2, <2>3
<1>12. ShapesOK'
  BY <1>1 DEF DelInv, ShapesOK, OthersStay
<1>13. ASSUME NEW b \in Apps, b \in deleting' PROVE Progress(b, deletion[b].at)'
  <2>1. b \in deleting /\ deletion'[b] = deletion[b]
    BY <1>13 DEF OthersStay
  <2>2. PICK m : m = deletion[b].at
    OBVIOUS
  <2>3. Progress(b, m)
    BY <2>1, <2>2, DeletionFacts
  <2>4. Progress(b, m)'
    BY <1>1, <1>4, <2>3 DEF Progress
  <2> QED
    BY <2>1, <2>2, <2>4 DEF Progress
<1> QED
  BY <1>10, <1>11, <1>12, <1>13 DEF DelInv, CallsOK, ProgressOK

(* FinishCandidateDeletion *)
LEMMA FinishKeeps ==
    ASSUME DelInv, NEW a \in Apps, Finish(a)
    PROVE  DelInv'
<1>1. a \in deleting /\ deletion[a].at = "finish" /\ AtMarker(a) /\ UNCHANGED ingress
  BY DEF Finish, Deleted
<1>2. NoneOpen(a) /\ Progress(a, "finish")
  BY <1>1, DeletionFacts
<1>3. Gone(a)
  BY <1>2 DEF Progress, Gone
<1>4. Exists(service[a]) /\ Marked(a)
  BY <1>1 DEF AtMarker, Marked
<1>5. /\ Removal(a).kind = "remove" /\ Removal(a).of = a
      /\ Removal(a).body = Update(service[a], service[a].spec)
  BY DEF Removal
<1>6. CASE Remove(Removal(a)) /\ EndDelete(a) /\ Abandon(a) /\ UNCHANGED <<late, call>>
  <2>1. service' = [service EXCEPT ![a] = Absent] /\ UNCHANGED <<revision, pods>>
    BY <1>5, <1>6 DEF Remove
  <2>2. OthersStay(a) /\ a \notin deleting' /\ UNCHANGED <<requestVars, checkpointVars, appVars>>
    BY <1>6, AbandonMoves DEF DelInv
  <2> QED
    BY <1>1, <1>2, <1>3, <1>6, <2>1, <2>2, RemoveKeeps
<1>7. CASE LoseDeletion(a, Removal(a))
  <2>1. PICK w : w = Removal(a)
    OBVIOUS
  <2>2. w.body.uid = service[a].uid /\ w.body.version = service[a].version
    BY <2>1 DEF Removal, Update
  <2>3. service[a].version \in Nat /\ service[a].version <= revision
    BY DEF DelInv, ClusterOK, ServicesOK, ServiceOK
  <2>4. WriteOK(w)
    BY <1>4, <1>5, <2>1, <2>2, <2>3 DEF WriteOK, WriteKinds, Exists
  <2>5. RemovalOK(w)
    BY <1>3, <1>4, <1>5, <2>1 DEF RemovalOK
  <2>6. w.kind # "start" /\ LoseDeletion(a, w)
    BY <1>5, <1>7, <2>1
  <2> QED
    BY <1>1, <2>4, <2>5, <2>6, LoseDeletionKeeps
<1> QED
  BY <1>6, <1>7 DEF Finish

(* A delayed removal arrives. *)
LEMMA ArriveRemovalKeeps ==
    ASSUME DelInv, NEW w \in late, ArriveRemoval(w)
    PROVE  DelInv'
<1>1. /\ w.kind = "remove" /\ Accepts(service[w.of], w.body)
      /\ service' = [service EXCEPT ![w.of] = Absent]
      /\ UNCHANGED <<revision, pods, journalVars, ingress, call, deletion>>
      /\ late' \subseteq late
  BY DEF ArriveRemoval, Remove
<1>2. w.of \in Apps /\ Marked(w.of) /\ Gone(w.of)
  BY <1>1 DEF DelInv, ClusterOK, WritesOK, WriteOK, RemovalOK
<1>3. PICK a \in Apps : a = w.of
  BY <1>2
<1>4. NoneOpen(a)
  BY <1>2, <1>3 DEF DelInv, ClusterOK, MarkOK
<1>5. UNCHANGED <<requestVars, checkpointVars, appVars, deleting>>
  BY <1>1 DEF journalVars
<1> QED
  BY <1>1, <1>2, <1>3, <1>4, <1>5, RemoveKeeps

-----------------------------------------------------------------------------
(* The invariant holds *)

(* Applications deployed before candidates existed. *)
LEMMA DelInitInv == DelInit => DelInv
<1> SUFFICES ASSUME DelInit PROVE DelInv
  OBVIOUS
<1>1. /\ state = [r \in Requests |-> "absent"] /\ stage = [r \in Requests |-> "absent"]
      /\ live = {a \in Apps : desired[a] # NoConfig}
      /\ route = [a \in Apps |-> IF a \in live THEN desired[a].domain ELSE NoDomain]
      /\ deleting = {} /\ late = {} /\ revision = 1 /\ ingress = route
      /\ pods = [x \in Apps \cup Requests |-> IF x \in live THEN "ready" ELSE "absent"]
      /\ call = [a \in Apps |-> Idle] /\ deletion = [a \in Apps |-> NoDeletion]
  BY DEF DelInit, OpInit, Init
<1>2. service = [a \in Apps |->
          IF a \notin live THEN Absent
          ELSE [uid |-> 1, version |-> 1,
                spec |-> [op |-> NoOperation(a), target |-> Target(Legacy(a), desired[a].port),
                          boot |-> NoRequest, marked |-> FALSE]]]
  BY DEF DelInit, OpInit
<1>3. DOMAIN NoDeletion = {"at", "gate"}
  BY SMTT(30) DEF NoDeletion
<1>4. ShapesOK
  BY <1>1, <1>3, IdleFields DEF ShapesOK, Owners
<1>5. \A a \in Apps :
          \/ a \notin live /\ service[a].uid = 0 /\ service[a].version = 0
          \/ /\ a \in live /\ service[a].uid = 1 /\ service[a].version = 1
             /\ DOMAIN service[a].spec = SpecFields /\ ~service[a].spec.marked
  BY <1>2, SMTT(30) DEF Absent, SpecFields
<1>6. ServicesOK
  <2>1. DOMAIN service = Apps
    BY <1>2
  <2>2. ASSUME NEW a \in Apps PROVE ServiceOK(a)
    <3>1. 0 \in Nat /\ 1 \in Nat /\ 0 <= 1 /\ 1 <= 1
      BY SMTT(30)
    <3> QED
      BY <1>1, <1>5, <3>1 DEF ServiceOK, Exists
  <2>3. revision \in Nat
    BY <1>1, SMTT(30)
  <2> QED
    BY <2>1, <2>2, <2>3 DEF ServicesOK
<1>7. ASSUME NEW a \in Apps PROVE MarkOK(a) /\ AbsentOK(a)
  <2>1. MarkOK(a)
    BY <1>1 DEF MarkOK, NoneOpen
  <2>2. ASSUME ~Exists(service[a]) PROVE Gone(a)
    <3>1. a \notin live
      BY <1>5, <2>2, SMTT(30) DEF Exists
    <3>2. pods[a] = "absent" /\ route[a] = NoDomain /\ ingress[a] = NoDomain
      BY <1>1, <3>1
    <3>3. ASSUME NEW s \in Requests PROVE Quiet(s)
      <4>1. s \notin live
        BY <1>1, OperationAssumption
      <4> QED
        BY <1>1, <4>1 DEF Quiet
    <3> QED
      BY <3>1, <3>2, <3>3 DEF Gone, Running
  <2> QED
    BY <2>1, <2>2 DEF AbsentOK
<1>8. ClusterOK
  BY <1>1, <1>6, <1>7 DEF ClusterOK, WritesOK, RowOK
<1>9. CallsOK
  BY <1>1 DEF CallsOK, CallOK, LockOK
<1> QED
  BY <1>1, <1>4, <1>8, <1>9 DEF DelInv, ProgressOK

(* A step that changes nothing. *)
LEMMA StutterKeeps == DelInv /\ UNCHANGED delVars => DelInv'
<1> SUFFICES ASSUME DelInv, UNCHANGED delVars PROVE DelInv'
  OBVIOUS
<1>1. UNCHANGED <<journalVars, serviceVars, ingress, call, deletion>> /\ late' \subseteq late /\ pods' = pods
  BY DEF delVars, vars, clusterVars
<1>2. PodChange({}) /\ {} \in SUBSET Requests
  BY <1>1, PodsUnchanged
<1> QED
  BY <1>1, <1>2, QuietStepKeeps

(* Every step keeps the invariant. *)
LEMMA DelNextInv ==
    ASSUME ~LateMarkers
    PROVE  DelInv /\ [DelNext]_delVars => DelInv'
<1> SUFFICES ASSUME DelInv, [DelNext]_delVars PROVE DelInv'
  OBVIOUS
<1>1. ASSUME OpNext, \A a \in deleting : call'[a] = call[a], UNCHANGED deletion PROVE DelInv'
  <2>1. ASSUME NEW a \in Apps, CallStep(a) PROVE DelInv'
    BY <1>1, <2>1, ReadStepKeeps, WriteStepKeeps, RouteStepKeeps, CommitStepKeeps DEF CallStep
  <2>2. ASSUME NEW a \in Apps, Leave(a) PROVE DelInv'
    BY <1>1, <2>2, LeaveKeeps
  <2>3. ASSUME NEW a \in Apps, NEW r \in Requests, RpcStep(a, r) PROVE DelInv'
    BY <1>1, <2>3, RpcStepKeeps
  <2>4. ASSUME NEW w \in late, Arrive(w) \/ Vanish(w), UNCHANGED <<journalVars, ingress, call>> PROVE DelInv'
    BY <1>1, <2>4, ArriveKeeps, VanishKeeps
  <2>5. ASSUME NEW x \in Owners, Reconcile(x), UNCHANGED <<journalVars, ingress, call>> PROVE DelInv'
    BY <1>1, <2>5, ReconcileKeeps
  <2> QED
    BY <1>1, <2>1, <2>2, <2>3, <2>4, <2>5 DEF OpNext, Owners
<1>2. ASSUME NEW a \in Apps, StartDelete(a) \/ DeletionStep(a) \/ StopDelete(a) PROVE DelInv'
  BY <1>2, StartDeleteKeeps, StopDeleteKeeps, MarkServiceKeeps, RetireStepsKeep, AwaitRetiredKeeps,
     CleanUpKeeps, RowsGoKeeps, FinishKeeps DEF DeletionStep
<1>3. ASSUME NEW w \in late, ArriveRemoval(w) PROVE DelInv'
  BY <1>3, ArriveRemovalKeeps
<1> QED
  BY <1>1, <1>2, <1>3, StutterKeeps DEF DelNext

(* The invariant holds throughout, when a marker whose reply is lost was      *)
(* performed or refused before the call returned.                             *)
THEOREM DeletionInvariant ==
    ASSUME ~LateMarkers
    PROVE  DelSpec => []DelInv
  BY DelInitInv, DelNextInv, PTL DEF DelSpec

(* The marker is the admission barrier (checkCandidateDeletion): while it is  *)
(* on the Service no request of the application is open, whichever calls      *)
(* fail, stop or lose their replies.                                          *)
THEOREM MarkerAlwaysBarsRequests ==
    ASSUME ~LateMarkers
    PROVE  DelSpec => []MarkerBarsRequests
<1>1. DelInv => MarkerBarsRequests
  BY DEF DelInv, ClusterOK, MarkOK, NoneOpen, MarkerBarsRequests, Pending
<1> QED
  BY <1>1, DeletionInvariant, PTL

(* When the row is hidden and the Service is gone, no Ingress, no route and   *)
(* no running workload of the application is left, and no delayed write       *)
(* brings one back (FinishCandidateDeletion removes the Service last).        *)
THEOREM NothingIsLeftBehind ==
    ASSUME ~LateMarkers
    PROVE  DelSpec => []NothingLeftBehind
<1>1. DelInv => NothingLeftBehind
  <2> SUFFICES ASSUME DelInv, NEW a \in Apps, ~Exists(service[a])
               PROVE  /\ ingress[a] = NoDomain /\ route[a] = NoDomain
                      /\ \A x \in Workloads(a) : pods[x] \notin Running
    BY DEF NothingLeftBehind
  <2>1. Gone(a)
    BY DEF DelInv, ClusterOK, AbsentOK
  <2>2. \A s \in Requests : Quiet(s) => pods[s] \notin Running
    BY DEF Quiet, Retiring, Running
  <2> QED
    BY <2>1, <2>2 DEF Gone, Workloads
<1> QED
  BY <1>1, DeletionInvariant, PTL

(* DelLiveSpec only bounds the faults: what holds of DelSpec holds of the     *)
(* specification whose progress is checked.                                   *)
THEOREM LivenessRunIsDeletion == DelLiveSpec => DelSpec
<1>1. DelLiveInit => DelInit
  BY DEF DelLiveInit, DelInit
<1>2. [DelLiveNext]_delLiveVars => [DelNext]_delVars
  <2> SUFFICES ASSUME [DelLiveNext]_delLiveVars PROVE [DelNext]_delVars
    OBVIOUS
  <2>1. ASSUME LiveNext, \A a \in deleting : call'[a] = call[a], UNCHANGED deletion PROVE DelNext
    <3>1. ASSUME NEW a \in Apps, Proceed(a) \/ Refuse(a) \/ Fault(a) PROVE OpNext
      BY <3>1 DEF Proceed, Refuse, Fault, OpNext
    <3>2. ASSUME NEW a \in Apps, NEW r \in Requests, RpcStep(a, r) PROVE OpNext
      BY <3>2 DEF OpNext
    <3>3. ASSUME NEW w \in late, Arrive(w) \/ Vanish(w), UNCHANGED <<journalVars, ingress, call>> PROVE OpNext
      BY <3>3 DEF OpNext
    <3>4. ASSUME NEW x \in Owners, Reconcile(x), UNCHANGED <<journalVars, ingress, call>> PROVE OpNext
      BY <3>4 DEF OpNext, Owners
    <3>5. OpNext
      BY <2>1, <3>1, <3>2, <3>3, <3>4 DEF LiveNext, Settle
    <3> QED
      BY <2>1, <3>5 DEF DelNext
  <2>2. ASSUME NEW a \in Apps, AskDelete(a) \/ ProceedDelete(a) \/ RefuseDelete(a) \/ FaultDelete(a)
        PROVE  DelNext
    BY <2>2 DEF AskDelete, ProceedDelete, RefuseDelete, FaultDelete, DelNext
  <2>3. ASSUME NEW w \in late, ArriveRemoval(w) PROVE DelNext
    BY <2>3 DEF DelNext
  <2>4. CASE UNCHANGED delLiveVars
    BY <2>4 DEF delLiveVars, liveVars, delVars
  <2> QED
    BY <2>1, <2>2, <2>3, <2>4 DEF DelLiveNext
<1> QED
  BY <1>1, <1>2, PTL DEF DelLiveSpec, DelSpec
=============================================================================
