------------------------- MODULE CandidateDeletion -------------------------
(* DeleteApp for an application with candidate history                        *)
(* (internal/server/candidate_deletion.go, internal/ingress/candidate_        *)
(* deletion.go), beside the coordinator of CandidateOperation.  The call      *)
(* holds the application's lock; the deletion marker on the Service outlives  *)
(* it.  Every step may be the last one: the call fails, or the server stops,  *)
(* and a later DeleteApp starts again from the marker.                        *)
EXTENDS CandidateOperation

CONSTANT LateMarkers    \* whether a marker write may arrive after its call failed

ASSUME DeletionAssumption == LateMarkers \in BOOLEAN

VARIABLE deletion       \* the step and the token of each application's DeleteApp call

delVars == <<vars, deletion>>

NoDeletion == [at |-> "idle", gate |-> NoGate]

Deleted(a, label) == a \in deleting /\ deletion[a].at = label
Continue(a, label) == deletion' = [deletion EXCEPT ![a].at = label]
Abandon(a) == deletion' = [deletion EXCEPT ![a] = NoDeletion]

(* deletionServiceAtGate: the Service still carries this deletion's marker at *)
(* the token the call holds.                                                  *)
AtMarker(a) == Exists(service[a]) /\ GateOf(service[a]) = deletion[a].gate /\ service[a].spec.marked

(* A lost reply ends the call; EndDelete of the journal releases the lock. *)
LoseDeletion(a, w) ==
    /\ Lose(a, w)
    /\ EndDelete(a)
    /\ Abandon(a)

-----------------------------------------------------------------------------
(* DeleteApp under the lock: nothing pending, and some generation bound. *)
StartDelete(a) ==
    /\ call[a] = Idle
    /\ Generations(a) # {}
    /\ BeginDelete(a)
    /\ deletion' = [deletion EXCEPT ![a].at = "mark"]
    /\ UNCHANGED <<clusterVars, call>>

(* The Service BeginCandidateDeletion writes. *)
MarkerWrite(a) ==
    LET s == service[a] IN
    IF Exists(s)
    THEN Update(s, Deleting(a, desired[a].port, s.spec.boot))
    ELSE Create(Deleting(a, desired[a].port, NoRequest))

(* Mutant of MarkService: a marker found on the Service is not taken over. *)
MarkServiceOnce(a) ==
    /\ Deleted(a, "mark")
    /\ Exists(service[a]) \/ a \notin live
    /\ ~Marked(a)
    /\ \/ /\ Perform(ServiceWrite(a, MarkerWrite(a)))
          /\ deletion' = [deletion EXCEPT ![a] = [at |-> "retire", gate |-> GateOf(service'[a])]]
          /\ UNCHANGED <<journalVars, late, call>>
       \/ LateMarkers /\ LoseDeletion(a, ServiceWrite(a, MarkerWrite(a)))
    /\ UNCHANGED ingress

(* BeginCandidateDeletion: an own marker is taken over, a Service is fenced   *)
(* and made inactive, a missing one is made again for a hidden application.   *)
MarkService(a) ==
    /\ Deleted(a, "mark")
    /\ \/ /\ Marked(a)
          /\ service[a].spec.target = Target(Inactive(a), desired[a].port)
          /\ deletion' = [deletion EXCEPT ![a] = [at |-> "retire", gate |-> GateOf(service[a])]]
          /\ UNCHANGED <<journalVars, serviceVars, pods, late, call>>
       \/ /\ Exists(service[a]) \/ a \notin live
          /\ ~Marked(a)
          /\ \/ /\ Perform(ServiceWrite(a, MarkerWrite(a)))
                /\ deletion' = [deletion EXCEPT ![a] = [at |-> "retire", gate |-> GateOf(service'[a])]]
                /\ UNCHANGED <<journalVars, late, call>>
             \/ LateMarkers /\ LoseDeletion(a, ServiceWrite(a, MarkerWrite(a)))
    /\ UNCHANGED ingress

SendDeletion(a, w, label) ==
    \/ Perform(w) /\ Continue(a, label) /\ UNCHANGED <<journalVars, late, call>>
    \/ LoseDeletion(a, w)

(* Withdrawn generations are retired as well as applied ones. *)
RetireGeneration(a, s) ==
    /\ Deleted(a, "retire")
    /\ s \in Generations(a)
    /\ pods[s] \notin Retiring
    /\ SendDeletion(a, Retirement(s), "retire")
    /\ UNCHANGED ingress

(* All are told to stop before any is waited for. *)
AwaitRetired(a) ==
    /\ Deleted(a, "retire")
    /\ \A s \in Generations(a) : pods[s] = "retired"
    /\ Continue(a, "cleanup")
    /\ UNCHANGED <<journalVars, clusterVars, call>>

(* CleanupCandidateDeletion drains the legacy workload ... *)
DrainLegacy(a) ==
    /\ Deleted(a, "cleanup")
    /\ AtMarker(a)
    /\ pods[a] \in Running
    /\ SendDeletion(a, Retirement(a), "cleanup")
    /\ UNCHANGED ingress

Workloads(a) == {a} \cup {s \in Requests : AppOf[s] = a}

(* Mutant of CleanUp: a failed removal of the Ingress goes unnoticed. *)
CleanUpKeepsIngress(a) ==
    /\ Deleted(a, "cleanup")
    /\ AtMarker(a)
    /\ \A x \in Workloads(a) : pods[x] \in {"absent", "retired"}
    /\ Continue(a, "routes")
    /\ UNCHANGED <<journalVars, clusterVars, call>>

(* ... and removes the Ingress and the other resources once no workload and   *)
(* no pod of the application is left.                                         *)
CleanUp(a) ==
    /\ Deleted(a, "cleanup")
    /\ AtMarker(a)
    /\ \A x \in Workloads(a) : pods[x] \in {"absent", "retired"}
    /\ ingress' = [ingress EXCEPT ![a] = NoDomain]
    /\ Continue(a, "routes")
    /\ UNCHANGED <<journalVars, serviceVars, pods, late, call>>

(* The rows: routes first, then the application, if it is not hidden yet. *)
ClearRoutes(a) ==
    /\ Deleted(a, "routes")
    /\ DeleteRoutes(a)
    /\ Continue(a, "hide")
    /\ UNCHANGED <<clusterVars, call>>

HideRow(a) ==
    /\ Deleted(a, "hide")
    /\ IF a \in live THEN MarkDeleted(a) ELSE UNCHANGED journalVars
    /\ Continue(a, "finish")
    /\ UNCHANGED <<clusterVars, call>>

(* A conditional delete: uid and resourceVersion must be current. *)
Removal(a) == [kind |-> "remove", of |-> a, body |-> Update(service[a], service[a].spec)]

Remove(w) ==
    /\ w.kind = "remove"
    /\ Accepts(service[w.of], w.body)
    /\ service' = [service EXCEPT ![w.of] = Absent]
    /\ UNCHANGED <<revision, pods>>

(* FinishCandidateDeletion: the marked Service goes last. *)
Finish(a) ==
    /\ Deleted(a, "finish")
    /\ \/ /\ AtMarker(a)
          /\ \A x \in Workloads(a) : pods[x] \in {"absent", "retired"}
          /\ Remove(Removal(a))
          /\ EndDelete(a) /\ Abandon(a)
          /\ UNCHANGED <<late, call>>
       \/ AtMarker(a) /\ LoseDeletion(a, Removal(a))
    /\ UNCHANGED ingress

(* The call returns early, its context ends, or the server stops. *)
StopDelete(a) ==
    /\ a \in deleting
    /\ EndDelete(a)
    /\ Abandon(a)
    /\ UNCHANGED <<clusterVars, call>>

ArriveRemoval(w) ==
    /\ w \in late
    /\ Remove(w)
    /\ late' = late \ {w}
    /\ UNCHANGED <<journalVars, ingress, call, deletion>>

-----------------------------------------------------------------------------
DeletionStep(a) ==
    \/ MarkService(a) \/ AwaitRetired(a) \/ DrainLegacy(a) \/ CleanUp(a)
    \/ ClearRoutes(a) \/ HideRow(a) \/ Finish(a)
    \/ \E s \in Requests : RetireGeneration(a, s)
-----------------------------------------------------------------------------
(* "The Service deletion marker is the durable admission barrier"             *)
(* (checkCandidateDeletion): while the marker is on the Service no request of *)
(* the application is pending, so nothing waits for what is being removed.    *)
MarkerBarsRequests ==
    \A a \in Apps : Marked(a) => Pending(a) = {}

(* Once the rows are hidden and the Service is gone nothing of the            *)
(* application runs or is exposed, and no write still under way brings a      *)
(* workload back: its tombstones stay.                                        *)
NothingLeftBehind ==
    \A a \in Apps : a \notin live /\ ~Exists(service[a]) =>
        /\ ingress[a] = NoDomain
        /\ route[a] = NoDomain
        /\ \A x \in Workloads(a) : pods[x] \notin Running
=============================================================================
