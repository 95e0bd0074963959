-------------------------- MODULE RuntimeResources --------------------------
(***************************************************************************)
(* The objects the Kubernetes runtime (internal/ingress) keeps for one     *)
(* application that is not candidate-managed: ReconcileWithRegistry and    *)
(* Delete, called one after the other under the application's mutation     *)
(* lock.  Every object is read and written in a step of its own; a write   *)
(* may be refused, or performed although the caller sees an error, and a   *)
(* call may stop between two steps.  The PostgreSQL Cluster is also        *)
(* touched by its operator and by maintenance.  Secrets are the subject of *)
(* RevisionStore and AppDeploy, writes that arrive after their call of     *)
(* AppDeploy.                                                              *)
(***************************************************************************)
EXTENDS Sequences

CONSTANTS
    Configs,     \* application configs: [hosted, database, domain, retries, resilient]
    NoDatabase   \* a config without database.postgres

ASSUME ConfigAssumption ==
    \A c \in Configs : c.domain \in BOOLEAN /\ c.retries \in BOOLEAN

VARIABLES
    objects,   \* what exists, by kind
    volumes,   \* the database whose volumes the operator provisioned
    call,      \* the call under way, or the last one
    erased     \* a Delete began and no call has succeeded since

runtimeVars == << objects, volumes, call, erased >>

Absent == "absent"
Keep == "keep"   \* the call leaves the object alone

PolicyFor(c) == IF c.hosted THEN "v1" ELSE Keep
ClusterFor(c) == IF c.database = NoDatabase THEN Keep ELSE c.database
WorkloadFor(c) == IF c.hosted THEN "hosted" ELSE "plain"
TrafficFor(wanted, value) == IF wanted THEN value ELSE Absent

\* The objects a config asks for.  Of a Service and an Ingress it matters which
\* other objects they name: the ServersTransport, the retry Middleware.
Manifests(c) ==
    [ NetworkPolicy       |-> PolicyFor(c),
      Cluster             |-> ClusterFor(c),
      Deployment          |-> WorkloadFor(c),
      PodDisruptionBudget |-> IF c.resilient THEN "budget" ELSE Absent,
      Middleware          |-> TrafficFor(c.domain /\ c.retries, "retry"),
      ServersTransport    |-> TrafficFor(c.domain, "dial"),
      Service             |-> IF c.domain THEN "routed" ELSE "plain",
      Ingress             |-> IF ~c.domain THEN Absent
                              ELSE IF c.retries THEN "retrying" ELSE "direct" ]

Kinds == {"NetworkPolicy", "Cluster", "Deployment", "PodDisruptionBudget",
          "Middleware", "ServersTransport", "Service", "Ingress"}

\* Mutant of Plan: the Service is written before the objects it names.
PlanServiceFirst(c) ==
    IF c.domain
    THEN << "NetworkPolicy", "Cluster", "Deployment", "PodDisruptionBudget",
            "Service", "Middleware", "ServersTransport", "Ingress" >>
    ELSE << "Ingress", "NetworkPolicy", "Cluster", "Deployment",
            "PodDisruptionBudget", "Service", "Middleware", "ServersTransport" >>

\* The order in which ReconcileWithRegistry and reconcileAppResources write.
Plan(c) ==
    IF c.domain
    THEN << "NetworkPolicy", "Cluster", "Deployment", "PodDisruptionBudget",
            "Middleware", "ServersTransport", "Service", "Ingress" >>
    ELSE << "Ingress", "NetworkPolicy", "Cluster", "Deployment",
            "PodDisruptionBudget", "Service", "Middleware", "ServersTransport" >>

\* The order in which Delete removes; the Cluster is not among them.
Removal == << "Ingress", "NetworkPolicy", "Service", "Middleware",
              "ServersTransport", "Deployment", "PodDisruptionBudget" >>

RuntimeInit ==
    /\ objects = [k \in Kinds |-> Absent]
    /\ volumes = NoDatabase
    /\ \E c \in Configs :
         call = [op |-> "none", cfg |-> c, left |-> << >>, failed |-> FALSE]
    /\ erased = FALSE
-----------------------------------------------------------------------------
(* The checks before a database is created or updated.                      *)

\* Mutant of GeneratedResourcesAvailable: only the Cluster itself is looked up.
ClusterNameFree == objects["Cluster"] = Absent

GeneratedResourcesAvailable == volumes = NoDatabase

\* Every field of the Cluster that a config determines is immutable, so the
\* update that follows writes what is there.
ValidUpdate(d) == objects["Cluster"] = d

PostgresAdmitted(d) ==
    IF objects["Cluster"] = Absent THEN GeneratedResourcesAvailable ELSE ValidUpdate(d)
-----------------------------------------------------------------------------
Want(k) == IF call.op = "reconcile" THEN Manifests(call.cfg)[k] ELSE Absent

Admitted(k) == k = "Cluster" /\ Want(k) # Keep => PostgresAdmitted(Want(k))

\* deleteHostingNetworkPolicy keeps the policy while matching Pods exist.
Results(k) ==
    IF Want(k) = Keep THEN {objects[k]}
    ELSE IF call.op = "delete" /\ k = "NetworkPolicy" THEN {objects[k], Absent}
    ELSE {Want(k)}

Becomes(k, v) == objects' = [objects EXCEPT ![k] = v]

\* Delete, and the removal of the two traffic objects, try everything and join
\* the errors; a reconciliation returns the first one.
TriesTheRest(k) ==
    call.op = "delete" \/ (k = "Middleware" /\ ~call.cfg.domain)

Running == call.op # "none" /\ call.left # << >>
Advance == call' = [call EXCEPT !.left = Tail(@)]
FailAt(k) ==
    call' = IF TriesTheRest(k)
            THEN [call EXCEPT !.left = Tail(@), !.failed = TRUE]
            ELSE [call EXCEPT !.op = "none", !.left = << >>]

\* The checks of ReconcileWithRegistry that write nothing have passed.
StartReconcile(c) ==
    /\ call.op = "none"
    /\ call' = [op |-> "reconcile", cfg |-> c, left |-> Plan(c), failed |-> FALSE]
    /\ UNCHANGED << objects, volumes, erased >>

StartRemoval ==
    /\ call.op = "none"
    /\ call' = [call EXCEPT !.op = "delete", !.left = Removal, !.failed = FALSE]
    /\ erased' = TRUE
    /\ UNCHANGED << objects, volumes >>

\* The next object is written and the reply says so.
Write ==
    /\ Running
    /\ LET k == Head(call.left) IN
         /\ Admitted(k)
         /\ \E v \in Results(k) : Becomes(k, v)
    /\ Advance
    /\ UNCHANGED << volumes, erased >>

\* A read, a check or the write fails: nothing has changed.
Refused ==
    /\ Running
    /\ FailAt(Head(call.left))
    /\ UNCHANGED << objects, volumes, erased >>

\* The write is performed and its reply is lost.
Unanswered ==
    /\ Running
    /\ LET k == Head(call.left) IN
         /\ Admitted(k) /\ Want(k) # Keep
         /\ \E v \in Results(k) : Becomes(k, v)
         /\ FailAt(k)
    /\ UNCHANGED << volumes, erased >>

\* The Deployment is updated and its migration away from required
\* anti-affinity does not finish in time.
MigrationPending ==
    /\ Running /\ call.op = "reconcile" /\ Head(call.left) = "Deployment"
    /\ objects["Deployment"] # Absent
    /\ \E v \in {objects["Deployment"], Want("Deployment")} : Becomes("Deployment", v)
    /\ FailAt("Deployment")
    /\ UNCHANGED << volumes, erased >>

\* The call returns.
Return ==
    /\ call.op # "none" /\ call.left = << >>
    /\ call' = [call EXCEPT !.op = "none"]
    /\ erased' = (erased /\ call.failed)
    /\ UNCHANGED << objects, volumes >>

\* The process stops, or the call's context ends.
Stop ==
    /\ Running
    /\ call' = [call EXCEPT !.op = "none", !.left = << >>]
    /\ UNCHANGED << objects, volumes, erased >>

\* The database operator provisions what the Cluster generates.
Provision ==
    /\ objects["Cluster"] # Absent /\ volumes = NoDatabase
    /\ volumes' = objects["Cluster"]
    /\ UNCHANGED << objects, call, erased >>

\* Maintenance removes a Cluster, and the volumes it left.
RemoveCluster ==
    /\ objects["Cluster"] # Absent
    /\ Becomes("Cluster", Absent)
    /\ UNCHANGED << volumes, call, erased >>

RemoveVolumes ==
    /\ objects["Cluster"] = Absent /\ volumes # NoDatabase
    /\ volumes' = NoDatabase
    /\ UNCHANGED << objects, call, erased >>

RuntimeNext ==
    \/ \E c \in Configs : StartReconcile(c)
    \/ StartRemoval
    \/ Write \/ Refused \/ Unanswered \/ MigrationPending \/ Return \/ Stop
    \/ Provision \/ RemoveCluster \/ RemoveVolumes

RuntimeSpec == RuntimeInit /\ [][RuntimeNext]_runtimeVars
-----------------------------------------------------------------------------
(* A database outlives its application's deployments: no reconciliation,     *)
(* rollback, removal from the config or Delete removes a Cluster or turns it *)
(* into another one, and no new Cluster is created on the generated names,   *)
(* and so the volumes, of a different one that maintenance has removed.      *)
DatabaseRetained ==
    [][ /\ objects["Cluster"] # Absent =>
             objects'["Cluster"] = objects["Cluster"] \/ RemoveCluster
        /\ volumes # NoDatabase => objects'["Cluster"] \in {Absent, volumes}
      ]_runtimeVars

(* Unless a Delete has left the application half removed, what a route names *)
(* exists, also while its config gains or loses a domain and whichever write *)
(* fails: the Ingress its Service, the Service its ServersTransport.  An     *)
(* Ingress comes to name a Middleware that exists, and only a reconciliation *)
(* that turns retries off removes one that an Ingress names.                 *)
RouteIntact ==
    /\ [](~erased =>
            /\ objects["Ingress"] # Absent => objects["Service"] = "routed"
            /\ objects["Service"] = "routed" => objects["ServersTransport"] # Absent)
    /\ [][ /\ objects["Ingress"] # "retrying" /\ objects'["Ingress"] = "retrying" =>
                 objects["Middleware"] # Absent
           /\ ~erased /\ objects["Ingress"] = "retrying" /\ call.cfg.retries
                 /\ objects["Middleware"] # Absent => objects'["Middleware"] # Absent
         ]_runtimeVars

=============================================================================
