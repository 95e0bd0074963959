----------------------------- MODULE AppDeploy -----------------------------
(***************************************************************************)
(* Deployments that do not use candidates: AppService.DeployApp with its   *)
(* rollback and its confirmed withdrawal, DeleteApp, and the two calls of  *)
(* SecretService that read the same row (internal/server), on top of the   *)
(* controller that writes the application's Deployment, Service and        *)
(* Ingress (internal/ingress).  A step is one database statement or one    *)
(* Kubernetes write.  Deploy and delete hold the application's mutation    *)
(* lock, so there is one such call per application; SetSecret and          *)
(* DeleteSecret do not take it.                                            *)
(***************************************************************************)
EXTENDS Integers, Sequences, FiniteSets

CONSTANTS
    Apps, Requests, NoRequest,
    AppOf,          \* the application of each tracked request
    Configs,        \* records: domain, hosting, secret (does it name the secret)
    NoConfig, NoDomain, NoCall,
    Faults,         \* may a statement, a Kubernetes write or the process fail
    Overlapping,    \* may a secret call run beside a deploy or delete
    MaxSecret,      \* bound: values of the secret
    MaxLate         \* bound: writes still under way after their call gave up

ASSUME DeployAssumption ==
    /\ AppOf \in [Requests -> Apps]
    /\ NoRequest \notin Requests /\ NoConfig \notin Configs
    /\ \A c \in Configs : c.hosting \in BOOLEAN /\ c.secret \in BOOLEAN
    /\ Overlapping \in BOOLEAN /\ Faults \in BOOLEAN
    /\ MaxSecret \in Nat

VARIABLES
    desired, live, route,   \* apps.desired_state_json, deleted_at IS NULL, routes.domain
    request, asked,         \* deployment_requests: state, requested_state
    deployment,             \* deployments.status of the application's latest row
    secret,                 \* app_secrets: version of the stored value, 0 if none
    objects,                \* what the cluster holds for each application
    late,                   \* writes whose reply was lost and that are not performed yet
    calls,                  \* the deploy or delete call holding the lock
    setters,                \* the secret call of each application
    promise,                \* what the last answered call said of the application,
                            \* "void" once a write of an earlier call was performed after it began
    fresh                   \* no secret was stored since a call last delivered one

vars == <<desired, live, route, request, asked, deployment, secret, objects, late,
          calls, setters, promise, fresh>>

Kinds == {"deployment", "service", "ingress"}
Absent == [config |-> NoConfig, revision |-> 0]
Bare == [o \in Kinds |-> Absent]

Pending(a) == {r \in Requests : AppOf[r] = a /\ request[r] = "pending"}

\* deploymentForApp: the template carries the revision of the secret's value.
DeploymentManifest(c, revision) == [config |-> c, revision |-> revision]
ServiceManifest(c) == [config |-> c, revision |-> 0]
\* ManifestForApp: no Ingress without a domain.
IngressManifest(c) == IF c.domain = NoDomain THEN Absent ELSE [config |-> c, revision |-> 0]

Manifest(o, c, revision) ==
    CASE o = "deployment" -> DeploymentManifest(c, revision)
      [] o = "service" -> ServiceManifest(c)
      [] o = "ingress" -> IngressManifest(c)

\* The order in which ReconcileWithRegistry writes.
Plan(c) ==
    IF c.domain = NoDomain THEN <<"ingress", "deployment", "service">>
    ELSE <<"deployment", "service", "ingress">>

\* The order in which Delete removes.
Removal == <<"ingress", "service", "deployment">>

Init ==
    /\ desired = [a \in Apps |-> NoConfig] /\ live = {}
    /\ route = [a \in Apps |-> NoDomain]
    /\ request = [r \in Requests |-> "absent"] /\ asked = [r \in Requests |-> NoConfig]
    /\ deployment = [a \in Apps |-> "none"]
    /\ secret = [a \in Apps |-> 0]
    /\ objects = [a \in Apps |-> Bare] /\ late = {}
    /\ calls = [a \in Apps |-> NoCall] /\ setters = [a \in Apps |-> NoCall]
    /\ promise = [a \in Apps |-> "none"] /\ fresh = [a \in Apps |-> TRUE]

rowVars == <<desired, live>>
requestVars == <<request, asked>>
clusterVars == <<objects, late>>
answerVars == <<promise, fresh>>

---------------------------------------------------------------------------
\* The statements of the repositories.  apps.Create and apps.Update leave the
\* row visible; an application has one latest deployment and one route.
PutRow(a, c) == desired' = [desired EXCEPT ![a] = c] /\ live' = live \cup {a}
PutStatus(a, status) == deployment' = [deployment EXCEPT ![a] = status]
PutRoute(a, d) == route' = [route EXCEPT ![a] = d]
PutSecret(a, version) == secret' = [secret EXCEPT ![a] = version]

---------------------------------------------------------------------------
\* Kubernetes writes.  Every write is conditional: a create needs the object
\* to be absent, an update or delete the version that was read.  Outcomes:
\* "ok"; "rejected", an API status between 400 and 499 other than 408; and three that
\* the caller cannot tell apart: not performed, performed, performed later.
Outcomes == IF Faults THEN {"ok", "rejected", "failed", "unknown", "late"} ELSE {"ok"}

\* A write under way is refused once its object has changed; deletions of the
\* Deployment and the Ingress name only the object's UID (ownedDeleteOptions).
ByUid(w) == w.new = Absent /\ w.object # "service"
Survives(w, new) == w.was = Absent \/ (ByUid(w) /\ new # Absent)

Performed(a, o, new, pending) ==
    /\ objects' = [objects EXCEPT ![a][o] = new]
    /\ late' = {w \in pending : w.app = a /\ w.object = o /\ objects[a][o] # new => Survives(w, new)}

Write(a, o, new, by, outcome) ==
    CASE outcome \in {"ok", "unknown"} -> Performed(a, o, new, late)
      [] outcome = "late" ->
            /\ Cardinality(late) < MaxLate /\ objects[a][o] # new
            /\ late' = late \cup {[app |-> a, object |-> o, was |-> objects[a][o], new |-> new, by |-> by]}
            /\ UNCHANGED objects
      [] OTHER -> UNCHANGED clusterVars

Arrive(w) ==
    LET current == objects[w.app][w.object] IN
    /\ w \in late
    /\ IF current = w.was \/ (ByUid(w) /\ current # Absent)
       THEN /\ Performed(w.app, w.object, w.new, late \ {w})
            /\ promise' = [promise EXCEPT ![w.app] = "void"]
       ELSE late' = late \ {w} /\ UNCHANGED <<objects, promise>>
    /\ UNCHANGED <<rowVars, route, requestVars, deployment, secret, calls, setters, fresh>>

---------------------------------------------------------------------------
At(a, step) == calls[a] # NoCall /\ calls[a].at = step
Goto(a, step) == calls' = [calls EXCEPT ![a].at = step]
Return(a, said) ==
    /\ calls' = [calls EXCEPT ![a] = NoCall]
    /\ promise' = [promise EXCEPT ![a] = IF @ = "void" THEN @ ELSE said]
    /\ fresh' = [fresh EXCEPT ![a] = @ \/ said # "none"]

Free(a) == calls[a] = NoCall /\ (Overlapping \/ setters[a] = NoCall)

\* validateRequestedDomain: it reads the routes table only.
DomainRoutable(a, c) == c.domain # NoDomain => \A b \in Apps \ {a} : route[b] # c.domain

\* Up to validateRequestedDomain DeployApp only reads.  A request that is
\* already recorded is answered from its row and changes nothing.
StartDeploy(a, c, r, report) ==
    /\ Free(a)
    /\ IF r = NoRequest THEN Pending(a) = {} ELSE AppOf[r] = a /\ request[r] = "absent"
    /\ DomainRoutable(a, c)
    /\ calls' = [calls EXCEPT ![a] =
         [at |-> IF r = NoRequest THEN "row" ELSE "begin", mode |-> "apply", config |-> c,
          request |-> r, report |-> report, previous |-> NoConfig, hidden |-> FALSE,
          target |-> c, revision |-> 0, todo |-> Plan(c), clean |-> TRUE]]
    /\ promise' = [promise EXCEPT ![a] = "none"]
    /\ UNCHANGED <<rowVars, route, requestVars, deployment, secret, clusterVars, setters, fresh>>

\* DeploymentRequestRepository.Begin; the index deployment_requests_one_pending
\* refuses a second pending request, and the call returns.
BeginRequest(a) ==
    LET r == calls[a].request IN
    /\ At(a, "begin")
    /\ IF Pending(a) = {}
       THEN /\ request' = [request EXCEPT ![r] = "pending"]
            /\ asked' = [asked EXCEPT ![r] = calls[a].config]
            /\ Goto(a, "row") /\ UNCHANGED answerVars
       ELSE Return(a, "none") /\ UNCHANGED requestVars
    /\ UNCHANGED <<rowVars, route, deployment, secret, clusterVars, setters>>

\* rejectHostingProfileRemoval reads the row whether or not it is hidden.
ProfileKept(a, c) == desired[a] # NoConfig /\ desired[a].hosting => c.hosting

\* The row of a new or deleted application is written now, that of a live one
\* after the runtime; previousApp stays nil for a deleted row unless the caller
\* asked for a withdrawal report.
WriteRow(a) ==
    LET call == calls[a]
        hidden == desired[a] # NoConfig /\ a \notin live IN
    /\ At(a, "row") /\ ProfileKept(a, call.config)
    /\ IF a \in live THEN UNCHANGED rowVars
       ELSE PutRow(a, call.config)
    /\ calls' = [calls EXCEPT ![a].at = "deployment", ![a].hidden = hidden,
                     ![a].previous = IF hidden /\ ~call.report THEN NoConfig ELSE desired[a]]
    /\ UNCHANGED <<route, requestVars, deployment, secret, clusterVars, setters, answerVars>>

CreateDeployment(a) ==
    /\ At(a, "deployment")
    /\ PutStatus(a, "pending")
    /\ Goto(a, "environment")
    /\ UNCHANGED <<rowVars, route, requestVars, secret, clusterVars, setters, answerVars>>

---------------------------------------------------------------------------
\* What follows a failure of the runtime, the route or the final row update.
\* definite: a withdrawal may be confirmed.
Compensation(call, definite) ==
    LET back == [call EXCEPT !.target = call.previous, !.todo = Plan(call.previous), !.clean = TRUE] IN
    CASE call.report /\ definite /\ (call.previous = NoConfig \/ call.hidden) ->
            [call EXCEPT !.mode = "withdraw", !.at = "erase", !.todo = Removal]
      [] call.report /\ definite /\ call.previous # NoConfig /\ ~call.hidden ->
            [back EXCEPT !.mode = "withdraw", !.at = "environment"]
      [] ~(call.report /\ definite) /\ call.previous # NoConfig ->
            [back EXCEPT !.mode = "rollback", !.at = "environment"]
      [] OTHER -> [call EXCEPT !.mode = "fail", !.at = "failed"]

Compensate(a, definite) == calls' = [calls EXCEPT ![a] = Compensation(calls[a], definite)]

\* An error inside the compensation: rollbackAppUpdate goes on with the route,
\* and the withdrawal is not confirmed.
Spoil(a, step) == calls' = [calls EXCEPT ![a].clean = FALSE, ![a].at = step]

\* resolveConfiguredEnvironment, for the requested and for the previous
\* configuration: a named secret must be stored.
ResolveEnvironment(a) ==
    LET call == calls[a] IN
    /\ At(a, "environment")
    /\ CASE call.target.secret /\ secret[a] = 0 /\ call.mode = "apply" ->
                calls' = [calls EXCEPT ![a].mode = "fail", ![a].at = "failed"]
         [] call.target.secret /\ secret[a] = 0 /\ call.mode # "apply" -> Spoil(a, "failed")
         [] OTHER -> calls' = [calls EXCEPT ![a].at = "objects",
                                  ![a].revision = IF call.target.secret THEN secret[a] ELSE 0]
    /\ UNCHANGED <<rowVars, route, requestVars, deployment, secret, clusterVars, setters, answerVars>>

\* Mutant of Definitive: every failure counts as a rejection.
AnyError(outcome) == outcome # "ok"

\* definitiveRuntimeRejection
Definitive(outcome) == outcome = "rejected"

\* One write of ReconcileWithRegistry.
ReconcileObject(a, outcome) ==
    LET call == calls[a]
        o == Head(call.todo)
        new == Manifest(o, call.target, call.revision) IN
    /\ At(a, "objects") /\ call.todo # <<>>
    /\ Write(a, o, new, call.request, outcome)
    /\ CASE outcome = "ok" -> calls' = [calls EXCEPT ![a].todo = Tail(call.todo)]
         [] outcome # "ok" /\ call.mode = "apply" -> Compensate(a, Definitive(outcome))
         [] OTHER -> calls' = [calls EXCEPT ![a].clean = FALSE, ![a].todo = <<>>]
    /\ UNCHANGED <<rowVars, route, requestVars, deployment, secret, setters, answerVars>>

\* Where the call goes once the route is written.
AfterRoute(call) ==
    CASE call.mode = "apply" /\ call.previous # NoConfig -> "commit"
      [] call.mode = "apply" /\ call.previous = NoConfig -> "healthy"
      [] call.mode = "withdraw" /\ call.clean -> "restore"
      [] OTHER -> "failed"

\* syncRoute: the statement writes or fails; the UNIQUE constraint on the
\* domain makes it fail.
SyncRoute(a, ok) ==
    LET call == calls[a] IN
    /\ At(a, "objects") /\ call.todo = <<>>
    /\ ok => DomainRoutable(a, call.target)
    /\ ~ok => Faults \/ ~DomainRoutable(a, call.target)
    /\ IF ok
       THEN /\ PutRoute(a, call.target.domain)
            /\ Goto(a, AfterRoute(call))
       ELSE /\ UNCHANGED route
            /\ IF call.mode = "apply" THEN Compensate(a, TRUE) ELSE Spoil(a, "failed")
    /\ UNCHANGED <<rowVars, requestVars, deployment, secret, clusterVars, setters, answerVars>>

\* The final apps.Update of an application that was live before.
CommitRow(a, ok) ==
    /\ At(a, "commit") /\ (ok \/ Faults)
    /\ IF ok
       THEN /\ PutRow(a, calls[a].config)
            /\ Goto(a, "healthy")
       ELSE Compensate(a, TRUE) /\ UNCHANGED rowVars
    /\ UNCHANGED <<route, requestVars, deployment, secret, clusterVars, setters, answerVars>>

MarkHealthy(a) ==
    /\ At(a, "healthy")
    /\ PutStatus(a, "healthy")
    /\ IF calls[a].request = NoRequest THEN Return(a, "applied")
       ELSE Goto(a, "complete") /\ UNCHANGED answerVars
    /\ UNCHANGED <<rowVars, route, requestVars, secret, clusterVars, setters>>

Outcome(call) == IF call.mode = "apply" THEN "applied" ELSE "withdrawn"

\* DeploymentRequestRepository.Complete
CompleteRequest(a) ==
    LET call == calls[a] IN
    /\ At(a, "complete") /\ request[call.request] = "pending"
    /\ request' = [request EXCEPT ![call.request] = Outcome(call)]
    /\ Return(a, Outcome(call))
    /\ UNCHANGED <<rowVars, route, asked, deployment, secret, clusterVars, setters>>

---------------------------------------------------------------------------
\* The last steps of a failed call: recordFailedDeployment, or the failed
\* status a confirmed withdrawal needs.
Conclusion(call) ==
    CASE call.mode = "rollback" /\ call.clean -> IF call.hidden THEN "revived" ELSE "restored"
      [] call.mode = "withdraw" /\ call.clean -> "withdrawn"
      [] OTHER -> "none"

FailDeployment(a) ==
    LET call == calls[a] IN
    /\ At(a, "failed")
    /\ IF call.mode = "withdraw" /\ ~call.clean THEN UNCHANGED deployment ELSE PutStatus(a, "failed")
    /\ IF Conclusion(call) = "withdrawn" /\ call.request # NoRequest
       THEN Goto(a, "complete") /\ UNCHANGED answerVars
       ELSE Return(a, Conclusion(call))
    /\ UNCHANGED <<rowVars, route, requestVars, secret, clusterVars, setters>>

\* Mutant of EraseObject: the errors of the single deletions are dropped.
EraseObjectQuietly(a, outcome) ==
    LET call == calls[a] IN
    /\ At(a, "erase") /\ call.todo # <<>>
    /\ Write(a, Head(call.todo), Absent, call.request, outcome)
    /\ calls' = [calls EXCEPT ![a].todo = Tail(call.todo)]
    /\ UNCHANGED <<rowVars, route, requestVars, deployment, secret, setters, answerVars>>

\* Controller.Delete tries every object and joins the errors.
EraseObject(a, outcome) ==
    LET call == calls[a] IN
    /\ At(a, "erase") /\ call.todo # <<>>
    /\ Write(a, Head(call.todo), Absent, call.request, outcome)
    /\ calls' = [calls EXCEPT ![a].todo = Tail(call.todo), ![a].clean = @ /\ outcome = "ok"]
    /\ UNCHANGED <<rowVars, route, requestVars, deployment, secret, setters, answerVars>>

\* RouteRepository.DeleteByApp, once every object is gone.
Unroute(a) ==
    /\ At(a, "erase") /\ calls[a].todo = <<>> /\ calls[a].clean
    /\ PutRoute(a, NoDomain)
    /\ Goto(a, "restore")
    /\ UNCHANGED <<rowVars, requestVars, deployment, secret, clusterVars, setters, answerVars>>

\* MarkDeleted, or apps.Update of the previous row.
RestoreRow(a) ==
    LET call == calls[a] IN
    /\ At(a, "restore")
    /\ desired' = [desired EXCEPT ![a] = IF call.previous # NoConfig THEN call.previous ELSE @]
    /\ live' = IF call.previous = NoConfig \/ call.hidden THEN live \ {a} ELSE live
    /\ IF call.mode = "delete" THEN Return(a, "deleted")
       ELSE Goto(a, "failed") /\ UNCHANGED answerVars
    /\ UNCHANGED <<route, requestVars, deployment, secret, clusterVars, setters>>

\* DeleteApp up to its first write.  Registry credentials and environment
\* bundles are removed between Unroute and RestoreRow: see RevisionStore.
StartDelete(a) ==
    /\ Free(a)
    /\ Pending(a) = {} /\ a \in live
    /\ calls' = [calls EXCEPT ![a] =
         [at |-> "erase", mode |-> "delete", config |-> desired[a], request |-> NoRequest,
          report |-> FALSE, previous |-> NoConfig, hidden |-> FALSE, target |-> desired[a],
          revision |-> 0, todo |-> Removal, clean |-> TRUE]]
    /\ promise' = [promise EXCEPT ![a] = "none"]
    /\ UNCHANGED <<rowVars, route, requestVars, deployment, secret, clusterVars, setters, fresh>>

\* A statement fails, the context ends or the process stops: the call is gone,
\* and the application is as it was left.
Leave(a) ==
    /\ Faults /\ calls[a] # NoCall
    /\ Return(a, "none")
    /\ UNCHANGED <<rowVars, route, requestVars, deployment, secret, clusterVars, setters>>

DeployStep(a) ==
    \/ BeginRequest(a) \/ WriteRow(a) \/ CreateDeployment(a) \/ ResolveEnvironment(a)
    \/ \E outcome \in Outcomes : ReconcileObject(a, outcome) \/ EraseObject(a, outcome)
    \/ \E ok \in BOOLEAN : SyncRoute(a, ok) \/ CommitRow(a, ok)
    \/ MarkHealthy(a) \/ CompleteRequest(a) \/ FailDeployment(a)
    \/ Unroute(a) \/ RestoreRow(a) \/ Leave(a)

---------------------------------------------------------------------------
\* SecretService.  The row is read first and its configuration is what the
\* call applies at the end; the application's lock is not taken.
SetterAt(a, step) == setters[a] # NoCall /\ setters[a].at = step
MayRead(a) == setters[a] = NoCall /\ a \in live /\ (Overlapping \/ calls[a] = NoCall)

StartSetSecret(a) ==
    /\ MayRead(a)
    /\ setters' = [setters EXCEPT ![a] =
            [at |-> "store", config |-> desired[a], revision |-> 0, todo |-> Plan(desired[a])]]
    /\ UNCHANGED <<rowVars, route, requestVars, deployment, secret, clusterVars, calls, answerVars>>

\* SecretRepository.Set; every encryption gives another ciphertext, and with
\* it another revision.
StoreSecret(a, version) ==
    /\ SetterAt(a, "store") /\ version # secret[a]
    /\ PutSecret(a, version)
    /\ setters' = [setters EXCEPT ![a].at = IF setters[a].config.secret THEN "resolve" ELSE "reply"]
    /\ fresh' = [fresh EXCEPT ![a] = FALSE]
    /\ UNCHANGED <<rowVars, route, requestVars, deployment, clusterVars, calls, promise>>

\* reconcileReferencedSecret: resolveSecretValues; a missing secret is no error.
ResolveSecret(a) ==
    /\ SetterAt(a, "resolve")
    /\ setters' = [setters EXCEPT ![a].revision = secret[a],
                                  ![a].at = IF secret[a] = 0 THEN "reply" ELSE "objects"]
    /\ UNCHANGED <<rowVars, route, requestVars, deployment, secret, clusterVars, calls, answerVars>>

\* Mutant of ApplySecret: a failed write is not reported.
ApplySecretQuietly(a, outcome) ==
    LET call == setters[a]
        o == Head(call.todo) IN
    /\ SetterAt(a, "objects") /\ call.todo # <<>>
    /\ Write(a, o, Manifest(o, call.config, call.revision), NoRequest, outcome)
    /\ setters' = [setters EXCEPT ![a].todo = Tail(call.todo)]
    /\ UNCHANGED <<rowVars, route, requestVars, deployment, secret, calls, answerVars>>

\* Its call of reconcileRuntime; an error is returned at once.
ApplySecret(a, outcome) ==
    LET call == setters[a]
        o == Head(call.todo) IN
    /\ SetterAt(a, "objects") /\ call.todo # <<>>
    /\ Write(a, o, Manifest(o, call.config, call.revision), NoRequest, outcome)
    /\ setters' = [setters EXCEPT ![a] =
            IF outcome = "ok" THEN [call EXCEPT !.todo = Tail(call.todo)] ELSE NoCall]
    /\ UNCHANGED <<rowVars, route, requestVars, deployment, secret, calls, answerVars>>

ReplySetSecret(a) ==
    /\ SetterAt(a, "reply") \/ (SetterAt(a, "objects") /\ setters[a].todo = <<>>)
    /\ setters' = [setters EXCEPT ![a] = NoCall]
    /\ fresh' = [fresh EXCEPT ![a] = TRUE]
    /\ UNCHANGED <<rowVars, route, requestVars, deployment, secret, clusterVars, calls, promise>>

StartDeleteSecret(a) ==
    /\ MayRead(a)
    /\ ~desired[a].secret
    /\ setters' = [setters EXCEPT ![a] =
            [at |-> "drop", config |-> desired[a], revision |-> 0, todo |-> <<>>]]
    /\ UNCHANGED <<rowVars, route, requestVars, deployment, secret, clusterVars, calls, answerVars>>

DropSecret(a) ==
    /\ SetterAt(a, "drop")
    /\ PutSecret(a, 0)
    /\ setters' = [setters EXCEPT ![a] = NoCall]
    /\ UNCHANGED <<rowVars, route, requestVars, deployment, clusterVars, calls, answerVars>>

LeaveSecret(a) ==
    /\ Faults /\ setters[a] # NoCall
    /\ setters' = [setters EXCEPT ![a] = NoCall]
    /\ UNCHANGED <<rowVars, route, requestVars, deployment, secret, clusterVars, calls, answerVars>>

SecretStep(a) ==
    \/ StartSetSecret(a) \/ ResolveSecret(a) \/ ReplySetSecret(a)
    \/ \E version \in 1 .. MaxSecret : StoreSecret(a, version)
    \/ \E outcome \in Outcomes : ApplySecret(a, outcome)
    \/ StartDeleteSecret(a) \/ DropSecret(a) \/ LeaveSecret(a)

Start(a) ==
    \/ \E c \in Configs, r \in Requests \cup {NoRequest}, report \in BOOLEAN : StartDeploy(a, c, r, report)
    \/ StartDelete(a)

Next ==
    \/ \E a \in Apps : Start(a) \/ DeployStep(a) \/ SecretStep(a)
    \/ \E w \in late : Arrive(w)

Spec == Init /\ [][Next]_vars

---------------------------------------------------------------------------
\* The cluster and the route are those of a configuration, or of none.
Runs(a, c) ==
    /\ \A o \in Kinds : objects[a][o].config = Manifest(o, c, 0).config
    /\ route[a] = c.domain
Gone(a) == objects[a] = Bare /\ route[a] = NoDomain /\ a \notin live

\* What DeployApp and DeleteApp answer is true of the row, the route and every
\* object, whatever earlier calls that failed or were cut off had left behind:
\* applied means the visible row is what runs, a failed update whose rollback
\* reported no error runs the row's configuration again, a confirmed withdrawal
\* leaves the previous release or nothing, and a deletion leaves nothing.  It
\* is said until a write of an earlier call, whose reply was lost, arrives.
AnswersHold ==
    \A a \in Apps :
        /\ promise[a] \in {"applied", "restored"} => a \in live /\ Runs(a, desired[a])
        /\ promise[a] = "withdrawn" =>
              /\ deployment[a] = "failed"
              /\ (a \in live /\ Runs(a, desired[a])) \/ Gone(a)
        /\ promise[a] = "deleted" => Gone(a)

\* A value of the secret that SetSecret or a later deployment reported as
\* delivered is the one the Deployment's template names.
SecretDelivered ==
    \A a \in Apps :
        promise[a] \in {"applied", "restored"} /\ fresh[a] /\ desired[a].secret =>
            objects[a]["deployment"].revision = secret[a]

\* "Only explicit API rejection responses qualify" (definitiveRuntimeRejection):
\* no write of a request whose withdrawal was confirmed can still arrive.
WithdrawnLeavesNoWrite ==
    \A w \in late : w.by # NoRequest => request[w.by] # "withdrawn"

=============================================================================
