-------------------------- MODULE CandidateJournal --------------------------
(* The durable side of candidate deployments: the SQLite tables written by    *)
(* CandidateBindingRepository, RuntimeCheckpointRepository and                *)
(* CandidateFinalizationRepository (internal/db), and the two statements of   *)
(* DeleteApp that change the same rows.  A table is one variable per column   *)
(* that matters, indexed by primary key; every transaction is one action,     *)
(* since SQLite runs them serially.  A transaction that fails, or finds what  *)
(* it would write already there, changes nothing and is a stuttering step.    *)
EXTENDS FiniteSets

CONSTANTS
    Apps,           \* application names; apps.id never changes for a name
    Requests,       \* primary keys (app_name, request_id) of deployment_requests
    AppOf,          \* the app_name of each key
    Configs,        \* canonical desired states, with a domain, a port and a
                    \*   flag: a stateless hosting profile without secrets
    NoConfig,       \* SQL NULL for a desired state
    NoDomain,       \* routing.domain = ""
    Intents,        \* activation intents; field requested is requested_state
    NoIntent,
    Gates,          \* serialized activation gates
    NoGate          \* gate_json = '{}'

ASSUME JournalAssumption ==
    /\ AppOf \in [Requests -> Apps]
    /\ NoConfig \notin Configs
    /\ \A c \in Configs : c.hosting \in BOOLEAN /\ "domain" \in DOMAIN c
    /\ NoIntent \notin Intents
    /\ NoGate \notin Gates

VARIABLES
    state,          \* deployment_requests.state, "absent" without a row
    requested,      \* deployment_requests.requested_state
    previous,       \* deployment_requests.previous_state
    reply,          \* deployment_requests.response_json: the outcome it reports
                    \*   and the desired state it shows
    withdrawals,    \* rows of deployment_request_withdrawals
    deployment,     \* deployments.status of the bound deployment, "absent" before
    stage,          \* runtime_activation_checkpoints.stage, "absent" without a row
    intent,         \* runtime_activation_checkpoints.intent_json
    gate,           \* runtime_activation_checkpoints.gate_json
    desired,        \* apps.desired_state_json, NoConfig without a row
    live,           \* applications whose row has deleted_at NULL
    route,          \* routes.domain of each application, NoDomain without a row
    deleting        \* applications whose lock a DeleteApp call holds

requestVars == <<state, requested, previous, reply, withdrawals, deployment>>
checkpointVars == <<stage, intent, gate>>
appVars == <<desired, live, route>>
journalVars == <<requestVars, checkpointVars, appVars, deleting>>

Terminal == {"applied", "withdrawn"}
NoReply == [outcome |-> "none", shown |-> NoConfig]
Pending(a) == {r \in Requests : AppOf[r] = a /\ state[r] = "pending"}

(* A database with applications deployed before the first candidate request. *)
Init ==
    /\ state = [r \in Requests |-> "absent"]
    /\ requested = [r \in Requests |-> NoConfig]
    /\ previous = [r \in Requests |-> NoConfig]
    /\ reply = [r \in Requests |-> NoReply]
    /\ withdrawals = {}
    /\ deployment = [r \in Requests |-> "absent"]
    /\ stage = [r \in Requests |-> "absent"]
    /\ intent = [r \in Requests |-> NoIntent]
    /\ gate = [r \in Requests |-> NoGate]
    /\ desired \in [Apps -> Configs \cup {NoConfig}]
    /\ live = {a \in Apps : desired[a] # NoConfig}
    /\ route = [a \in Apps |-> IF a \in live THEN desired[a].domain ELSE NoDomain]
    /\ \A a, b \in Apps : a # b /\ route[a] = route[b] => route[a] = NoDomain
    /\ deleting = {}

-----------------------------------------------------------------------------
(* CandidateBindingRepository *)

(* Mutant of DomainAdmitted: live routes only. *)
DomainAdmittedByRoutes(a, c) ==
    c.domain # NoDomain => \A b \in Apps \ {a} : route[b] # c.domain

(* validateCandidateDomainAdmission: no other application routes the domain   *)
(* or has a pending request for it.                                           *)
DomainAdmitted(a, c) ==
    c.domain # NoDomain =>
        /\ \A b \in Apps \ {a} : route[b] # c.domain
        /\ \A s \in Requests : state[s] = "pending" /\ AppOf[s] # a => requested[s].domain # c.domain

(* The previous_state captured by beginCandidate: the active row, if any. *)
PreviousOf(a) == IF a \in live THEN desired[a] ELSE NoConfig

(* validateCandidatePredecessor, on the row read by the same transaction. *)
PredecessorAccepted(a, c, withdrawal) ==
    PreviousOf(a) # NoConfig =>
        /\ PreviousOf(a).hosting
        /\ withdrawal \/ PreviousOf(a).port = c.port

(* Mutant of BeginCandidate: the check for a pending request is missing. *)
BeginBesidePending(r, c, withdrawal) ==
    LET a == AppOf[r] IN
    /\ c.hosting
    /\ state[r] = "absent"
    /\ withdrawal \/ DomainAdmitted(a, c)
    /\ PredecessorAccepted(a, c, withdrawal)
    /\ state' = [state EXCEPT ![r] = "pending"]
    /\ requested' = [requested EXCEPT ![r] = c]
    /\ previous' = [previous EXCEPT ![r] = PreviousOf(a)]
    /\ desired' = [desired EXCEPT ![a] = IF @ = NoConfig THEN c ELSE @]
    /\ deployment' = [deployment EXCEPT ![r] = "pending"]
    /\ withdrawals' = IF withdrawal THEN withdrawals \cup {r} ELSE withdrawals
    /\ UNCHANGED <<reply, checkpointVars, live, route>>

(* beginCandidate for a key without a row: journal, hidden app row, pending   *)
(* deployment, binding and, for a withdrawal, the marker, in one transaction. *)
BeginCandidate(r, c, withdrawal) ==
    LET a == AppOf[r] IN
    /\ c.hosting
    /\ state[r] = "absent"
    /\ Pending(a) = {}
    /\ withdrawal \/ DomainAdmitted(a, c)
    /\ PredecessorAccepted(a, c, withdrawal)
    /\ state' = [state EXCEPT ![r] = "pending"]
    /\ requested' = [requested EXCEPT ![r] = c]
    /\ previous' = [previous EXCEPT ![r] = PreviousOf(a)]
    /\ desired' = [desired EXCEPT ![a] = IF @ = NoConfig THEN c ELSE @]
    /\ deployment' = [deployment EXCEPT ![r] = "pending"]
    /\ withdrawals' = IF withdrawal THEN withdrawals \cup {r} ELSE withdrawals
    /\ UNCHANGED <<reply, checkpointVars, live, route>>

(* beginCandidate with withdrawal for a bound key: the marker, while pending. *)
MarkWithdrawal(r, c) ==
    /\ requested[r] = c
    /\ state[r] = "pending"
    /\ withdrawals' = withdrawals \cup {r}
    /\ UNCHANGED <<state, requested, previous, reply, deployment, checkpointVars, appVars>>

-----------------------------------------------------------------------------
(* RuntimeCheckpointRepository *)

SaveActivationIntent(r, i) ==
    /\ state[r] = "pending"
    /\ stage[r] = "absent"
    /\ stage' = [stage EXCEPT ![r] = "prepared"]
    /\ intent' = [intent EXCEPT ![r] = i]
    /\ UNCHANGED <<gate, requestVars, appVars>>

(* Mutant of ValidCheckpointTransition: recovery may be abandoned. *)
TransitionBackToActivated(expected, next) ==
    \/ next = "fenced" /\ expected = "prepared"
    \/ next = "activated" /\ expected \in {"fenced", "recovering"}
    \/ next = "recovering" /\ expected \in {"prepared", "fenced", "activated"}
    \/ next = "withdrawn" /\ expected = "recovering"

ValidCheckpointTransition(expected, next) ==
    \/ next = "fenced" /\ expected = "prepared"
    \/ next = "activated" /\ expected = "fenced"
    \/ next = "recovering" /\ expected \in {"prepared", "fenced", "activated"}
    \/ next = "withdrawn" /\ expected = "recovering"

RecordActivationGate(r, expected, next, g) ==
    /\ state[r] = "pending"
    /\ ValidCheckpointTransition(expected, next)
    /\ stage[r] = expected
    /\ stage' = [stage EXCEPT ![r] = next]
    /\ gate' = [gate EXCEPT ![r] = g]
    /\ UNCHANGED <<intent, requestVars, appVars>>

-----------------------------------------------------------------------------
(* CandidateFinalizationRepository *)

(* The checks of Finalize on the request, its checkpoint and the rows bound to it. *)
Finalizable(r, outcome, g) ==
    LET a == AppOf[r] IN
    /\ state[r] = "pending"
    /\ stage[r] = IF outcome = "applied" THEN "activated" ELSE "withdrawn"
    /\ gate[r] = g
    /\ intent[r].requested = requested[r]
    /\ IF previous[r] # NoConfig THEN a \in live /\ desired[a] = previous[r] ELSE a \notin live
    /\ deployment[r] = "pending"

(* The receipt: the decided outcome and the desired state of the row after it. *)
Decide(r, outcome, shown, status) ==
    /\ state' = [state EXCEPT ![r] = outcome]
    /\ reply' = [reply EXCEPT ![r] = [outcome |-> outcome, shown |-> shown]]
    /\ deployment' = [deployment EXCEPT ![r] = status]
    /\ UNCHANGED <<requested, previous, withdrawals, checkpointVars>>

(* Finalize "applied"; the UNIQUE constraint on routes.domain aborts the transaction. *)
FinalizeApplied(r, g) ==
    LET a == AppOf[r]
        d == requested[r].domain IN
    /\ Finalizable(r, "applied", g)
    /\ d # NoDomain => \A b \in Apps \ {a} : route[b] # d
    /\ desired' = [desired EXCEPT ![a] = requested[r]]
    /\ live' = live \cup {a}
    /\ route' = [route EXCEPT ![a] = d]
    /\ Decide(r, "applied", requested[r], "healthy")

(* Finalize "withdrawn": the predecessor's rows stay, an initial attempt stays hidden. *)
FinalizeWithdrawn(r, g) ==
    LET a == AppOf[r] IN
    /\ Finalizable(r, "withdrawn", g)
    /\ route' = IF previous[r] = NoConfig THEN [route EXCEPT ![a] = NoDomain] ELSE route
    /\ UNCHANGED <<desired, live>>
    /\ Decide(r, "withdrawn", desired[a], "failed")

-----------------------------------------------------------------------------
(* DeleteApp, which holds the application's lock throughout *)

(* Mutant of BeginDelete: PendingByApp is not consulted. *)
BeginDeleteAnyway(a) ==
    /\ a \notin deleting
    /\ desired[a] # NoConfig
    /\ deleting' = deleting \cup {a}
    /\ UNCHANGED <<requestVars, checkpointVars, appVars>>

BeginDelete(a) ==
    /\ a \notin deleting
    /\ desired[a] # NoConfig
    /\ Pending(a) = {}
    /\ deleting' = deleting \cup {a}
    /\ UNCHANGED <<requestVars, checkpointVars, appVars>>

DeleteRoutes(a) ==
    /\ a \in deleting
    /\ route' = [route EXCEPT ![a] = NoDomain]
    /\ UNCHANGED <<requestVars, checkpointVars, desired, live, deleting>>

MarkDeleted(a) ==
    /\ a \in deleting
    /\ route[a] = NoDomain
    /\ live' = live \ {a}
    /\ UNCHANGED <<requestVars, checkpointVars, desired, route, deleting>>

(* The call returns, fails half way, or its process dies. *)
EndDelete(a) ==
    /\ a \in deleting
    /\ deleting' = deleting \ {a}
    /\ UNCHANGED <<requestVars, checkpointVars, appVars>>

-----------------------------------------------------------------------------
(* The server calls the repositories under the application's lock.  Before a  *)
(* call that leads towards activation it checks the withdrawal marker, and    *)
(* the marker is only written under the same lock, so the check still holds   *)
(* when the transaction runs.                                                 *)
Advancing == {"fenced", "activated"}

RequestStep(r) ==
    /\ AppOf[r] \notin deleting
    /\ UNCHANGED deleting
    /\ \/ \E c \in Configs, w \in BOOLEAN : BeginCandidate(r, c, w)
       \/ \E c \in Configs : MarkWithdrawal(r, c)
       \/ \E i \in Intents : SaveActivationIntent(r, i)
       \/ \E g \in Gates, from, to \in {"prepared", "fenced", "activated", "recovering", "withdrawn"} :
             /\ to \in Advancing => r \notin withdrawals
             /\ RecordActivationGate(r, from, to, g)
       \/ r \notin withdrawals /\ \E g \in Gates : FinalizeApplied(r, g)
       \/ \E g \in Gates : FinalizeWithdrawn(r, g)

DeleteStep(a) == BeginDelete(a) \/ DeleteRoutes(a) \/ MarkDeleted(a) \/ EndDelete(a)

Next == (\E r \in Requests : RequestStep(r)) \/ (\E a \in Apps : DeleteStep(a))

Spec == Init /\ [][Next]_journalVars

-----------------------------------------------------------------------------
Domains == {c.domain : c \in Configs} \cup {NoDomain}
Stages == {"absent", "prepared", "fenced", "activated", "recovering", "withdrawn"}

(* Columns have their types and the tables their CHECK constraints: a request *)
(* has a response exactly when it is terminal, a deployment exactly when it   *)
(* is bound, a gate exactly when its checkpoint has passed "prepared".        *)
TypeOK ==
    /\ state \in [Requests -> {"absent", "pending"} \cup Terminal]
    /\ requested \in [Requests -> Configs \cup {NoConfig}]
    /\ \A r \in Requests : requested[r] = NoConfig <=> state[r] = "absent"
    /\ previous \in [Requests -> Configs \cup {NoConfig}]
    /\ reply \in [Requests -> [outcome : Terminal, shown : Configs] \cup {NoReply}]
    /\ \A r \in Requests : reply[r] # NoReply <=> state[r] \in Terminal
    /\ withdrawals \subseteq {r \in Requests : state[r] # "absent"}
    /\ deployment \in [Requests -> {"absent", "pending", "healthy", "failed"}]
    /\ \A r \in Requests : deployment[r] = "absent" <=> state[r] = "absent"
    /\ stage \in [Requests -> Stages]
    /\ intent \in [Requests -> Intents \cup {NoIntent}]
    /\ gate \in [Requests -> Gates \cup {NoGate}]
    /\ \A r \in Requests : gate[r] = NoGate <=> stage[r] \in {"absent", "prepared"}
    /\ desired \in [Apps -> Configs \cup {NoConfig}]
    /\ live \subseteq {a \in Apps : desired[a] # NoConfig}
    /\ route \in [Apps -> Domains]
    /\ deleting \subseteq Apps

(* While a request is pending its application's row is what the request       *)
(* captured in previous_state: active and unchanged, or still hidden.  So the *)
(* comparison in Finalize can never strand a request, and recovery has the    *)
(* predecessor it promises to restore.                                        *)
PredecessorPreserved ==
    \A r \in Requests : state[r] = "pending" =>
        /\ previous[r] = PreviousOf(AppOf[r])
        /\ deployment[r] = "pending"

ClaimsDomain(r) == state[r] = "pending" /\ r \notin withdrawals /\ requested[r].domain # NoDomain

(* "A live route or another app's pending candidate owns a domain until that  *)
(* candidate reaches a terminal state" (validateCandidateDomainAdmission):    *)
(* a candidate that may still be applied never meets its domain in another    *)
(* application's route or candidate, so the UNIQUE constraint on              *)
(* routes.domain cannot abort its finalization.                               *)
DomainHeld ==
    \A r \in Requests : ClaimsDomain(r) =>
        /\ \A b \in Apps \ {AppOf[r]} : route[b] # requested[r].domain
        /\ \A s \in Requests : ClaimsDomain(s) /\ AppOf[s] # AppOf[r] =>
                requested[s].domain # requested[r].domain

(* A request whose checkpoint entered recovery never leaves it: no order of   *)
(* checkpoint and finalization calls activates or applies it again.           *)
RecoveryIsFinal ==
    [][\A r \in Requests : stage[r] \in {"recovering", "withdrawn"} =>
          stage'[r] \in {"recovering", "withdrawn"} /\ state'[r] # "applied"]_journalVars

(* A route row always belongs to a visible application and carries the domain *)
(* of its desired state, also between the two statements of DeleteApp and     *)
(* after a deletion that stopped half way.                                    *)
RoutesMatchRows ==
    \A a \in Apps : route[a] # NoDomain => a \in live /\ desired[a].domain = route[a]

(* A terminal request is immutable: its outcome, its receipt, its deployment  *)
(* and its checkpoint never change again.                                     *)
OutcomeIsFinal ==
    [][\A r \in Requests : state[r] \in Terminal =>
          /\ state'[r] = state[r] /\ reply'[r] = reply[r] /\ deployment'[r] = deployment[r]
          /\ stage'[r] = stage[r] /\ intent'[r] = intent[r] /\ gate'[r] = gate[r]]_journalVars

Ledger == INSTANCE DeployLedger WITH
             outcome <- state,
             asked <- requested,
             visible <- [a \in Apps |-> PreviousOf(a)]

(* The tables implement the ledger: a request is accepted once and decided    *)
(* once, and the active desired state of an application changes only together *)
(* with the outcome of its one open request.                                  *)
ImplementsLedger == Ledger!Spec
=============================================================================
