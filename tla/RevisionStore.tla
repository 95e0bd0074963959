--------------------------- MODULE RevisionStore ---------------------------
(***************************************************************************)
(* The immutable revisions of one application: environment bundles and     *)
(* registry credentials.  Clients choose the revision and stage its value  *)
(* (CreateEnvironmentBundle, CreateRegistryCredential), without a lock and *)
(* with retries; a deployment resolves the revision its configuration      *)
(* names, writes an immutable Kubernetes Secret for it and then the        *)
(* workload that uses it; deletion takes all of it away.  Deployment and   *)
(* deletion hold the application's lock, so there is one such call.        *)
(***************************************************************************)
EXTENDS Integers, FiniteSets

CONSTANTS
    Calls,          \* concurrent create calls
    Revisions, Values, NoValue, NoRevision, NoCall,
    Transactional,  \* registry credentials: look-up and insert are one transaction
    MaxRevisions    \* maxRegistryCredentialRevisions, 100 in the code

ASSUME RevisionAssumption ==
    /\ NoValue \notin Values /\ NoRevision \notin Revisions
    /\ "down" \notin Revisions /\ "none" \notin Revisions \cup {NoRevision}
    /\ MaxRevisions \in Nat /\ Transactional \in BOOLEAN

VARIABLES
    stored,         \* the table: the value of each revision
    secrets,        \* the immutable Kubernetes Secrets: their value by revision
    running,        \* "down", or the revision the workload refers to
    desired,        \* "none" or the revision the application's visible row names
    calls, reply,   \* create calls under way, and what the last one answered
    owner,          \* the deployment or deletion that holds the lock
    answers         \* revisions acknowledged to a client and not deleted since

vars == <<stored, secrets, running, desired, calls, reply, owner, answers>>
tableVars == <<stored, answers>>
clusterVars == <<secrets, running>>
callVars == <<calls, reply>>

Choices == Revisions \cup {NoRevision}
Staged == {r \in Revisions : stored[r] # NoValue}

Init ==
    /\ stored = [r \in Revisions |-> NoValue] /\ answers = {}
    /\ secrets = [r \in Revisions |-> NoValue]
    /\ running = "down" /\ desired = "none"
    /\ calls = [c \in Calls |-> NoCall] /\ reply = [c \in Calls |-> "none"]
    /\ owner = NoCall

---------------------------------------------------------------------------
\* Create calls.
At(c, step) == calls[c] # NoCall /\ calls[c].at = step
Goto(c, step) == calls' = [calls EXCEPT ![c].at = step] /\ UNCHANGED reply
Answer(c, said) == calls' = [calls EXCEPT ![c] = NoCall] /\ reply' = [reply EXCEPT ![c] = said]
Acknowledge(c) ==
    /\ Answer(c, "ok")
    /\ answers' = answers \cup {[revision |-> calls[c].revision, value |-> calls[c].value]}

StartCreate(c, r, v) ==
    /\ calls[c] = NoCall
    /\ calls' = [calls EXCEPT ![c] = [at |-> "find", revision |-> r, value |-> v, full |-> FALSE]]
    /\ reply' = [reply EXCEPT ![c] = "none"]
    /\ UNCHANGED <<tableVars, clusterVars, desired, owner>>

\* Mutant of Same: a revision that exists is taken for a retry.
SameRevision(c) == Acknowledge(c)

\* sameEnvironment, sameCredential: the decrypted value is compared.
Same(c) ==
    IF stored[calls[c].revision] = calls[c].value THEN Acknowledge(c)
    ELSE Answer(c, "conflict") /\ UNCHANGED answers

\* The look-up before anything is encrypted.
Find(c) ==
    /\ At(c, "find")
    /\ IF calls[c].revision \in Staged THEN Same(c) ELSE Goto(c, "create") /\ UNCHANGED answers
    /\ UNCHANGED <<stored, clusterVars, desired, owner>>

\* The repository's own look-up; bundles are inserted by a later statement.
Check(c) ==
    /\ At(c, "create") /\ ~Transactional
    /\ Goto(c, IF calls[c].revision \in Staged THEN "again" ELSE "insert")
    /\ UNCHANGED <<tableVars, clusterVars, desired, owner>>

\* INSERT ... WHERE count < limit; the primary key refuses a second row.
Insert(c) ==
    LET r == calls[c].revision IN
    /\ At(c, IF Transactional THEN "create" ELSE "insert")
    /\ \/ r \in Staged /\ Goto(c, "again") /\ UNCHANGED tableVars
       \/ /\ r \notin Staged /\ Cardinality(Staged) >= MaxRevisions
          /\ calls' = [calls EXCEPT ![c].at = "again", ![c].full = TRUE]
          /\ UNCHANGED <<tableVars, reply>>
       \/ /\ r \notin Staged /\ Cardinality(Staged) < MaxRevisions
          /\ stored' = [stored EXCEPT ![r] = calls[c].value]
          /\ Acknowledge(c)
    /\ UNCHANGED <<clusterVars, desired, owner>>

\* After a failed insert: another retry may have inserted the same revision.
FindAgain(c) ==
    /\ At(c, "again")
    /\ IF calls[c].revision \in Staged THEN Same(c)
       ELSE Answer(c, IF calls[c].full THEN "exhausted" ELSE "error") /\ UNCHANGED answers
    /\ UNCHANGED <<stored, clusterVars, desired, owner>>

\* A statement fails or the client gives up.
LeaveCreate(c) ==
    /\ calls[c] # NoCall
    /\ Answer(c, "error")
    /\ UNCHANGED <<tableVars, clusterVars, desired, owner>>

---------------------------------------------------------------------------
\* Deployment and deletion.
Doing(step) == owner # NoCall /\ owner.at = step
Proceed(step) == owner' = [owner EXCEPT !.at = step]

\* DeployApp resolves the revision before its first write; the row of a new
\* application is written before the runtime.
StartDeploy(r) ==
    /\ owner = NoCall /\ (r = NoRevision \/ r \in Staged)
    /\ owner' = [at |-> "secret", revision |-> r, previous |-> desired, back |-> FALSE,
                 value |-> IF r = NoRevision THEN NoValue ELSE stored[r]]
    /\ desired' = IF desired = "none" THEN r ELSE desired
    /\ UNCHANGED <<tableVars, clusterVars, callVars>>

\* rollbackAppUpdate, withdrawFailedDeployment, or neither; the compensation
\* itself is tried once.
Fail ==
    CASE owner.back -> owner' = NoCall
      [] ~owner.back /\ owner.previous \in Choices ->
            owner' = [owner EXCEPT !.at = "resolve", !.revision = owner.previous, !.back = TRUE]
      [] OTHER -> owner' \in {NoCall, [owner EXCEPT !.at = "withdraw"]}

\* reconcileEnvironmentSecret, reconcileRegistrySecret: an existing Secret is
\* never changed, and one with another value is an error.  The reply to a
\* create that was performed may be lost.
WriteSecret(ok) ==
    LET r == owner.revision
        fits == r \in Revisions => secrets[r] \in {NoValue, owner.value}
        written == IF r \in Revisions THEN [secrets EXCEPT ![r] = owner.value] ELSE secrets IN
    /\ Doing("secret")
    /\ \/ ok /\ fits /\ Proceed("workload") /\ secrets' = written
       \/ ~ok /\ fits /\ Fail /\ secrets' \in {secrets, written}
       \/ ~fits /\ Fail /\ UNCHANGED secrets
    /\ UNCHANGED <<tableVars, running, desired, callVars>>

\* reconcileDeployment, and the row once it is applied; a failed update may or
\* may not have been performed.
WriteWorkload(ok) ==
    /\ Doing("workload")
    /\ running' \in {owner.revision} \cup (IF ok THEN {} ELSE {running})
    /\ IF ok THEN owner' = NoCall /\ desired' = owner.revision ELSE Fail /\ UNCHANGED desired
    /\ UNCHANGED <<tableVars, secrets, callVars>>

\* The previous configuration's revision is resolved again.
Resolve ==
    /\ Doing("resolve")
    /\ IF owner.revision = NoRevision \/ owner.revision \in Staged
       THEN owner' = [owner EXCEPT !.at = "secret",
                !.value = IF owner.revision = NoRevision THEN NoValue ELSE stored[owner.revision]]
       ELSE owner' = NoCall
    /\ UNCHANGED <<tableVars, clusterVars, desired, callVars>>

StartDelete ==
    /\ owner = NoCall /\ desired # "none"
    /\ owner' = [at |-> "erase", revision |-> NoRevision, previous |-> desired,
                 back |-> FALSE, value |-> NoValue]
    /\ UNCHANGED <<tableVars, clusterVars, desired, callVars>>

\* Controller.Delete: "Preserve pull credentials when resource deletion has
\* not completed."
EraseWorkload(ok) ==
    /\ owner # NoCall /\ owner.at \in {"erase", "withdraw"}
    /\ running' \in {"down"} \cup (IF ok THEN {} ELSE {running})
    /\ IF ok THEN Proceed(IF owner.at = "erase" THEN "secrets" ELSE "clear") ELSE owner' = NoCall
    /\ UNCHANGED <<tableVars, secrets, desired, callVars>>

\* Mutant of EraseSecrets: its errors are dropped.
EraseSecretsQuietly(kept) ==
    /\ owner # NoCall /\ owner.at \in {"secrets", "clear"}
    /\ secrets' = [r \in Revisions |-> IF r \in kept THEN secrets[r] ELSE NoValue]
    /\ Proceed(IF owner.at = "secrets" THEN "revisions" ELSE "row")
    /\ UNCHANGED <<tableVars, running, desired, callVars>>

\* deleteEnvironmentSecrets, deleteRegistrySecrets; kept are the Secrets whose
\* deletion failed.
EraseSecrets(kept) ==
    /\ owner # NoCall /\ owner.at \in {"secrets", "clear"}
    /\ secrets' = [r \in Revisions |-> IF r \in kept THEN secrets[r] ELSE NoValue]
    /\ IF \E r \in kept : secrets[r] # NoValue THEN owner' = NoCall
       ELSE Proceed(IF owner.at = "secrets" THEN "revisions" ELSE "row")
    /\ UNCHANGED <<tableVars, running, desired, callVars>>

\* DeleteByApp; a withdrawn first deployment keeps its revisions.
DropRevisions ==
    /\ Doing("revisions")
    /\ stored' = [r \in Revisions |-> NoValue] /\ answers' = {}
    /\ Proceed("row")
    /\ UNCHANGED <<clusterVars, desired, callVars>>

\* MarkDeleted
HideRow ==
    /\ Doing("row")
    /\ desired' = "none" /\ owner' = NoCall
    /\ UNCHANGED <<tableVars, clusterVars, callVars>>

Leave ==
    /\ owner # NoCall /\ owner' = NoCall
    /\ UNCHANGED <<tableVars, clusterVars, desired, callVars>>

CreateStep(c) ==
    \/ \E r \in Revisions, v \in Values : StartCreate(c, r, v)
    \/ Find(c) \/ Check(c) \/ Insert(c) \/ FindAgain(c) \/ LeaveCreate(c)

OwnerStep ==
    \/ \E r \in Choices : StartDeploy(r)
    \/ \E ok \in BOOLEAN : WriteSecret(ok) \/ WriteWorkload(ok) \/ EraseWorkload(ok)
    \/ Resolve \/ StartDelete
    \/ \E kept \in SUBSET Revisions : EraseSecrets(kept)
    \/ DropRevisions \/ HideRow \/ Leave

Next == (\E c \in Calls : CreateStep(c)) \/ OwnerStep

Spec == Init /\ [][Next]_vars

---------------------------------------------------------------------------
CallSteps == {"find", "create", "insert", "again"}
OwnerSteps == {"secret", "workload", "resolve", "erase", "withdraw", "secrets", "clear", "revisions", "row"}

\* Type invariant of the table, the cluster and the calls; a runtime write has
\* a value for the revision it was resolved from.
RevTypeOK ==
    /\ stored \in [Revisions -> Values \cup {NoValue}]
    /\ secrets \in [Revisions -> Values \cup {NoValue}]
    /\ running \in Choices \cup {"down"} /\ desired \in Choices \cup {"none"}
    /\ calls \in [Calls -> [at : CallSteps, revision : Revisions, value : Values, full : BOOLEAN] \cup {NoCall}]
    /\ reply \in [Calls -> {"none", "ok", "conflict", "exhausted", "error"}]
    /\ owner \in [at : OwnerSteps, revision : Choices, previous : Choices \cup {"none"}, back : BOOLEAN,
                  value : Values \cup {NoValue}] \cup {NoCall}
    /\ Doing("secret") /\ owner.revision \in Revisions => owner.value \in Values
    /\ answers \subseteq [revision : Revisions, value : Values]

\* "Repeating a revision with identical values is idempotent; different values
\* require a new ID": an acknowledged revision is stored with exactly the value
\* of every call that was told ok, however the calls interleave.
AcknowledgedIsStored == \A x \in answers : stored[x.revision] = x.value

\* The Secret of a revision has the value the table has for it, through failed
\* deployments, withdrawals, cut-off deletions and reuse of a revision's name:
\* reconcileEnvironmentSecret never meets a Secret it has to refuse.
SecretMatchesRevision == \A r \in Revisions : secrets[r] # NoValue => secrets[r] = stored[r]

\* A workload in the cluster refers to a Secret that exists, so its pods can be
\* restarted at any time, a broken-off deletion or rollback included.
RunningHasSecret == running \in Revisions => secrets[running] # NoValue

=============================================================================
