---------------------------- MODULE StoreProofs ----------------------------
(***************************************************************************)
(* Proofs about what outlives a call: the revisions of RevisionStore and   *)
(* the events of EventLog, which are written without the application's     *)
(* lock, and the runtime's objects of RuntimeResources.                    *)
(*                                                                         *)
(* RevisionStore, for any number of clients, revisions and values and for  *)
(* both tables: RevInv says what the lock's owner has established before   *)
(* each of its steps.  EventLog, for any identifiers, batch size and       *)
(* retention: StreamInv places the batch under way between the cursor and  *)
(* what is not listed yet, and SkipInv says that what is due and not sent  *)
(* is ahead of the cursor.  RuntimeResources, for any configurations:      *)
(* ResourcesInv says how far the call under way has come in its plan and   *)
(* what is written by then.                                                *)
(***************************************************************************)
EXTENDS RevisionStore, EventLog, RuntimeResources, TLAPS

USE ZenonT(30)

---------------------------------------------------------------------------
(* RevisionStore *)

(* What the lock's owner has established before each of its steps. *)
OwnerOK ==
    /\ Doing("secret") /\ owner.revision \in Revisions => owner.value = stored[owner.revision]
    /\ Doing("workload") /\ owner.revision \in Revisions => secrets[owner.revision] # NoValue
    /\ Doing("secrets") \/ Doing("clear") \/ Doing("revisions") \/ Doing("row") => running = "down"
    /\ Doing("revisions") => \A r \in Revisions : secrets[r] = NoValue

RevInv ==
    /\ RevTypeOK /\ OwnerOK
    /\ AcknowledgedIsStored /\ SecretMatchesRevision /\ RunningHasSecret

(* Initially nothing is staged, nothing runs and no call is under way. *)
LEMMA RevInit == Init => RevInv
BY RevisionAssumption
   DEF Init, RevInv, RevTypeOK, OwnerOK, AcknowledgedIsStored, SecretMatchesRevision,
       RunningHasSecret, Doing, Choices

(* Create calls change the table only by adding a revision that was absent.   *)
LEMMA CreateTable ==
    ASSUME RevInv, NEW c \in Calls, CreateStep(c)
    PROVE  /\ stored' \in [Revisions -> Values \cup {NoValue}]
           /\ \A r \in Revisions : stored[r] # NoValue => stored'[r] = stored[r]
           /\ answers' \subseteq [revision : Revisions, value : Values]
           /\ AcknowledgedIsStored'
           /\ UNCHANGED <<secrets, running, desired, owner>>
<1> USE RevisionAssumption DEF clusterVars, tableVars, callVars, RevInv, RevTypeOK
<1>1. CASE \E r \in Revisions, v \in Values : StartCreate(c, r, v)
  BY <1>1 DEF StartCreate, AcknowledgedIsStored
<1>2. CASE Find(c)
  BY <1>2, SMTT(30) DEF Find, At, Goto, Same, Acknowledge, Answer, Staged, AcknowledgedIsStored
<1>3. CASE Check(c)
  BY <1>3 DEF Check, Goto, AcknowledgedIsStored
<1>4. CASE Insert(c)
  <2>1. CASE UNCHANGED tableVars
    BY <1>4, <2>1 DEF Insert, AcknowledgedIsStored
  <2>2. CASE /\ calls[c].revision \notin Staged
             /\ stored' = [stored EXCEPT ![calls[c].revision] = calls[c].value]
             /\ Acknowledge(c)
    <3>1. calls[c] \in [at : CallSteps, revision : Revisions, value : Values, full : BOOLEAN]
      BY <1>4 DEF Insert, At
    <3>2. UNCHANGED <<secrets, running, desired, owner>>
      BY <1>4 DEF Insert
    <3>3. stored[calls[c].revision] = NoValue
      BY <2>2, <3>1 DEF Staged
    <3> QED BY <2>2, <3>1, <3>2, <3>3, SMTT(30) DEF Acknowledge, AcknowledgedIsStored
  <2> QED BY <1>4, <2>1, <2>2 DEF Insert
<1>5. CASE FindAgain(c)
  BY <1>5, SMTT(30) DEF FindAgain, At, Same, Acknowledge, Answer, Staged, AcknowledgedIsStored
<1>6. CASE LeaveCreate(c)
  BY <1>6 DEF LeaveCreate, AcknowledgedIsStored
<1> QED BY <1>1, <1>2, <1>3, <1>4, <1>5, <1>6 DEF CreateStep

(* The records of the create calls keep their type. *)
LEMMA CreateCalls ==
    ASSUME RevInv, NEW c \in Calls, CreateStep(c)
    PROVE  /\ calls' \in [Calls -> [at : CallSteps, revision : Revisions, value : Values, full : BOOLEAN] \cup {NoCall}]
           /\ reply' \in [Calls -> {"none", "ok", "conflict", "exhausted", "error"}]
<1> USE DEF RevInv, RevTypeOK, CallSteps
<1>1. CASE \E r \in Revisions, v \in Values : StartCreate(c, r, v)
  BY <1>1, SMTT(30) DEF StartCreate
<1>2. CASE Find(c)
  BY <1>2, SMTT(30) DEF Find, At, Goto, Same, Acknowledge, Answer
<1>3. CASE Check(c)
  BY <1>3, SMTT(30) DEF Check, At, Goto
<1>4. CASE Insert(c)
  BY <1>4, SMTT(30) DEF Insert, At, Goto, Acknowledge, Answer
<1>5. CASE FindAgain(c)
  BY <1>5 DEF FindAgain, At, Same, Acknowledge, Answer
<1>6. CASE LeaveCreate(c)
  BY <1>6 DEF LeaveCreate, Answer
<1> QED BY <1>1, <1>2, <1>3, <1>4, <1>5, <1>6 DEF CreateStep

(* A step of a create call keeps the invariant: the cluster is not touched,   *)
(* and no value it was built from changes.                                    *)
LEMMA CreateKeeps ==
    ASSUME RevInv, NEW c \in Calls, CreateStep(c)
    PROVE  RevInv'
<1>1. /\ stored' \in [Revisions -> Values \cup {NoValue}]
      /\ \A r \in Revisions : stored[r] # NoValue => stored'[r] = stored[r]
      /\ answers' \subseteq [revision : Revisions, value : Values]
      /\ AcknowledgedIsStored'
      /\ secrets' = secrets /\ running' = running /\ desired' = desired /\ owner' = owner
  BY CreateTable
<1>2. RevTypeOK'
  BY <1>1, CreateCalls DEF RevInv, RevTypeOK, Doing
<1>3. OwnerOK'
  BY <1>1, RevisionAssumption, SMTT(30) DEF RevInv, RevTypeOK, OwnerOK, Doing
<1>4. SecretMatchesRevision' /\ RunningHasSecret'
  BY <1>1 DEF RevInv, SecretMatchesRevision, RunningHasSecret
<1> QED BY <1>1, <1>2, <1>3, <1>4 DEF RevInv

OwnerRecord ==
    [at : OwnerSteps, revision : Choices, previous : Choices \cup {"none"}, back : BOOLEAN,
     value : Values \cup {NoValue}]

(* After a failure the call is over, or resolves the previous revision, or    *)
(* starts to remove what it wrote.                                            *)
LEMMA FailOwner ==
    ASSUME RevTypeOK, owner # NoCall, Fail
    PROVE  owner' = NoCall \/ (owner' \in OwnerRecord /\ owner'.at \in {"resolve", "withdraw"})
<1>1. owner \in OwnerRecord
  BY DEF RevTypeOK, OwnerRecord
<1>2. CASE owner.back
  BY <1>2 DEF Fail
<1>3. CASE ~owner.back /\ owner.previous \in Choices
  <2>1. owner' = [owner EXCEPT !.at = "resolve", !.revision = owner.previous, !.back = TRUE]
    BY <1>3 DEF Fail
  <2> QED BY <1>1, <1>3, <2>1 DEF OwnerRecord, OwnerSteps
<1>4. CASE ~owner.back /\ owner.previous \notin Choices
  <2>1. owner' \in {NoCall, [owner EXCEPT !.at = "withdraw"]}
    BY <1>4 DEF Fail
  <2> QED BY <1>1, <2>1 DEF OwnerRecord, OwnerSteps
<1> QED BY <1>2, <1>3, <1>4

(* The steps of a deployment, its rollback and its withdrawal. *)
LEMMA DeployKeeps ==
    ASSUME RevInv,
           \/ \E r \in Choices : StartDeploy(r)
           \/ \E ok \in BOOLEAN : WriteSecret(ok) \/ WriteWorkload(ok)
           \/ Resolve
    PROVE  RevInv'
<1> USE RevisionAssumption
    DEF RevInv, RevTypeOK, OwnerOK, OwnerSteps, Choices, Doing, tableVars, clusterVars, callVars,
        AcknowledgedIsStored, SecretMatchesRevision, RunningHasSecret
<1>1. ASSUME NEW r \in Choices, StartDeploy(r) PROVE RevInv'
  BY <1>1 DEF StartDeploy, Staged
<1>2. ASSUME NEW ok \in BOOLEAN, WriteSecret(ok) PROVE RevInv'
  <2> DEFINE r == owner.revision
  <2> DEFINE fits == r \in Revisions => secrets[r] \in {NoValue, owner.value}
  <2> DEFINE written == IF r \in Revisions THEN [secrets EXCEPT ![r] = owner.value] ELSE secrets
  <2>0. Doing("secret") /\ UNCHANGED <<stored, answers, running, desired, calls, reply>>
    BY <1>2 DEF WriteSecret
  <2>1. CASE ok /\ fits /\ Proceed("workload") /\ secrets' = written
    BY <2>0, <2>1 DEF Proceed
  <2>2. CASE Fail /\ secrets' \in {secrets, written}
    <3>1. owner' = NoCall \/ (owner' \in OwnerRecord /\ owner'.at \in {"resolve", "withdraw"})
      BY <2>0, <2>2, FailOwner
    <3> QED BY <2>0, <2>2, <3>1, SMTT(30) DEF OwnerRecord
  <2> QED BY <1>2, <2>1, <2>2 DEF WriteSecret
<1>3. ASSUME NEW ok \in BOOLEAN, WriteWorkload(ok) PROVE RevInv'
  <2>0. /\ Doing("workload") /\ UNCHANGED <<stored, answers, secrets, calls, reply>>
        /\ running' \in {owner.revision, running}
    BY <1>3 DEF WriteWorkload
  <2>1. CASE ok
    BY <1>3, <2>0, <2>1, SMTT(30) DEF WriteWorkload
  <2>2. CASE ~ok
    <3>1. Fail /\ UNCHANGED desired
      BY <1>3, <2>2 DEF WriteWorkload
    <3>2. owner' = NoCall \/ (owner' \in OwnerRecord /\ owner'.at \in {"resolve", "withdraw"})
      BY <2>0, <3>1, FailOwner
    <3> QED BY <2>0, <3>1, <3>2 DEF OwnerRecord
  <2> QED BY <2>1, <2>2
<1>4. ASSUME Resolve PROVE RevInv'
  <2>0. owner \in OwnerRecord /\ UNCHANGED <<stored, answers, secrets, running, desired, calls, reply>>
    BY <1>4 DEF Resolve, OwnerRecord
  <2>1. CASE owner' = NoCall
    BY <2>0, <2>1
  <2>2. CASE /\ owner.revision = NoRevision \/ owner.revision \in Staged
             /\ owner' = [owner EXCEPT !.at = "secret",
                    !.value = IF owner.revision = NoRevision THEN NoValue ELSE stored[owner.revision]]
    <3>1. owner' \in OwnerRecord
      BY <2>0, <2>2 DEF OwnerRecord, Staged
    <3>2. owner'.at = "secret" /\ owner'.revision = owner.revision
      BY <2>0, <2>2 DEF OwnerRecord
    <3>3. owner.revision \in Revisions => owner'.value = stored[owner.revision] /\ owner'.value \in Values
      BY <2>0, <2>2 DEF OwnerRecord, Staged
    <3> QED BY <2>0, <3>1, <3>2, <3>3 DEF OwnerRecord
  <2> QED BY <1>4, <2>1, <2>2 DEF Resolve
<1> QED BY <1>1, <1>2, <1>3, <1>4

(* The steps of a deletion. *)
LEMMA DeleteKeeps ==
    ASSUME RevInv,
           \/ StartDelete \/ DropRevisions \/ HideRow \/ Leave
           \/ \E ok \in BOOLEAN : EraseWorkload(ok)
           \/ \E kept \in SUBSET Revisions : EraseSecrets(kept)
    PROVE  RevInv'
<1> USE RevisionAssumption
    DEF RevInv, RevTypeOK, OwnerOK, OwnerSteps, Choices, Doing, tableVars, clusterVars, callVars,
        AcknowledgedIsStored, SecretMatchesRevision, RunningHasSecret
<1>1. ASSUME StartDelete PROVE RevInv'
  BY <1>1 DEF StartDelete
<1>2. ASSUME NEW ok \in BOOLEAN, EraseWorkload(ok) PROVE RevInv'
  BY <1>2, SMTT(30) DEF EraseWorkload, Proceed
<1>3. ASSUME NEW kept \in SUBSET Revisions, EraseSecrets(kept) PROVE RevInv'
  BY <1>3, SMTT(30) DEF EraseSecrets, Proceed
<1>4. ASSUME DropRevisions PROVE RevInv'
  BY <1>4 DEF DropRevisions, Proceed
<1>5. ASSUME HideRow \/ Leave PROVE RevInv'
  BY <1>5 DEF HideRow, Leave
<1> QED BY <1>1, <1>2, <1>3, <1>4, <1>5

(* Every step keeps the invariant. *)
LEMMA RevStep == RevInv /\ [Next]_vars => RevInv'
<1> SUFFICES ASSUME RevInv, [Next]_vars PROVE RevInv'
  OBVIOUS
<1>1. CASE \E c \in Calls : CreateStep(c)
  BY <1>1, CreateKeeps
<1>2. CASE OwnerStep
  BY <1>2, DeployKeeps, DeleteKeeps DEF OwnerStep
<1>3. CASE UNCHANGED vars
  BY <1>3 DEF vars, RevInv, RevTypeOK, OwnerOK, Doing, AcknowledgedIsStored,
              SecretMatchesRevision, RunningHasSecret
<1> QED BY <1>1, <1>2, <1>3 DEF Next

(* The table, the cluster and the calls keep their types. *)
THEOREM RevisionTypes == Spec => []RevTypeOK
<1>1. RevInv => RevTypeOK
  BY DEF RevInv
<1> QED BY <1>1, RevInit, RevStep, PTL DEF Spec

(* CreateEnvironmentBundle and CreateRegistryCredential never acknowledge a   *)
(* value that is not the stored one, for any number of concurrent clients.    *)
THEOREM AcknowledgedRevisions == Spec => []AcknowledgedIsStored
<1>1. RevInv => AcknowledgedIsStored
  BY DEF RevInv
<1> QED BY <1>1, RevInit, RevStep, PTL DEF Spec

(* Controller.Delete and DeleteApp remove workload, Secrets and revisions in  *)
(* an order that leaves, wherever it stops, Secrets that match their revision *)
(* and workloads whose Secret exists.                                         *)
THEOREM SecretsFollowRevisions == Spec => [](SecretMatchesRevision /\ RunningHasSecret)
<1>1. RevInv => SecretMatchesRevision /\ RunningHasSecret
  BY DEF RevInv
<1> QED BY <1>1, RevInit, RevStep, PTL DEF Spec
---------------------------------------------------------------------------
(* EventLog: what the client receives is ordered *)

Recorded(e) == e \in Ids /\ stamp[e] # -1

\* Events in the order of their keys.
Sorted(s) == \A i, j \in 1 .. Len(s) : i < j => Before(Key(s[i]), Key(s[j]))

Shape ==
    /\ clock \in Nat /\ stamp \in [Ids -> Int]
    /\ watch = [since |-> watch.since, after |-> watch.after, todo |-> watch.todo]
    /\ watch.after = <<watch.after[1], watch.after[2]>>
    /\ watch.since \in Int /\ watch.after[1] \in Int /\ watch.after[2] \in Int
    /\ watch.todo \in Seq(Ids) /\ sent \in Seq(Ids)
    /\ \A e \in log \cup pruned : Recorded(e)

\* The stream: what is sent, the cursor, what is listed.
StreamInv ==
    /\ Shape
    /\ \A i \in 1 .. Len(sent) :
         /\ Recorded(sent[i])
         /\ Key(sent[i]) = watch.after \/ Before(Key(sent[i]), watch.after)
    /\ \A i \in 1 .. Len(watch.todo) :
         /\ watch.todo[i] \in log \cup pruned
         /\ Before(watch.after, Key(watch.todo[i]))
    /\ Sorted(sent) /\ Sorted(watch.todo)

\* Keys are ordered by time and then by identifier.
LEMMA BeforeTransitive ==
    ASSUME NEW a \in Int, NEW b \in Int, NEW c \in Int, NEW d \in Int, NEW e \in Int, NEW f \in Int,
           Before(<<a, b>>, <<c, d>>), Before(<<c, d>>, <<e, f>>)
    PROVE  Before(<<a, b>>, <<e, f>>)
BY SMTT(30) DEF Before

\* An event of the log, or one that is pruned, has a key of integers.
LEMMA KeyIsPair ==
    ASSUME Shape, NEW e \in Ids
    PROVE  Key(e) = <<stamp[e], e>> /\ stamp[e] \in Int /\ e \in Int
BY EventAssumption, SMTT(30) DEF Shape, Key

\* The stream goes on while events are recorded and pruned.
LEMMA StreamElsewhere ==
    ASSUME StreamInv, clock' \in Nat, UNCHANGED <<watch, sent>>, stamp' \in [Ids -> Int],
           \A e \in Ids : stamp[e] # -1 => stamp'[e] = stamp[e],
           log \cup pruned \subseteq (log \cup pruned)', \A e \in (log \cup pruned)' : Recorded(e)'
    PROVE  StreamInv'
<1>1. Shape'
  BY DEF StreamInv, Shape
<1>2. \A e : Recorded(e) => Recorded(e)' /\ Key(e)' = Key(e)
  BY DEF Recorded, Key
<1>3. \A i \in 1 .. Len(watch.todo) : Recorded(watch.todo[i])
  BY DEF StreamInv, Shape
<1>4. Sorted(sent)' /\ Sorted(watch.todo)'
  BY <1>2, <1>3 DEF StreamInv, Sorted
<1> QED
  BY <1>1, <1>2, <1>3, <1>4 DEF StreamInv

\* A page lists stored events behind the cursor, in order.
LEMMA PageIsListed ==
    ASSUME StreamInv, NEW page \in Pages
    PROVE  /\ page \in Seq(Ids) /\ Sorted(page)
           /\ \A i \in 1 .. Len(page) : page[i] \in log /\ Before(watch.after, Key(page[i]))
<1>1. PICK n \in 0 .. Batch : page \in [1 .. n -> Selected]
  BY DEF Pages
<1>2. n \in Nat
  BY <1>1, EventAssumption, SMTT(30)
<1>3. page \in Seq(Selected) /\ Len(page) = n
  BY <1>1, <1>2, SMTT(30)
<1>4. \A e \in Selected : e \in Ids /\ e \in log /\ Before(watch.after, Key(e))
  BY DEF Selected, StreamInv, Shape, Recorded
<1>5. page \in Seq(Ids)
  BY <1>1, <1>2, <1>4, SMTT(30)
<1>6. Sorted(page)
  BY DEF Pages, Sorted
<1> QED
  BY <1>1, <1>3, <1>4, <1>5, <1>6

\* The stream has not begun.
LEMMA StreamInvInit == LogInit => StreamInv
BY EventAssumption, SMTT(30) DEF LogInit, StreamInv, Shape, Sorted, Recorded

\* The first listed event is sent, and the cursor moves to it.
LEMMA StreamInvSend ==
    ASSUME StreamInv, Send
    PROVE  StreamInv'
<1>1. PICK todo, n, h : todo = watch.todo /\ n = Len(sent) /\ h = Head(todo)
  OBVIOUS
<1>2. /\ todo \in Seq(Ids) /\ todo # <<>> /\ sent \in Seq(Ids) /\ n \in Nat
      /\ sent' = Append(sent, h)
      /\ watch' = [watch EXCEPT !.todo = Tail(todo), !.after = Key(h)]
      /\ UNCHANGED <<clock, stamp, log, pruned>>
  BY <1>1, SMTT(30) DEF StreamInv, Shape, Send
<1>3. /\ Len(todo) \in Nat /\ 1 \in 1 .. Len(todo) /\ h = todo[1] /\ h \in Ids
      /\ Tail(todo) \in Seq(Ids) /\ Len(Tail(todo)) = Len(todo) - 1
      /\ \A i \in 1 .. Len(Tail(todo)) : Tail(todo)[i] = todo[i + 1] /\ i + 1 \in 1 .. Len(todo)
  BY <1>1, <1>2, SMTT(30)
<1>4. /\ watch'.todo = Tail(todo) /\ watch'.after = Key(h) /\ watch'.since = watch.since
      /\ watch' = [since |-> watch'.since, after |-> watch'.after, todo |-> watch'.todo]
  BY <1>2 DEF StreamInv, Shape
<1>5. /\ sent' \in Seq(Ids) /\ Len(sent') = n + 1 /\ sent'[n + 1] = h
      /\ \A i \in 1 .. n : sent'[i] = sent[i]
  BY <1>1, <1>2, <1>3, SMTT(30)
<1>6. Key(h) = <<stamp[h], h>> /\ stamp[h] \in Int /\ h \in Int /\ Recorded(h)
  BY <1>1, <1>3, KeyIsPair DEF StreamInv, Shape
<1>7. Shape'
  BY <1>2, <1>3, <1>4, <1>5, <1>6, SMTT(30) DEF StreamInv, Shape, Recorded
<1>8. \A e : Key(e)' = Key(e) /\ (Recorded(e) <=> Recorded(e)')
  BY <1>2 DEF Key, Recorded
<1>9. Before(watch.after, Key(h))
  BY <1>1, <1>3 DEF StreamInv
<1>10. ASSUME NEW i \in 1 .. n
       PROVE  Recorded(sent[i]) /\ Before(Key(sent[i]), Key(h))
  <2>1. Recorded(sent[i]) /\ (Key(sent[i]) = watch.after \/ Before(Key(sent[i]), watch.after))
    BY <1>1 DEF StreamInv
  <2>2. PICK e : e = sent[i]
    OBVIOUS
  <2>3. Key(e) = <<stamp[e], e>> /\ stamp[e] \in Int /\ e \in Int
    BY <2>1, <2>2, KeyIsPair DEF StreamInv, Recorded
  <2>4. /\ watch.after = <<watch.after[1], watch.after[2]>>
        /\ watch.after[1] \in Int /\ watch.after[2] \in Int
    BY DEF StreamInv, Shape
  <2> QED
    BY <1>6, <1>9, <2>1, <2>2, <2>3, <2>4, BeforeTransitive, SMTT(30)
<1>11. ASSUME NEW i \in 1 .. Len(sent')
       PROVE  /\ Recorded(sent'[i])
              /\ Key(sent'[i]) = Key(h) \/ Before(Key(sent'[i]), Key(h))
  <2>1. CASE i = n + 1
    BY <1>5, <1>6, <2>1
  <2>2. CASE i # n + 1
    <3>1. i \in 1 .. n
      BY <1>2, <1>5, <2>2, SMTT(30)
    <3> QED
      BY <1>5, <1>10, <3>1
  <2> QED
    BY <2>1, <2>2
<1>12. Sorted(sent)'
  <2> SUFFICES ASSUME NEW i \in 1 .. Len(sent'), NEW j \in 1 .. Len(sent'), i < j
               PROVE  Before(Key(sent'[i]), Key(sent'[j]))
    BY <1>8 DEF Sorted
  <2>1. i \in 1 .. n /\ (j \in 1 .. n \/ j = n + 1)
    BY <1>2, <1>5, SMTT(30)
  <2>2. CASE j = n + 1
    BY <1>5, <1>10, <2>1, <2>2
  <2>3. CASE j \in 1 .. n
    BY <1>1, <1>5, <2>1, <2>3 DEF StreamInv, Sorted
  <2> QED
    BY <2>1, <2>2, <2>3
<1>13. Sorted(watch.todo)'
  <2> SUFFICES ASSUME NEW i \in 1 .. Len(Tail(todo)), NEW j \in 1 .. Len(Tail(todo)), i < j
               PROVE  Before(Key(Tail(todo)[i]), Key(Tail(todo)[j]))
    BY <1>4, <1>8 DEF Sorted
  <2>1. i + 1 \in 1 .. Len(todo) /\ j + 1 \in 1 .. Len(todo) /\ i + 1 < j + 1
    BY <1>3, SMTT(30)
  <2>2. Before(Key(todo[i + 1]), Key(todo[j + 1]))
    BY <1>1, <2>1 DEF StreamInv, Sorted
  <2> QED
    BY <1>3, <2>2
<1>14. ASSUME NEW i \in 1 .. Len(Tail(todo))
       PROVE  Tail(todo)[i] \in log \cup pruned /\ Before(Key(h), Key(Tail(todo)[i]))
  <2>1. i + 1 \in 1 .. Len(todo) /\ 1 < i + 1 /\ Tail(todo)[i] = todo[i + 1]
    BY <1>3, SMTT(30)
  <2> QED
    BY <1>1, <1>3, <2>1 DEF StreamInv, Sorted
<1> QED
  <2>1. (\A i \in 1 .. Len(sent) :
           /\ Recorded(sent[i])
           /\ Key(sent[i]) = watch.after \/ Before(Key(sent[i]), watch.after))'
    BY <1>2, <1>4, <1>11 DEF Key, Recorded
  <2>2. (\A i \in 1 .. Len(watch.todo) :
           /\ watch.todo[i] \in log \cup pruned
           /\ Before(watch.after, Key(watch.todo[i])))'
    BY <1>2, <1>4, <1>14 DEF Key
  <2> QED
    BY <1>7, <1>12, <1>13, <2>1, <2>2 DEF StreamInv

\* Every step keeps StreamInv.
LEMMA StreamInvNext == StreamInv /\ [LogNext]_logVars => StreamInv'
<1> SUFFICES ASSUME StreamInv, [LogNext]_logVars
             PROVE  StreamInv'
  OBVIOUS
<1>1. CASE UNCHANGED <<stamp, log, pruned, watch, sent>> /\ clock' \in Nat
  BY <1>1, StreamElsewhere DEF StreamInv, Shape, Recorded
<1>2. CASE Tick
  BY <1>1, <1>2, SMTT(30) DEF Tick, streamVars, StreamInv, Shape
<1>3. ASSUME NEW e \in Ids, Stamp(e) PROVE StreamInv'
  <2>1. /\ stamp' = [stamp EXCEPT ![e] = clock] /\ stamp[e] = -1 /\ stamp \in [Ids -> Int]
        /\ clock \in Nat /\ UNCHANGED <<clock, log, pruned, watch, sent>>
    BY <1>3 DEF Stamp, streamVars, StreamInv, Shape
  <2>2. stamp' \in [Ids -> Int] /\ \A f \in Ids : stamp[f] # -1 => stamp'[f] = stamp[f]
    BY <2>1, SMTT(30)
  <2>3. \A f \in log \cup pruned : Recorded(f)'
    BY <2>1, <2>2 DEF StreamInv, Shape, Recorded
  <2> QED
    BY <2>1, <2>2, <2>3, StreamElsewhere
<1>4. ASSUME NEW e \in Ids, Create(e) PROVE StreamInv'
  <2>1. /\ log' = log \cup {e} /\ Recorded(e)
        /\ UNCHANGED <<clock, stamp, pruned, watch, sent>>
    BY <1>4 DEF Create, Recording, Recorded, streamVars
  <2>2. \A f \in (log \cup pruned)' : Recorded(f)'
    BY <2>1 DEF StreamInv, Shape, Recorded
  <2> QED
    BY <2>1, <2>2, StreamElsewhere DEF StreamInv, Shape
<1>5. ASSUME NEW S \in SUBSET log, Delete(S) PROVE StreamInv'
  <2>1. (log \cup pruned)' = log \cup pruned /\ UNCHANGED <<clock, stamp, watch, sent>>
    BY <1>5 DEF Delete, streamVars
  <2>2. \A f \in (log \cup pruned)' : Recorded(f)'
    BY <2>1 DEF StreamInv, Shape, Recorded
  <2> QED
    BY <2>1, <2>2, StreamElsewhere DEF StreamInv, Shape
<1>6. CASE PruneBefore \/ PruneToLimit
  BY <1>5, <1>6 DEF PruneBefore, PruneToLimit, Excess
<1>7. CASE StartWatch
  <2>1. /\ watch' = [watch EXCEPT !.since = clock]
        /\ UNCHANGED <<clock, stamp, log, pruned, sent>>
    BY <1>7 DEF StartWatch
  <2>2. /\ watch'.since = clock /\ watch'.after = watch.after /\ watch'.todo = watch.todo
        /\ watch' = [since |-> watch'.since, after |-> watch'.after, todo |-> watch'.todo]
    BY <2>1 DEF StreamInv, Shape
  <2>3. Shape'
    BY <2>1, <2>2, SMTT(30) DEF StreamInv, Shape, Recorded
  <2> QED
    BY <2>1, <2>2, <2>3 DEF StreamInv, Sorted, Key, Recorded
<1>8. CASE Poll
  <2>1. PICK page \in Pages : watch' = [watch EXCEPT !.todo = page]
    BY <1>8 DEF Poll
  <2>2. UNCHANGED <<clock, stamp, log, pruned, sent>>
    BY <1>8 DEF Poll
  <2>3. /\ watch'.since = watch.since /\ watch'.after = watch.after /\ watch'.todo = page
        /\ watch' = [since |-> watch'.since, after |-> watch'.after, todo |-> watch'.todo]
    BY <2>1 DEF StreamInv, Shape
  <2>4. /\ page \in Seq(Ids) /\ Sorted(page)
        /\ \A i \in 1 .. Len(page) : page[i] \in log /\ Before(watch.after, Key(page[i]))
    BY PageIsListed
  <2>5. Shape'
    BY <2>2, <2>3, <2>4 DEF StreamInv, Shape, Recorded
  <2> QED
    BY <2>2, <2>3, <2>4, <2>5 DEF StreamInv, Sorted, Key, Recorded
<1>9. CASE UNCHANGED logVars
  BY <1>1, <1>9 DEF logVars, streamVars, StreamInv, Shape
<1> QED
  BY <1>2, <1>3, <1>4, <1>6, <1>7, <1>8, <1>9, StreamInvSend DEF LogNext, Watching

\* The client of WatchEvents receives events in the order of their times and
\* none twice, for every batch size and retention.
THEOREM StreamAlwaysOrdered == LogSpec => []StreamOrdered
<1>1. StreamInv => StreamOrdered
  BY DEF StreamInv, Sorted, StreamOrdered
<1> QED
  BY <1>1, StreamInvInit, StreamInvNext, PTL DEF LogSpec

---------------------------------------------------------------------------
(* What AheadIsDelivered rests on: the cursor passes nothing that is due.  *)

Elements(s) == {s[i] : i \in 1 .. Len(s)}

\* Events of the watched time, other than those stored after a later key.
Due == {e \in log \ overtaken : stamp[e] >= watch.since}

CursorSkipsNothing ==
    watch.since # -1 => \A e \in Due : e \in Elements(sent) \/ Before(watch.after, Key(e))

\* A due event ahead of the cursor is listed, or behind all that is; the cursor
\* is at an event that was stored.
SkipInv ==
    /\ CursorSkipsNothing
    /\ \A e \in Ids : stamp[e] >= -1
    /\ watch.since = -1 => watch.after = <<-1, -1>> /\ watch.todo = <<>>
    /\ watch.after = <<-1, -1>> \/ \E f \in log \cup pruned : watch.after = Key(f)
    /\ \A e \in Due : Before(watch.after, Key(e)) /\ e \notin Elements(watch.todo) =>
         \A i \in 1 .. Len(watch.todo) : Before(Key(watch.todo[i]), Key(e))

\* Of two events one comes first.
LEMMA KeysTotal ==
    ASSUME Shape, NEW e \in Ids, NEW f \in Ids, e # f, ~Before(Key(e), Key(f))
    PROVE  Before(Key(f), Key(e))
<1>1. Key(e) = <<stamp[e], e>> /\ stamp[e] \in Int /\ e \in Int
  BY KeyIsPair
<1>2. Key(f) = <<stamp[f], f>> /\ stamp[f] \in Int /\ f \in Int
  BY KeyIsPair
<1> QED
  BY <1>1, <1>2, SMTT(30) DEF Before

\* BeforeTransitive, for events.
LEMMA KeysTransitive ==
    ASSUME Shape, NEW d \in Ids, NEW e \in Ids, NEW f \in Ids,
           Before(Key(d), Key(e)), Before(Key(e), Key(f))
    PROVE  Before(Key(d), Key(f))
<1>1. Key(d) = <<stamp[d], d>> /\ stamp[d] \in Int /\ d \in Int
  BY KeyIsPair
<1>2. Key(e) = <<stamp[e], e>> /\ stamp[e] \in Int /\ e \in Int
  BY KeyIsPair
<1>3. Key(f) = <<stamp[f], f>> /\ stamp[f] \in Int /\ f \in Int
  BY KeyIsPair
<1> QED
  BY <1>1, <1>2, <1>3, SMTT(30) DEF Before

\* And for the cursor and two events.
LEMMA CursorTransitive ==
    ASSUME Shape, NEW e \in Ids, NEW f \in Ids,
           Before(watch.after, Key(e)), Before(Key(e), Key(f))
    PROVE  Before(watch.after, Key(f))
<1>1. /\ watch.after = <<watch.after[1], watch.after[2]>>
      /\ watch.after[1] \in Int /\ watch.after[2] \in Int
  BY DEF Shape
<1>2. Key(e) = <<stamp[e], e>> /\ stamp[e] \in Int /\ e \in Int
  BY KeyIsPair
<1>3. Key(f) = <<stamp[f], f>> /\ stamp[f] \in Int /\ f \in Int
  BY KeyIsPair
<1> QED
  BY <1>1, <1>2, <1>3, SMTT(30) DEF Before

\* The cursor is before every event until the first one is sent.
LEMMA SkipInvInit == LogInit => SkipInv
BY SMTT(30) DEF LogInit, SkipInv, CursorSkipsNothing, Due

\* Nothing becomes due: events are stamped, or pruned.
LEMMA SkipElsewhere ==
    ASSUME StreamInv, SkipInv, UNCHANGED <<watch, sent>>, \A e \in Ids : stamp'[e] >= -1,
           \A e \in Ids : stamp[e] # -1 => stamp'[e] = stamp[e],
           log' \subseteq log, log \cup pruned \subseteq (log \cup pruned)', UNCHANGED overtaken
    PROVE  SkipInv'
<1>1. \A e \in log \cup pruned : e \in Ids /\ Key(e)' = Key(e) /\ stamp'[e] = stamp[e]
  BY DEF StreamInv, Shape, Recorded, Key
<1>2. Due' \subseteq Due
  BY <1>1 DEF Due
<1>3. Due \subseteq log
  BY DEF Due
<1>4. CursorSkipsNothing'
  BY <1>1, <1>2, <1>3 DEF SkipInv, CursorSkipsNothing, Elements
<1>5. \A i \in 1 .. Len(watch.todo) : watch.todo[i] \in log \cup pruned
  BY DEF StreamInv
<1>6. (watch.after = <<-1, -1>> \/ \E f \in log \cup pruned : watch.after = Key(f))'
  BY <1>1 DEF SkipInv
<1>7. (\A e \in Due : Before(watch.after, Key(e)) /\ e \notin Elements(watch.todo) =>
         \A i \in 1 .. Len(watch.todo) : Before(Key(watch.todo[i]), Key(e)))'
  <2> SUFFICES ASSUME NEW e \in Due', (Before(watch.after, Key(e)) /\ e \notin Elements(watch.todo))',
                      NEW i \in 1 .. Len(watch.todo)
               PROVE  Before(Key(watch.todo[i]), Key(e))'
    OBVIOUS
  <2>1. e \in Due /\ e \in log /\ Key(e)' = Key(e)
    BY <1>1, <1>2, <1>3
  <2>2. Before(watch.after, Key(e)) /\ e \notin Elements(watch.todo)
    BY <2>1 DEF Elements
  <2>3. Before(Key(watch.todo[i]), Key(e))
    BY <2>1, <2>2 DEF SkipInv
  <2>4. PICK f : f = watch.todo[i]
    OBVIOUS
  <2>5. Key(f)' = Key(f)
    BY <1>1, <1>5, <2>4
  <2> QED
    BY <2>1, <2>3, <2>4, <2>5
<1> QED
  BY <1>4, <1>6, <1>7 DEF SkipInv

\* An event that is not overtaken is stored behind all others.
LEMMA SkipInvCreate ==
    ASSUME StreamInv, SkipInv, NEW e \in Ids, Create(e)
    PROVE  SkipInv'
<1>1. /\ log' = log \cup {e} /\ e \notin log \cup pruned /\ Recorded(e) /\ Shape
      /\ UNCHANGED <<stamp, pruned, watch, sent>>
      /\ overtaken' = overtaken \cup {x \in {e} : \E f \in log \cup pruned : Before(Key(x), Key(f))}
  BY DEF Create, Recording, Recorded, streamVars, StreamInv
<1>2. \A f : Key(f)' = Key(f)
  BY <1>1 DEF Key
<1>3. Due' \subseteq Due \cup {e} /\ (e \in Due' => e \notin overtaken')
  BY <1>1 DEF Due
<1>4. ASSUME e \in Due', NEW f \in log \cup pruned
      PROVE  Before(Key(f), Key(e))
  <2>1. ~Before(Key(e), Key(f)) /\ f \in Ids /\ e # f
    BY <1>1, <1>3, <1>4 DEF StreamInv, Shape, Recorded
  <2> QED
    BY <1>1, <2>1, KeysTotal
<1>5. e \in Due' => Before(watch.after, Key(e))
  <2>1. CASE watch.after = <<-1, -1>>
    <3>1. stamp[e] >= -1 /\ stamp[e] # -1 /\ stamp[e] \in Int /\ Key(e) = <<stamp[e], e>>
      BY <1>1, KeyIsPair DEF SkipInv, Recorded
    <3> QED
      BY <2>1, <3>1, SMTT(30) DEF Before
  <2>2. CASE \E f \in log \cup pruned : watch.after = Key(f)
    BY <1>4, <2>2
  <2> QED
    BY <2>1, <2>2 DEF SkipInv
<1>6. \A i \in 1 .. Len(watch.todo) : e \in Due' => Before(Key(watch.todo[i]), Key(e))
  BY <1>4 DEF StreamInv
<1>7. CursorSkipsNothing'
  BY <1>1, <1>2, <1>3, <1>5 DEF SkipInv, CursorSkipsNothing, Elements
<1>8. (\A d \in Due : Before(watch.after, Key(d)) /\ d \notin Elements(watch.todo) =>
         \A i \in 1 .. Len(watch.todo) : Before(Key(watch.todo[i]), Key(d)))'
  BY <1>1, <1>3, <1>6 DEF SkipInv, Elements, Key
<1>9. (watch.after = <<-1, -1>> \/ \E f \in log \cup pruned : watch.after = Key(f))'
  BY <1>1, <1>2 DEF SkipInv
<1> QED
  BY <1>1, <1>7, <1>8, <1>9 DEF SkipInv

\* A page leaves out only what is behind all of it.
LEMMA SkipInvPoll ==
    ASSUME StreamInv, SkipInv, Poll
    PROVE  SkipInv'
<1>1. PICK page \in Pages : watch' = [watch EXCEPT !.todo = page]
  BY DEF Poll
<1>2. UNCHANGED <<stamp, log, pruned, overtaken, sent>> /\ watch.since # -1
  BY DEF Poll
<1>3. watch'.since = watch.since /\ watch'.after = watch.after /\ watch'.todo = page
  BY <1>1 DEF StreamInv, Shape
<1>4. /\ page \in Seq(Ids) /\ Sorted(page)
      /\ \A i \in 1 .. Len(page) : page[i] \in log /\ Before(watch.after, Key(page[i]))
  BY PageIsListed
<1>5. ASSUME NEW e \in Due, Before(watch.after, Key(e)), e \notin Elements(page),
             NEW i \in 1 .. Len(page)
      PROVE  Before(Key(page[i]), Key(e))
  <2>1. e \in Selected
    BY <1>5 DEF Due, Selected
  <2>2. Len(page) = Batch /\ Before(Key(page[Batch]), Key(e))
    BY <1>5, <2>1 DEF Pages, Elements
  <2>3. Batch \in Nat /\ Batch \in 1 .. Len(page) /\ i \in Nat /\ (i = Batch \/ i < Batch)
    BY <2>2, EventAssumption, SMTT(30)
  <2>4. CASE i = Batch
    BY <2>2, <2>4
  <2>5. CASE i < Batch
    <3>1. Before(Key(page[i]), Key(page[Batch]))
      BY <1>4, <2>3, <2>5 DEF Sorted
    <3>2. page[i] \in Ids /\ page[Batch] \in Ids /\ e \in Ids
      BY <1>4, <2>3 DEF Due, StreamInv, Shape, Recorded
    <3> QED
      BY <2>2, <3>1, <3>2, KeysTransitive DEF StreamInv
  <2> QED
    BY <2>3, <2>4, <2>5
<1>6. Due' = Due /\ \A e : Key(e)' = Key(e)
  BY <1>2, <1>3 DEF Due, Key
<1>7. CursorSkipsNothing'
  BY <1>2, <1>3, <1>6 DEF SkipInv, CursorSkipsNothing, Elements
<1>8. (\A e \in Due : Before(watch.after, Key(e)) /\ e \notin Elements(watch.todo) =>
         \A i \in 1 .. Len(watch.todo) : Before(Key(watch.todo[i]), Key(e)))'
  BY <1>2, <1>3, <1>5, <1>6 DEF Elements, Key
<1>9. (watch.after = <<-1, -1>> \/ \E f \in log \cup pruned : watch.after = Key(f))'
  BY <1>2, <1>3, <1>6 DEF SkipInv
<1> QED
  BY <1>2, <1>3, <1>7, <1>8, <1>9 DEF SkipInv

\* The cursor moves to the first of the listed events.
LEMMA SkipInvSend ==
    ASSUME StreamInv, SkipInv, Send
    PROVE  SkipInv'
<1>1. PICK todo, n, h : todo = watch.todo /\ n = Len(sent) /\ h = Head(todo)
  OBVIOUS
<1>2. /\ todo \in Seq(Ids) /\ todo # <<>> /\ sent \in Seq(Ids) /\ n \in Nat
      /\ sent' = Append(sent, h)
      /\ watch' = [watch EXCEPT !.todo = Tail(todo), !.after = Key(h)]
      /\ UNCHANGED <<stamp, log, pruned, overtaken>>
  BY <1>1, SMTT(30) DEF StreamInv, Shape, Send
<1>3. /\ Len(todo) \in Nat /\ 1 \in 1 .. Len(todo) /\ h = todo[1] /\ h \in Ids
      /\ Len(Tail(todo)) = Len(todo) - 1
      /\ \A i \in 1 .. Len(Tail(todo)) : Tail(todo)[i] = todo[i + 1] /\ i + 1 \in 1 .. Len(todo)
  BY <1>1, <1>2, SMTT(30)
<1>4. watch'.todo = Tail(todo) /\ watch'.after = Key(h) /\ watch'.since = watch.since
  BY <1>2 DEF StreamInv, Shape
<1>5. Elements(sent) \cup {h} \subseteq Elements(sent)'
  <2>1. /\ Len(sent') = n + 1 /\ sent'[n + 1] = h /\ n + 1 \in 1 .. n + 1
        /\ \A i \in 1 .. n : sent'[i] = sent[i] /\ i \in 1 .. n + 1
    BY <1>1, <1>2, <1>3, SMTT(30)
  <2> QED
    BY <1>1, <2>1 DEF Elements
<1>6. watch.since # -1 /\ h \in log \cup pruned /\ Before(watch.after, Key(h)) /\ Shape
  BY <1>1, <1>2, <1>3 DEF SkipInv, StreamInv
<1>7. Due' = Due /\ \A e : Key(e)' = Key(e)
  BY <1>2, <1>4 DEF Due, Key
<1>8. ASSUME NEW e \in Due, Before(watch.after, Key(e)), e # h
      PROVE  Before(Key(h), Key(e))
  <2>1. CASE e \in Elements(todo)
    <3>1. PICK j \in 1 .. Len(todo) : e = todo[j]
      BY <2>1 DEF Elements
    <3>2. 1 < j
      BY <1>3, <1>8, <3>1, SMTT(30)
    <3> QED
      BY <1>1, <1>3, <3>1, <3>2 DEF StreamInv, Sorted
  <2>2. CASE e \notin Elements(todo)
    BY <1>1, <1>3, <1>8, <2>2 DEF SkipInv
  <2> QED
    BY <2>1, <2>2
<1>9. CursorSkipsNothing'
  <2> SUFFICES ASSUME NEW e \in Due
               PROVE  e \in Elements(sent)' \/ Before(Key(h), Key(e))
    BY <1>4, <1>7 DEF CursorSkipsNothing
  <2> QED
    BY <1>5, <1>6, <1>8 DEF SkipInv, CursorSkipsNothing
<1>10. ASSUME NEW e \in Due, Before(Key(h), Key(e)), e \notin Elements(Tail(todo)),
              NEW i \in 1 .. Len(Tail(todo))
       PROVE  Before(Key(Tail(todo)[i]), Key(e))
  <2>1. e \in Ids
    BY DEF Due, StreamInv, Shape, Recorded
  <2>2. Before(watch.after, Key(e))
    BY <1>3, <1>6, <1>10, <2>1, CursorTransitive
  <2>3. e # h
    <3>1. Key(h) = <<stamp[h], h>> /\ stamp[h] \in Int /\ h \in Int
      BY <1>3, <1>6, KeyIsPair
    <3> QED
      BY <1>10, <3>1, SMTT(30) DEF Before
  <2>4. e \notin Elements(todo)
    <3> SUFFICES ASSUME NEW j \in 1 .. Len(todo), e = todo[j]
                 PROVE  FALSE
      BY DEF Elements
    <3>1. j - 1 \in 1 .. Len(Tail(todo)) /\ j = (j - 1) + 1
      BY <1>3, <2>3, SMTT(30)
    <3>2. Tail(todo)[j - 1] = e
      BY <1>3, <3>1
    <3> QED
      BY <1>10, <3>1, <3>2 DEF Elements
  <2> QED
    BY <1>1, <1>3, <2>2, <2>4 DEF SkipInv
<1>11. (\A e \in Due : Before(watch.after, Key(e)) /\ e \notin Elements(watch.todo) =>
         \A i \in 1 .. Len(watch.todo) : Before(Key(watch.todo[i]), Key(e)))'
  <2>1. \A e \in Due : Before(Key(h), Key(e)) /\ e \notin Elements(Tail(todo)) =>
          \A i \in 1 .. Len(Tail(todo)) : Before(Key(Tail(todo)[i]), Key(e))
    BY <1>10
  <2>2. PICK t, due, k : t = Tail(todo) /\ due = Due /\ k = Key(h)
    OBVIOUS
  <2>3. watch'.todo = t /\ Due' = due /\ watch'.after = k
    BY <1>4, <1>7, <2>2
  <2>4. \A e \in due : Before(k, Key(e)) /\ e \notin Elements(t) =>
          \A i \in 1 .. Len(t) : Before(Key(t[i]), Key(e))
    BY <2>1, <2>2
  <2> QED
    BY ONLY <1>2, <2>3, <2>4 DEF Elements, Key
<1>12. (watch.after = <<-1, -1>> \/ \E f \in log \cup pruned : watch.after = Key(f))'
  BY <1>2, <1>4, <1>6, <1>7
<1> QED
  BY <1>2, <1>4, <1>6, <1>9, <1>11, <1>12 DEF SkipInv

\* Every step keeps SkipInv.
LEMMA SkipInvNext == StreamInv /\ SkipInv /\ [LogNext]_logVars => SkipInv'
<1> SUFFICES ASSUME StreamInv, SkipInv, [LogNext]_logVars
             PROVE  SkipInv'
  OBVIOUS
<1>1. CASE UNCHANGED <<stamp, log, pruned, overtaken, watch, sent>>
  BY <1>1, SkipElsewhere DEF SkipInv
<1>2. CASE Tick
  BY <1>1, <1>2 DEF Tick, streamVars
<1>3. ASSUME NEW e \in Ids, Stamp(e) PROVE SkipInv'
  <2>1. /\ stamp' = [stamp EXCEPT ![e] = clock] /\ stamp[e] = -1 /\ stamp \in [Ids -> Int]
        /\ clock \in Nat /\ UNCHANGED <<log, pruned, overtaken, watch, sent>>
    BY <1>3 DEF Stamp, streamVars, StreamInv, Shape
  <2>2. /\ \A f \in Ids : stamp'[f] >= -1
        /\ \A f \in Ids : stamp[f] # -1 => stamp'[f] = stamp[f]
    BY <2>1, SMTT(30) DEF SkipInv
  <2> QED
    BY <2>1, <2>2, SkipElsewhere
<1>4. ASSUME NEW e \in Ids, Create(e) PROVE SkipInv'
  BY <1>4, SkipInvCreate
<1>5. ASSUME NEW S \in SUBSET log, Delete(S) PROVE SkipInv'
  <2>1. /\ (log \cup pruned)' = log \cup pruned /\ log' \subseteq log
        /\ UNCHANGED <<stamp, overtaken, watch, sent>>
    BY <1>5 DEF Delete, streamVars
  <2> QED
    BY <2>1, SkipElsewhere DEF SkipInv
<1>6. CASE PruneBefore \/ PruneToLimit
  BY <1>5, <1>6 DEF PruneBefore, PruneToLimit, Excess
<1>7. CASE StartWatch
  <2>1. /\ watch' = [watch EXCEPT !.since = clock] /\ watch.since = -1 /\ Shape
        /\ UNCHANGED <<stamp, log, pruned, overtaken, sent>>
    BY <1>7 DEF StartWatch, StreamInv
  <2>2. /\ watch'.since = clock /\ watch'.after = <<-1, -1>> /\ watch'.todo = <<>>
        /\ watch'.since # -1
    BY <2>1, SMTT(30) DEF Shape, SkipInv
  <2>3. ASSUME NEW e \in log PROVE Before(<<-1, -1>>, Key(e))
    <3>1. stamp[e] >= -1 /\ stamp[e] # -1 /\ stamp[e] \in Int /\ Key(e) = <<stamp[e], e>>
      BY <2>1, KeyIsPair DEF SkipInv, Shape, Recorded
    <3> QED
      BY <3>1, SMTT(30) DEF Before
  <2>4. CursorSkipsNothing'
    BY <2>1, <2>2, <2>3 DEF CursorSkipsNothing, Due, Key
  <2> QED
    BY <2>1, <2>2, <2>4, SMTT(30) DEF SkipInv
<1>8. CASE UNCHANGED logVars
  BY <1>1, <1>8 DEF logVars, streamVars
<1> QED
  BY <1>2, <1>3, <1>4, <1>6, <1>7, <1>8, SkipInvPoll, SkipInvSend DEF LogNext, Watching

\* Whatever the batches and retention are, WatchEvents sends an event of the
\* watched time before its cursor passes it, unless the event was stored after
\* one with a later key.
THEOREM CursorNeverSkips == LogSpec => []CursorSkipsNothing
<1>1. SkipInv => CursorSkipsNothing
  BY DEF SkipInv
<1> QED
  BY <1>1, StreamInvInit, StreamInvNext, SkipInvInit, SkipInvNext, PTL DEF LogSpec

---------------------------------------------------------------------------
(* RuntimeResources *)

CallShape ==
    /\ call = [op |-> call.op, cfg |-> call.cfg, left |-> call.left, failed |-> call.failed]
    /\ call.failed \in BOOLEAN /\ erased \in BOOLEAN
    /\ call.op \in {"none", "reconcile", "delete"}
    /\ objects = [k \in Kinds |-> objects[k]]

\* s is what is left of the plan p.
Rest(s, p) ==
    /\ s \in Seq(Kinds) /\ Len(s) <= Len(p)
    /\ \A j \in 1 .. Len(s) : s[j] = p[j + Len(p) - Len(s)]

Reconciles ==
    /\ call.cfg \in Configs /\ Rest(call.left, Plan(call.cfg))
    /\ call.cfg.domain =>
         /\ Len(call.left) <= 3 /\ call.cfg.retries => objects["Middleware"] # Absent
         /\ Len(call.left) <= 2 => objects["ServersTransport"] # Absent
         /\ Len(call.left) <= 1 => objects["Service"] = "routed"
    /\ ~call.cfg.domain =>
         /\ Len(call.left) <= 7 => objects["Ingress"] = Absent
         /\ Len(call.left) <= 2 => objects["Service"] # "routed"

Deletes ==
    /\ erased /\ Rest(call.left, Removal)
    /\ ~call.failed /\ Len(call.left) <= 6 => objects["Ingress"] = Absent
    /\ ~call.failed /\ Len(call.left) <= 4 => objects["Service"] = Absent

Routed ==
    /\ objects["Ingress"] # Absent => objects["Service"] = "routed"
    /\ objects["Service"] = "routed" => objects["ServersTransport"] # Absent

ResourcesInv ==
    /\ CallShape
    /\ call.op = "reconcile" => Reconciles
    /\ call.op = "delete" => Deletes
    /\ ~erased => Routed
    /\ volumes # NoDatabase => objects["Cluster"] \in {Absent, volumes}

\* The rest of a plan, after its next object.
LEMMA RestStep ==
    ASSUME NEW s, NEW p, Rest(s, p), s # << >>
    PROVE  /\ Rest(Tail(s), p) /\ Len(Tail(s)) = Len(s) - 1
           /\ Len(s) \in Nat /\ Len(s) >= 1 /\ Len(s) <= Len(p)
           /\ Head(s) \in Kinds /\ Head(s) = p[1 + Len(p) - Len(s)]
<1>1. s \in Seq(Kinds) /\ Len(s) \in Nat /\ Len(s) >= 1 /\ Len(s) <= Len(p)
  BY SMTT(30) DEF Rest
<1>2. Tail(s) \in Seq(Kinds) /\ Len(Tail(s)) = Len(s) - 1 /\ Head(s) = s[1] /\ Head(s) \in Kinds
  BY <1>1, SMTT(30)
<1>3. \A j \in 1 .. Len(Tail(s)) : Tail(s)[j] = s[j + 1]
  BY <1>1, <1>2, SMTT(30)
<1> QED
  BY <1>1, <1>2, <1>3, SMTT(30) DEF Rest

\* Where the objects of a route stand in the plan of a reconciliation.
LEMMA PlanOrder ==
    ASSUME NEW c \in Configs
    PROVE  /\ Plan(c) \in Seq(Kinds) /\ Len(Plan(c)) = 8
           /\ c.domain => \A j \in 1 .. 8 : /\ Plan(c)[j] = "Middleware" <=> j = 5
                                            /\ Plan(c)[j] = "ServersTransport" <=> j = 6
                                            /\ Plan(c)[j] = "Service" <=> j = 7
                                            /\ Plan(c)[j] = "Ingress" <=> j = 8
           /\ ~c.domain => \A j \in 1 .. 8 : /\ Plan(c)[j] = "Ingress" <=> j = 1
                                             /\ Plan(c)[j] = "Service" <=> j = 6
                                             /\ Plan(c)[j] = "Middleware" <=> j = 7
                                             /\ Plan(c)[j] = "ServersTransport" <=> j = 8
<1>1. CASE c.domain
  <2>1. /\ Plan(c) \in Seq(Kinds) /\ Len(Plan(c)) = 8
        /\ Plan(c)[1] = "NetworkPolicy" /\ Plan(c)[2] = "Cluster"
        /\ Plan(c)[3] = "Deployment" /\ Plan(c)[4] = "PodDisruptionBudget"
        /\ Plan(c)[5] = "Middleware" /\ Plan(c)[6] = "ServersTransport"
        /\ Plan(c)[7] = "Service" /\ Plan(c)[8] = "Ingress"
    BY <1>1, SMTT(30) DEF Plan, Kinds
  <2> QED
    BY <1>1, <2>1, SMTT(30)
<1>2. CASE ~c.domain
  <2>1. /\ Plan(c) \in Seq(Kinds) /\ Len(Plan(c)) = 8
        /\ Plan(c)[1] = "Ingress" /\ Plan(c)[2] = "NetworkPolicy"
        /\ Plan(c)[3] = "Cluster" /\ Plan(c)[4] = "Deployment"
        /\ Plan(c)[5] = "PodDisruptionBudget" /\ Plan(c)[6] = "Service"
        /\ Plan(c)[7] = "Middleware" /\ Plan(c)[8] = "ServersTransport"
    BY <1>2, SMTT(30) DEF Plan, Kinds
  <2> QED
    BY <1>2, <2>1, SMTT(30)
<1> QED
  BY <1>1, <1>2

\* Where they stand in the plan of a Delete, which has no Cluster.
LEMMA RemovalOrder ==
    /\ Removal \in Seq(Kinds) /\ Len(Removal) = 7
    /\ \A j \in 1 .. 7 : /\ Removal[j] = "Ingress" <=> j = 1
                         /\ Removal[j] = "Service" <=> j = 3
                         /\ Removal[j] # "Cluster"
<1>1. /\ Removal \in Seq(Kinds) /\ Len(Removal) = 7
      /\ Removal[1] = "Ingress" /\ Removal[2] = "NetworkPolicy"
      /\ Removal[3] = "Service" /\ Removal[4] = "Middleware"
      /\ Removal[5] = "ServersTransport" /\ Removal[6] = "Deployment"
      /\ Removal[7] = "PodDisruptionBudget"
  BY SMTT(30) DEF Removal, Kinds
<1> QED
  BY <1>1, SMTT(30)

\* The position in the plan decides which object is next.
LEMMA NextOfReconcile ==
    ASSUME CallShape, Reconciles, call.left # << >>
    PROVE  /\ Rest(Tail(call.left), Plan(call.cfg)) /\ Len(Tail(call.left)) = Len(call.left) - 1
           /\ Len(call.left) \in 1 .. 8 /\ Head(call.left) \in Kinds
           /\ call.cfg.domain =>
                /\ Head(call.left) = "Middleware" <=> Len(call.left) = 4
                /\ Head(call.left) = "ServersTransport" <=> Len(call.left) = 3
                /\ Head(call.left) = "Service" <=> Len(call.left) = 2
                /\ Head(call.left) = "Ingress" <=> Len(call.left) = 1
           /\ ~call.cfg.domain =>
                /\ Head(call.left) = "Ingress" <=> Len(call.left) = 8
                /\ Head(call.left) = "Service" <=> Len(call.left) = 3
                /\ Head(call.left) = "Middleware" <=> Len(call.left) = 2
                /\ Head(call.left) = "ServersTransport" <=> Len(call.left) = 1
<1>1. PICK s, p : s = call.left /\ p = Plan(call.cfg)
  OBVIOUS
<1>2. Rest(s, p) /\ s # << >> /\ call.cfg \in Configs
  BY <1>1 DEF Reconciles
<1>3. Len(p) = 8
  BY <1>1, <1>2, PlanOrder
<1>4. /\ Rest(Tail(s), p) /\ Len(Tail(s)) = Len(s) - 1 /\ Len(s) \in 1 .. 8
      /\ Head(s) \in Kinds /\ Head(s) = p[9 - Len(s)] /\ 9 - Len(s) \in 1 .. 8
  <2>1. /\ Rest(Tail(s), p) /\ Len(Tail(s)) = Len(s) - 1
        /\ Len(s) \in Nat /\ Len(s) >= 1 /\ Len(s) <= Len(p)
        /\ Head(s) \in Kinds /\ Head(s) = p[1 + Len(p) - Len(s)]
    BY <1>2, RestStep
  <2>2. PICK n : n = Len(s)
    OBVIOUS
  <2>3. n \in Nat /\ n >= 1 /\ n <= 8 /\ Head(s) = p[1 + 8 - n]
    BY <1>3, <2>1, <2>2
  <2>4. 1 + 8 - n = 9 - n /\ n \in 1 .. 8 /\ 9 - n \in 1 .. 8
    BY <2>3, SMTT(30)
  <2> QED
    BY <2>1, <2>2, <2>3, <2>4
<1>5. PICK n \in 1 .. 8 : n = Len(s)
  BY <1>4
<1>6. PICK j \in 1 .. 8 : j = 9 - n /\ Head(s) = p[j]
  BY <1>4, <1>5
<1>7. /\ (j = 5 <=> n = 4) /\ (j = 6 <=> n = 3) /\ (j = 7 <=> n = 2) /\ (j = 8 <=> n = 1)
      /\ (j = 1 <=> n = 8)
  BY <1>6, SMTT(30)
<1>8. PICK c \in Configs : c = call.cfg /\ p = Plan(c)
  BY <1>1, <1>2
<1>9. /\ c.domain => \A i \in 1 .. 8 : /\ Plan(c)[i] = "Middleware" <=> i = 5
                                       /\ Plan(c)[i] = "ServersTransport" <=> i = 6
                                       /\ Plan(c)[i] = "Service" <=> i = 7
                                       /\ Plan(c)[i] = "Ingress" <=> i = 8
      /\ ~c.domain => \A i \in 1 .. 8 : /\ Plan(c)[i] = "Ingress" <=> i = 1
                                        /\ Plan(c)[i] = "Service" <=> i = 6
                                        /\ Plan(c)[i] = "Middleware" <=> i = 7
                                        /\ Plan(c)[i] = "ServersTransport" <=> i = 8
  BY PlanOrder
<1>10. /\ c.domain => /\ p[j] = "Middleware" <=> j = 5
                      /\ p[j] = "ServersTransport" <=> j = 6
                      /\ p[j] = "Service" <=> j = 7
                      /\ p[j] = "Ingress" <=> j = 8
       /\ ~c.domain => /\ p[j] = "Ingress" <=> j = 1
                       /\ p[j] = "Service" <=> j = 6
                       /\ p[j] = "Middleware" <=> j = 7
                       /\ p[j] = "ServersTransport" <=> j = 8
  BY <1>8, <1>9
<1> QED
  BY <1>1, <1>4, <1>5, <1>6, <1>7, <1>8, <1>10

\* The same for a Delete.
LEMMA NextOfDelete ==
    ASSUME CallShape, Deletes, call.left # << >>
    PROVE  /\ Rest(Tail(call.left), Removal) /\ Len(Tail(call.left)) = Len(call.left) - 1
           /\ Len(call.left) \in 1 .. 7 /\ Head(call.left) \in Kinds
           /\ Head(call.left) = "Ingress" <=> Len(call.left) = 7
           /\ Head(call.left) = "Service" <=> Len(call.left) = 5
           /\ Head(call.left) # "Cluster"
<1>1. PICK s : s = call.left
  OBVIOUS
<1>2. Rest(s, Removal) /\ s # << >> /\ Len(Removal) = 7
  BY <1>1, RemovalOrder DEF Deletes
<1>3. /\ Rest(Tail(s), Removal) /\ Len(Tail(s)) = Len(s) - 1 /\ Len(s) \in 1 .. 7
      /\ Head(s) \in Kinds /\ Head(s) = Removal[8 - Len(s)] /\ 8 - Len(s) \in 1 .. 7
  <2>1. /\ Rest(Tail(s), Removal) /\ Len(Tail(s)) = Len(s) - 1
        /\ Len(s) \in Nat /\ Len(s) >= 1 /\ Len(s) <= Len(Removal)
        /\ Head(s) \in Kinds /\ Head(s) = Removal[1 + Len(Removal) - Len(s)]
    BY <1>2, RestStep
  <2>2. PICK n : n = Len(s)
    OBVIOUS
  <2>3. n \in Nat /\ n >= 1 /\ n <= 7 /\ Head(s) = Removal[1 + 7 - n]
    BY <1>2, <2>1, <2>2
  <2>4. 1 + 7 - n = 8 - n /\ n \in 1 .. 7 /\ 8 - n \in 1 .. 7
    BY <2>3, SMTT(30)
  <2> QED
    BY <2>1, <2>2, <2>3, <2>4
<1>4. PICK n \in 1 .. 7 : n = Len(s)
  BY <1>3
<1>5. Head(s) = Removal[8 - n] /\ 8 - n \in 1 .. 7
  BY <1>3, <1>4
<1>6. /\ Head(s) = "Ingress" <=> n = 7
      /\ Head(s) = "Service" <=> n = 5
      /\ Head(s) # "Cluster"
  BY <1>5, RemovalOrder, SMTT(30)
<1> QED
  BY <1>1, <1>3, <1>4, <1>6

\* A write changes one object.
LEMMA Written ==
    ASSUME CallShape, NEW k \in Kinds, NEW v, Becomes(k, v)
    PROVE  /\ objects'[k] = v /\ \A j \in Kinds \ {k} : objects'[j] = objects[j]
           /\ objects' = [j \in Kinds |-> objects'[j]]
BY DEF CallShape, Becomes

\* What a reconciliation writes of a route.
LEMMA RouteResults ==
    ASSUME call.op = "reconcile", call.cfg \in Configs
    PROVE  /\ \A v \in Results("Ingress") :
                /\ ~call.cfg.domain => v = Absent
                /\ call.cfg.domain => v # Absent
                /\ v = "retrying" => call.cfg.domain /\ call.cfg.retries
           /\ \A v \in Results("Middleware") :
                v = Absent <=> ~(call.cfg.domain /\ call.cfg.retries)
           /\ \A v \in Results("ServersTransport") : v = Absent <=> ~call.cfg.domain
           /\ \A v \in Results("Service") : v = IF call.cfg.domain THEN "routed" ELSE "plain"
<1>1. call.cfg.domain \in BOOLEAN /\ call.cfg.retries \in BOOLEAN
  BY ConfigAssumption
<1> DEFINE m == Manifests(call.cfg)
<1>2. /\ m["Ingress"] = IF ~call.cfg.domain THEN Absent
                        ELSE IF call.cfg.retries THEN "retrying" ELSE "direct"
      /\ m["Middleware"] = IF call.cfg.domain /\ call.cfg.retries THEN "retry" ELSE Absent
      /\ m["ServersTransport"] = IF call.cfg.domain THEN "dial" ELSE Absent
      /\ m["Service"] = IF call.cfg.domain THEN "routed" ELSE "plain"
  BY DEF Manifests, TrafficFor
<1> HIDE DEF m
<1>3. Results("Ingress") = {m["Ingress"]}
  BY <1>1, <1>2 DEF Results, Want, Keep, Absent, m
<1>4. Results("Middleware") = {m["Middleware"]}
  BY <1>1, <1>2 DEF Results, Want, Keep, Absent, m
<1>5. Results("ServersTransport") = {m["ServersTransport"]}
  BY <1>1, <1>2 DEF Results, Want, Keep, Absent, m
<1>6. Results("Service") = {m["Service"]}
  BY <1>1, <1>2 DEF Results, Want, Keep, Absent, m
<1> QED
  BY <1>1, <1>2, <1>3, <1>4, <1>5, <1>6 DEF Absent

KeepsDatabase ==
    /\ objects["Cluster"] # Absent =>
         objects'["Cluster"] = objects["Cluster"] \/ RemoveCluster
    /\ volumes # NoDatabase => objects'["Cluster"] \in {Absent, volumes}

KeepsRoute ==
    /\ objects["Ingress"] # "retrying" /\ objects'["Ingress"] = "retrying" =>
         objects["Middleware"] # Absent
    /\ ~erased /\ objects["Ingress"] = "retrying" /\ call.cfg.retries
         /\ objects["Middleware"] # Absent => objects'["Middleware"] # Absent

\* The object that is next is written, by whichever call runs.
WritesNext ==
    /\ Running /\ Admitted(Head(call.left))
    /\ \E v \in Results(Head(call.left)) : Becomes(Head(call.left), v)

\* A call writes over a Cluster only what is there, and creates one only where
\* no volumes are.
LEMMA DatabaseWritten ==
    ASSUME ResourcesInv, WritesNext
    PROVE  /\ objects["Cluster"] # Absent => objects'["Cluster"] = objects["Cluster"]
           /\ volumes # NoDatabase => objects'["Cluster"] \in {Absent, volumes}
<1>1. PICK k, v : k = Head(call.left) /\ Admitted(k) /\ v \in Results(k) /\ Becomes(k, v)
  BY DEF WritesNext
<1>2. call.op \in {"reconcile", "delete"} /\ call.left # << >>
  BY DEF WritesNext, Running, ResourcesInv, CallShape
<1>3. k \in Kinds /\ (k = "Cluster" => call.op = "reconcile")
  BY <1>1, <1>2, NextOfReconcile, NextOfDelete DEF ResourcesInv
<1>4. CASE k # "Cluster"
  BY <1>1, <1>3, <1>4, Written DEF ResourcesInv, Kinds
<1>5. CASE k = "Cluster" /\ Want(k) = Keep
  BY <1>1, <1>3, <1>5, Written DEF ResourcesInv, Results
<1>6. CASE k = "Cluster" /\ Want(k) # Keep
  <2>1. objects'["Cluster"] = v /\ v = Want(k)
    BY <1>1, <1>3, <1>6, Written DEF ResourcesInv, Results
  <2>2. PostgresAdmitted(v)
    BY <1>1, <1>6, <2>1 DEF Admitted
  <2> QED
    BY <2>1, <2>2 DEF PostgresAdmitted, GeneratedResourcesAvailable, ValidUpdate, ResourcesInv
<1> QED
  BY <1>4, <1>5, <1>6

\* The route while a reconciliation writes it: in the order of the plan.
LEMMA RouteWritten ==
    ASSUME ResourcesInv, WritesNext, call.op = "reconcile"
    PROVE  /\ call.cfg.domain =>
                /\ Len(call.left) <= 4 /\ call.cfg.retries => objects'["Middleware"] # Absent
                /\ Len(call.left) <= 3 => objects'["ServersTransport"] # Absent
                /\ Len(call.left) <= 2 => objects'["Service"] = "routed"
           /\ ~call.cfg.domain =>
                /\ Len(call.left) <= 8 => objects'["Ingress"] = Absent
                /\ Len(call.left) <= 3 => objects'["Service"] # "routed"
           /\ ~erased => Routed'
           /\ KeepsRoute
           /\ objects' = [j \in Kinds |-> objects'[j]]
<1>1. PICK k, v : k = Head(call.left) /\ v \in Results(k) /\ Becomes(k, v)
  BY DEF WritesNext
<1>2. call.left # << >> /\ CallShape /\ Reconciles /\ call.cfg \in Configs
  BY DEF WritesNext, Running, ResourcesInv, Reconciles
<1>3. PICK n : n = Len(call.left)
  OBVIOUS
<1>4. /\ n \in 1 .. 8 /\ k \in Kinds
      /\ call.cfg.domain => /\ k = "Middleware" <=> n = 4
                            /\ k = "ServersTransport" <=> n = 3
                            /\ k = "Service" <=> n = 2
                            /\ k = "Ingress" <=> n = 1
      /\ ~call.cfg.domain => /\ k = "Ingress" <=> n = 8
                             /\ k = "Service" <=> n = 3
                             /\ k = "Middleware" <=> n = 2
                             /\ k = "ServersTransport" <=> n = 1
  BY <1>1, <1>2, <1>3, NextOfReconcile
<1>5. /\ objects'[k] = v /\ \A j \in Kinds \ {k} : objects'[j] = objects[j]
      /\ objects' = [j \in Kinds |-> objects'[j]]
  BY <1>1, <1>2, <1>4, Written
<1>6. /\ call.cfg.domain => /\ n <= 3 /\ call.cfg.retries => objects["Middleware"] # Absent
                            /\ n <= 2 => objects["ServersTransport"] # Absent
                            /\ n <= 1 => objects["Service"] = "routed"
      /\ ~call.cfg.domain => /\ n <= 7 => objects["Ingress"] = Absent
                             /\ n <= 2 => objects["Service"] # "routed"
      /\ ~erased => Routed
  BY <1>2, <1>3 DEF Reconciles, ResourcesInv
<1>7. call.cfg.domain \in BOOLEAN /\ call.cfg.retries \in BOOLEAN
  BY <1>2, ConfigAssumption
<1>8. /\ k # "Ingress" => objects'["Ingress"] = objects["Ingress"]
      /\ k # "Middleware" => objects'["Middleware"] = objects["Middleware"]
      /\ k # "ServersTransport" => objects'["ServersTransport"] = objects["ServersTransport"]
      /\ k # "Service" => objects'["Service"] = objects["Service"]
  BY <1>5 DEF Kinds
<1>9. k = "Ingress" => /\ ~call.cfg.domain => objects'["Ingress"] = Absent
                       /\ call.cfg.domain => objects'["Ingress"] # Absent
                       /\ objects'["Ingress"] = "retrying" => call.cfg.domain /\ call.cfg.retries
  BY <1>1, <1>2, <1>5, RouteResults
<1>10. k = "Middleware" => (objects'["Middleware"] = Absent <=> ~(call.cfg.domain /\ call.cfg.retries))
  BY <1>1, <1>2, <1>5, RouteResults
<1>11. k = "ServersTransport" => (objects'["ServersTransport"] = Absent <=> ~call.cfg.domain)
  BY <1>1, <1>2, <1>5, RouteResults
<1>12. k = "Service" => /\ call.cfg.domain => objects'["Service"] = "routed"
                        /\ ~call.cfg.domain => objects'["Service"] = "plain"
  BY <1>1, <1>2, <1>5, RouteResults
<1>13. /\ call.cfg.domain =>
            /\ n <= 4 /\ call.cfg.retries => objects'["Middleware"] # Absent
            /\ n <= 3 => objects'["ServersTransport"] # Absent
            /\ n <= 2 => objects'["Service"] = "routed"
       /\ ~call.cfg.domain =>
            /\ n <= 8 => objects'["Ingress"] = Absent
            /\ n <= 3 => objects'["Service"] # "routed"
  BY ONLY <1>4, <1>6, <1>7, <1>8, <1>9, <1>10, <1>11, <1>12
<1>14. ~erased => Routed'
  BY ONLY <1>4, <1>6, <1>7, <1>8, <1>9, <1>10, <1>11, <1>12, <1>13 DEF Routed
<1>15. KeepsRoute
  BY ONLY <1>4, <1>6, <1>7, <1>8, <1>9, <1>10, <1>11, <1>12 DEF KeepsRoute, Absent
<1> QED
  BY <1>3, <1>5, <1>13, <1>14, <1>15

\* A Delete takes the route away from its outer end.
LEMMA RouteRemoved ==
    ASSUME ResourcesInv, WritesNext, call.op = "delete"
    PROVE  /\ ~call.failed /\ Len(call.left) <= 7 => objects'["Ingress"] = Absent
           /\ ~call.failed /\ Len(call.left) <= 5 => objects'["Service"] = Absent
           /\ KeepsRoute
           /\ objects' = [j \in Kinds |-> objects'[j]]
<1>1. PICK k, v : k = Head(call.left) /\ v \in Results(k) /\ Becomes(k, v)
  BY DEF WritesNext
<1>2. call.left # << >> /\ CallShape /\ Deletes
  BY DEF WritesNext, Running, ResourcesInv
<1>3. PICK n : n = Len(call.left)
  OBVIOUS
<1>4. n \in 1 .. 7 /\ k \in Kinds /\ (k = "Ingress" <=> n = 7) /\ (k = "Service" <=> n = 5)
  BY <1>1, <1>2, <1>3, NextOfDelete
<1>5. /\ objects'[k] = v /\ \A j \in Kinds \ {k} : objects'[j] = objects[j]
      /\ objects' = [j \in Kinds |-> objects'[j]]
  BY <1>1, <1>2, <1>4, Written
<1>6. k \in {"Ingress", "Service"} => v = Absent
  BY <1>1 DEF Results, Want, Keep, Absent
<1>7. /\ ~call.failed /\ n <= 6 => objects["Ingress"] = Absent
      /\ ~call.failed /\ n <= 4 => objects["Service"] = Absent
      /\ erased
  BY <1>2, <1>3 DEF Deletes
<1>8. /\ k # "Ingress" => objects'["Ingress"] = objects["Ingress"]
      /\ k # "Service" => objects'["Service"] = objects["Service"]
  BY <1>5 DEF Kinds
<1>9. KeepsRoute
  BY ONLY <1>5, <1>6, <1>7, <1>8 DEF KeepsRoute, Absent
<1>10. /\ ~call.failed /\ n <= 7 => objects'["Ingress"] = Absent
       /\ ~call.failed /\ n <= 5 => objects'["Service"] = Absent
  BY ONLY <1>4, <1>5, <1>6, <1>7, <1>8
<1> QED
  BY <1>3, <1>5, <1>9, <1>10

\* Advance moves on in the plan and nothing else.
LEMMA CallAdvances ==
    ASSUME CallShape, Advance
    PROVE  /\ call' = [op |-> call'.op, cfg |-> call'.cfg, left |-> call'.left, failed |-> call'.failed]
           /\ call'.op = call.op /\ call'.cfg = call.cfg
           /\ call'.left = Tail(call.left) /\ call'.failed = call.failed
BY DEF CallShape, Advance

\* A failure ends the call, or is remembered while the rest is tried.
LEMMA CallFails ==
    ASSUME CallShape, NEW k, FailAt(k)
    PROVE  /\ call' = [op |-> call'.op, cfg |-> call'.cfg, left |-> call'.left, failed |-> call'.failed]
           /\ call'.failed \in BOOLEAN
           /\ \/ TriesTheRest(k) /\ call'.op = call.op /\ call'.cfg = call.cfg
                                /\ call'.left = Tail(call.left) /\ call'.failed
              \/ ~TriesTheRest(k) /\ call'.op = "none"
BY DEF CallShape, FailAt

\* A call that writes its next object keeps the invariant.
LEMMA AfterWrite ==
    ASSUME ResourcesInv, WritesNext, Advance, UNCHANGED << volumes, erased >>
    PROVE  ResourcesInv'
<1>1. /\ call' = [op |-> call'.op, cfg |-> call'.cfg, left |-> call'.left, failed |-> call'.failed]
      /\ call'.op = call.op /\ call'.cfg = call.cfg
      /\ call'.left = Tail(call.left) /\ call'.failed = call.failed
  BY CallAdvances DEF ResourcesInv
<1>2. call.left # << >> /\ call.op \in {"reconcile", "delete"} /\ CallShape
  BY DEF WritesNext, Running, ResourcesInv, CallShape
<1>3. (volumes # NoDatabase => objects["Cluster"] \in {Absent, volumes})'
  BY DatabaseWritten
<1>4. CASE call.op = "reconcile"
  <2>1. Reconciles
    BY <1>4 DEF ResourcesInv
  <2>2. CallShape'
    BY <1>1, <1>2, <1>4, RouteWritten DEF CallShape
  <2>3. PICK n : n = Len(call.left)
    OBVIOUS
  <2>4. n \in 1 .. 8 /\ Rest(call'.left, Plan(call'.cfg)) /\ Len(call'.left) = n - 1
    BY <1>1, <1>2, <2>1, <2>3, NextOfReconcile
  <2>5. /\ call.cfg.domain =>
             /\ n <= 4 /\ call.cfg.retries => objects'["Middleware"] # Absent
             /\ n <= 3 => objects'["ServersTransport"] # Absent
             /\ n <= 2 => objects'["Service"] = "routed"
        /\ ~call.cfg.domain =>
             /\ n <= 8 => objects'["Ingress"] = Absent
             /\ n <= 3 => objects'["Service"] # "routed"
        /\ ~erased => Routed'
    BY <1>4, <2>3, RouteWritten
  <2>6. call'.cfg \in Configs
    BY <1>1, <2>1 DEF Reconciles
  <2>7. Reconciles'
    BY <1>1, <2>4, <2>5, <2>6, SMTT(30) DEF Reconciles
  <2> QED
    BY <1>1, <1>3, <1>4, <2>2, <2>5, <2>7 DEF ResourcesInv
<1>5. CASE call.op = "delete"
  <2>1. Deletes
    BY <1>5 DEF ResourcesInv
  <2>2. CallShape'
    BY <1>1, <1>2, <1>5, RouteRemoved DEF CallShape
  <2>3. PICK n : n = Len(call.left)
    OBVIOUS
  <2>4. n \in 1 .. 7 /\ Rest(call'.left, Removal) /\ Len(call'.left) = n - 1
    BY <1>1, <1>2, <2>1, <2>3, NextOfDelete
  <2>5. /\ ~call.failed /\ n <= 7 => objects'["Ingress"] = Absent
        /\ ~call.failed /\ n <= 5 => objects'["Service"] = Absent
    BY <1>5, <2>3, RouteRemoved
  <2>6. erased'
    BY <2>1 DEF Deletes
  <2>7. Deletes'
    BY <1>1, <2>4, <2>5, <2>6, SMTT(30) DEF Deletes
  <2> QED
    BY <1>1, <1>3, <1>5, <2>2, <2>6, <2>7 DEF ResourcesInv
<1> QED
  BY <1>2, <1>4, <1>5

\* A call that fails at its next object, whether or not that was written.
LEMMA AfterFailure ==
    ASSUME ResourcesInv, Running, WritesNext \/ UNCHANGED objects,
           NEW k, k = Head(call.left), FailAt(k), UNCHANGED << volumes, erased >>
    PROVE  ResourcesInv'
<1>1. /\ call' = [op |-> call'.op, cfg |-> call'.cfg, left |-> call'.left, failed |-> call'.failed]
      /\ call'.failed \in BOOLEAN
      /\ \/ TriesTheRest(k) /\ call'.op = call.op /\ call'.cfg = call.cfg
                           /\ call'.left = Tail(call.left) /\ call'.failed
         \/ ~TriesTheRest(k) /\ call'.op = "none"
  BY CallFails DEF ResourcesInv
<1>2. call.left # << >> /\ call.op \in {"reconcile", "delete"} /\ CallShape
  BY DEF Running, ResourcesInv, CallShape
<1>3. (volumes # NoDatabase => objects["Cluster"] \in {Absent, volumes})'
  <2>1. CASE WritesNext
    BY <2>1, DatabaseWritten
  <2>2. CASE UNCHANGED objects
    BY <2>2 DEF ResourcesInv
  <2> QED
    BY <2>1, <2>2
<1>4. objects' = [j \in Kinds |-> objects'[j]] /\ (~erased => Routed')
  <2>1. CASE WritesNext /\ call.op = "reconcile"
    BY <2>1, RouteWritten
  <2>2. CASE WritesNext /\ call.op = "delete"
    BY <2>2, RouteRemoved DEF ResourcesInv, Deletes
  <2>3. CASE UNCHANGED objects
    BY <2>3 DEF ResourcesInv, CallShape, Routed
  <2> QED
    BY <1>2, <2>1, <2>2, <2>3
<1>5. CallShape'
  BY <1>1, <1>2, <1>4 DEF CallShape
<1>6. CASE ~TriesTheRest(k)
  BY <1>1, <1>3, <1>4, <1>5, <1>6 DEF ResourcesInv
<1>7. CASE call.op = "delete"
  <2>1. Deletes
    BY <1>7 DEF ResourcesInv
  <2>2. Rest(call'.left, Removal) /\ call'.failed /\ call'.op = "delete"
    BY <1>1, <1>2, <1>7, <2>1, NextOfDelete DEF TriesTheRest
  <2>3. Deletes'
    BY <2>1, <2>2 DEF Deletes
  <2> QED
    BY <1>3, <1>5, <2>2, <2>3 DEF ResourcesInv, Deletes
<1>8. CASE call.op = "reconcile" /\ TriesTheRest(k)
  <2>1. Reconciles /\ k = "Middleware" /\ ~call.cfg.domain
    BY <1>8 DEF ResourcesInv, TriesTheRest
  <2>2. call'.op = "reconcile" /\ call'.cfg = call.cfg /\ call'.left = Tail(call.left)
    BY <1>1, <1>8
  <2>3. Len(call.left) = 2 /\ Rest(call'.left, Plan(call'.cfg)) /\ Len(call'.left) = 1
    BY <1>2, <2>1, <2>2, NextOfReconcile, SMTT(30)
  <2>4. objects'["Ingress"] = Absent /\ objects'["Service"] # "routed"
    <3>1. CASE WritesNext
      BY <1>8, <2>1, <2>3, <3>1, RouteWritten, SMTT(30)
    <3>2. CASE UNCHANGED objects
      BY <2>1, <2>3, <3>2, SMTT(30) DEF Reconciles
    <3> QED
      BY <3>1, <3>2
  <2>5. Reconciles'
    BY <2>1, <2>2, <2>3, <2>4 DEF Reconciles
  <2> QED
    BY <1>3, <1>4, <1>5, <2>2, <2>5 DEF ResourcesInv
<1> QED
  BY <1>2, <1>6, <1>7, <1>8

\* A migration that is pending has written the Deployment, or nothing.
LEMMA MigrationWrites ==
    ASSUME ResourcesInv, MigrationPending
    PROVE  (WritesNext \/ UNCHANGED objects) /\ Head(call.left) = "Deployment"
<1>1. PICK v \in {objects["Deployment"], Want("Deployment")} : Becomes("Deployment", v)
  BY DEF MigrationPending
<1>2. CASE v = objects["Deployment"]
  <2>1. objects = [j \in Kinds |-> objects[j]] /\ objects' = [objects EXCEPT !["Deployment"] = objects["Deployment"]]
    BY <1>1, <1>2 DEF ResourcesInv, CallShape, Becomes
  <2>2. objects' = objects
    BY ONLY <2>1
  <2> QED
    BY <2>2 DEF MigrationPending
<1>3. CASE v = Want("Deployment")
  <2>1. Want("Deployment") = WorkloadFor(call.cfg)
    BY DEF MigrationPending, Want, Manifests
  <2>2. v \in Results("Deployment")
    BY <1>3, <2>1 DEF Results, WorkloadFor, Keep, MigrationPending
  <2> QED
    BY <1>1, <2>2 DEF MigrationPending, WritesNext, Admitted
<1> QED
  BY <1>1, <1>2, <1>3

\* The invariant holds at the start.
LEMMA ResourcesInvInit == RuntimeInit => ResourcesInv
<1> SUFFICES ASSUME RuntimeInit
             PROVE  ResourcesInv
  OBVIOUS
<1>1. PICK c \in Configs : call = [op |-> "none", cfg |-> c, left |-> << >>, failed |-> FALSE]
  BY DEF RuntimeInit
<1>2. /\ call = [op |-> call.op, cfg |-> call.cfg, left |-> call.left, failed |-> call.failed]
      /\ call.op = "none" /\ call.failed = FALSE
  BY <1>1
<1>3. erased = FALSE /\ volumes = NoDatabase /\ objects = [k \in Kinds |-> Absent]
  BY DEF RuntimeInit
<1>4. /\ objects["Ingress"] = Absent /\ objects["Service"] = Absent
      /\ objects = [k \in Kinds |-> objects[k]]
  BY <1>3 DEF Kinds
<1>5. CallShape
  BY <1>2, <1>3, <1>4 DEF CallShape
<1> QED
  BY <1>2, <1>3, <1>4, <1>5 DEF ResourcesInv, Routed, Absent

\* Every step keeps it.
LEMMA ResourcesInvNext == ResourcesInv /\ [RuntimeNext]_runtimeVars => ResourcesInv'
<1> SUFFICES ASSUME ResourcesInv, [RuntimeNext]_runtimeVars
             PROVE  ResourcesInv'
  OBVIOUS
<1>1. ASSUME NEW c \in Configs, StartReconcile(c) PROVE ResourcesInv'
  <2>1. /\ call' = [op |-> "reconcile", cfg |-> c, left |-> Plan(c), failed |-> FALSE]
        /\ UNCHANGED << objects, volumes, erased >>
    BY <1>1 DEF StartReconcile
  <2>2. Plan(c) \in Seq(Kinds) /\ Len(Plan(c)) = 8
    BY PlanOrder
  <2>3. call'.op = "reconcile" /\ call'.cfg = c /\ call'.left = Plan(c) /\ call'.failed = FALSE
    BY <2>1
  <2>4. Rest(Plan(c), Plan(c))
    BY <2>2, SMTT(30) DEF Rest
  <2>5. Reconciles'
    <3>1. Rest(call'.left, Plan(call'.cfg)) /\ Len(call'.left) = 8
      BY <2>2, <2>3, <2>4
    <3>2. ~(Len(call'.left) <= 3) /\ ~(Len(call'.left) <= 2) /\ ~(Len(call'.left) <= 1)
          /\ ~(Len(call'.left) <= 7)
      BY <3>1, SMTT(30)
    <3> QED
      BY <2>3, <3>1, <3>2 DEF Reconciles
  <2>6. CallShape'
    BY <2>1, <2>3 DEF ResourcesInv, CallShape
  <2> QED
    BY <2>1, <2>3, <2>5, <2>6 DEF ResourcesInv, Routed
<1>2. CASE StartRemoval
  <2>1. /\ call' = [call EXCEPT !.op = "delete", !.left = Removal, !.failed = FALSE]
        /\ erased' = TRUE /\ UNCHANGED << objects, volumes >>
    BY <1>2 DEF StartRemoval
  <2>2. Removal \in Seq(Kinds) /\ Len(Removal) = 7
    BY RemovalOrder
  <2>3. /\ call' = [op |-> call'.op, cfg |-> call'.cfg, left |-> call'.left, failed |-> call'.failed]
        /\ call'.op = "delete" /\ call'.left = Removal /\ call'.failed = FALSE
    BY <2>1 DEF ResourcesInv, CallShape
  <2>4. Rest(Removal, Removal)
    BY <2>2, SMTT(30) DEF Rest
  <2>5. Deletes'
    <3>1. Rest(call'.left, Removal) /\ Len(call'.left) = 7
      BY <2>2, <2>3, <2>4
    <3>2. ~(Len(call'.left) <= 6) /\ ~(Len(call'.left) <= 4)
      BY <3>1, SMTT(30)
    <3> QED
      BY <2>1, <3>1, <3>2 DEF Deletes
  <2>6. CallShape'
    BY <2>1, <2>3 DEF ResourcesInv, CallShape
  <2> QED
    BY <2>1, <2>3, <2>5, <2>6 DEF ResourcesInv
<1>3. CASE Write
  BY <1>3, AfterWrite DEF Write, WritesNext
<1>4. CASE Refused
  BY <1>4, AfterFailure DEF Refused
<1>5. CASE Unanswered
  <2>1. WritesNext /\ FailAt(Head(call.left)) /\ Running /\ UNCHANGED << volumes, erased >>
    BY <1>5 DEF Unanswered, WritesNext
  <2> QED
    BY <2>1, AfterFailure
<1>6. CASE MigrationPending
  <2>1. (WritesNext \/ UNCHANGED objects) /\ Head(call.left) = "Deployment"
    BY <1>6, MigrationWrites
  <2>2. Running /\ FailAt(Head(call.left)) /\ UNCHANGED << volumes, erased >>
    BY <1>6, <2>1 DEF MigrationPending
  <2> QED
    BY <2>1, <2>2, AfterFailure
<1>7. CASE Return
  <2>1. /\ call' = [call EXCEPT !.op = "none"] /\ erased' = (erased /\ call.failed)
        /\ UNCHANGED << objects, volumes >> /\ call.op # "none" /\ call.left = << >>
    BY <1>7 DEF Return
  <2>2. CallShape' /\ call'.op = "none"
    BY <2>1 DEF ResourcesInv, CallShape
  <2>3. ~erased' => Routed'
    <3>1. Len(call.left) = 0
      BY <2>1, SMTT(30)
    <3>2. CASE ~erased
      BY <2>1, <3>2 DEF ResourcesInv, Routed
    <3>3. CASE call.op = "reconcile" /\ erased
      <4>1. Reconciles
        BY <3>3 DEF ResourcesInv
      <4>2. CASE call.cfg.domain
        BY <2>1, <3>1, <4>1, <4>2, SMTT(30) DEF Reconciles, Routed
      <4>3. CASE ~call.cfg.domain
        BY <2>1, <3>1, <4>1, <4>3, SMTT(30) DEF Reconciles, Routed
      <4> QED
        BY <4>2, <4>3
    <3>4. CASE call.op = "delete"
      <4>1. /\ erased /\ call.failed \in BOOLEAN
            /\ ~call.failed => objects["Ingress"] = Absent /\ objects["Service"] = Absent
        BY <3>1, <3>4, SMTT(30) DEF ResourcesInv, Deletes, CallShape
      <4>2. objects'["Ingress"] = objects["Ingress"] /\ objects'["Service"] = objects["Service"]
        BY <2>1
      <4> QED
        BY ONLY <2>1, <4>1, <4>2 DEF Routed, Absent
    <3> QED
      BY <2>1, <3>2, <3>3, <3>4 DEF ResourcesInv, CallShape
  <2> QED
    BY <2>1, <2>2, <2>3 DEF ResourcesInv
<1>8. CASE Stop
  <2>1. /\ call' = [call EXCEPT !.op = "none", !.left = << >>]
        /\ UNCHANGED << objects, volumes, erased >>
    BY <1>8 DEF Stop
  <2>2. CallShape' /\ call'.op = "none"
    BY <2>1 DEF ResourcesInv, CallShape
  <2> QED
    BY <2>1, <2>2 DEF ResourcesInv, Routed
<1>9. CASE Provision
  BY <1>9 DEF Provision, ResourcesInv, CallShape, Reconciles, Deletes, Routed
<1>10. CASE RemoveCluster
  <2>1. Becomes("Cluster", Absent) /\ UNCHANGED << volumes, call, erased >> /\ CallShape
    BY <1>10 DEF RemoveCluster, ResourcesInv
  <2>2. "Cluster" \in Kinds
    BY DEF Kinds
  <2>3. /\ objects'["Cluster"] = Absent /\ \A j \in Kinds \ {"Cluster"} : objects'[j] = objects[j]
        /\ objects' = [j \in Kinds |-> objects'[j]]
    BY <2>1, <2>2, Written
  <2>4. /\ objects'["Ingress"] = objects["Ingress"] /\ objects'["Service"] = objects["Service"]
        /\ objects'["Middleware"] = objects["Middleware"]
        /\ objects'["ServersTransport"] = objects["ServersTransport"]
    BY <2>3 DEF Kinds
  <2>5. CallShape'
    BY <2>1, <2>3 DEF CallShape
  <2>6. (Reconciles <=> Reconciles') /\ (Deletes <=> Deletes') /\ (Routed <=> Routed')
    BY <2>1, <2>4 DEF Reconciles, Deletes, Routed
  <2> QED
    BY <2>1, <2>3, <2>5, <2>6 DEF ResourcesInv
<1>11. CASE RemoveVolumes
  BY <1>11 DEF RemoveVolumes, ResourcesInv, CallShape, Reconciles, Deletes, Routed
<1>12. CASE UNCHANGED runtimeVars
  BY <1>12 DEF runtimeVars, ResourcesInv, CallShape, Reconciles, Deletes, Routed
<1> QED
  BY <1>1, <1>2, <1>3, <1>4, <1>5, <1>6, <1>7, <1>8, <1>9, <1>10, <1>11, <1>12 DEF RuntimeNext

\* Which steps write at all, and how.
LEMMA StepsWrite ==
    ASSUME ResourcesInv, [RuntimeNext]_runtimeVars
    PROVE  WritesNext \/ UNCHANGED objects \/ RemoveCluster
<1>1. CASE MigrationPending
  BY <1>1, MigrationWrites
<1> QED
  BY <1>1 DEF RuntimeNext, runtimeVars, StartReconcile, StartRemoval, Write, Refused, Unanswered,
              Return, Stop, Provision, RemoveVolumes, WritesNext

\* A database outlives every call: whatever the configs are, no call removes or
\* replaces a Cluster, or creates one over the volumes of another.
THEOREM DatabaseAlwaysRetained == RuntimeSpec => DatabaseRetained
<1>1. ResourcesInv /\ [RuntimeNext]_runtimeVars => [KeepsDatabase]_runtimeVars
  <2> SUFFICES ASSUME ResourcesInv, [RuntimeNext]_runtimeVars
               PROVE  KeepsDatabase
    OBVIOUS
  <2>1. CASE WritesNext
    BY <2>1, DatabaseWritten DEF KeepsDatabase
  <2>2. CASE UNCHANGED objects
    BY <2>2 DEF KeepsDatabase, ResourcesInv
  <2>3. CASE RemoveCluster
    <3>1. "Cluster" \in Kinds
      BY DEF Kinds
    <3>2. objects'["Cluster"] = Absent
      BY <2>3, <3>1, Written DEF RemoveCluster, ResourcesInv
    <3> QED
      BY <2>3, <3>2 DEF KeepsDatabase
  <2> QED
    BY <2>1, <2>2, <2>3, StepsWrite
<1> QED
  BY <1>1, ResourcesInvInit, ResourcesInvNext, PTL DEF RuntimeSpec, DatabaseRetained, KeepsDatabase

\* What a route names exists, whichever write of a call fails, until a Delete
\* begins.
THEOREM RouteAlwaysIntact == RuntimeSpec => RouteIntact
<1>1. ResourcesInv /\ [RuntimeNext]_runtimeVars => [KeepsRoute]_runtimeVars
  <2> SUFFICES ASSUME ResourcesInv, [RuntimeNext]_runtimeVars
               PROVE  KeepsRoute
    OBVIOUS
  <2>1. CASE WritesNext
    BY <2>1, RouteWritten, RouteRemoved DEF WritesNext, Running, ResourcesInv, CallShape
  <2>2. CASE UNCHANGED objects
    BY <2>2 DEF KeepsRoute
  <2>3. CASE RemoveCluster
    <3>1. "Cluster" \in Kinds /\ "Ingress" \in Kinds \ {"Cluster"} /\ "Middleware" \in Kinds \ {"Cluster"}
      BY DEF Kinds
    <3>2. objects'["Ingress"] = objects["Ingress"] /\ objects'["Middleware"] = objects["Middleware"]
      BY <2>3, <3>1, Written DEF RemoveCluster, ResourcesInv
    <3> QED
      BY <3>2 DEF KeepsRoute
  <2> QED
    BY <2>1, <2>2, <2>3, StepsWrite
<1>2. ResourcesInv => (~erased => Routed)
  BY DEF ResourcesInv
<1> QED
  BY <1>1, <1>2, ResourcesInvInit, ResourcesInvNext, PTL DEF RuntimeSpec, RouteIntact, KeepsRoute, Routed
=============================================================================
