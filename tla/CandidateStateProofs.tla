------------------------ MODULE CandidateStateProofs ------------------------
(* What candidate deployments keep in the journal and in the cluster.         *)
(*                                                                            *)
(* The first part is about CandidateJournal alone: IInv is the invariant of   *)
(* its tables, whoever calls the transactions.                                *)
(*                                                                            *)
(* The second is about CandidateOperation: which workload the Service of an   *)
(* application selects, which workloads run, and what the delayed writes can  *)
(* still change.  OpInv is the invariant of the coordinator's calls,          *)
(* ClusterInv the one of the cluster.  The lemmas here show that the calls'   *)
(* steps on the cluster and the arrival of delayed writes keep ClusterInv     *)
(* when they keep OpInv; CandidateOperationProofs shows that every step keeps *)
(* OpInv, and has the transactions.  ClusterInv is stated per application,    *)
(* since a step of one application's call reads and writes only that          *)
(* application's rows, Service, workloads and Ingress.                        *)
EXTENDS CandidateOperation, TLAPS

USE ZenonT(30)

-----------------------------------------------------------------------------
(* The journal *)

(* deployment_requests_one_pending: the index, kept by beginCandidate. *)
OnePending ==
    \A r, s \in Requests :
        state[r] = "pending" /\ state[s] = "pending" /\ AppOf[r] = AppOf[s] => r = s

(* A bound request has an application row, hidden or not. *)
RowExists == \A r \in Requests : state[r] # "absent" => desired[AppOf[r]] # NoConfig

(* DeleteApp holds the lock, so no request opens while it runs. *)
NoneOpenWhileDeleting == \A r \in Requests : state[r] = "pending" => AppOf[r] \notin deleting

(* Only an activated checkpoint can be finalized as applied. *)
AppliedActivated == \A r \in Requests : state[r] = "applied" => stage[r] = "activated"

IInv ==
    /\ TypeOK
    /\ OnePending
    /\ RowExists
    /\ NoneOpenWhileDeleting
    /\ AppliedActivated
    /\ PredecessorPreserved
    /\ DomainHeld
    /\ RoutesMatchRows

(* Every configuration's domain is a domain. *)
LEMMA DomainType == NoDomain \in Domains /\ \A c \in Configs : c.domain \in Domains
  BY DEF Domains

(* An empty journal over already deployed applications satisfies the invariant. *)
LEMMA InitIInv == Init => IInv
<1> SUFFICES ASSUME Init PROVE IInv
  OBVIOUS
<1>1. TypeOK
  BY JournalAssumption, DomainType DEF Init, TypeOK, Terminal, Stages, NoReply
<1>2. OnePending /\ RowExists /\ NoneOpenWhileDeleting /\ AppliedActivated /\ PredecessorPreserved /\ DomainHeld
  BY DEF Init, OnePending, RowExists, NoneOpenWhileDeleting, AppliedActivated, PredecessorPreserved, DomainHeld, ClaimsDomain
<1>3. RoutesMatchRows
  BY DEF Init, RoutesMatchRows
<1> QED
  BY <1>1, <1>2, <1>3 DEF IInv

(* beginCandidate, with or without a withdrawal, preserves the invariant. *)
LEMMA BeginIInv ==
    ASSUME IInv, NEW r \in Requests, NEW c \in Configs, NEW w \in BOOLEAN,
           AppOf[r] \notin deleting, UNCHANGED deleting, BeginCandidate(r, c, w)
    PROVE  IInv'
<1> USE DEF IInv
<1> DEFINE a == AppOf[r]
<1>0. a \in Apps
  BY JournalAssumption
<1>1. /\ state[r] = "absent" /\ state' = [state EXCEPT ![r] = "pending"]
      /\ requested' = [requested EXCEPT ![r] = c]
      /\ previous' = [previous EXCEPT ![r] = PreviousOf(a)]
      /\ desired' = [desired EXCEPT ![a] = IF @ = NoConfig THEN c ELSE @]
      /\ deployment' = [deployment EXCEPT ![r] = "pending"]
      /\ withdrawals' = IF w THEN withdrawals \cup {r} ELSE withdrawals
      /\ UNCHANGED <<reply, stage, intent, gate, live, route>>
  BY DEF BeginCandidate, checkpointVars
<1>2. \A s \in Requests : state[s] = "pending" => AppOf[s] # a
  BY DEF BeginCandidate, Pending
<1>3. PreviousOf(a) \in Configs \cup {NoConfig}
  BY <1>0 DEF PreviousOf, TypeOK
<1>4. TypeOK'
  BY <1>0, <1>1, <1>3, JournalAssumption, SMTT(30) DEF TypeOK, Terminal, Stages
<1>5. OnePending'
  BY <1>1, <1>2, SMTT(30) DEF OnePending, TypeOK
<1>6. RowExists' /\ NoneOpenWhileDeleting' /\ AppliedActivated'
  BY <1>0, <1>1, JournalAssumption, SMTT(30) DEF RowExists, NoneOpenWhileDeleting, AppliedActivated, TypeOK
<1>7. \A b \in Apps : PreviousOf(b)' = PreviousOf(b)
  BY <1>0, <1>1, SMTT(30) DEF PreviousOf, TypeOK
<1>8. PredecessorPreserved'
  BY <1>0, <1>1, <1>7, JournalAssumption, ZenonT(40) DEF PredecessorPreserved, TypeOK
<1>9. RoutesMatchRows'
  BY <1>0, <1>1, SMTT(30) DEF RoutesMatchRows, TypeOK
<1>10. DomainHeld'
  <2>1. ~w => DomainAdmitted(a, c)
    BY DEF BeginCandidate
  <2>2. ASSUME NEW s \in Requests, s # r PROVE ClaimsDomain(s)' <=> ClaimsDomain(s)
    BY <1>1, <2>2 DEF ClaimsDomain, TypeOK
  <2>3. ClaimsDomain(r)' => c.domain # NoDomain /\ ~w
    BY <1>1 DEF ClaimsDomain, TypeOK
  <2>4. ASSUME ClaimsDomain(r)'
        PROVE  /\ \A b \in Apps \ {a} : route[b] # c.domain
               /\ \A s \in Requests : ClaimsDomain(s) /\ AppOf[s] # a => requested[s].domain # c.domain
    BY <2>1, <2>3, <2>4 DEF DomainAdmitted, ClaimsDomain
  <2> QED
    BY <1>1, <2>2, <2>4, SMTT(30) DEF DomainHeld, TypeOK
<1> QED
  BY <1>4, <1>5, <1>6, <1>8, <1>9, <1>10

(* Steps that change neither the requests' columns nor the applications' rows *)
(* keep every fact that is not about checkpoints.                             *)
LEMMA RowsKept ==
    ASSUME IInv, UNCHANGED <<state, requested, previous, deployment, desired, live, route>>,
           withdrawals \subseteq withdrawals', deleting' = deleting
    PROVE  OnePending' /\ RowExists' /\ NoneOpenWhileDeleting' /\ PredecessorPreserved'
           /\ DomainHeld' /\ RoutesMatchRows'
<1>1. \A a \in Apps : PreviousOf(a)' = PreviousOf(a)
  BY DEF PreviousOf
<1>2. \A r \in Requests : ClaimsDomain(r)' => ClaimsDomain(r)
  BY DEF ClaimsDomain
<1>3. OnePending' /\ RowExists' /\ NoneOpenWhileDeleting' /\ RoutesMatchRows'
  BY DEF IInv, OnePending, RowExists, NoneOpenWhileDeleting, RoutesMatchRows
<1>4. PredecessorPreserved'
  BY <1>1, JournalAssumption DEF IInv, PredecessorPreserved
<1>5. DomainHeld'
  BY <1>2 DEF IInv, DomainHeld
<1> QED
  BY <1>3, <1>4, <1>5

(* The withdrawal marker and the two checkpoint transactions. *)
LEMMA CheckpointIInv ==
    ASSUME IInv, NEW r \in Requests, UNCHANGED deleting,
           \/ \E c \in Configs : MarkWithdrawal(r, c)
           \/ \E i \in Intents : SaveActivationIntent(r, i)
           \/ \E g \in Gates, from, to \in Stages : RecordActivationGate(r, from, to, g)
    PROVE  IInv'
<1> USE DEF IInv
<1>1. CASE \E c \in Configs : MarkWithdrawal(r, c)
  <2>1. /\ state[r] = "pending" /\ withdrawals' = withdrawals \cup {r}
        /\ UNCHANGED <<state, requested, previous, reply, deployment, stage, intent, gate, desired, live, route>>
    BY <1>1 DEF MarkWithdrawal, checkpointVars, appVars
  <2>2. TypeOK' /\ AppliedActivated'
    BY <2>1 DEF TypeOK, AppliedActivated
  <2> QED
    BY <2>1, <2>2, RowsKept
<1>2. CASE \E i \in Intents : SaveActivationIntent(r, i)
  <2>1. PICK i \in Intents : SaveActivationIntent(r, i)
    BY <1>2
  <2>2. /\ state[r] = "pending" /\ stage[r] = "absent"
        /\ stage' = [stage EXCEPT ![r] = "prepared"] /\ intent' = [intent EXCEPT ![r] = i]
        /\ UNCHANGED <<gate, state, requested, previous, reply, withdrawals, deployment, desired, live, route>>
    BY <2>1 DEF SaveActivationIntent, requestVars, appVars
  <2>3. TypeOK' /\ AppliedActivated'
    BY <2>2 DEF TypeOK, AppliedActivated, Stages
  <2> QED
    BY <2>2, <2>3, RowsKept
<1>3. CASE \E g \in Gates, from, to \in Stages : RecordActivationGate(r, from, to, g)
  <2>1. PICK g \in Gates, from \in Stages, to \in Stages : RecordActivationGate(r, from, to, g)
    BY <1>3
  <2>2. /\ state[r] = "pending" /\ stage[r] = from /\ ValidCheckpointTransition(from, to)
        /\ stage' = [stage EXCEPT ![r] = to] /\ gate' = [gate EXCEPT ![r] = g]
        /\ UNCHANGED <<intent, state, requested, previous, reply, withdrawals, deployment, desired, live, route>>
    BY <2>1 DEF RecordActivationGate, requestVars, appVars
  <2>3. TypeOK' /\ AppliedActivated'
    BY <2>2, JournalAssumption, SMTT(30) DEF TypeOK, AppliedActivated, Stages, ValidCheckpointTransition
  <2> QED
    BY <2>2, <2>3, RowsKept
<1> QED
  BY <1>1, <1>2, <1>3

(* Finalize "applied": the rows of the one open request change with its outcome. *)
LEMMA AppliedIInv ==
    ASSUME IInv, NEW r \in Requests, NEW g \in Gates, UNCHANGED deleting,
           r \notin withdrawals, FinalizeApplied(r, g)
    PROVE  IInv'
<1> USE DEF IInv
<1> DEFINE a == AppOf[r]
<1>0. a \in Apps
  BY JournalAssumption
<1>1. /\ state[r] = "pending" /\ stage[r] = "activated"
      /\ state' = [state EXCEPT ![r] = "applied"]
      /\ reply' = [reply EXCEPT ![r] = [outcome |-> "applied", shown |-> requested[r]]]
      /\ deployment' = [deployment EXCEPT ![r] = "healthy"]
      /\ desired' = [desired EXCEPT ![a] = requested[r]]
      /\ live' = live \cup {a}
      /\ route' = [route EXCEPT ![a] = requested[r].domain]
      /\ UNCHANGED <<requested, previous, withdrawals, stage, intent, gate>>
  BY DEF FinalizeApplied, Finalizable, Decide, checkpointVars
<1>2. requested[r] \in Configs
  BY <1>1, JournalAssumption, SMTT(30) DEF TypeOK
<1>3. [outcome |-> "applied", shown |-> requested[r]] \in [outcome : Terminal, shown : Configs]
  BY <1>2 DEF Terminal
<1>4. [outcome |-> "applied", shown |-> requested[r]] # NoReply
  BY DEF NoReply
<1>5. TypeOK'
  BY <1>0, <1>1, <1>2, <1>3, <1>4, DomainType, JournalAssumption, SMTT(30) DEF TypeOK, Terminal
<1>6. \A s \in Requests : state'[s] = "pending" => state[s] = "pending" /\ s # r /\ AppOf[s] # a
  BY <1>1 DEF OnePending, TypeOK
<1>7. OnePending' /\ NoneOpenWhileDeleting' /\ AppliedActivated'
  BY <1>1, <1>6, SMTT(30) DEF OnePending, NoneOpenWhileDeleting, AppliedActivated, TypeOK
<1>8. RowExists'
  BY <1>0, <1>1, <1>2, JournalAssumption DEF RowExists, TypeOK
<1>9. \A b \in Apps : b # a => PreviousOf(b)' = PreviousOf(b)
  BY <1>0, <1>1 DEF PreviousOf, TypeOK
<1>10. PredecessorPreserved'
  <2> SUFFICES ASSUME NEW s \in Requests, state'[s] = "pending"
               PROVE  previous'[s] = PreviousOf(AppOf[s])' /\ deployment'[s] = "pending"
    BY DEF PredecessorPreserved
  <2>1. state[s] = "pending" /\ s # r /\ AppOf[s] # a /\ AppOf[s] \in Apps
    BY <1>6, JournalAssumption
  <2>2. PreviousOf(AppOf[s])' = PreviousOf(AppOf[s])
    BY <2>1, <1>9
  <2> QED
    BY <2>1, <2>2, <1>1 DEF PredecessorPreserved, TypeOK
<1>11. RoutesMatchRows'
  BY <1>0, <1>1 DEF RoutesMatchRows, TypeOK
<1>12. DomainHeld'
  <2>1. \A s \in Requests : ClaimsDomain(s)' => ClaimsDomain(s) /\ AppOf[s] # a
    BY <1>1, <1>6 DEF ClaimsDomain
  <2>2. requested[r].domain # NoDomain => ClaimsDomain(r)
    BY <1>1 DEF ClaimsDomain
  <2>3. \A s \in Requests : ClaimsDomain(s)' => route'[a] # requested[s].domain
    <3> SUFFICES ASSUME NEW s \in Requests, ClaimsDomain(s)' PROVE route'[a] # requested[s].domain
      OBVIOUS
    <3>1. ClaimsDomain(s) /\ AppOf[s] # a
      BY <2>1
    <3>2. route'[a] = requested[r].domain
      BY <1>0, <1>1 DEF TypeOK
    <3> QED
      BY <2>2, <3>1, <3>2 DEF DomainHeld, ClaimsDomain
  <2>4. \A b \in Apps : b # a => route'[b] = route[b]
    BY <1>1 DEF TypeOK
  <2> QED
    BY <1>1, <2>1, <2>3, <2>4, SMTT(30) DEF DomainHeld
<1> QED
  BY <1>5, <1>7, <1>8, <1>10, <1>11, <1>12

(* Finalize "withdrawn": only the route of a hidden initial attempt may go. *)
LEMMA WithdrawnIInv ==
    ASSUME IInv, NEW r \in Requests, NEW g \in Gates, UNCHANGED deleting, FinalizeWithdrawn(r, g)
    PROVE  IInv'
<1> USE DEF IInv
<1> DEFINE a == AppOf[r]
<1>0. a \in Apps
  BY JournalAssumption
<1>1. /\ state[r] = "pending" /\ stage[r] = "withdrawn"
      /\ state' = [state EXCEPT ![r] = "withdrawn"]
      /\ reply' = [reply EXCEPT ![r] = [outcome |-> "withdrawn", shown |-> desired[a]]]
      /\ deployment' = [deployment EXCEPT ![r] = "failed"]
      /\ route' = IF previous[r] = NoConfig THEN [route EXCEPT ![a] = NoDomain] ELSE route
      /\ UNCHANGED <<desired, live, requested, previous, withdrawals, stage, intent, gate>>
  BY DEF FinalizeWithdrawn, Finalizable, Decide, checkpointVars
<1>2. desired[a] \in Configs
  BY <1>0, <1>1 DEF TypeOK, RowExists
<1>3. [outcome |-> "withdrawn", shown |-> desired[a]] \in [outcome : Terminal, shown : Configs]
  BY <1>2 DEF Terminal
<1>4. [outcome |-> "withdrawn", shown |-> desired[a]] # NoReply
  BY DEF NoReply
<1>5. TypeOK'
  BY <1>0, <1>1, <1>3, <1>4, DomainType, JournalAssumption, SMTT(30) DEF TypeOK, Terminal
<1>6. \A s \in Requests : state'[s] = "pending" => state[s] = "pending" /\ s # r
  BY <1>1 DEF TypeOK
<1>7. OnePending' /\ NoneOpenWhileDeleting' /\ AppliedActivated' /\ RowExists'
  BY <1>1, <1>6, SMTT(30) DEF OnePending, NoneOpenWhileDeleting, AppliedActivated, RowExists, TypeOK
<1>8. \A b \in Apps : PreviousOf(b)' = PreviousOf(b)
  BY <1>1 DEF PreviousOf
<1>9. PredecessorPreserved'
  <2> SUFFICES ASSUME NEW s \in Requests, state'[s] = "pending"
               PROVE  previous'[s] = PreviousOf(AppOf[s])' /\ deployment'[s] = "pending"
    BY DEF PredecessorPreserved
  <2>1. state[s] = "pending" /\ s # r /\ AppOf[s] \in Apps
    BY <1>6, JournalAssumption
  <2>2. PreviousOf(AppOf[s])' = PreviousOf(AppOf[s])
    BY <2>1, <1>8
  <2> QED
    BY <2>1, <2>2, <1>1 DEF PredecessorPreserved, TypeOK
<1>10. \A b \in Apps : route'[b] = route[b] \/ route'[b] = NoDomain
  BY <1>0, <1>1 DEF TypeOK
<1>11. RoutesMatchRows'
  BY <1>1, <1>10 DEF RoutesMatchRows
<1>12. DomainHeld'
  <2>1. \A s \in Requests : ClaimsDomain(s)' => ClaimsDomain(s) /\ requested[s].domain # NoDomain
    BY <1>1, <1>6 DEF ClaimsDomain
  <2> QED
    BY <1>1, <1>10, <2>1 DEF DomainHeld
<1> QED
  BY <1>5, <1>7, <1>9, <1>11, <1>12

(* The statements of DeleteApp, and its end at any point. *)
LEMMA DeleteIInv ==
    ASSUME IInv, NEW a \in Apps, DeleteStep(a)
    PROVE  IInv'
<1> USE DEF IInv
<1>1. UNCHANGED <<state, requested, previous, reply, withdrawals, deployment, stage, intent, gate, desired>>
  BY DEF DeleteStep, BeginDelete, DeleteRoutes, MarkDeleted, EndDelete, requestVars, checkpointVars, appVars
<1>2. OnePending' /\ AppliedActivated' /\ RowExists'
  BY <1>1 DEF OnePending, AppliedActivated, RowExists
<1>3. \A r \in Requests : ClaimsDomain(r)' <=> ClaimsDomain(r)
  BY <1>1 DEF ClaimsDomain
<1>4. CASE BeginDelete(a)
  <2>1. /\ \A r \in Requests : state[r] = "pending" => AppOf[r] # a
        /\ deleting' = deleting \cup {a} /\ UNCHANGED <<live, route>>
    BY <1>4 DEF BeginDelete, Pending, appVars
  <2>2. TypeOK' /\ NoneOpenWhileDeleting' /\ RoutesMatchRows'
    BY <1>1, <2>1 DEF TypeOK, NoneOpenWhileDeleting, RoutesMatchRows
  <2>3. DomainHeld' /\ PredecessorPreserved'
    BY <1>1, <1>3, <2>1 DEF DomainHeld, PredecessorPreserved, PreviousOf
  <2> QED
    BY <1>2, <2>2, <2>3
<1>5. CASE DeleteRoutes(a)
  <2>1. route' = [route EXCEPT ![a] = NoDomain] /\ UNCHANGED <<live, deleting>>
    BY <1>5 DEF DeleteRoutes
  <2>2. TypeOK' /\ NoneOpenWhileDeleting' /\ RoutesMatchRows'
    BY <1>1, <2>1, DomainType DEF TypeOK, NoneOpenWhileDeleting, RoutesMatchRows
  <2>3. DomainHeld'
    BY <1>1, <1>3, <2>1, SMTT(30) DEF DomainHeld, ClaimsDomain, TypeOK
  <2>4. PredecessorPreserved'
    BY <1>1, <2>1 DEF PredecessorPreserved, PreviousOf
  <2> QED
    BY <1>2, <2>2, <2>3, <2>4
<1>6. CASE MarkDeleted(a)
  <2>1. a \in deleting /\ route[a] = NoDomain /\ live' = live \ {a} /\ UNCHANGED <<route, deleting>>
    BY <1>6 DEF MarkDeleted
  <2>2. TypeOK' /\ NoneOpenWhileDeleting' /\ RoutesMatchRows' /\ DomainHeld'
    BY <1>1, <1>3, <2>1 DEF TypeOK, NoneOpenWhileDeleting, RoutesMatchRows, DomainHeld
  <2>3. PredecessorPreserved'
    BY <1>1, <2>1 DEF PredecessorPreserved, PreviousOf, NoneOpenWhileDeleting
  <2> QED
    BY <1>2, <2>2, <2>3
<1>7. CASE EndDelete(a)
  <2>1. deleting' = deleting \ {a} /\ UNCHANGED <<live, route>>
    BY <1>7 DEF EndDelete, appVars
  <2>2. TypeOK' /\ NoneOpenWhileDeleting' /\ RoutesMatchRows'
    BY <1>1, <2>1 DEF TypeOK, NoneOpenWhileDeleting, RoutesMatchRows
  <2>3. DomainHeld' /\ PredecessorPreserved'
    BY <1>1, <1>3, <2>1 DEF DomainHeld, PredecessorPreserved, PreviousOf
  <2> QED
    BY <1>2, <2>2, <2>3
<1> QED
  BY <1>4, <1>5, <1>6, <1>7 DEF DeleteStep

(* Every transaction preserves the inductive invariant. *)
LEMMA NextIInv == IInv /\ [Next]_journalVars => IInv'
<1> SUFFICES ASSUME IInv, [Next]_journalVars PROVE IInv'
  OBVIOUS
<1>1. CASE UNCHANGED journalVars
  <2>1. /\ UNCHANGED <<state, requested, previous, reply, withdrawals, deployment>>
        /\ UNCHANGED <<stage, intent, gate, desired, live, route, deleting>>
    BY <1>1 DEF journalVars, requestVars, checkpointVars, appVars
  <2>2. TypeOK' /\ AppliedActivated'
    BY <2>1 DEF IInv, TypeOK, AppliedActivated
  <2> QED
    BY <2>1, <2>2, RowsKept DEF IInv
<1>2. ASSUME NEW r \in Requests, RequestStep(r) PROVE IInv'
  <2>1. AppOf[r] \notin deleting /\ UNCHANGED deleting
    BY <1>2 DEF RequestStep
  <2>2. CASE \E c \in Configs, w \in BOOLEAN : BeginCandidate(r, c, w)
    BY <2>1, <2>2, BeginIInv
  <2>3. CASE \/ \E c \in Configs : MarkWithdrawal(r, c)
             \/ \E i \in Intents : SaveActivationIntent(r, i)
             \/ \E g \in Gates, from, to \in {"prepared", "fenced", "activated", "recovering", "withdrawn"} :
                   RecordActivationGate(r, from, to, g)
    BY <2>1, <2>3, CheckpointIInv, SMTT(30) DEF Stages
  <2>4. CASE r \notin withdrawals /\ \E g \in Gates : FinalizeApplied(r, g)
    BY <2>1, <2>4, AppliedIInv
  <2>5. CASE \E g \in Gates : FinalizeWithdrawn(r, g)
    BY <2>1, <2>5, WithdrawnIInv
  <2> QED
    BY <1>2, <2>2, <2>3, <2>4, <2>5 DEF RequestStep
<1>3. ASSUME NEW a \in Apps, DeleteStep(a) PROVE IInv'
  BY <1>3, DeleteIInv
<1> QED
  BY <1>1, <1>2, <1>3 DEF Next

(* The inductive invariant holds in every reachable state of the journal. *)
THEOREM JournalInvariant == Spec => []IInv
<1> QED
  BY InitIInv, NextIInv, PTL DEF Spec

(* Type correctness and the CHECK constraints of the tables. *)
THEOREM JournalTypes == Spec => []TypeOK
<1>1. IInv => TypeOK
  BY DEF IInv
<1> QED
  BY <1>1, JournalInvariant, PTL

(* The row a pending request captured is still there when it is finalized. *)
THEOREM JournalPredecessor == Spec => []PredecessorPreserved
<1>1. IInv => PredecessorPreserved
  BY DEF IInv
<1> QED
  BY <1>1, JournalInvariant, PTL

(* A candidate that may still be applied owns its domain. *)
THEOREM JournalDomains == Spec => []DomainHeld
<1>1. IInv => DomainHeld
  BY DEF IInv
<1> QED
  BY <1>1, JournalInvariant, PTL

(* Routes belong to visible applications, half-way deletions included. *)
THEOREM JournalRoutes == Spec => []RoutesMatchRows
<1>1. IInv => RoutesMatchRows
  BY DEF IInv
<1> QED
  BY <1>1, JournalInvariant, PTL

(* What a terminal request's row and checkpoint may never do. *)
Frozen(r) ==
    /\ state'[r] = state[r] /\ reply'[r] = reply[r] /\ deployment'[r] = deployment[r]
    /\ stage'[r] = stage[r] /\ intent'[r] = intent[r] /\ gate'[r] = gate[r]

(* No transaction touches the row or the checkpoint of a terminal request:    *)
(* each one writes under its own key and requires that key to be pending.     *)
LEMMA NextFrozen ==
    ASSUME IInv, [Next]_journalVars, NEW s \in Requests, state[s] \in Terminal
    PROVE  Frozen(s)
<1> USE DEF IInv
<1>1. CASE UNCHANGED journalVars
  BY <1>1 DEF journalVars, requestVars, checkpointVars, Frozen
<1>2. ASSUME NEW a \in Apps, DeleteStep(a) PROVE Frozen(s)
  BY <1>2 DEF DeleteStep, BeginDelete, DeleteRoutes, MarkDeleted, EndDelete, requestVars, checkpointVars, Frozen
<1>3. ASSUME NEW r \in Requests, RequestStep(r) PROVE Frozen(s)
  <2>1. CASE \E c \in Configs, w \in BOOLEAN : BeginCandidate(r, c, w)
    BY <2>1, SMTT(30) DEF BeginCandidate, checkpointVars, Frozen, TypeOK, Terminal
  <2>2. CASE \E c \in Configs : MarkWithdrawal(r, c)
    BY <2>2 DEF MarkWithdrawal, checkpointVars, Frozen
  <2>3. CASE \E i \in Intents : SaveActivationIntent(r, i)
    BY <2>3 DEF SaveActivationIntent, requestVars, Frozen, TypeOK, Terminal
  <2>4. CASE \E g \in Gates, from, to \in {"prepared", "fenced", "activated", "recovering", "withdrawn"} :
                RecordActivationGate(r, from, to, g)
    BY <2>4 DEF RecordActivationGate, requestVars, Frozen, TypeOK, Terminal
  <2>5. CASE \E g \in Gates : FinalizeApplied(r, g)
    BY <2>5, SMTT(30) DEF FinalizeApplied, Finalizable, Decide, checkpointVars, Frozen, TypeOK, Terminal
  <2>6. CASE \E g \in Gates : FinalizeWithdrawn(r, g)
    BY <2>6 DEF FinalizeWithdrawn, Finalizable, Decide, checkpointVars, Frozen, TypeOK, Terminal
  <2> QED
    BY <1>3, <2>1, <2>2, <2>3, <2>4, <2>5, <2>6 DEF RequestStep
<1> QED
  BY <1>1, <1>2, <1>3 DEF Next

(* A terminal outcome, its receipt and its checkpoint are immutable. *)
THEOREM JournalOutcomeFinal == Spec => OutcomeIsFinal
<1>1. IInv /\ [Next]_journalVars =>
        [\A r \in Requests : state[r] \in Terminal =>
            /\ state'[r] = state[r] /\ reply'[r] = reply[r] /\ deployment'[r] = deployment[r]
            /\ stage'[r] = stage[r] /\ intent'[r] = intent[r] /\ gate'[r] = gate[r]]_journalVars
  BY NextFrozen DEF Frozen
<1> QED
  BY <1>1, JournalInvariant, PTL DEF Spec, OutcomeIsFinal

(* The transitions of a checkpoint lead out of recovery only to "withdrawn",  *)
(* and an applied request needs an activated checkpoint.                      *)
LEMMA NextStaysRecovered ==
    ASSUME IInv, [Next]_journalVars, NEW s \in Requests, stage[s] \in {"recovering", "withdrawn"}
    PROVE  stage'[s] \in {"recovering", "withdrawn"} /\ state'[s] # "applied"
<1> USE DEF IInv
<1>0. state[s] # "applied"
  BY DEF AppliedActivated
<1>1. CASE UNCHANGED journalVars
  BY <1>0, <1>1 DEF journalVars, requestVars, checkpointVars
<1>2. ASSUME NEW a \in Apps, DeleteStep(a) PROVE UNCHANGED <<stage, state>>
  BY <1>2 DEF DeleteStep, BeginDelete, DeleteRoutes, MarkDeleted, EndDelete, requestVars, checkpointVars
<1>3. ASSUME NEW r \in Requests, RequestStep(r)
      PROVE  stage'[s] \in {"recovering", "withdrawn"} /\ state'[s] # "applied"
  <2>1. CASE \E c \in Configs, w \in BOOLEAN : BeginCandidate(r, c, w)
    BY <1>0, <2>1, SMTT(30) DEF BeginCandidate, checkpointVars, TypeOK
  <2>2. CASE \E c \in Configs : MarkWithdrawal(r, c)
    BY <1>0, <2>2 DEF MarkWithdrawal, checkpointVars
  <2>3. CASE \E i \in Intents : SaveActivationIntent(r, i)
    BY <1>0, <2>3 DEF SaveActivationIntent, requestVars, TypeOK
  <2>4. CASE \E g \in Gates, from, to \in {"prepared", "fenced", "activated", "recovering", "withdrawn"} :
                RecordActivationGate(r, from, to, g)
    BY <1>0, <2>4 DEF RecordActivationGate, ValidCheckpointTransition, requestVars, TypeOK
  <2>5. CASE \E g \in Gates : FinalizeApplied(r, g)
    BY <1>0, <2>5 DEF FinalizeApplied, Finalizable, Decide, checkpointVars, TypeOK
  <2>6. CASE \E g \in Gates : FinalizeWithdrawn(r, g)
    BY <1>0, <2>6 DEF FinalizeWithdrawn, Finalizable, Decide, checkpointVars, TypeOK
  <2> QED
    BY <1>3, <2>1, <2>2, <2>3, <2>4, <2>5, <2>6 DEF RequestStep
<1> QED
  BY <1>0, <1>1, <1>2, <1>3 DEF Next

(* Recovery is final: see RecoveryIsFinal. *)
THEOREM JournalRecoveryFinal == Spec => RecoveryIsFinal
<1>1. IInv /\ [Next]_journalVars =>
        [\A r \in Requests : stage[r] \in {"recovering", "withdrawn"} =>
            stage'[r] \in {"recovering", "withdrawn"} /\ state'[r] # "applied"]_journalVars
  BY NextStaysRecovered
<1> QED
  BY <1>1, JournalInvariant, PTL DEF Spec, RecoveryIsFinal

(* The refinement mapping's third component: the active desired states. *)
VisibleNow == [a \in Apps |-> PreviousOf(a)]

(* A transaction is a step of the ledger, or changes nothing it can see. *)
LEMMA NextRefines ==
    ASSUME IInv, [Next]_journalVars
    PROVE  \/ \E r \in Requests : (\E c \in Configs : Ledger!Accept(r, c)) \/ Ledger!Apply(r) \/ Ledger!Withdraw(r)
           \/ \E a \in Apps : Ledger!Delete(a)
           \/ UNCHANGED <<state, requested, VisibleNow>>
<1> USE DEF IInv
<1>1. ASSUME UNCHANGED <<state, requested, desired, live>>
      PROVE  UNCHANGED <<state, requested, VisibleNow>>
  BY <1>1 DEF VisibleNow, PreviousOf
<1>2. ASSUME NEW r \in Requests, NEW c \in Configs, NEW w \in BOOLEAN, BeginCandidate(r, c, w)
      PROVE  Ledger!Accept(r, c)
  <2>0. AppOf[r] \in Apps
    BY JournalAssumption
  <2>1. /\ state[r] = "absent" /\ state' = [state EXCEPT ![r] = "pending"]
        /\ requested' = [requested EXCEPT ![r] = c] /\ live' = live
        /\ desired' = [desired EXCEPT ![AppOf[r]] = IF @ = NoConfig THEN c ELSE @]
    BY <1>2 DEF BeginCandidate
  <2>2. ~ \E s \in Requests : AppOf[s] = AppOf[r] /\ state[s] = "pending"
    BY <1>2 DEF BeginCandidate, Pending
  <2>3. UNCHANGED VisibleNow
    BY <2>0, <2>1, SMTT(30) DEF VisibleNow, PreviousOf, TypeOK
  <2> QED
    BY <2>1, <2>2, <2>3 DEF Ledger!Accept, Ledger!Open, VisibleNow
<1>3. ASSUME NEW r \in Requests, NEW g \in Gates, FinalizeApplied(r, g)
      PROVE  Ledger!Apply(r)
  <2>0. AppOf[r] \in Apps
    BY JournalAssumption
  <2>1. /\ state[r] = "pending" /\ state' = [state EXCEPT ![r] = "applied"] /\ requested' = requested
        /\ desired' = [desired EXCEPT ![AppOf[r]] = requested[r]] /\ live' = live \cup {AppOf[r]}
    BY <1>3 DEF FinalizeApplied, Finalizable, Decide
  <2>2. VisibleNow' = [VisibleNow EXCEPT ![AppOf[r]] = requested[r]]
    BY <2>0, <2>1 DEF VisibleNow, PreviousOf, TypeOK
  <2> QED
    BY <2>1, <2>2 DEF Ledger!Apply, VisibleNow
<1>4. ASSUME NEW r \in Requests, NEW g \in Gates, FinalizeWithdrawn(r, g)
      PROVE  Ledger!Withdraw(r)
  <2>1. /\ state[r] = "pending" /\ state' = [state EXCEPT ![r] = "withdrawn"]
        /\ UNCHANGED <<requested, desired, live>>
    BY <1>4 DEF FinalizeWithdrawn, Finalizable, Decide
  <2>2. UNCHANGED VisibleNow
    BY <2>1 DEF VisibleNow, PreviousOf
  <2> QED
    BY <2>1, <2>2 DEF Ledger!Withdraw, VisibleNow
<1>5. ASSUME NEW a \in Apps, MarkDeleted(a)
      PROVE  Ledger!Delete(a)
  <2>1. a \in deleting /\ live' = live \ {a} /\ UNCHANGED <<state, requested, desired>>
    BY <1>5 DEF MarkDeleted, requestVars
  <2>2. ~ \E s \in Requests : AppOf[s] = a /\ state[s] = "pending"
    BY <2>1 DEF NoneOpenWhileDeleting
  <2>3. VisibleNow' = [VisibleNow EXCEPT ![a] = NoConfig]
    BY <2>1 DEF VisibleNow, PreviousOf, TypeOK
  <2> QED
    BY <2>1, <2>2, <2>3 DEF Ledger!Delete, Ledger!Open, VisibleNow
<1>6. ASSUME NEW r \in Requests,
             \/ \E c \in Configs : MarkWithdrawal(r, c)
             \/ \E i \in Intents : SaveActivationIntent(r, i)
             \/ \E g \in Gates, from, to \in {"prepared", "fenced", "activated", "recovering", "withdrawn"} :
                   RecordActivationGate(r, from, to, g)
      PROVE  UNCHANGED <<state, requested, desired, live>>
  BY <1>6 DEF MarkWithdrawal, SaveActivationIntent, RecordActivationGate, requestVars, appVars
<1>7. ASSUME NEW a \in Apps, BeginDelete(a) \/ DeleteRoutes(a) \/ EndDelete(a)
      PROVE  UNCHANGED <<state, requested, desired, live>>
  BY <1>7 DEF BeginDelete, DeleteRoutes, EndDelete, requestVars, appVars
<1>8. ASSUME UNCHANGED journalVars PROVE UNCHANGED <<state, requested, desired, live>>
  BY <1>8 DEF journalVars, requestVars, appVars
<1>9. ASSUME NEW r \in Requests, RequestStep(r)
      PROVE  \/ (\E c \in Configs : Ledger!Accept(r, c)) \/ Ledger!Apply(r) \/ Ledger!Withdraw(r)
             \/ UNCHANGED <<state, requested, desired, live>>
  BY <1>2, <1>3, <1>4, <1>6, <1>9 DEF RequestStep
<1>10. ASSUME NEW a \in Apps, DeleteStep(a)
       PROVE  Ledger!Delete(a) \/ UNCHANGED <<state, requested, desired, live>>
  BY <1>5, <1>7, <1>10 DEF DeleteStep
<1> QED
  BY <1>1, <1>8, <1>9, <1>10 DEF Next

(* The tables implement the ledger. *)
THEOREM JournalRefinesLedger == Spec => ImplementsLedger
<1>1. Init => Ledger!Init
  <2> SUFFICES ASSUME Init PROVE Ledger!Init
    OBVIOUS
  <2>1. VisibleNow \in [Apps -> Configs \cup {NoConfig}]
    BY DEF Init, VisibleNow, PreviousOf
  <2> QED
    BY <2>1 DEF Init, Ledger!Init, VisibleNow
<1>2. IInv /\ [Next]_journalVars => [Ledger!Next]_<<state, requested, [a \in Apps |-> PreviousOf(a)]>>
  BY NextRefines DEF Ledger!Next, VisibleNow
<1> QED
  BY <1>1, <1>2, JournalInvariant, PTL DEF Spec, ImplementsLedger, Ledger!Spec, Ledger!vars

(* The marker is written only while a request is pending, and bars Finalize   *)
(* "applied" and the checkpoints towards it.                                  *)
WithdrawnNotApplied == \A r \in withdrawals : state[r] # "applied"

(* A transaction never moves a withdrawn request towards activation. *)
LEMMA NextBarred ==
    ASSUME IInv, WithdrawnNotApplied, [Next]_journalVars
    PROVE  /\ WithdrawnNotApplied'
           /\ \A s \in withdrawals :
                 /\ stage'[s] \in Advancing => stage'[s] = stage[s]
                 /\ state'[s] # "applied"
<1> DEFINE Goal == /\ \A s \in withdrawals' : state'[s] # "applied"
                   /\ \A s \in withdrawals :
                        /\ stage'[s] \in Advancing => stage'[s] = stage[s]
                        /\ state'[s] # "applied"
<1> SUFFICES Goal
  BY DEF WithdrawnNotApplied
<1>0. TypeOK /\ withdrawals \subseteq Requests
  BY DEF IInv, TypeOK
<1>1. CASE UNCHANGED journalVars
  BY <1>1 DEF journalVars, requestVars, checkpointVars, WithdrawnNotApplied
<1>2. ASSUME NEW a \in Apps, DeleteStep(a) PROVE Goal
  BY <1>2 DEF DeleteStep, BeginDelete, DeleteRoutes, MarkDeleted, EndDelete, requestVars, checkpointVars, WithdrawnNotApplied
<1>3. ASSUME NEW r \in Requests, RequestStep(r) PROVE Goal
  <2>1. CASE \E c \in Configs, w \in BOOLEAN : BeginCandidate(r, c, w)
    BY <1>0, <2>1, SMTT(30) DEF BeginCandidate, checkpointVars, TypeOK, WithdrawnNotApplied
  <2>2. CASE \E c \in Configs : MarkWithdrawal(r, c)
    BY <2>2 DEF MarkWithdrawal, checkpointVars, WithdrawnNotApplied
  <2>3. CASE \E i \in Intents : SaveActivationIntent(r, i)
    BY <1>0, <2>3, SMTT(30) DEF SaveActivationIntent, requestVars, TypeOK, WithdrawnNotApplied, Advancing
  <2>4. CASE \E g \in Gates, from, to \in {"prepared", "fenced", "activated", "recovering", "withdrawn"} :
                (to \in Advancing => r \notin withdrawals) /\ RecordActivationGate(r, from, to, g)
    BY <1>0, <2>4, SMTT(30) DEF RecordActivationGate, requestVars, TypeOK, WithdrawnNotApplied, Advancing
  <2>5. CASE r \notin withdrawals /\ \E g \in Gates : FinalizeApplied(r, g)
    BY <1>0, <2>5, SMTT(30) DEF FinalizeApplied, Finalizable, Decide, checkpointVars, TypeOK, WithdrawnNotApplied
  <2>6. CASE \E g \in Gates : FinalizeWithdrawn(r, g)
    BY <1>0, <2>6, SMTT(30) DEF FinalizeWithdrawn, Finalizable, Decide, checkpointVars, TypeOK, WithdrawnNotApplied
  <2> QED
    BY <1>3, <2>1, <2>2, <2>3, <2>4, <2>5, <2>6, ZenonT(40) DEF RequestStep
<1> QED
  BY <1>1, <1>2, <1>3 DEF Next

-----------------------------------------------------------------------------
(* The coordinator and the cluster *)

CallRecords ==
    [at : Labels, kind : {"advance", "recover"}, req : Requests,
     gate : GateRecords \cup {NoGate}, target : TargetRecords \cup {NoTarget}]

(* Where a call holds the token of a Service it captured or wrote. *)
TokenLabels ==
    {"intent", "reset", "fence", "fenced", "candidate", "activate", "activated",
     "recoveryFence", "replace", "restored"}

(* A call in progress has a bound request.  While it may lead to activation   *)
(* its request has no withdrawal marker: it was read under the lock, and only *)
(* a holder of the lock writes one.                                           *)
CallOK(a) ==
    call[a] # Idle =>
        /\ state[call[a].req] # "absent"
        /\ call[a].kind = "advance" /\ call[a].at \notin {"reclaim", "reclaiming"} =>
              call[a].req \notin withdrawals
        /\ call[a].at \in {"capture", "fence", "fenced", "candidate", "activate", "activated"} =>
              call[a].kind = "advance"
        /\ call[a].at \in TokenLabels => call[a].gate \in GateRecords
        /\ call[a].at = "intent" => call[a].target \in TargetRecords
        /\ call[a].at \in {"restore", "recoveryFence", "replace", "restored"} =>
              stage[call[a].req] = "recovering"

OpInv ==
    /\ IInv
    /\ OpTypeOK
    /\ \A a \in Apps : CallOK(a)
    /\ \A r \in Requests : stage[r] # "absent" => intent[r] \in IntentRecords
    /\ deleting = {}

-----------------------------------------------------------------------------
(* The invariant of the cluster *)

CandidateTarget(r) == Target(Candidate(r), requested[r].port)

(* The request has saved what a recovery restores, and is not decided. *)
Opened(r) == state[r] = "pending" /\ stage[r] # "absent"

(* A target the rows account for: of the active desired state, or of nothing. *)
Settled(a, t) ==
    /\ a \in live => t.port = desired[a].port
    /\ \A x \in Requests : t.sel = Inactive(x) => a \notin live
    /\ \A x \in Requests : t.sel = Candidate(x) =>
          AppOf[x] = a /\ state[x] = "applied" /\ a \in live /\ desired[a] = requested[x]

(* What the Service s shows at each stage of request r, which captured the    *)
(* token g and the target t and leads to the target c.                        *)
Shows(r, at, s, t, g, c) ==
    /\ Exists(s) /\ s.uid = g.uid
    /\ s.spec.target \in {t, c}
    /\ g.op \notin {Operation(r), Recovery(r)}
    /\ at = "prepared" => s.spec.target = t /\ s.spec.op \in {g.op, Operation(r)}
    /\ at = "fenced" => s.spec.op = Operation(r)
    /\ at = "activated" => s.spec.op = Operation(r) /\ s.spec.target = c
    /\ at = "recovering" => /\ s.spec.op \in {g.op, Operation(r), Recovery(r)}
                            /\ s.spec.op = g.op => s.spec.target = t
    /\ at = "withdrawn" => s.spec.op = Recovery(r) /\ s.spec.target = t

Phase(r) ==
    /\ Shows(r, stage[r], service[AppOf[r]], intent[r].target, intent[r].gate, CandidateTarget(r))
    /\ Settled(AppOf[r], intent[r].target)

(* The Service is what the open request, or else the rows, account for, and   *)
(* carries the operation of no request that has not reached it.               *)
ServiceInv(a) ==
    /\ a \in live => Exists(service[a])
    /\ \A r \in Requests : AppOf[r] = a /\ Opened(r) => Phase(r)
    /\ Exists(service[a]) /\ (\A r \in Requests : AppOf[r] = a => ~Opened(r)) =>
          Settled(a, service[a].spec.target)
    /\ Exists(service[a]) =>
          \A r \in Requests : service[a].spec.op \in {Operation(r), Recovery(r)} => stage[r] # "absent"

(* The writes a request may still have under way against the Service s, which *)
(* they would change: by its stage, for its first deployment or a later one,  *)
(* with its workload running or not, from the intent it saved.                *)
Changes(r, at, first, running, i, port, s, c) ==
    \/ at = "absent" /\ first /\ s.spec.target # Target(Inactive(r), port) /\ c = Rebound(r, port)
    \/ at \in {"prepared", "recovering"} /\ s.spec.op = i.gate.op /\ c = Fenced(s, Operation(r))
    \/ /\ at \in {"fenced", "recovering"} /\ s.spec.op = Operation(r) /\ running
       /\ c = Replaced(s, Target(Candidate(r), port))
    \/ at = "recovering" /\ s.spec.op # Recovery(r) /\ c = Fenced(s, Recovery(r))
    \/ at = "recovering" /\ s.spec.op = Recovery(r) /\ c = Replaced(s, i.target)

MayChange(r, s, c) ==
    Changes(r, stage[r], previous[r] = NoConfig, pods[r] \in Running, intent[r], requested[r].port, s, c)

MayCreate(r, a, c) ==
    stage[r] = "absent" /\ previous[r] = NoConfig /\ c = Initial(a, r, requested[r].port)

(* A write that would be accepted changes nothing or is the open request's. *)
Fits(a, body) ==
    Accepts(service[a], body) =>
        IF Exists(service[a])
        THEN body.spec = service[a].spec \/ \E r \in Pending(a) : MayChange(r, service[a], body.spec)
        ELSE \E r \in Pending(a) : MayCreate(r, a, body.spec)

(* The Service selects sel, or a recovery may have to select it again. *)
Wants(a, sel) ==
    \/ Serves(a, sel)
    \/ \E r \in Requests : AppOf[r] = a /\ Opened(r) /\ intent[r].target.sel = sel

Over(x) == stage[x] = "withdrawn" \/ state[x] \in Terminal

(* Workloads of a that may be retired. *)
Spare(a, x) ==
    \/ x = a /\ ~Wants(a, Legacy(a))
    \/ x \in Requests /\ AppOf[x] = a /\ Over(x) /\ ~Wants(a, Candidate(x))

OwnedBy(a) == {a} \cup {x \in Requests : AppOf[x] = a}

Permitted(a, w) ==
    /\ w.kind = "service" /\ w.of = a => Fits(a, w.body)
    /\ w.kind = "retire" /\ w.of \in OwnedBy(a) => Spare(a, w.of)

LateInv(a) == \A w \in late : Permitted(a, w)

PodsInv(a) ==
    /\ Wants(a, Legacy(a)) => pods[a] \in Running
    /\ \A x \in Requests : AppOf[x] = a =>
          /\ Wants(a, Candidate(x)) => pods[x] \in Running
          /\ state[x] = "withdrawn" => pods[x] = "retired"

RowsInv(a) ==
    /\ route[a] = IF a \in live THEN desired[a].domain ELSE NoDomain
    /\ Pending(a) = {} => ingress[a] = route[a]
    /\ \A r \in Requests : AppOf[r] = a /\ state[r] = "absent" => stage[r] = "absent"

(* What a call knows at each label, although delayed writes may arrive.       *)
Unprepared == {"prepare", "create", "created", "reset", "capture", "intent"}
Prepared ==
    {"fence", "fenced", "candidate", "activate", "activated", "recover", "restore", "recoveryFence",
     "replace", "restored", "retire", "retired", "observe", "route", "recheck", "finalize"}

(* What a call on a at label l, for request r and with token g and target t,  *)
(* knows of the rows of r.                                                    *)
KnowsRows(l, r, g) ==
    /\ l \in Unprepared => state[r] = "pending" /\ stage[r] = "absent"
    /\ l \in Prepared => state[r] = "pending"
    /\ l \in {"create", "reset"} => previous[r] = NoConfig
    /\ l = "recover" => stage[r] # "absent"
    /\ l = "fence" => stage[r] = "prepared" /\ g = intent[r].gate
    /\ l = "fenced" => stage[r] = "prepared"
    /\ l \in {"candidate", "activate", "activated"} => stage[r] = "fenced"
    /\ l = "replace" => g.op = Recovery(r)
    /\ l \in {"retire", "retired"} => stage[r] = "withdrawn"

(* And of the Service. *)
KnowsService(a, l, r, g, t) ==
    /\ l = "reset" => g.version <= revision /\ (GateOf(service[a]) = g => service[a].spec.target # InactiveTarget(r))
    /\ l = "capture" /\ previous[r] = NoConfig =>
          Exists(service[a]) /\ service[a].spec.target = InactiveTarget(r)
    /\ l = "intent" =>
          /\ Exists(service[a]) /\ g = GateOf(service[a]) /\ t = service[a].spec.target
          /\ previous[r] = NoConfig => t = InactiveTarget(r)
    /\ l = "fenced" => service[a].spec.op = Operation(r)
    /\ l = "activated" => service[a].spec.target = CandidateTarget(r)
    /\ l = "restored" => service[a].spec.op = Recovery(r) /\ service[a].spec.target = intent[r].target
    /\ l = "reclaiming" => Pending(a) = {} /\ service[a].spec.target.sel = Candidate(r)

(* And of workloads and Ingress; k is the kind of call. *)
KnowsOutcome(a, l, r, k) ==
    /\ l \in {"observe", "route", "recheck", "finalize"} /\ k = "recover" => pods[r] = "retired"
    /\ l \in {"recheck", "finalize"} => ingress[a] = RouteConfig(a).domain

CallInv(a) ==
    call[a] # Idle =>
        /\ KnowsRows(call[a].at, call[a].req, call[a].gate)
        /\ KnowsService(a, call[a].at, call[a].req, call[a].gate, call[a].target)
        /\ KnowsOutcome(a, call[a].at, call[a].req, call[a].kind)

ObjectInv(a) == ServiceInv(a) /\ LateInv(a) /\ PodsInv(a) /\ RowsInv(a)

ClusterInv == \A a \in Apps : ObjectInv(a) /\ CallInv(a)

-----------------------------------------------------------------------------
(* The leaves go to Zenon, but for the few with arithmetic or with fields of   *)
(* records, which name the SMT solver.                                         *)
(* Resource versions are natural numbers ... *)
LEMMA RevisionNat ==
    ASSUME OpInv
    PROVE  revision \in Nat
  BY OperationAssumption, SMTT(30) DEF OpInv, OpTypeOK

(* ... and so is the one of a token; the next one is larger. *)
LEMMA VersionOrder ==
    /\ \A n \in Nat : n <= n /\ n + 1 \in Nat /\ n <= n + 1 /\ n + 1 # 0
    /\ \A g \in GateRecords : g.version \in Nat
  BY SMTT(30) DEF GateRecords

(* What a token says of its Service. *)
LEMMA GateFields ==
    ASSUME NEW s
    PROVE  GateOf(s).op = s.spec.op /\ GateOf(s).version = s.version /\ GateOf(s).uid = s.uid
  BY SMTT(30) DEF GateOf

(* The target of a configuration. *)
LEMMA TargetTyped ==
    ASSUME NEW sel \in Selectors(Owners), NEW c \in Configs
    PROVE  Target(sel, c.port) \in TargetRecords
  BY SMTT(30) DEF Target, TargetRecords

(* Program counters *)

(* A call in progress has the fields of a call, at a label. *)
LEMMA Called ==
    ASSUME OpTypeOK, NEW a \in Apps, call[a] # Idle
    PROVE  /\ call[a] \in CallRecords /\ call[a].at \in Labels
           /\ call[a].req \in Requests /\ AppOf[call[a].req] = a
  BY SMTT(30) DEF OpTypeOK, CallRecords

(* An idle call is at no label. *)
LEMMA LabelNotIdle ==
    ASSUME NEW a, call[a].at # "idle"
    PROVE  call[a] # Idle
  BY SMTT(30) DEF Idle

(* Goto changes the label of one call. *)
LEMMA GotoMoves ==
    ASSUME OpTypeOK, NEW a \in Apps, NEW l \in Labels, call[a] # Idle, Goto(a, l)
    PROVE  /\ call' \in [Apps -> CallRecords \cup {Idle}]
           /\ call'[a] = [call[a] EXCEPT !.at = l]
           /\ call'[a].at = l /\ call'[a].kind = call[a].kind /\ call'[a].req = call[a].req
           /\ call'[a].gate = call[a].gate /\ call'[a].target = call[a].target
           /\ \A b \in Apps \ {a} : call'[b] = call[b]
<1>1. call \in [Apps -> CallRecords \cup {Idle}] /\ call[a] \in CallRecords
  BY DEF OpTypeOK, CallRecords
<1>2. [call[a] EXCEPT !.at = l] \in CallRecords
  BY <1>1 DEF CallRecords
<1>3. call' = [call EXCEPT ![a] = [call[a] EXCEPT !.at = l]]
  BY DEF Goto
<1> QED
  BY <1>1, <1>2, <1>3 DEF CallRecords

(* Hold also replaces the token and the target it holds. *)
LEMMA HoldMoves ==
    ASSUME OpTypeOK, NEW a \in Apps, NEW l \in Labels, call[a] # Idle,
           NEW g \in GateRecords \cup {NoGate}, NEW t \in TargetRecords \cup {NoTarget}, Hold(a, l, g, t)
    PROVE  /\ call' \in [Apps -> CallRecords \cup {Idle}]
           /\ call'[a].at = l /\ call'[a].kind = call[a].kind /\ call'[a].req = call[a].req
           /\ call'[a].gate = g /\ call'[a].target = t
           /\ \A b \in Apps \ {a} : call'[b] = call[b]
<1>1. call \in [Apps -> CallRecords \cup {Idle}] /\ call[a] \in CallRecords
  BY DEF OpTypeOK, CallRecords
<1>2. [call[a] EXCEPT !.at = l, !.gate = g, !.target = t] \in CallRecords
  BY <1>1 DEF CallRecords
<1>3. call' = [call EXCEPT ![a] = [call[a] EXCEPT !.at = l, !.gate = g, !.target = t]]
  BY DEF Hold
<1> QED
  BY <1>1, <1>2, <1>3 DEF CallRecords

Held(a, l, g, t) ==
    /\ call' \in [Apps -> CallRecords \cup {Idle}]
    /\ call'[a].at = l /\ call'[a].kind = call[a].kind /\ call'[a].req = call[a].req
    /\ call'[a].gate = g /\ call'[a].target = t
    /\ \A b \in Apps \ {a} : call'[b] = call[b]

(* The same, of a call that is at a label. *)
LEMMA HoldHeld ==
    ASSUME OpTypeOK, NEW a \in Apps, NEW l \in Labels, call[a] # Idle, NEW g, g \in GateRecords \cup {NoGate},
           NEW t, t \in TargetRecords \cup {NoTarget}, Hold(a, l, g, t)
    PROVE  Held(a, l, g, t)
  BY HoldMoves DEF Held

(* Return makes one call idle. *)
LEMMA ReturnMoves ==
    ASSUME OpTypeOK, NEW a \in Apps, Return(a)
    PROVE  /\ call' \in [Apps -> CallRecords \cup {Idle}]
           /\ call'[a] = Idle
           /\ \A b \in Apps \ {a} : call'[b] = call[b]
  BY DEF OpTypeOK, CallRecords, Return

(* Open fills an idle call. *)
LEMMA OpenMoves ==
    ASSUME OpTypeOK, NEW a \in Apps, NEW r \in Requests, NEW k \in {"advance", "recover"}, NEW l \in Labels,
           NEW g \in GateRecords \cup {NoGate}, Open(a, r, k, l, g)
    PROVE  /\ call' \in [Apps -> CallRecords \cup {Idle}]
           /\ call'[a].at = l /\ call'[a].kind = k /\ call'[a].req = r /\ call'[a].gate = g
           /\ \A b \in Apps \ {a} : call'[b] = call[b]
<1>1. call \in [Apps -> CallRecords \cup {Idle}]
  BY DEF OpTypeOK, CallRecords
<1>2. [at |-> l, kind |-> k, req |-> r, gate |-> g, target |-> NoTarget] \in CallRecords
  BY DEF CallRecords
<1> QED
  BY <1>1, <1>2 DEF Open, CallRecords

-----------------------------------------------------------------------------
(* The cluster *)

ClusterOK ==
    /\ service \in [Apps -> ServiceRecords \cup {Absent}]
    /\ revision \in 1 .. MaxRevision
    /\ pods \in [Owners -> {"absent"} \cup Running \cup Retiring]
    /\ late \subseteq WriteRecords
    /\ \A a \in Apps :
          /\ service[a] # Absent => Exists(service[a])
          /\ service[a].version <= revision
    /\ \A w \in late : w.body.version <= revision

(* The token of an existing Service can be saved. *)
LEMMA GateTyped ==
    ASSUME ClusterOK, NEW a \in Apps, Exists(service[a])
    PROVE  /\ service[a] \in ServiceRecords
           /\ GateOf(service[a]) \in GateRecords
           /\ service[a].spec \in SpecRecords
           /\ service[a].spec.target \in TargetRecords
<1>1. service[a] \in ServiceRecords
  BY SMTT(30) DEF ClusterOK, Exists, Absent
<1> QED
  BY <1>1 DEF ServiceRecords, SpecRecords, GateOf, GateRecords

-----------------------------------------------------------------------------
(* Identifiers of different purposes or owners differ. *)
LEMMA Identities ==
    ASSUME NEW x, NEW y
    PROVE  /\ Candidate(x) # Legacy(y) /\ Candidate(x) # Inactive(y) /\ Legacy(x) # Inactive(y)
           /\ Candidate(x) = Candidate(y) => x = y
           /\ Operation(x) # Recovery(y)
           /\ Operation(x) = Operation(y) => x = y
           /\ Recovery(x) = Recovery(y) => x = y
           /\ NoOperation(x) # Operation(y) /\ NoOperation(x) # Recovery(y)
           /\ Bootstrap(x) # Operation(y) /\ Bootstrap(x) # Recovery(y)
  BY DEF Candidate, Legacy, Inactive, Operation, Recovery, NoOperation, Bootstrap, Id

(* The fields of a Service's target. *)
LEMMA TargetFields ==
    ASSUME NEW sel, NEW port
    PROVE  Target(sel, port).sel = sel /\ Target(sel, port).port = port
  BY DEF Target

(* A fence sets the operation, ... *)
LEMMA FencedOperation ==
    ASSUME NEW s, s.spec \in SpecRecords, NEW op
    PROVE  Fenced(s, op).op = op
  BY SMTT(30) DEF Fenced, SpecRecords

(* ... and changes nothing when the Service carries that operation. *)
LEMMA FencedAgain ==
    ASSUME NEW s, s.spec \in SpecRecords, NEW op, s.spec.op = op
    PROVE  Fenced(s, op) = s.spec
  BY SMTT(30) DEF Fenced, SpecRecords

(* A replacement sets the target ... *)
LEMMA ReplacedTarget ==
    ASSUME NEW s, s.spec \in SpecRecords, NEW t
    PROVE  Replaced(s, t).target = t
  BY SMTT(30) DEF Replaced, SpecRecords

(* ... and keeps the operation. *)
LEMMA ReplacedOperation ==
    ASSUME NEW s, s.spec \in SpecRecords, NEW t
    PROVE  Replaced(s, t).op = s.spec.op
  BY SMTT(30) DEF Replaced, SpecRecords

(* A first deployment's Service selects nothing. *)
LEMMA ReboundTarget ==
    ASSUME NEW r
    PROVE  Rebound(r, requested[r].port).target = InactiveTarget(r)
  BY SMTT(30) DEF Rebound, InactiveTarget

(* A Service that exists is a Service record. *)
LEMMA ExistsTyped ==
    ASSUME NEW s \in ServiceRecords \cup {Absent}, Exists(s)
    PROVE  s \in ServiceRecords
  BY SMTT(30) DEF Exists, Absent

(* A request that is neither unknown nor open is decided. *)
LEMMA DecidedTerminal ==
    ASSUME TypeOK, NEW q \in Requests, state[q] # "absent", state[q] # "pending"
    PROVE  state[q] \in Terminal
  BY DEF TypeOK

(* Before a request has a checkpoint its writes only make the Service select  *)
(* nothing, and only for a first deployment.                                  *)
LEMMA UncheckedChange ==
    ASSUME NEW r, NEW a, NEW s, NEW c, stage[r] = "absent",
           MayChange(r, s, c) \/ MayCreate(r, a, c)
    PROVE  /\ c.target = Target(Inactive(r), requested[r].port)
           /\ c.op \in {NoOperation(a), Bootstrap(r)}
           /\ previous[r] = NoConfig
<1>1. previous[r] = NoConfig /\ (c = Rebound(r, requested[r].port) \/ c = Initial(a, r, requested[r].port))
  BY DEF MayChange, Changes, MayCreate
<1> QED
  BY <1>1, SMTT(30) DEF Rebound, Initial

(* An application has one open request at most. *)
LEMMA Single ==
    ASSUME OpInv, NEW a \in Apps, NEW r \in Pending(a)
    PROVE  /\ r \in Requests /\ AppOf[r] = a /\ state[r] = "pending"
           /\ \A q \in Requests : AppOf[q] = a /\ state[q] = "pending" => q = r
           /\ requested[r] \in Configs
           /\ previous[r] = NoConfig <=> a \notin live
           /\ previous[r] # NoConfig => previous[r] = desired[a]
<1>1. r \in Requests /\ AppOf[r] = a /\ state[r] = "pending"
  BY DEF Pending
<1>2. OnePending /\ TypeOK /\ PredecessorPreserved
  BY DEF OpInv, IInv
<1>3. \A q \in Requests : AppOf[q] = a /\ state[q] = "pending" => q = r
  BY <1>1, <1>2 DEF OnePending
<1>4. previous[r] = PreviousOf(a)
  BY <1>1, <1>2 DEF PredecessorPreserved
<1>5. requested[r] \in Configs /\ (a \in live => desired[a] # NoConfig)
  BY <1>1, <1>2 DEF TypeOK
<1> QED
  BY <1>1, <1>3, <1>4, <1>5 DEF PreviousOf

(* Before it has a checkpoint no request of the application has one. *)
LEMMA NoneOpened ==
    ASSUME OpInv, NEW a \in Apps, NEW r \in Pending(a), stage[r] = "absent"
    PROVE  \A q \in Requests : AppOf[q] = a => ~Opened(q)
<1>1. \A q \in Requests : AppOf[q] = a /\ state[q] = "pending" => q = r
  BY Single
<1> QED
  BY <1>1 DEF Opened

(* The rows of an application and of its requests stay as they are; a request *)
(* of another one may reach the Service of that one.                          *)
SameRows(a) ==
    /\ \A r \in Requests : AppOf[r] = a =>
          /\ state'[r] = state[r] /\ stage'[r] = stage[r] /\ intent'[r] = intent[r]
          /\ requested'[r] = requested[r] /\ previous'[r] = previous[r]
    /\ \A r \in Requests : stage[r] # "absent" => stage'[r] # "absent"
    /\ desired'[a] = desired[a] /\ (a \in live' <=> a \in live) /\ route'[a] = route[a]

(* Then everything the invariant reads from them stays. *)
LEMMA RowsView ==
    ASSUME NEW a \in Apps, SameRows(a)
    PROVE  /\ Pending(a)' = Pending(a)
           /\ \A r \in Requests : AppOf[r] = a =>
                 /\ Opened(r)' <=> Opened(r)
                 /\ CandidateTarget(r)' = CandidateTarget(r)
                 /\ InactiveTarget(r)' = InactiveTarget(r)
           /\ \A t : Settled(a, t)' <=> Settled(a, t)
<1>1. Pending(a)' = Pending(a)
  BY DEF SameRows, Pending
<1>2. ASSUME NEW r \in Requests, AppOf[r] = a
      PROVE  /\ Opened(r)' <=> Opened(r)
             /\ CandidateTarget(r)' = CandidateTarget(r)
             /\ InactiveTarget(r)' = InactiveTarget(r)
  BY <1>2 DEF SameRows, Opened, CandidateTarget, InactiveTarget
<1>3. ASSUME NEW t PROVE Settled(a, t)' <=> Settled(a, t)
  BY DEF SameRows, Settled
<1> QED
  BY <1>1, <1>2, <1>3

(* A step that leaves the rows and the Service of an application alone        *)
(* retires only spare workloads of it and sends only permitted writes.        *)
LEMMA QuietObject ==
    ASSUME NEW a \in Apps, ObjectInv(a), SameRows(a), service'[a] = service[a],
           \A x \in OwnedBy(a) :
              /\ pods[x] \in Running => pods'[x] \in Running \/ Spare(a, x)
              /\ pods[x] = "retired" => pods'[x] = "retired",
           \A w \in late' : w \in late \/ Permitted(a, w),
           Pending(a) = {} => ingress'[a] = ingress[a]
    PROVE  ObjectInv(a)'
<1> DEFINE Mine(r) == r \in Requests /\ AppOf[r] = a
<1>1. /\ Pending(a)' = Pending(a)
      /\ \A r \in Requests : AppOf[r] = a =>
                 /\ Opened(r)' <=> Opened(r)
                 /\ CandidateTarget(r)' = CandidateTarget(r)
      /\ \A t : Settled(a, t)' <=> Settled(a, t)
  BY RowsView
<1>2. \A r \in Requests : AppOf[r] = a =>
          /\ state'[r] = state[r] /\ stage'[r] = stage[r] /\ intent'[r] = intent[r]
          /\ requested'[r] = requested[r] /\ previous'[r] = previous[r]
  BY DEF SameRows
<1>3. ServiceInv(a)'
  <2>1. a \in live' => Exists(service'[a])
    BY DEF ObjectInv, ServiceInv, SameRows
  <2>2. ASSUME NEW r \in Requests, AppOf[r] = a, Opened(r)' PROVE Phase(r)'
    <3>1. Phase(r)
      BY <1>1, <2>2 DEF ObjectInv, ServiceInv
    <3>2. Settled(AppOf[r], intent[r].target)'
      BY <1>1, <1>2, <2>2, <3>1 DEF Phase
    <3>3. Shows(r, stage[r], service[AppOf[r]], intent[r].target, intent[r].gate, CandidateTarget(r))'
      BY <1>1, <1>2, <2>2, <3>1 DEF Phase
    <3> QED
      BY <3>2, <3>3 DEF Phase
  <2>3. Exists(service'[a]) /\ (\A r \in Requests : AppOf[r] = a => ~Opened(r)') =>
          Settled(a, service[a].spec.target)'
    BY <1>1 DEF ObjectInv, ServiceInv
  <2>4. Exists(service'[a]) =>
          \A r \in Requests : service'[a].spec.op \in {Operation(r), Recovery(r)} => stage'[r] # "absent"
    BY DEF ObjectInv, ServiceInv, SameRows
  <2> QED
    BY <2>1, <2>2, <2>3, <2>4 DEF ServiceInv
<1>4. \A sel : Wants(a, sel)' <=> Wants(a, sel)
  BY <1>1, <1>2 DEF Wants, Serves
<1>5. \A x : Spare(a, x) => Spare(a, x)'
  BY <1>2, <1>4 DEF Spare, Over
<1>6. ASSUME NEW body, Fits(a, body) PROVE Fits(a, body)'
  <2>1. ASSUME NEW r \in Pending(a), MayChange(r, service[a], body.spec)
        PROVE  MayChange(r, service[a], body.spec)'
    <3>1. r \in Requests /\ AppOf[r] = a /\ state[r] = "pending" /\ r \in OwnedBy(a)
      BY DEF Pending, OwnedBy
    <3>2. stage[r] \in {"fenced", "recovering"} => ~Spare(a, r) \/ r = a
      BY <3>1 DEF Spare, Over, Terminal
    <3>3. r # a
      BY <3>1, OperationAssumption
    <3>4. stage[r] \in {"fenced", "recovering"} /\ pods[r] \in Running => pods'[r] \in Running
      BY <3>1, <3>2, <3>3
    <3>5. /\ stage'[r] = stage[r] /\ intent'[r] = intent[r]
          /\ requested'[r] = requested[r] /\ previous'[r] = previous[r]
      BY <1>2, <3>1
    <3> QED
      BY <2>1, <3>4, <3>5 DEF MayChange, Changes
  <2>2. ASSUME NEW r \in Pending(a), MayCreate(r, a, body.spec)
        PROVE  MayCreate(r, a, body.spec)'
    BY <1>2, <2>2 DEF MayCreate, Pending
  <2> QED
    BY <1>1, <1>6, <2>1, <2>2 DEF Fits
<1>7. \A w : Permitted(a, w) => Permitted(a, w)'
  BY <1>5, <1>6 DEF Permitted
<1>8. LateInv(a)'
  BY <1>7 DEF ObjectInv, LateInv
<1>9. PodsInv(a)'
  <2>1. a \in OwnedBy(a) /\ \A x \in Requests : AppOf[x] = a => x \in OwnedBy(a) /\ x # a
    BY OperationAssumption DEF OwnedBy
  <2>2. PodsInv(a)
    BY DEF ObjectInv
  <2>3. Wants(a, Legacy(a)) => ~Spare(a, a)
    BY <2>1 DEF Spare
  <2>4. ASSUME NEW x \in Requests, AppOf[x] = a, Wants(a, Candidate(x)) PROVE ~Spare(a, x)
    BY <2>1, <2>4 DEF Spare
  <2> QED
    BY <1>2, <1>4, <2>1, <2>2, <2>3, <2>4 DEF PodsInv
<1>10. RowsInv(a)'
  BY <1>1, <1>2 DEF ObjectInv, RowsInv, SameRows
<1> QED
  BY <1>3, <1>8, <1>9, <1>10 DEF ObjectInv

(* A call is not disturbed by a step that leaves what it knows alone. *)
LEMMA QuietCall ==
    ASSUME OpInv, NEW a \in Apps, CallInv(a), SameRows(a), service'[a] = service[a], call'[a] = call[a],
           revision' \in Nat, revision <= revision',
           \A x \in OwnedBy(a) : pods[x] = "retired" => pods'[x] = "retired",
           ingress'[a] = ingress[a]
    PROVE  CallInv(a)'
<1> SUFFICES ASSUME call[a] # Idle PROVE CallInv(a)'
  BY DEF CallInv
<1> DEFINE r == call[a].req
           g == call[a].gate
<1>1. r \in Requests /\ AppOf[r] = a /\ g \in GateRecords \cup {NoGate}
  BY Called DEF OpInv, CallRecords
<1>2. call[a].at = "reset" => g \in GateRecords
  BY DEF OpInv, CallOK, TokenLabels
<1>3. /\ state'[r] = state[r] /\ stage'[r] = stage[r] /\ intent'[r] = intent[r]
      /\ requested'[r] = requested[r] /\ previous'[r] = previous[r]
  BY <1>1 DEF SameRows
<1>4. KnowsRows(call[a].at, r, g)'
  BY <1>3 DEF CallInv, KnowsRows
<1>5. KnowsService(a, call[a].at, r, g, call[a].target)'
  <2>1. CandidateTarget(r)' = CandidateTarget(r) /\ InactiveTarget(r)' = InactiveTarget(r) /\ Pending(a)' = Pending(a)
    BY <1>1, RowsView
  <2>2. KnowsService(a, call[a].at, r, g, call[a].target)
    BY DEF CallInv
  <2>3. call[a].at = "reset" /\ g.version <= revision => g.version <= revision'
    <3>1. g \in GateRecords => g.version \in Nat
      BY VersionOrder
    <3>2. revision \in Nat
      BY RevisionNat
    <3> QED
      BY <1>2, <3>1, <3>2, SMTT(30)
  <2> QED
    BY <1>3, <2>1, <2>2, <2>3 DEF KnowsService
<1>6. KnowsOutcome(a, call[a].at, r, call[a].kind)'
  <2>1. r \in OwnedBy(a)
    BY <1>1 DEF OwnedBy
  <2>2. RouteConfig(a)' = RouteConfig(a)
    BY <1>3 DEF RouteConfig, Req, Withdrawing
  <2> QED
    BY <2>1, <2>2 DEF CallInv, KnowsOutcome
<1> QED
  BY <1>4, <1>5, <1>6 DEF CallInv

-----------------------------------------------------------------------------
(* Writes to the Service *)

(* A permitted change keeps the Service within its request's stage. *)
LEMMA ChangeShows ==
    ASSUME NEW r, NEW at, NEW first, NEW running, NEW i, NEW port, NEW s, NEW c, NEW n,
           at # "absent",
           s.spec \in SpecRecords, s.uid = n.uid, n.spec = c,
           Shows(r, at, s, i.target, i.gate, Target(Candidate(r), port)),
           Changes(r, at, first, running, i, port, s, c)
    PROVE  /\ Shows(r, at, n, i.target, i.gate, Target(Candidate(r), port))
           /\ n.spec.op \in {Operation(r), Recovery(r)}
           /\ \/ n.spec.target \in {s.spec.target, i.target}
              \/ n.spec.target = Target(Candidate(r), port) /\ running /\ at \in {"fenced", "recovering"}
<1>0. Operation(r) # Recovery(r)
  BY Identities
<1>1. \A op : Fenced(s, op).op = op /\ Fenced(s, op).target = s.spec.target
  BY DEF Fenced, SpecRecords
<1>2. \A t : Replaced(s, t).op = s.spec.op /\ Replaced(s, t).target = t
  BY DEF Replaced, SpecRecords
<1>3. CASE at \in {"prepared", "recovering"} /\ s.spec.op = i.gate.op /\ c = Fenced(s, Operation(r))
  <2>1. n.spec.op = Operation(r) /\ n.spec.target = s.spec.target
    BY <1>1, <1>3
  <2> QED
    BY <1>0, <1>3, <2>1 DEF Shows, Exists
<1>4. CASE at \in {"fenced", "recovering"} /\ s.spec.op = Operation(r) /\ running
           /\ c = Replaced(s, Target(Candidate(r), port))
  <2>1. n.spec.op = Operation(r) /\ n.spec.target = Target(Candidate(r), port)
    BY <1>2, <1>4
  <2> QED
    BY <1>0, <1>4, <2>1 DEF Shows, Exists
<1>5. CASE at = "recovering" /\ s.spec.op # Recovery(r) /\ c = Fenced(s, Recovery(r))
  <2>1. n.spec.op = Recovery(r) /\ n.spec.target = s.spec.target
    BY <1>1, <1>5
  <2> QED
    BY <1>0, <1>5, <2>1 DEF Shows, Exists
<1>6. CASE at = "recovering" /\ s.spec.op = Recovery(r) /\ c = Replaced(s, i.target)
  <2>1. n.spec.op = Recovery(r) /\ n.spec.target = i.target
    BY <1>2, <1>6
  <2> QED
    BY <1>0, <1>6, <2>1 DEF Shows, Exists
<1> QED
  BY <1>3, <1>4, <1>5, <1>6 DEF Changes

(* An accepted write leaves the Service alone, or gives it a resourceVersion  *)
(* newer than every other token and the content of its open request.          *)
LEMMA AcceptedWrite ==
    ASSUME OpInv, NEW a \in Apps, NEW body, Accepts(service[a], body), Fits(a, body),
           service'[a] = Written(service[a], body, revision + 1), service'[a] # service[a]
    PROVE  /\ service'[a].spec = body.spec /\ service'[a].version = revision + 1 /\ Exists(service'[a])
           /\ Exists(service[a]) => service[a].spec \in SpecRecords /\ service'[a].uid = service[a].uid
           /\ \E r \in Pending(a) :
                 IF Exists(service[a]) THEN MayChange(r, service[a], body.spec) ELSE MayCreate(r, a, body.spec)
<1>1. revision \in Nat /\ ClusterOK
  BY RevisionNat DEF OpInv, OpTypeOK, ClusterOK
<1>2. ~(Exists(service[a]) /\ body.spec = service[a].spec)
  BY DEF Written
<1>3. service'[a] = [uid |-> IF Exists(service[a]) THEN service[a].uid ELSE revision + 1,
                     version |-> revision + 1, spec |-> body.spec]
  BY <1>2 DEF Written
<1>4. Exists(service[a]) => service[a].spec \in SpecRecords
  BY <1>1, GateTyped
<1>5. service'[a].spec = body.spec /\ service'[a].version = revision + 1
      /\ service'[a].uid = IF Exists(service[a]) THEN service[a].uid ELSE revision + 1
  BY <1>3, SMTT(30)
<1>6. revision + 1 # 0
  BY <1>1, VersionOrder
<1>7. Exists(service'[a])
  BY <1>5, <1>6 DEF Exists
<1>8. \E r \in Pending(a) :
         IF Exists(service[a]) THEN MayChange(r, service[a], body.spec) ELSE MayCreate(r, a, body.spec)
  BY <1>2 DEF Fits
<1> QED
  BY <1>4, <1>5, <1>7, <1>8

(* No other write can be accepted after it. *)
LEMMA NewerThanLate ==
    ASSUME OpInv, NEW a \in Apps, service'[a].version = revision + 1, NEW w \in late
    PROVE  ~Accepts(service[a], w.body)'
<1>1. revision \in Nat /\ w.body.version <= revision /\ w.body.version \in Nat
  BY OperationAssumption, SMTT(30) DEF OpInv, OpTypeOK, WriteRecords, ServiceRecords, Absent
<1> QED
  BY <1>1, SMTT(30) DEF Accepts

(* A permitted write to the Service keeps what the invariant says of it. *)
LEMMA WrittenObject ==
    ASSUME OpInv, NEW a \in Apps, ObjectInv(a), SameRows(a),
           NEW body, Accepts(service[a], body), Fits(a, body),
           service'[a] = Written(service[a], body, revision + 1),
           pods' = pods, late' \subseteq late, ingress'[a] = ingress[a]
    PROVE  ObjectInv(a)'
<1>1. CASE service'[a] = service[a]
  BY <1>1, QuietObject
<1>2. CASE service'[a] # service[a]
  <2> DEFINE s == service[a]
             n == service'[a]
  <2>1. /\ n.spec = body.spec /\ n.version = revision + 1 /\ Exists(n)
        /\ Exists(s) => s.spec \in SpecRecords /\ n.uid = s.uid
        /\ \E r \in Pending(a) : IF Exists(s) THEN MayChange(r, s, body.spec) ELSE MayCreate(r, a, body.spec)
    BY <1>2, AcceptedWrite
  <2>2. PICK r \in Pending(a) : IF Exists(s) THEN MayChange(r, s, body.spec) ELSE MayCreate(r, a, body.spec)
    BY <2>1
  <2>3. /\ r \in Requests /\ AppOf[r] = a /\ state[r] = "pending"
        /\ \A q \in Requests : AppOf[q] = a /\ state[q] = "pending" => q = r
        /\ previous[r] = NoConfig <=> a \notin live
    BY Single
  <2>4. /\ state'[r] = state[r] /\ stage'[r] = stage[r] /\ intent'[r] = intent[r]
        /\ requested'[r] = requested[r] /\ previous'[r] = previous[r]
    BY <2>3 DEF SameRows
  <2>5. /\ \A q \in Requests : AppOf[q] = a =>
                 /\ Opened(q)' <=> Opened(q)
                 /\ CandidateTarget(q)' = CandidateTarget(q)
        /\ \A t : Settled(a, t)' <=> Settled(a, t)
        /\ Pending(a)' = Pending(a)
    BY RowsView
  <2>6. \A q \in Requests : AppOf[q] = a /\ Opened(q) => q = r
    BY <2>3 DEF Opened
  <2>7. ServiceInv(a)
    BY DEF ObjectInv
  <2>8. (a \in live' <=> a \in live) /\ \A q \in Requests : stage[q] # "absent" => stage'[q] # "absent"
    BY DEF SameRows
  <2> DEFINE Conclusion ==
               /\ ServiceInv(a)'
               /\ \A x : Wants(a, Legacy(x))' => Wants(a, Legacy(x))
               /\ \A x : Wants(a, Candidate(x))' =>
                     Wants(a, Candidate(x)) \/ (x = r /\ pods[r] \in Running /\ ~Over(r))
  <2>9. ASSUME stage[r] = "absent" PROVE Conclusion
    <3>1. /\ n.spec.target = Target(Inactive(r), requested[r].port)
          /\ n.spec.op \in {NoOperation(a), Bootstrap(r)}
          /\ previous[r] = NoConfig
      <4>1. MayChange(r, s, body.spec) \/ MayCreate(r, a, body.spec)
        BY <2>2
      <4>2. n.spec = body.spec
        BY <2>1
      <4> QED
        BY <2>9, <4>1, <4>2, UncheckedChange
    <3>2. n.spec.target.sel = Inactive(r)
      <4>1. Target(Inactive(r), requested[r].port).sel = Inactive(r)
        BY TargetFields
      <4> QED
        BY <3>1, <4>1
    <3>3. \A q \in Requests : AppOf[q] = a => ~Opened(q)
      BY <2>6, <2>9 DEF Opened
    <3>4. a \notin live
      BY <2>3, <3>1
    <3>5. Settled(a, n.spec.target)
      BY <3>2, <3>4, Identities DEF Settled
    <3>6. ServiceInv(a)'
      BY <2>1, <2>5, <2>8, <3>1, <3>3, <3>4, <3>5, Identities DEF ServiceInv
    <3>7. \A x : ~Serves(a, Candidate(x))' /\ ~Serves(a, Legacy(x))'
      BY <3>2, Identities DEF Serves
    <3>8. \A sel : Wants(a, sel)' => Serves(a, sel)'
      BY <2>5, <3>3 DEF Wants
    <3> QED
      BY <3>6, <3>7, <3>8
  <2>10. ASSUME stage[r] # "absent" PROVE Conclusion
    <3>1. Opened(r) /\ Phase(r)
      BY <2>3, <2>7, <2>10 DEF Opened, ServiceInv
    <3>2. Exists(s)
      BY <2>3, <3>1 DEF Phase, Shows
    <3>3. Changes(r, stage[r], previous[r] = NoConfig, pods[r] \in Running, intent[r], requested[r].port, s, body.spec)
      BY <2>2, <3>2 DEF MayChange
    <3>4. Shows(r, stage[r], s, intent[r].target, intent[r].gate, Target(Candidate(r), requested[r].port))
      BY <2>3, <3>1 DEF Phase, CandidateTarget
    <3>5. /\ Shows(r, stage[r], n, intent[r].target, intent[r].gate, Target(Candidate(r), requested[r].port))
          /\ n.spec.op \in {Operation(r), Recovery(r)}
          /\ \/ n.spec.target \in {s.spec.target, intent[r].target}
             \/ /\ n.spec.target = Target(Candidate(r), requested[r].port) /\ pods[r] \in Running
                /\ stage[r] \in {"fenced", "recovering"}
      BY <2>1, <2>10, <3>2, <3>3, <3>4, ChangeShows
    <3>6. Phase(r)'
      <4>1. Settled(AppOf[r], intent[r].target)'
        BY <2>3, <2>4, <2>5, <3>1 DEF Phase
      <4>2. Shows(r, stage[r], service[AppOf[r]], intent[r].target, intent[r].gate, CandidateTarget(r))'
        BY <2>3, <2>4, <3>5 DEF CandidateTarget
      <4> QED
        BY <4>1, <4>2 DEF Phase
    <3>7. \A q \in Requests : n.spec.op \in {Operation(q), Recovery(q)} => q = r
      BY <3>5, Identities
    <3>8. ServiceInv(a)'
      BY <2>1, <2>3, <2>5, <2>6, <2>8, <2>10, <3>1, <3>6, <3>7 DEF ServiceInv
    <3>9. \A sel : Wants(a, sel)' => Serves(a, sel)' \/ sel = intent[r].target.sel
      BY <2>3, <2>4, <2>5, <2>6 DEF Wants
    <3>10. Wants(a, intent[r].target.sel) /\ Wants(a, s.spec.target.sel)
      BY <2>3, <3>1, <3>2 DEF Wants, Serves
    <3>11. ASSUME NEW sel, Serves(a, sel)'
           PROVE  Wants(a, sel) \/ (sel = Candidate(r) /\ pods[r] \in Running /\ stage[r] \in {"fenced", "recovering"})
      <4>1. sel = n.spec.target.sel
        BY <3>11 DEF Serves
      <4>2. Target(Candidate(r), requested[r].port).sel = Candidate(r)
        BY TargetFields
      <4> QED
        BY <3>5, <3>10, <4>1, <4>2
    <3>12. stage[r] \in {"fenced", "recovering"} => ~Over(r)
      BY <2>3 DEF Over, Terminal
    <3>13. \A sel : Wants(a, sel)' => Wants(a, sel) \/ (sel = Candidate(r) /\ pods[r] \in Running /\ ~Over(r))
      BY <3>9, <3>10, <3>11, <3>12
    <3> QED
      BY <3>8, <3>13, Identities
  <2>11. Conclusion
    BY <2>9, <2>10
  <2>12. LateInv(a)'
    <3> SUFFICES ASSUME NEW w \in late' PROVE Permitted(a, w)'
      BY DEF LateInv
    <3>1. w \in late /\ Permitted(a, w)
      BY DEF ObjectInv, LateInv
    <3>2. Fits(a, w.body)'
      BY <2>1, <3>1, NewerThanLate DEF Fits
    <3>3. \A x \in Requests : AppOf[x] = a => (Over(x)' <=> Over(x))
      BY DEF SameRows, Over
    <3>4. ASSUME NEW x, Spare(a, x) PROVE Spare(a, x)'
      BY <2>11, <3>3, <3>4 DEF Spare
    <3> QED
      BY <3>1, <3>2, <3>4 DEF Permitted
  <2>13. PodsInv(a)'
    BY <2>11 DEF ObjectInv, PodsInv, SameRows
  <2>14. RowsInv(a)'
    BY <2>5 DEF ObjectInv, RowsInv, SameRows
  <2> QED
    BY <2>11, <2>12, <2>13, <2>14 DEF ObjectInv
<1> QED
  BY <1>1, <1>2

(* Nor does a delayed write disturb a call: at the labels where the call      *)
(* relies on the Service, no write under way could still change it.           *)
LEMMA WrittenCall ==
    ASSUME OpInv, NEW a \in Apps, ObjectInv(a), CallInv(a), SameRows(a),
           NEW body, Accepts(service[a], body), Fits(a, body),
           service'[a] = Written(service[a], body, revision + 1),
           pods' = pods, ingress'[a] = ingress[a], call'[a] = call[a],
           revision' \in Nat, revision <= revision'
    PROVE  CallInv(a)'
<1>1. CASE service'[a] = service[a]
  BY <1>1, QuietCall
<1>2. CASE service'[a] # service[a] /\ call[a] # Idle
  <2> DEFINE s == service[a]
             n == service'[a]
             q == call[a].req
             g == call[a].gate
             l == call[a].at
  <2>1. /\ n.spec = body.spec /\ n.version = revision + 1 /\ Exists(n)
        /\ Exists(s) => s.spec \in SpecRecords /\ n.uid = s.uid
        /\ \E r \in Pending(a) : IF Exists(s) THEN MayChange(r, s, body.spec) ELSE MayCreate(r, a, body.spec)
    BY <1>2, AcceptedWrite
  <2>2. PICK r \in Pending(a) : IF Exists(s) THEN MayChange(r, s, body.spec) ELSE MayCreate(r, a, body.spec)
    BY <2>1
  <2>3. /\ r \in Requests /\ AppOf[r] = a /\ state[r] = "pending"
        /\ \A x \in Requests : AppOf[x] = a /\ state[x] = "pending" => x = r
    BY Single
  <2>4. /\ q \in Requests /\ AppOf[q] = a /\ g \in GateRecords \cup {NoGate}
        /\ l = "reset" => g \in GateRecords
    BY <1>2, Called DEF OpInv, CallRecords, CallOK, TokenLabels
  <2>5. /\ state'[q] = state[q] /\ stage'[q] = stage[q] /\ intent'[q] = intent[q]
        /\ requested'[q] = requested[q] /\ previous'[q] = previous[q]
    BY <2>4 DEF SameRows
  <2>6. CandidateTarget(q)' = CandidateTarget(q) /\ InactiveTarget(q)' = InactiveTarget(q)
    BY <2>4, RowsView
  <2>7. KnowsRows(l, q, g) /\ KnowsService(a, l, q, g, call[a].target) /\ KnowsOutcome(a, l, q, call[a].kind)
    BY <1>2 DEF CallInv
  <2>8. l \in Unprepared \cup Prepared => q = r
    BY <2>3, <2>4, <2>7 DEF KnowsRows
  <2>9. body.spec # s.spec \/ ~Exists(s)
    BY <1>2 DEF Written
  <2>10. stage[r] # "absent" => Phase(r)
    BY <2>3 DEF ObjectInv, ServiceInv, Opened
  <2>11. \A t : s.spec \in SpecRecords /\ s.spec.target = t => Replaced(s, t) = s.spec
    BY DEF Replaced, SpecRecords
  <2>12. ASSUME l \in {"capture", "intent"} PROVE l = "capture" /\ previous[q] # NoConfig
    <3>1. q = r /\ stage[r] = "absent"
      BY <2>7, <2>8, <2>12 DEF KnowsRows, Unprepared
    <3>2. previous[r] = NoConfig /\ (Exists(s) => s.spec.target # InactiveTarget(r))
      BY <2>2, <3>1 DEF MayChange, Changes, MayCreate, InactiveTarget
    <3> QED
      BY <2>7, <2>12, <3>1, <3>2 DEF KnowsService
  <2>13. l # "fenced"
    <3> SUFFICES ASSUME l = "fenced" PROVE FALSE
      OBVIOUS
    <3>1. q = r /\ stage[r] = "prepared" /\ s.spec.op = Operation(r)
      BY <2>7, <2>8 DEF KnowsRows, KnowsService, Prepared
    <3>2. Exists(s) /\ intent[r].gate.op # Operation(r)
      BY <2>3, <2>10, <3>1 DEF Phase, Shows
    <3> QED
      BY <2>2, <3>1, <3>2 DEF MayChange, Changes
  <2>14. l # "activated"
    <3> SUFFICES ASSUME l = "activated" PROVE FALSE
      OBVIOUS
    <3>1. q = r /\ stage[r] = "fenced" /\ s.spec.target = CandidateTarget(r)
      BY <2>7, <2>8 DEF KnowsRows, KnowsService, Prepared
    <3>2. Exists(s)
      BY <2>3, <2>10, <3>1 DEF Phase, Shows
    <3>3. body.spec = Replaced(s, CandidateTarget(r))
      BY <2>2, <3>1, <3>2 DEF MayChange, Changes, CandidateTarget
    <3> QED
      BY <2>1, <2>9, <2>11, <3>1, <3>2, <3>3
  <2>15. l # "restored"
    <3> SUFFICES ASSUME l = "restored" PROVE FALSE
      OBVIOUS
    <3>1. q = r /\ s.spec.op = Recovery(r) /\ s.spec.target = intent[r].target
      BY <2>7, <2>8 DEF KnowsService, Prepared
    <3>2. stage[r] = "recovering"
      BY <1>2, <3>1 DEF OpInv, CallOK
    <3>3. Exists(s) /\ intent[r].gate.op # Recovery(r)
      BY <2>3, <2>10, <3>2 DEF Phase, Shows
    <3>4. body.spec = Replaced(s, intent[r].target)
      BY <2>2, <3>1, <3>2, <3>3, Identities DEF MayChange, Changes
    <3> QED
      BY <2>1, <2>9, <2>11, <3>1, <3>3, <3>4
  <2>16. l # "reclaiming"
    BY <2>2, <2>7 DEF KnowsService
  <2>17. l = "reset" => g.version <= revision' /\ GateOf(service[a])' # g
    <3>1. g \in GateRecords => g.version \in Nat
      BY VersionOrder
    <3>2. revision \in Nat
      BY RevisionNat
    <3>3. GateOf(service[a])'.version = revision + 1
      BY <2>1 DEF GateOf
    <3>4. l = "reset" => g.version <= revision
      BY <2>7 DEF KnowsService
    <3> QED
      BY <2>4, <3>1, <3>2, <3>3, <3>4, SMTT(30)
  <2>18. KnowsRows(l, q, g)'
    BY <2>5, <2>7 DEF KnowsRows
  <2>19. KnowsService(a, l, q, g, call[a].target)'
    BY <2>5, <2>12, <2>13, <2>14, <2>15, <2>16, <2>17 DEF KnowsService
  <2>20. KnowsOutcome(a, l, q, call[a].kind)'
    <3>1. RouteConfig(a)' = RouteConfig(a)
      BY <2>5 DEF RouteConfig, Req, Withdrawing
    <3> QED
      BY <2>7, <3>1 DEF KnowsOutcome
  <2> QED
    BY <2>18, <2>19, <2>20 DEF CallInv
<1>3. CASE call[a] = Idle
  BY <1>3 DEF CallInv
<1> QED
  BY <1>1, <1>2, <1>3

-----------------------------------------------------------------------------
(* Other applications *)

(* A step that writes the rows of one application, and of its requests, only. *)
OnlyRows(a) ==
    /\ \A r \in Requests : AppOf[r] # a =>
          /\ state'[r] = state[r] /\ stage'[r] = stage[r] /\ intent'[r] = intent[r]
          /\ requested'[r] = requested[r] /\ previous'[r] = previous[r]
    /\ \A r \in Requests : stage[r] # "absent" => stage'[r] # "absent"
    /\ \A b \in Apps \ {a} : desired'[b] = desired[b] /\ (b \in live' <=> b \in live) /\ route'[b] = route[b]

(* A step that writes its objects, and sends writes to them, only. *)
OnlyObjects(a) ==
    /\ revision <= revision'
    /\ \A b \in Apps \ {a} : service'[b] = service[b] /\ ingress'[b] = ingress[b] /\ call'[b] = call[b]
    /\ \A x \in Owners \ OwnedBy(a) : pods'[x] = pods[x]
    /\ \A w \in late' : w \in late \/ w.of \in OwnedBy(a)

(* Then only what the invariant says of that application is at stake. *)
LEMMA Focus ==
    ASSUME OpInv, revision' \in Nat, ClusterInv, NEW a \in Apps, OnlyRows(a), OnlyObjects(a),
           ObjectInv(a)', CallInv(a)'
    PROVE  ClusterInv'
<1> SUFFICES ASSUME NEW b \in Apps, b # a PROVE ObjectInv(b)' /\ CallInv(b)'
  BY DEF ClusterInv
<1>1. ObjectInv(b) /\ CallInv(b)
  BY DEF ClusterInv
<1>2. SameRows(b)
  BY DEF OnlyRows, SameRows
<1>3. /\ service'[b] = service[b] /\ ingress'[b] = ingress[b] /\ call'[b] = call[b]
      /\ revision <= revision'
  BY DEF OnlyObjects
<1>4. \A x \in OwnedBy(b) : x \in Owners /\ x \notin OwnedBy(a)
  BY OperationAssumption, SMTT(30) DEF OwnedBy, Owners
<1>5. \A x \in OwnedBy(b) : pods'[x] = pods[x]
  BY <1>4 DEF OnlyObjects
<1>6. \A w \in late' : w \in late \/ Permitted(b, w)
  <2>1. b \in OwnedBy(b)
    BY DEF OwnedBy
  <2> QED
    BY <1>4, <2>1 DEF OnlyObjects, Permitted
<1>7. ObjectInv(b)'
  BY <1>1, <1>2, <1>3, <1>5, <1>6, QuietObject
<1>8. CallInv(b)'
  BY <1>1, <1>2, <1>3, <1>5, QuietCall
<1> QED
  BY <1>7, <1>8

(* A step that leaves the journal alone leaves every row alone. *)
LEMMA JournalKept ==
    ASSUME UNCHANGED journalVars
    PROVE  \A a \in Apps : SameRows(a) /\ OnlyRows(a)
  BY DEF journalVars, requestVars, checkpointVars, appVars, SameRows, OnlyRows

-----------------------------------------------------------------------------
(* Reads *)

(* What a call knows after it read the cluster. *)
LEMMA ReadCall ==
    ASSUME OpInv, NEW a \in Apps, CallInv(a), ReadStep(a)
    PROVE  CallInv(a)' /\ \A b \in Apps \ {a} : call'[b] = call[b]
<1> DEFINE r == call[a].req
           s == service[a]
           k == call[a].kind
           Rest == \A b \in Apps \ {a} : call'[b] = call[b]
<1>1. UNCHANGED <<journalVars, service, revision, pods, ingress>>
  BY DEF ReadStep, clusterVars, serviceVars
<1>2. UNCHANGED <<state, stage, intent, requested, previous>>
  BY <1>1 DEF journalVars, requestVars, checkpointVars
<1>3. OpTypeOK /\ ClusterOK
  BY DEF OpInv, OpTypeOK, ClusterOK
<1>4. call[a].at # "idle" =>
         /\ KnowsRows(call[a].at, r, call[a].gate)
         /\ KnowsService(a, call[a].at, r, call[a].gate, call[a].target)
         /\ KnowsOutcome(a, call[a].at, r, k)
  BY LabelNotIdle DEF CallInv
<1>5. Pending(a)' = Pending(a) /\ \A q : InactiveTarget(q)' = InactiveTarget(q)
  BY <1>2 DEF Pending, InactiveTarget
<1>6. ASSUME call[a].at # "idle", NEW l \in Labels, Goto(a, l)
      PROVE  /\ Rest /\ call'[a].at = l /\ call'[a].kind = k /\ call'[a].req = r
             /\ call'[a].gate = call[a].gate /\ call'[a].target = call[a].target
             /\ RouteConfig(a)' = RouteConfig(a)
  <2>1. Rest /\ call'[a].at = l /\ call'[a].kind = k /\ call'[a].req = r
        /\ call'[a].gate = call[a].gate /\ call'[a].target = call[a].target
    BY <1>3, <1>6, GotoMoves, LabelNotIdle
  <2> QED
    BY <1>2, <2>1 DEF RouteConfig, Req, Withdrawing
<1>7. ASSUME call[a].at # "idle", NEW l \in Labels, Exists(s), NEW t \in {s.spec.target, NoTarget},
             Hold(a, l, GateOf(s), t)
      PROVE  /\ Rest /\ call'[a].at = l /\ call'[a].kind = k /\ call'[a].req = r
             /\ call'[a].gate = GateOf(s) /\ call'[a].target = t
  <2>1. GateOf(s) \in GateRecords \cup {NoGate} /\ t \in TargetRecords \cup {NoTarget}
    BY <1>3, <1>7, GateTyped
  <2>2. PICK g : g = GateOf(s)
    OBVIOUS
  <2>3. call[a] # Idle
    BY <1>7, LabelNotIdle
  <2>4. Held(a, l, g, t)
    BY <1>3, <1>7, <2>1, <2>2, <2>3, HoldHeld
  <2> QED
    BY <2>2, <2>4 DEF Held
<1>8. GateOf(s).version = s.version /\ GateOf(s).op = s.spec.op /\ s.version <= revision
  BY <1>3 DEF GateOf, ClusterOK
<1> USE DEF Labels, Unprepared, Prepared
<1>9. CASE ObserveTarget(a)
  <2>1. call[a].at \in {"prepare", "created"}
    BY <1>9 DEF ObserveTarget
  <2>2. state[r] = "pending" /\ stage[r] = "absent"
    BY <1>4, <2>1 DEF KnowsRows
  <2>3. CASE Goto(a, "create") /\ previous[r] = NoConfig
    BY <1>2, <1>6, <2>1, <2>2, <2>3 DEF CallInv, KnowsRows, KnowsService, KnowsOutcome
  <2>4. CASE /\ Exists(s) /\ previous[r] = NoConfig /\ s.spec.target # InactiveTarget(r)
             /\ Hold(a, "reset", GateOf(s), s.spec.target)
    BY <1>1, <1>2, <1>5, <1>7, <1>8, <2>1, <2>2, <2>4 DEF CallInv, KnowsRows, KnowsService, KnowsOutcome
  <2>5. CASE /\ Exists(s) /\ (previous[r] = NoConfig => s.spec.target = InactiveTarget(r))
             /\ Goto(a, "capture")
    BY <1>1, <1>2, <1>5, <1>6, <2>1, <2>2, <2>5 DEF CallInv, KnowsRows, KnowsService, KnowsOutcome
  <2>6. CASE /\ Exists(s) /\ (previous[r] = NoConfig => s.spec.target = InactiveTarget(r))
             /\ Hold(a, "intent", GateOf(s), s.spec.target)
    BY <1>1, <1>2, <1>5, <1>7, <2>1, <2>2, <2>6 DEF CallInv, KnowsRows, KnowsService, KnowsOutcome
  <2> QED
    BY <1>9, <2>3, <2>4, <2>5, <2>6 DEF ObserveTarget, Req
<1>10. CASE Capture(a)
  <2>1. call[a].at = "capture" /\ Exists(s) /\ Hold(a, "intent", GateOf(s), s.spec.target)
    BY <1>10 DEF Capture, At
  <2>2. /\ state[r] = "pending" /\ stage[r] = "absent"
        /\ previous[r] = NoConfig => s.spec.target = InactiveTarget(r)
    BY <1>4, <2>1 DEF KnowsRows, KnowsService
  <2> QED
    BY <1>1, <1>2, <1>5, <1>7, <2>1, <2>2 DEF CallInv, KnowsRows, KnowsService, KnowsOutcome
<1>11. CASE CaptureRecovery(a)
  <2>1. /\ call[a].at = "restore" /\ Exists(s)
        /\ \/ Hold(a, "recoveryFence", GateOf(s), NoTarget)
           \/ s.spec.op = Recovery(r) /\ Hold(a, "replace", GateOf(s), NoTarget)
           \/ s.spec.op = Recovery(r) /\ s.spec.target = intent[r].target /\ Hold(a, "restored", GateOf(s), NoTarget)
    BY <1>11 DEF CaptureRecovery, At, Req
  <2>2. state[r] = "pending"
    BY <1>4, <2>1 DEF KnowsRows
  <2>3. PICK l \in {"recoveryFence", "replace", "restored"} :
           /\ Hold(a, l, GateOf(s), NoTarget)
           /\ l \in {"replace", "restored"} => s.spec.op = Recovery(r)
           /\ l = "restored" => s.spec.target = intent[r].target
    BY <2>1
  <2> QED
    BY <1>1, <1>2, <1>7, <1>8, <2>1, <2>2, <2>3 DEF CallInv, KnowsRows, KnowsService, KnowsOutcome
<1>12. CASE CheckRetired(a)
  <2>1. call[a].at = "retired" /\ pods[r] = "retired" /\ Goto(a, "observe")
    BY <1>12 DEF CheckRetired, At, Req
  <2>2. state[r] = "pending"
    BY <1>4, <2>1 DEF KnowsRows
  <2> QED
    BY <1>1, <1>2, <1>6, <2>1, <2>2 DEF CallInv, KnowsRows, KnowsService, KnowsOutcome
<1>13. CASE Observe(a)
  <2>1. call[a].at = "observe" /\ Exists(s) /\ Hold(a, "route", GateOf(s), s.spec.target)
    BY <1>13 DEF Observe, At, AtGate
  <2>2. state[r] = "pending" /\ (k = "recover" => pods[r] = "retired")
    BY <1>4, <2>1 DEF KnowsRows, KnowsOutcome
  <2> QED
    BY <1>1, <1>2, <1>7, <2>1, <2>2 DEF CallInv, KnowsRows, KnowsService, KnowsOutcome
<1>14. CASE Recheck(a)
  <2>1. call[a].at = "recheck" /\ Goto(a, "finalize")
    BY <1>14 DEF Recheck, At
  <2>2. state[r] = "pending" /\ (k = "recover" => pods[r] = "retired") /\ ingress[a] = RouteConfig(a).domain
    BY <1>4, <2>1 DEF KnowsRows, KnowsOutcome
  <2> QED
    BY <1>1, <1>2, <1>6, <2>1, <2>2 DEF CallInv, KnowsRows, KnowsService, KnowsOutcome
<1>15. CASE Reclaim(a)
  <2>1. /\ call[a].at = "reclaim" /\ Exists(s) /\ Pending(a) = {} /\ s.spec.target.sel = Candidate(r)
        /\ Hold(a, "reclaiming", GateOf(s), s.spec.target)
    BY <1>15 DEF Reclaim, At, Req
  <2> QED
    BY <1>1, <1>2, <1>5, <1>7, <2>1 DEF CallInv, KnowsRows, KnowsService, KnowsOutcome
<1> QED
  BY <1>9, <1>10, <1>11, <1>12, <1>13, <1>14, <1>15 DEF ReadStep

(* Reads and early returns change a call only. *)
LEMMA ReadCluster ==
    ASSUME OpInv, ClusterInv, NEW a \in Apps, ReadStep(a) \/ Leave(a)
    PROVE  ClusterInv'
<1>1. UNCHANGED <<journalVars, service, revision, pods, ingress, late>>
  BY DEF ReadStep, Leave, clusterVars, serviceVars
<1>2. ObjectInv(a) /\ CallInv(a) /\ OpTypeOK /\ revision \in Nat
  BY RevisionNat DEF ClusterInv, OpInv
<1>3. SameRows(a) /\ OnlyRows(a)
  BY <1>1, JournalKept
<1>4. CallInv(a)' /\ \A b \in Apps \ {a} : call'[b] = call[b]
  <2>1. CASE ReadStep(a)
    BY <1>2, <2>1, ReadCall
  <2>2. CASE Leave(a)
    <3>1. call'[a] = Idle /\ \A b \in Apps \ {a} : call'[b] = call[b]
      BY <1>2, <2>2, ReturnMoves DEF Leave
    <3> QED
      BY <3>1 DEF CallInv
  <2> QED
    BY <2>1, <2>2
<1>5. ObjectInv(a)'
  BY <1>1, <1>2, <1>3, QuietObject
<1>6. OnlyObjects(a)
  BY <1>1, <1>2, <1>4, VersionOrder DEF OnlyObjects
<1> QED
  BY <1>1, <1>2, <1>3, <1>4, <1>5, <1>6, Focus

-----------------------------------------------------------------------------
(* Writes *)

(* The effect of a write to the Service that the API server accepts. *)
LEMMA PerformedService ==
    ASSUME OpInv, NEW w, w.kind = "service", w.of \in Apps, Perform(w)
    PROVE  /\ Accepts(service[w.of], w.body)
           /\ service'[w.of] = Written(service[w.of], w.body, revision + 1)
           /\ service'[w.of].spec = w.body.spec /\ Exists(service'[w.of])
           /\ \A b \in Apps \ {w.of} : service'[b] = service[b]
           /\ pods' = pods /\ revision' \in Nat /\ revision <= revision'
<1>1. revision \in Nat /\ service \in [Apps -> ServiceRecords \cup {Absent}]
  BY RevisionNat DEF OpInv, OpTypeOK
<1>2. /\ Accepts(service[w.of], w.body)
      /\ service' = [service EXCEPT ![w.of] = Written(@, w.body, revision + 1)]
      /\ revision' \in {revision, revision + 1} /\ pods' = pods
  BY DEF Perform
<1>3. service'[w.of] = Written(service[w.of], w.body, revision + 1)
      /\ \A b \in Apps \ {w.of} : service'[b] = service[b]
  BY <1>1, <1>2
<1>4. service'[w.of].spec = w.body.spec /\ Exists(service'[w.of])
  <2>1. revision + 1 # 0
    BY <1>1, VersionOrder
  <2> QED
    BY <1>3, <2>1, SMTT(30) DEF Written, Exists
<1>5. revision' \in Nat /\ revision <= revision'
  BY <1>1, <1>2, VersionOrder
<1> QED
  BY <1>2, <1>3, <1>4, <1>5

(* A lost write that is permitted keeps the invariant. *)
LEMMA LostWrite ==
    ASSUME OpInv, ClusterInv, NEW a \in Apps, NEW w, w.of \in OwnedBy(a), Permitted(a, w),
           Lose(a, w), UNCHANGED <<journalVars, ingress>>
    PROVE  ClusterInv'
<1>1. UNCHANGED <<service, revision, pods>> /\ late' = late \cup {w} /\ Return(a)
  BY DEF Lose, serviceVars
<1>2. ObjectInv(a) /\ OpTypeOK /\ revision \in Nat
  BY RevisionNat DEF ClusterInv, OpInv
<1>3. SameRows(a) /\ OnlyRows(a)
  BY JournalKept
<1>4. call'[a] = Idle /\ \A b \in Apps \ {a} : call'[b] = call[b]
  BY <1>1, <1>2, ReturnMoves
<1>5. CallInv(a)'
  BY <1>4 DEF CallInv
<1>6. \A v \in late' : v \in late \/ Permitted(a, v)
  BY <1>1
<1>7. ObjectInv(a)'
  BY <1>1, <1>2, <1>3, <1>6, QuietObject
<1>8. OnlyObjects(a)
  BY <1>1, <1>2, <1>4, VersionOrder DEF OnlyObjects
<1> QED
  BY <1>1, <1>2, <1>3, <1>5, <1>7, <1>8, Focus

(* A write to a workload. *)
LEMMA PerformedPods ==
    ASSUME OpInv, NEW a \in Apps, ObjectInv(a), SameRows(a),
           NEW w, w.kind # "service", w.of \in OwnedBy(a), Permitted(a, w),
           Perform(w), late' \subseteq late, ingress'[a] = ingress[a]
    PROVE  /\ ObjectInv(a)'
           /\ service' = service /\ revision' = revision
           /\ \A x \in Owners : (x # w.of => pods'[x] = pods[x]) /\ (pods[x] = "retired" => pods'[x] = "retired")
<1>1. w.of \in Owners /\ pods \in [Owners -> {"absent"} \cup Running \cup Retiring]
  BY DEF OpInv, OpTypeOK, OwnedBy, Owners
<1>2. /\ service' = service /\ revision' = revision
      /\ \/ pods[w.of] = "absent" /\ pods' = [pods EXCEPT ![w.of] = "starting"]
         \/ pods[w.of] = "absent" /\ pods' = [pods EXCEPT ![w.of] = "draining"]
         \/ w.kind = "retire" /\ pods[w.of] \in Running /\ pods' = [pods EXCEPT ![w.of] = "draining"]
  BY DEF Perform, serviceVars
<1>3. \A x \in Owners : (x # w.of => pods'[x] = pods[x]) /\ (pods[x] = "retired" => pods'[x] = "retired")
  BY <1>1, <1>2 DEF Running
<1>4. w.kind = "retire" => Spare(a, w.of)
  BY DEF Permitted
<1>5. OwnedBy(a) \subseteq Owners
  BY DEF OwnedBy, Owners
<1>6. \A x \in OwnedBy(a) :
         /\ pods[x] \in Running => pods'[x] \in Running \/ Spare(a, x)
         /\ pods[x] = "retired" => pods'[x] = "retired"
  <2>1. \A x \in OwnedBy(a) : x # w.of => pods'[x] = pods[x]
    BY <1>3, <1>5
  <2>2. pods[w.of] \in Running => Spare(a, w.of)
    BY <1>2, <1>4 DEF Running
  <2> QED
    BY <1>3, <1>5, <2>1, <2>2
<1>7. ObjectInv(a)'
  BY <1>2, <1>6, QuietObject
<1> QED
  BY <1>2, <1>3, <1>7

(* A call sends a write to its Service: what is left to show is that the      *)
(* write is its request's, and what the call knows when it succeeded.         *)
LEMMA ServiceSent ==
    ASSUME OpInv, ClusterInv, NEW a \in Apps, UNCHANGED <<journalVars, ingress>>,
           NEW body, Fits(a, body),
           \/ Lose(a, ServiceWrite(a, body))
           \/ /\ Perform(ServiceWrite(a, body)) /\ UNCHANGED late
              /\ \A b \in Apps \ {a} : call'[b] = call[b]
              /\ CallInv(a)'
    PROVE  ClusterInv'
<1> DEFINE w == ServiceWrite(a, body)
<1>1. w.kind = "service" /\ w.of = a /\ w.body = body
  BY DEF ServiceWrite
<1>2. a \in OwnedBy(a)
  BY DEF OwnedBy
<1>3. Permitted(a, w)
  BY <1>1 DEF Permitted
<1>4. CASE Lose(a, w)
  BY <1>1, <1>2, <1>3, <1>4, LostWrite
<1>5. CASE Perform(w) /\ UNCHANGED late /\ (\A b \in Apps \ {a} : call'[b] = call[b]) /\ CallInv(a)'
  <2>1. /\ Accepts(service[a], body)
        /\ service'[a] = Written(service[a], body, revision + 1)
        /\ \A b \in Apps \ {a} : service'[b] = service[b]
        /\ pods' = pods /\ revision' \in Nat /\ revision <= revision'
    BY <1>1, <1>5, PerformedService
  <2>2. ObjectInv(a) /\ SameRows(a) /\ OnlyRows(a)
    BY JournalKept DEF ClusterInv
  <2>3. ObjectInv(a)'
    BY <1>5, <2>1, <2>2, WrittenObject
  <2>4. OnlyObjects(a)
    BY <1>5, <2>1 DEF OnlyObjects
  <2> QED
    BY <1>5, <2>1, <2>2, <2>3, <2>4, Focus
<1> QED
  BY <1>4, <1>5

(* A call sends a write to a workload of its application. *)
LEMMA PodsSent ==
    ASSUME OpInv, ClusterInv, NEW a \in Apps, UNCHANGED <<journalVars, ingress>>, call[a].at # "idle",
           NEW x \in OwnedBy(a), NEW k, k # "service", k = "retire" => Spare(a, x),
           NEW l \in {"activate", "retired", "reclaiming"}, SendPods(a, PodWrite(k, x), l),
           l = "activate" => call[a].at = "candidate",
           l = "retired" => call[a].at = "retire",
           l = "reclaiming" => call[a].at = "reclaiming"
    PROVE  ClusterInv'
<1> DEFINE w == PodWrite(k, x)
<1>1. w.kind = k /\ w.of = x
  BY DEF PodWrite
<1>2. Permitted(a, w)
  BY <1>1 DEF Permitted
<1>3. CASE Lose(a, w)
  BY <1>1, <1>2, <1>3, LostWrite
<1>4. CASE Perform(w) /\ Goto(a, l) /\ UNCHANGED late
  <2>1. ObjectInv(a) /\ CallInv(a) /\ SameRows(a) /\ OnlyRows(a)
    BY JournalKept DEF ClusterInv
  <2>2. /\ ObjectInv(a)'
        /\ service' = service /\ revision' = revision
        /\ \A y \in Owners : (y # x => pods'[y] = pods[y]) /\ (pods[y] = "retired" => pods'[y] = "retired")
    BY <1>1, <1>2, <1>4, <2>1, PerformedPods
  <2>3. call[a] # Idle /\ OpTypeOK /\ revision \in Nat
    BY LabelNotIdle, RevisionNat DEF OpInv
  <2>4. l \in Labels
    BY DEF Labels
  <2>5. /\ call'[a].at = l /\ call'[a].kind = call[a].kind /\ call'[a].req = call[a].req
        /\ call'[a].gate = call[a].gate /\ call'[a].target = call[a].target
        /\ \A b \in Apps \ {a} : call'[b] = call[b]
    BY <1>4, <2>3, <2>4, GotoMoves
  <2>6. UNCHANGED <<state, stage, intent, requested, previous>> /\ Pending(a)' = Pending(a)
    BY DEF journalVars, requestVars, checkpointVars, Pending
  <2>7. /\ KnowsRows(call[a].at, call[a].req, call[a].gate)
        /\ KnowsService(a, call[a].at, call[a].req, call[a].gate, call[a].target)
    BY <2>1, <2>3 DEF CallInv
  <2>8. CallInv(a)'
    BY <2>2, <2>5, <2>6, <2>7 DEF CallInv, KnowsRows, KnowsService, KnowsOutcome, Unprepared, Prepared
  <2>9. OnlyObjects(a)
    BY <1>4, <2>2, <2>3, <2>5, VersionOrder DEF OnlyObjects
  <2> QED
    BY <2>1, <2>2, <2>3, <2>8, <2>9, Focus
<1> QED
  BY <1>3, <1>4 DEF SendPods

(* What a Service selects, or a recovery may select again, is applied or is   *)
(* the candidate of the open request; never one whose recovery is recorded.   *)
LEMMA Selected ==
    ASSUME OpInv, NEW a \in Apps, ServiceInv(a), NEW x \in Requests, Wants(a, Candidate(x))
    PROVE  AppOf[x] = a /\ (state[x] = "applied" \/ Opened(x)) /\ stage[x] # "withdrawn"
<1>1. AppliedActivated
  BY DEF OpInv, IInv
<1>2. \A t : Settled(a, t) /\ t.sel = Candidate(x) => AppOf[x] = a /\ state[x] = "applied"
  BY DEF Settled
<1>3. state[x] = "applied" => stage[x] # "withdrawn"
  BY <1>1 DEF AppliedActivated
<1>4. CASE \E q \in Requests : AppOf[q] = a /\ Opened(q)
  <2>1. PICK q \in Requests : AppOf[q] = a /\ Opened(q)
    BY <1>4
  <2>2. \A p \in Requests : AppOf[p] = a /\ Opened(p) => p = q
    BY <2>1 DEF OpInv, IInv, OnePending, Opened
  <2>3. /\ Shows(q, stage[q], service[a], intent[q].target, intent[q].gate, CandidateTarget(q))
        /\ Settled(a, intent[q].target)
    BY <2>1 DEF ServiceInv, Phase
  <2>4. CASE intent[q].target.sel = Candidate(x)
    BY <1>2, <1>3, <2>3, <2>4
  <2>5. CASE service[a].spec.target.sel = Candidate(x) /\ service[a].spec.target # intent[q].target
    <3>1. service[a].spec.target = CandidateTarget(q) /\ stage[q] # "withdrawn"
      BY <2>3, <2>5 DEF Shows
    <3>2. CandidateTarget(q).sel = Candidate(q)
      BY DEF CandidateTarget, Target
    <3>3. x = q
      BY <2>5, <3>1, <3>2, Identities
    <3> QED
      BY <2>1, <3>1, <3>3
  <2> QED
    BY <2>2, <2>4, <2>5 DEF Wants, Serves
<1>5. CASE \A q \in Requests : AppOf[q] = a => ~Opened(q)
  BY <1>2, <1>3, <1>5 DEF ServiceInv, Wants, Serves
<1> QED
  BY <1>4, <1>5

(* Every write of a call, performed or lost. *)
LEMMA WriteCluster ==
    ASSUME OpInv, OpInv', ClusterInv, NEW a \in Apps, WriteStep(a)
    PROVE  ClusterInv'
<1> DEFINE r == call[a].req
           s == service[a]
           n == service'[a]
           g == call[a].gate
           k == call[a].kind
           port == requested[r].port
<1>1. UNCHANGED <<journalVars, ingress>>
  BY DEF WriteStep
<1>2. /\ UNCHANGED <<state, stage, intent, requested, previous>>
      /\ Pending(a)' = Pending(a) /\ \A q : InactiveTarget(q)' = InactiveTarget(q) /\ CandidateTarget(q)' = CandidateTarget(q)
  BY <1>1 DEF journalVars, requestVars, checkpointVars, Pending, InactiveTarget, CandidateTarget
<1>3. OpTypeOK /\ ClusterOK /\ ObjectInv(a)
  BY DEF OpInv, OpTypeOK, ClusterOK, ClusterInv
<1>4. call[a].at # "idle" =>
         /\ call[a] # Idle /\ r \in Requests /\ AppOf[r] = a
         /\ KnowsRows(call[a].at, r, g) /\ KnowsService(a, call[a].at, r, g, call[a].target)
         /\ KnowsOutcome(a, call[a].at, r, k)
         /\ call[a].at \in {"replace", "recoveryFence"} => stage[r] = "recovering"
  <2>1. call[a].at # "idle" =>
         /\ call[a] # Idle /\ r \in Requests /\ AppOf[r] = a
         /\ call[a].at \in {"replace", "recoveryFence"} => stage[r] = "recovering"
    BY LabelNotIdle, Called DEF OpInv, CallOK
  <2> QED
    BY <2>1 DEF ClusterInv, CallInv
<1>5. call[a].at \in Unprepared \cup Prepared => r \in Pending(a)
  BY <1>4 DEF KnowsRows, Pending, Unprepared, Prepared
<1>6. ASSUME NEW body, NEW l \in Labels, NEW t \in TargetRecords \cup {NoTarget}, call[a].at # "idle",
             Perform(ServiceWrite(a, body)), Hold(a, l, GateOf(n), t)
      PROVE  /\ call'[a].at = l /\ call'[a].kind = k /\ call'[a].req = r
             /\ call'[a].gate = GateOf(n) /\ call'[a].target = t
             /\ \A b \in Apps \ {a} : call'[b] = call[b]
             /\ n.spec = body.spec /\ Exists(n)
  <2>1. ServiceWrite(a, body).kind = "service" /\ ServiceWrite(a, body).of = a /\ ServiceWrite(a, body).body = body
    BY DEF ServiceWrite
  <2>2. n.spec = body.spec /\ Exists(n)
    BY <1>6, <2>1, PerformedService
  <2>3. n \in ServiceRecords
    BY <2>2, ExistsTyped DEF OpInv, OpTypeOK
  <2>4. GateOf(n) \in GateRecords
    BY <2>3 DEF GateOf, ServiceRecords, SpecRecords, GateRecords
  <2>5. PICK h \in GateRecords : h = GateOf(n)
    BY <2>4
  <2>6. h \in GateRecords \cup {NoGate} /\ call[a] # Idle
    BY <1>4, <1>6
  <2>7. Held(a, l, h, t)
    BY <1>3, <1>6, <2>5, <2>6, HoldHeld
  <2> QED
    BY <2>2, <2>5, <2>7 DEF Held
<1>7. call[a].at # "idle" => call[a].target \in TargetRecords \cup {NoTarget}
  BY <1>3, LabelNotIdle, Called DEF CallRecords
<1>8. ASSUME NEW body, NEW l \in Labels, call[a].at # "idle", SendService(a, body, l)
      PROVE  \/ Lose(a, ServiceWrite(a, body))
             \/ /\ Perform(ServiceWrite(a, body)) /\ UNCHANGED late
                /\ \A b \in Apps \ {a} : call'[b] = call[b]
                /\ call'[a].at = l /\ call'[a].kind = k /\ call'[a].req = r
                /\ call'[a].gate = GateOf(n) /\ n.spec = body.spec
  BY <1>6, <1>7, <1>8 DEF SendService
<1>9. \A c : Create(c).spec = c /\ Create(c).uid = 0 /\ Update(s, c).spec = c
  BY DEF Create, Update
<1>10. Exists(s) => s.spec \in SpecRecords
  BY <1>3, GateTyped
<1> USE DEF Labels, Unprepared, Prepared
<1>11. CASE CreateService(a)
  <2> DEFINE body == Create(Initial(a, r, port))
  <2>1. call[a].at = "create" /\ SendService(a, body, "created")
    BY <1>11 DEF CreateService, At, Req
  <2>2. state[r] = "pending" /\ stage[r] = "absent" /\ previous[r] = NoConfig
    BY <1>4, <2>1 DEF KnowsRows
  <2>3. Fits(a, body)
    BY <1>5, <1>9, <2>1, <2>2 DEF Fits, Accepts, Exists, MayCreate
  <2>4. call'[a].at = "created" /\ call'[a].req = r => CallInv(a)'
    BY <1>2, <2>2 DEF CallInv, KnowsRows, KnowsService, KnowsOutcome
  <2>5. \/ Lose(a, ServiceWrite(a, body))
        \/ /\ Perform(ServiceWrite(a, body)) /\ UNCHANGED late
           /\ (\A b \in Apps \ {a} : call'[b] = call[b]) /\ CallInv(a)'
    BY <1>8, <2>1, <2>4
  <2> QED
    BY <1>1, <2>3, <2>5, ServiceSent
<1>12. CASE ResetService(a)
  <2> DEFINE body == Update(s, Rebound(r, port))
  <2>1. /\ call[a].at = "reset" /\ Exists(s) /\ GateOf(s) = g
        /\ \/ /\ Perform(ServiceWrite(a, body)) /\ UNCHANGED late
              /\ \/ Hold(a, "intent", GateOf(n), body.spec.target)
                 \/ Hold(a, "capture", NoGate, NoTarget)
           \/ Lose(a, ServiceWrite(a, body))
    BY <1>12 DEF ResetService, At, Req, AtGate
  <2>2. state[r] = "pending" /\ stage[r] = "absent" /\ previous[r] = NoConfig /\ s.spec.target # InactiveTarget(r)
    BY <1>4, <2>1 DEF KnowsRows, KnowsService
  <2>3. body.spec.target = InactiveTarget(r)
    <3>1. body.spec = Rebound(r, port)
      BY <1>9
    <3> QED
      BY <3>1, ReboundTarget
  <2>4. MayChange(r, s, body.spec)
    BY <1>9, <2>2 DEF MayChange, Changes, InactiveTarget
  <2>5. Fits(a, body)
    BY <1>5, <2>1, <2>4 DEF Fits
  <2>6. body.spec.target \in TargetRecords /\ call[a] # Idle
    <3>1. requested[r] \in Configs
      <4>1. PICK q \in Pending(a) : q = r
        BY <1>5, <2>1
      <4>2. requested[q] \in Configs
        BY Single
      <4> QED
        BY <4>1, <4>2
    <3>2. r \in Requests /\ call[a] # Idle
      BY <1>4, <2>1
    <3>3. Inactive(r) \in Selectors(Owners)
      BY <3>2 DEF Inactive, Id, Selectors, Owners
    <3> QED
      BY <2>3, <3>1, <3>2, <3>3, TargetTyped DEF InactiveTarget
  <2>7. CASE Perform(ServiceWrite(a, body)) /\ UNCHANGED late /\ Hold(a, "intent", GateOf(n), body.spec.target)
    <3>1. /\ call'[a].at = "intent" /\ call'[a].req = r /\ call'[a].gate = GateOf(n)
          /\ call'[a].target = body.spec.target /\ n.spec = body.spec /\ Exists(n)
          /\ \A b \in Apps \ {a} : call'[b] = call[b]
      <4>1. PICK t \in TargetRecords : t = body.spec.target
        BY <2>6
      <4>2. Hold(a, "intent", GateOf(n), t) /\ "intent" \in Labels /\ call[a].at # "idle"
        BY <2>1, <2>7, <4>1
      <4> HIDE DEF body, Labels
      <4> QED
        BY <1>6, <2>7, <4>1, <4>2
    <3>2. CallInv(a)'
      BY <1>2, <2>2, <2>3, <3>1 DEF CallInv, KnowsRows, KnowsService, KnowsOutcome
    <3> QED
      BY <1>1, <2>5, <2>7, <3>1, <3>2, ServiceSent
  <2>8. CASE Perform(ServiceWrite(a, body)) /\ UNCHANGED late /\ Hold(a, "capture", NoGate, NoTarget)
    <3>1. /\ call'[a].at = "capture" /\ call'[a].req = r
          /\ \A b \in Apps \ {a} : call'[b] = call[b]
      BY <1>3, <2>6, <2>8, HoldMoves
    <3>2. n.spec = body.spec /\ Exists(n)
      <4>1. ServiceWrite(a, body).kind = "service" /\ ServiceWrite(a, body).of = a /\ ServiceWrite(a, body).body = body
        BY DEF ServiceWrite
      <4> QED
        BY <2>8, <4>1, PerformedService
    <3>3. CallInv(a)'
      BY <1>2, <2>2, <2>3, <3>1, <3>2 DEF CallInv, KnowsRows, KnowsService, KnowsOutcome
    <3> QED
      BY <1>1, <2>5, <2>8, <3>1, <3>3, ServiceSent
  <2>9. CASE Lose(a, ServiceWrite(a, body))
    BY <1>1, <2>5, <2>9, ServiceSent
  <2> QED
    BY <2>1, <2>7, <2>8, <2>9
<1>13. CASE Fence(a)
  <2> DEFINE body == Update(s, Fenced(s, Operation(r)))
  <2>1. call[a].at = "fence" /\ Exists(s) /\ GateOf(s) = g /\ SendService(a, body, "fenced")
    BY <1>13 DEF Fence, At, Req, AtGate
  <2>2. state[r] = "pending" /\ stage[r] = "prepared" /\ g = intent[r].gate
    BY <1>4, <2>1 DEF KnowsRows
  <2>3. s.spec.op = intent[r].gate.op
    BY <2>1, <2>2, GateFields
  <2>4. MayChange(r, s, body.spec)
    BY <1>9, <2>2, <2>3 DEF MayChange, Changes
  <2>5. Fits(a, body)
    BY <1>5, <2>1, <2>4 DEF Fits
  <2>6. body.spec.op = Operation(r)
    <3>1. body.spec = Fenced(s, Operation(r)) /\ s.spec \in SpecRecords
      BY <1>9, <1>10, <2>1
    <3>2. Fenced(s, Operation(r)).op = Operation(r)
      BY <3>1, FencedOperation
    <3> QED
      BY <3>1, <3>2
  <2>7. call'[a].at = "fenced" /\ call'[a].req = r /\ n.spec = body.spec => CallInv(a)'
    BY <1>2, <2>2, <2>6 DEF CallInv, KnowsRows, KnowsService, KnowsOutcome
  <2>8. \/ Lose(a, ServiceWrite(a, body))
        \/ /\ Perform(ServiceWrite(a, body)) /\ UNCHANGED late
           /\ (\A b \in Apps \ {a} : call'[b] = call[b]) /\ CallInv(a)'
    BY <1>8, <2>1, <2>7
  <2> QED
    BY <1>1, <2>5, <2>8, ServiceSent
<1>14. CASE Activate(a)
  <2> DEFINE body == Update(s, Replaced(s, Target(Candidate(r), port)))
  <2>1. /\ call[a].at = "activate" /\ Exists(s) /\ GateOf(s) = g /\ g.op = Operation(r) /\ pods[r] = "ready"
        /\ SendService(a, body, "activated")
    BY <1>14 DEF Activate, At, Req, AtGate
  <2>2. state[r] = "pending" /\ stage[r] = "fenced"
    BY <1>4, <2>1 DEF KnowsRows
  <2>3. s.spec.op = Operation(r)
    BY <2>1, GateFields
  <2>4. MayChange(r, s, body.spec)
    BY <1>9, <2>1, <2>2, <2>3 DEF MayChange, Changes, Running
  <2>5. Fits(a, body)
    BY <1>5, <2>1, <2>4 DEF Fits
  <2>6. body.spec.target = CandidateTarget(r)
    <3>1. body.spec = Replaced(s, CandidateTarget(r)) /\ s.spec \in SpecRecords
      BY <1>9, <1>10, <2>1 DEF CandidateTarget
    <3>2. Replaced(s, CandidateTarget(r)).target = CandidateTarget(r)
      BY <3>1, ReplacedTarget
    <3> QED
      BY <3>1, <3>2
  <2>7. call'[a].at = "activated" /\ call'[a].req = r /\ n.spec = body.spec => CallInv(a)'
    BY <1>2, <2>2, <2>6 DEF CallInv, KnowsRows, KnowsService, KnowsOutcome
  <2>8. \/ Lose(a, ServiceWrite(a, body))
        \/ /\ Perform(ServiceWrite(a, body)) /\ UNCHANGED late
           /\ (\A b \in Apps \ {a} : call'[b] = call[b]) /\ CallInv(a)'
    BY <1>8, <2>1, <2>7
  <2> QED
    BY <1>1, <2>5, <2>8, ServiceSent
<1>15. CASE FenceRecovery(a)
  <2> DEFINE body == Update(s, Fenced(s, Recovery(r)))
  <2>1. call[a].at = "recoveryFence" /\ Exists(s) /\ SendService(a, body, "replace")
    BY <1>15 DEF FenceRecovery, At, Req, AtGate
  <2>2. state[r] = "pending" /\ stage[r] = "recovering"
    BY <1>4, <2>1 DEF KnowsRows
  <2>3. body.spec.op = Recovery(r) /\ (s.spec.op = Recovery(r) => body.spec = s.spec)
    <3>1. body.spec = Fenced(s, Recovery(r)) /\ s.spec \in SpecRecords
      BY <1>9, <1>10, <2>1
    <3>2. Fenced(s, Recovery(r)).op = Recovery(r)
      BY <3>1, FencedOperation
    <3>3. s.spec.op = Recovery(r) => Fenced(s, Recovery(r)) = s.spec
      BY <3>1, FencedAgain
    <3> QED
      BY <3>1, <3>2, <3>3
  <2>4. body.spec = s.spec \/ MayChange(r, s, body.spec)
    BY <1>9, <2>2, <2>3 DEF MayChange, Changes
  <2>5. Fits(a, body)
    BY <1>5, <2>1, <2>4 DEF Fits
  <2>6. call'[a].at = "replace" /\ call'[a].req = r /\ call'[a].gate = GateOf(n) /\ n.spec = body.spec => CallInv(a)'
    BY <1>2, <2>2, <2>3, GateFields DEF CallInv, KnowsRows, KnowsService, KnowsOutcome
  <2>7. \/ Lose(a, ServiceWrite(a, body))
        \/ /\ Perform(ServiceWrite(a, body)) /\ UNCHANGED late
           /\ (\A b \in Apps \ {a} : call'[b] = call[b]) /\ CallInv(a)'
    BY <1>8, <2>1, <2>6
  <2> QED
    BY <1>1, <2>5, <2>7, ServiceSent
<1>16. CASE RestoreTarget(a)
  <2> DEFINE body == Update(s, Replaced(s, intent[r].target))
  <2>1. call[a].at = "replace" /\ Exists(s) /\ GateOf(s) = g /\ SendService(a, body, "restored")
    BY <1>16 DEF RestoreTarget, At, Req, AtGate
  <2>2. state[r] = "pending" /\ stage[r] = "recovering" /\ g.op = Recovery(r)
    BY <1>4, <2>1 DEF KnowsRows
  <2>3. s.spec.op = Recovery(r)
    BY <2>1, <2>2, GateFields
  <2>4. MayChange(r, s, body.spec)
    BY <1>9, <2>2, <2>3 DEF MayChange, Changes
  <2>5. Fits(a, body)
    BY <1>5, <2>1, <2>4 DEF Fits
  <2>6. body.spec.op = Recovery(r) /\ body.spec.target = intent[r].target
    <3>1. body.spec = Replaced(s, intent[r].target) /\ s.spec \in SpecRecords
      BY <1>9, <1>10, <2>1
    <3>2. Replaced(s, intent[r].target).target = intent[r].target
      BY <3>1, ReplacedTarget
    <3>3. Replaced(s, intent[r].target).op = s.spec.op
      BY <3>1, ReplacedOperation
    <3> QED
      BY <2>3, <3>1, <3>2, <3>3
  <2>7. call'[a].at = "restored" /\ call'[a].req = r /\ n.spec = body.spec => CallInv(a)'
    BY <1>2, <2>2, <2>6 DEF CallInv, KnowsRows, KnowsService, KnowsOutcome
  <2>8. \/ Lose(a, ServiceWrite(a, body))
        \/ /\ Perform(ServiceWrite(a, body)) /\ UNCHANGED late
           /\ (\A b \in Apps \ {a} : call'[b] = call[b]) /\ CallInv(a)'
    BY <1>8, <2>1, <2>7
  <2> QED
    BY <1>1, <2>5, <2>8, ServiceSent
<1>17. ASSUME NEW l \in {"activate", "retired"}, Goto(a, l), UNCHANGED <<serviceVars, pods, late>>,
              l = "activate" => call[a].at = "candidate", l = "retired" => call[a].at = "retire"
       PROVE  ClusterInv'
  <2>1. call[a].at \in {"candidate", "retire"}
    BY <1>17
  <2>2. /\ call'[a].at = l /\ call'[a].req = r
        /\ \A b \in Apps \ {a} : call'[b] = call[b]
    BY <1>3, <1>4, <1>17, <2>1, GotoMoves
  <2>3. CallInv(a)'
    BY <1>2, <1>4, <1>17, <2>2 DEF CallInv, KnowsRows, KnowsService, KnowsOutcome
  <2>4. UNCHANGED <<service, revision, pods, late>> /\ revision \in Nat
    BY <1>17, RevisionNat DEF serviceVars
  <2>5. SameRows(a) /\ OnlyRows(a)
    BY <1>1, JournalKept
  <2>6. ObjectInv(a)'
    BY <1>1, <1>3, <2>4, <2>5, QuietObject
  <2>7. OnlyObjects(a)
    BY <1>1, <2>2, <2>4, VersionOrder DEF OnlyObjects
  <2> QED
    BY <2>3, <2>4, <2>5, <2>6, <2>7, Focus
<1>18. ASSUME NEW x PROVE \E m : m # "service" /\ Retirement(x) = PodWrite(m, x)
  <2>1. CASE pods[x] = "absent"
    BY <2>1 DEF Retirement
  <2>2. CASE pods[x] # "absent"
    BY <2>2 DEF Retirement
  <2> QED
    BY <2>1, <2>2
<1>19. call[a].at # "idle" => r \in OwnedBy(a)
  BY <1>4 DEF OwnedBy
<1>20. CASE StartCandidate(a)
  <2>1. /\ call[a].at = "candidate"
        /\ \/ SendPods(a, PodWrite("start", r), "activate")
           \/ Goto(a, "activate") /\ UNCHANGED <<serviceVars, pods, late>>
    BY <1>20 DEF StartCandidate, At, Req
  <2>2. CASE SendPods(a, PodWrite("start", r), "activate")
    BY <1>1, <1>19, <2>1, <2>2, PodsSent
  <2> QED
    BY <1>17, <2>1, <2>2
<1>21. CASE RetireCandidate(a)
  <2>1. /\ call[a].at = "retire"
        /\ \/ SendPods(a, Retirement(r), "retired")
           \/ Goto(a, "retired") /\ UNCHANGED <<serviceVars, pods, late>>
    BY <1>21 DEF RetireCandidate, At, Req
  <2>2. stage[r] = "withdrawn" /\ r \in Requests /\ AppOf[r] = a
    BY <1>4, <2>1 DEF KnowsRows
  <2>3. Spare(a, r)
    BY <1>3, <2>2, Selected DEF Spare, Over, ObjectInv
  <2>4. CASE SendPods(a, Retirement(r), "retired")
    <3>1. PICK m : m # "service" /\ Retirement(r) = PodWrite(m, r)
      BY <1>18
    <3>2. SendPods(a, PodWrite(m, r), "retired")
      BY <2>4, <3>1
    <3> QED
      BY <1>1, <1>19, <2>1, <2>3, <3>1, <3>2, PodsSent
  <2> QED
    BY <1>17, <2>1, <2>4
<1>22. call[a].at = "reclaiming" =>
          /\ Pending(a) = {} /\ s.spec.target.sel = Candidate(r)
          /\ \A sel : Wants(a, sel) => sel = Candidate(r)
  <2>1. call[a].at = "reclaiming" => Pending(a) = {} /\ s.spec.target.sel = Candidate(r)
    BY <1>4 DEF KnowsService
  <2>2. Pending(a) = {} => \A q \in Requests : AppOf[q] = a => ~Opened(q)
    BY DEF Pending, Opened
  <2> QED
    <3>1. ASSUME call[a].at = "reclaiming", NEW sel, Wants(a, sel) PROVE sel = Candidate(r)
      <4>1. Serves(a, sel)
        BY <2>1, <2>2, <3>1 DEF Wants
      <4> QED
        BY <2>1, <3>1, <4>1 DEF Serves
    <3> QED
      BY <2>1, <3>1
<1>23. ASSUME NEW x \in OwnedBy(a), call[a].at = "reclaiming", Spare(a, x), SendPods(a, Retirement(x), "reclaiming")
       PROVE  ClusterInv'
  <2>1. PICK m : m # "service" /\ Retirement(x) = PodWrite(m, x)
    BY <1>18
  <2>2. SendPods(a, PodWrite(m, x), "reclaiming")
    BY <1>23, <2>1
  <2> QED
    BY <1>1, <1>23, <2>1, <2>2, PodsSent
<1>24. CASE \E q \in Requests : RetireOther(a, q)
  <2>1. PICK q \in Requests : RetireOther(a, q)
    BY <1>24
  <2>2. /\ call[a].at = "reclaiming" /\ AppOf[q] = a /\ state[q] # "absent" /\ q # r
        /\ SendPods(a, Retirement(q), "reclaiming")
    BY <2>1 DEF RetireOther, At, Req, Generations
  <2>3. state[q] \in Terminal
    <3>1. TypeOK /\ state[q] # "pending"
      BY <1>3, <1>22, <2>2 DEF Pending, OpTypeOK
    <3> QED
      BY <2>2, <3>1, DecidedTerminal
  <2>4. Spare(a, q) /\ q \in OwnedBy(a)
    BY <1>22, <2>2, <2>3, Identities DEF Spare, Over, OwnedBy
  <2> QED
    BY <1>23, <2>2, <2>4
<1>25. CASE RetireLegacy(a)
  <2>1. call[a].at = "reclaiming" /\ SendPods(a, Retirement(a), "reclaiming")
    BY <1>25 DEF RetireLegacy, At
  <2>2. Spare(a, a) /\ a \in OwnedBy(a)
    BY <1>22, <2>1, Identities DEF Spare, OwnedBy
  <2> QED
    BY <1>23, <2>1, <2>2
<1> QED
  BY <1>11, <1>12, <1>13, <1>14, <1>15, <1>16, <1>20, <1>21, <1>24, <1>25 DEF WriteStep

(* The Ingress is written while the request is open. *)
LEMMA RouteCluster ==
    ASSUME OpInv, ClusterInv, NEW a \in Apps, RouteStep(a)
    PROVE  ClusterInv'
<1> DEFINE r == call[a].req
<1>1. /\ call[a].at = "route" /\ Goto(a, "recheck")
      /\ ingress' = [ingress EXCEPT ![a] = RouteConfig(a).domain]
      /\ UNCHANGED <<service, revision, pods, late, journalVars>>
  BY DEF RouteStep, ReconcileRoute, At, serviceVars
<1>2. OpTypeOK /\ revision \in Nat /\ ObjectInv(a) /\ CallInv(a) /\ SameRows(a) /\ OnlyRows(a)
  BY <1>1, JournalKept, RevisionNat DEF OpInv, ClusterInv
<1>3. call[a] # Idle /\ r \in Requests /\ AppOf[r] = a
  BY <1>1, <1>2, LabelNotIdle, Called DEF CallRecords
<1>4. state[r] = "pending" /\ (call[a].kind = "recover" => pods[r] = "retired")
  BY <1>1, <1>2, <1>3 DEF CallInv, KnowsRows, KnowsOutcome, Prepared
<1>5. "recheck" \in Labels
  BY DEF Labels
<1>6. /\ call'[a].at = "recheck" /\ call'[a].kind = call[a].kind /\ call'[a].req = r
      /\ \A b \in Apps \ {a} : call'[b] = call[b]
  BY <1>1, <1>2, <1>3, <1>5, GotoMoves
<1>7. UNCHANGED <<state, requested, previous>>
  BY <1>1 DEF journalVars, requestVars
<1>8. ingress'[a] = RouteConfig(a).domain /\ \A b \in Apps \ {a} : ingress'[b] = ingress[b]
  BY <1>1, <1>2 DEF OpTypeOK
<1>9. RouteConfig(a)' = RouteConfig(a)
  BY <1>6, <1>7 DEF RouteConfig, Req, Withdrawing
<1>10. CallInv(a)'
  BY <1>1, <1>4, <1>6, <1>7, <1>8, <1>9 DEF CallInv, KnowsRows, KnowsService, KnowsOutcome, Unprepared
<1>11. Pending(a) # {}
  BY <1>3, <1>4 DEF Pending
<1>12. ObjectInv(a)'
  BY <1>1, <1>2, <1>11, QuietObject
<1>13. OnlyObjects(a)
  BY <1>1, <1>2, <1>6, <1>8, VersionOrder DEF OnlyObjects
<1> QED
  BY <1>1, <1>2, <1>10, <1>12, <1>13, Focus

(* A delayed write arrives. *)
LEMMA ArriveCluster ==
    ASSUME OpInv, ClusterInv, NEW w \in late, Arrive(w), UNCHANGED <<journalVars, ingress, call>>
    PROVE  ClusterInv'
<1>1. w \in WriteRecords /\ Perform(w) /\ late' \subseteq late
  BY DEF Arrive, OpInv, OpTypeOK
<1>2. revision \in Nat
  BY RevisionNat
<1>3. CASE w.kind = "service"
  <2>1. w.of \in Apps
    BY <1>1, <1>3 DEF WriteRecords
  <2>2. PICK a \in Apps : a = w.of
    BY <2>1
  <2>3. ObjectInv(a) /\ CallInv(a) /\ SameRows(a) /\ OnlyRows(a)
    BY JournalKept DEF ClusterInv
  <2>4. Fits(a, w.body)
    BY <1>3, <2>2, <2>3 DEF ObjectInv, LateInv, Permitted
  <2>5. /\ Accepts(service[a], w.body)
        /\ service'[a] = Written(service[a], w.body, revision + 1)
        /\ \A b \in Apps \ {a} : service'[b] = service[b]
        /\ pods' = pods /\ revision' \in Nat /\ revision <= revision'
    BY <1>1, <1>3, <2>1, <2>2, PerformedService
  <2>6. ObjectInv(a)'
    BY <1>1, <2>3, <2>4, <2>5, WrittenObject
  <2>7. CallInv(a)'
    BY <2>3, <2>4, <2>5, WrittenCall
  <2>8. OnlyObjects(a)
    BY <1>1, <2>5 DEF OnlyObjects
  <2> QED
    BY <2>3, <2>5, <2>6, <2>7, <2>8, Focus
<1>4. CASE w.kind # "service"
  <2>1. w.of \in Owners
    BY <1>1, <1>4 DEF WriteRecords
  <2>2. PICK a \in Apps : w.of \in OwnedBy(a)
    BY <2>1, JournalAssumption DEF Owners, OwnedBy
  <2>3. ObjectInv(a) /\ CallInv(a) /\ SameRows(a) /\ OnlyRows(a)
    BY JournalKept DEF ClusterInv
  <2>4. Permitted(a, w)
    BY <2>3 DEF ObjectInv, LateInv
  <2>5. /\ ObjectInv(a)'
        /\ service' = service /\ revision' = revision
        /\ \A x \in Owners : (x # w.of => pods'[x] = pods[x]) /\ (pods[x] = "retired" => pods'[x] = "retired")
    BY <1>1, <1>4, <2>2, <2>3, <2>4, PerformedPods
  <2>6. OwnedBy(a) \subseteq Owners
    BY DEF OwnedBy, Owners
  <2>7. \A x \in OwnedBy(a) : pods[x] = "retired" => pods'[x] = "retired"
    BY <2>5, <2>6
  <2>8. revision' \in Nat /\ revision <= revision'
    BY <1>2, <2>5, VersionOrder
  <2>9. CallInv(a)'
    BY <2>3, <2>5, <2>7, <2>8, QuietCall
  <2>10. OnlyObjects(a)
    BY <1>1, <2>2, <2>5, <2>8 DEF OnlyObjects
  <2> QED
    BY <2>3, <2>5, <2>8, <2>9, <2>10, Focus
<1> QED
  BY <1>3, <1>4

(* A delayed write never arrives, or a workload becomes ready, unready or gone. *)
LEMMA DriftCluster ==
    ASSUME OpInv, ClusterInv, UNCHANGED <<journalVars, ingress, call>>,
           \/ \E w \in late : Vanish(w)
           \/ \E x \in Owners : Reconcile(x)
    PROVE  ClusterInv'
<1>1. service' = service /\ revision' = revision /\ late' \subseteq late /\ revision \in Nat
  BY RevisionNat DEF Vanish, Reconcile, serviceVars
<1>2. \A x \in Owners : (pods[x] \in Running => pods'[x] \in Running) /\ (pods[x] = "retired" => pods'[x] = "retired")
  <2>1. pods \in [Owners -> {"absent"} \cup Running \cup Retiring]
    BY DEF OpInv, OpTypeOK
  <2>2. CASE \E w \in late : Vanish(w)
    BY <2>2 DEF Vanish
  <2>3. CASE \E x \in Owners : Reconcile(x)
    <3>1. PICK y \in Owners : Reconcile(y)
      BY <2>3
    <3> QED
      BY <2>1, <3>1 DEF Reconcile, Running
  <2> QED
    BY <2>2, <2>3
<1> SUFFICES ASSUME NEW a \in Apps PROVE ObjectInv(a)' /\ CallInv(a)'
  BY DEF ClusterInv
<1>3. ObjectInv(a) /\ CallInv(a) /\ SameRows(a)
  BY JournalKept DEF ClusterInv
<1>4. OwnedBy(a) \subseteq Owners
  BY DEF OwnedBy, Owners
<1>5. \A x \in OwnedBy(a) : (pods[x] \in Running => pods'[x] \in Running) /\ (pods[x] = "retired" => pods'[x] = "retired")
  BY <1>2, <1>4
<1>6. ObjectInv(a)'
  BY <1>1, <1>3, <1>5, QuietObject
<1>7. CallInv(a)'
  <2>1. revision' \in Nat /\ revision <= revision' /\ service'[a] = service[a] /\ call'[a] = call[a] /\ ingress'[a] = ingress[a]
    BY <1>1, VersionOrder
  <2> QED
    BY <1>3, <1>5, <2>1, QuietCall
<1> QED
  BY <1>6, <1>7
=============================================================================
