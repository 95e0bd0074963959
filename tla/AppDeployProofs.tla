-------------------------- MODULE AppDeployProofs --------------------------
(***************************************************************************)
(* Proofs about deployments without candidates, for any applications,      *)
(* requests and configurations and any number of delayed writes.  What a   *)
(* call holds at each step, and what it knows of its request and its row,  *)
(* needs no exclusion of secret calls; what it knows of the objects does.  *)
(*                                                                         *)
(* RequestInv is the invariant of the calls, their requests and the        *)
(* delayed writes.  AnswerInv says of one application how far the call     *)
(* under way has brought the row, the objects and the route, and what is   *)
(* true of what was answered.                                              *)
(***************************************************************************)
EXTENDS AppDeploy, TLAPS

USE ZenonT(30)

-----------------------------------------------------------------------------
(* Types *)

Steps == {"begin", "row", "deployment", "environment", "objects", "commit", "healthy",
          "complete", "failed", "erase", "restore"}
Modes == {"apply", "withdraw", "rollback", "fail", "delete"}
Promises == {"none", "void", "applied", "restored", "revived", "withdrawn", "deleted"}
Domains == {c.domain : c \in Configs} \cup {NoDomain}
Values == [config : Configs \cup {NoConfig}, revision : Nat]

CallRecords ==
    [at : Steps, mode : Modes, config : Configs, request : Requests \cup {NoRequest},
     report : BOOLEAN, previous : Configs \cup {NoConfig}, hidden : BOOLEAN,
     target : Configs \cup {NoConfig}, revision : Nat, todo : Seq(Kinds), clean : BOOLEAN]

SetterRecords ==
    [at : {"store", "resolve", "objects", "reply", "drop"}, config : Configs, revision : Nat,
     todo : Seq(Kinds)]

WriteRecords ==
    [app : Apps, object : Kinds, was : Values, new : Values, by : Requests \cup {NoRequest}]

RowTypes ==
    /\ desired \in [Apps -> Configs \cup {NoConfig}]
    /\ route \in [Apps -> Domains]
    /\ request \in [Requests -> {"absent", "pending", "applied", "withdrawn"}]
    /\ deployment \in [Apps -> {"none", "pending", "healthy", "failed"}]
    /\ secret \in [Apps -> Nat]
    /\ live \subseteq {a \in Apps : desired[a] \in Configs}

ClusterTypes == objects \in [Apps -> [Kinds -> Values]] /\ late \subseteq WriteRecords

AnswerTypes == promise \in [Apps -> Promises] /\ fresh \in [Apps -> BOOLEAN]

CallTypes == calls \in [Apps -> CallRecords \cup {NoCall}]
SetterTypes == setters \in [Apps -> SetterRecords \cup {NoCall}]

DeployTypes == RowTypes /\ ClusterTypes /\ AnswerTypes /\ CallTypes /\ SetterTypes

-----------------------------------------------------------------------------
(* What a deploy or delete call holds *)

(* The step and the mode of a call, and what it is applying. *)
Control(k) ==
    /\ k.at \in {"begin", "row", "deployment", "commit", "healthy"} => k.mode = "apply"
    /\ k.at \in {"environment", "objects"} => k.mode \in {"apply", "rollback", "withdraw"}
    /\ k.at = "erase" => k.mode \in {"withdraw", "delete"}
    /\ k.at = "restore" => k.mode = "delete" \/ (k.mode = "withdraw" /\ k.clean)
    /\ k.at = "complete" => k.mode = "apply" \/ (k.mode = "withdraw" /\ k.clean)
    /\ k.at = "failed" => k.mode \in {"rollback", "withdraw", "fail"}
    /\ k.at \in {"begin", "complete"} => k.request # NoRequest
    /\ k.at \in {"begin", "row", "deployment", "environment"} => k.todo = Plan(k.target)
    /\ k.at = "commit" => k.previous # NoConfig
    /\ k.at = "erase" /\ k.mode = "withdraw" => k.previous = NoConfig \/ k.hidden

Holding(k) ==
    /\ k.mode = "apply" => k.clean /\ k.target = k.config
    /\ k.mode = "rollback" => k.previous # NoConfig /\ k.target = k.previous
    /\ k.mode = "withdraw" /\ k.at \in {"environment", "objects"} =>
          k.previous # NoConfig /\ ~k.hidden /\ k.target = k.previous
    /\ k.mode = "delete" => k.request = NoRequest /\ k.previous = NoConfig

(* A call that cannot report a withdrawal any more. *)
Unconfirmed(k) == k.mode \in {"rollback", "fail"} \/ (k.mode = "withdraw" /\ ~k.clean)

(* The request of a call is its application's, and open since it was begun. *)
OwnRequest(a, k) ==
    k.request # NoRequest =>
        AppOf[k.request] = a /\ request[k.request] = IF k.at = "begin" THEN "absent" ELSE "pending"

CallInv ==
    \A a \in Apps : calls[a] # NoCall => Control(calls[a]) /\ Holding(calls[a]) /\ OwnRequest(a, calls[a])

(* A write under way belongs to an open request, which will not be withdrawn. *)
LateInv ==
    \A w \in late : w.by # NoRequest =>
        /\ request[w.by] = "pending"
        /\ \A a \in Apps : calls[a] # NoCall /\ calls[a].request = w.by => Unconfirmed(calls[a])

RequestInv == DeployTypes /\ CallInv /\ LateInv

-----------------------------------------------------------------------------
(* Writes *)

(* What the objects are written to is a value. *)
LEMMA ManifestTyped ==
    ASSUME NEW o \in Kinds, NEW c \in Configs, NEW v \in Nat
    PROVE  Manifest(o, c, v) \in Values
<1>1. 0 \in Nat
  BY SMTT(30)
<1> QED
  BY <1>1 DEF Manifest, DeploymentManifest, ServiceManifest, IngressManifest, Absent, Values, Kinds

(* What a deletion leaves is a value. *)
LEMMA AbsentTyped == Absent \in Values
  BY SMTT(30) DEF Absent, Values

(* The order of writing names kinds of objects. *)
LEMMA PlansTyped == Removal \in Seq(Kinds) /\ \A c : Plan(c) \in Seq(Kinds)
<1>1. \A x, y, z \in Kinds : <<x, y, z>> \in Seq(Kinds)
  BY SMTT(30)
<1>2. "deployment" \in Kinds /\ "service" \in Kinds /\ "ingress" \in Kinds
  BY DEF Kinds
<1> HIDE DEF Kinds
<1> QED
  BY <1>1, <1>2 DEF Removal, Plan

(* A write changes one object, to what it writes, and at once if it answers. *)
LEMMA WriteEffect ==
    ASSUME ClusterTypes, NEW a \in Apps, NEW o \in Kinds, NEW new \in Values,
           NEW by \in Requests \cup {NoRequest}, NEW outcome, Write(a, o, new, by, outcome)
    PROVE  /\ ClusterTypes'
           /\ \A w \in late' \ late : w.by = by /\ outcome = "late"
           /\ \A b \in Apps, p \in Kinds : b # a \/ p # o => objects'[b][p] = objects[b][p]
           /\ objects'[a][o] \in {objects[a][o], new}
           /\ outcome = "ok" => objects'[a][o] = new
<1>1. CASE Performed(a, o, new, late)
  BY <1>1 DEF Performed, ClusterTypes
<1>2. CASE outcome = "late"
  <2>1. /\ late' = late \cup {[app |-> a, object |-> o, was |-> objects[a][o], new |-> new, by |-> by]}
        /\ UNCHANGED objects
    BY <1>2 DEF Write
  <2>2. [app |-> a, object |-> o, was |-> objects[a][o], new |-> new, by |-> by] \in WriteRecords
    BY DEF ClusterTypes, WriteRecords
  <2>3. ClusterTypes'
    BY <2>1, <2>2 DEF ClusterTypes
  <2>4. \A w \in late' \ late : w.by = by
    BY <2>1, SMTT(30)
  <2>5. outcome # "ok"
    BY <1>2
  <2> QED
    BY <1>2, <2>1, <2>3, <2>4, <2>5
<1>3. CASE UNCHANGED clusterVars /\ outcome # "ok"
  BY <1>3 DEF clusterVars, ClusterTypes
<1> QED
  BY <1>1, <1>2, <1>3 DEF Write

-----------------------------------------------------------------------------
(* Calls *)

(* A step's change of the record k of its call: all but the parts listed.     *)
Edited(n, k, at, mode, target, revision, todo, clean) ==
    /\ n \in CallRecords
    /\ n.at = at /\ n.mode = mode /\ n.target = target /\ n.revision = revision
    /\ n.todo = todo /\ n.clean = clean
    /\ n.config = k.config /\ n.request = k.request /\ n.report = k.report
    /\ n.previous = k.previous /\ n.hidden = k.hidden

(* One call changes; the other applications' stay. *)
LEMMA CallMoves ==
    ASSUME CallTypes, NEW a \in Apps, NEW n \in CallRecords \cup {NoCall}, calls' = [calls EXCEPT ![a] = n]
    PROVE  CallTypes' /\ calls'[a] = n /\ \A b \in Apps : b # a => calls'[b] = calls[b]
  BY DEF CallTypes

(* A step of a call under way keeps RequestInv. *)
LEMMA Continues ==
    ASSUME RequestInv, NEW a \in Apps, calls[a] # NoCall,
           NEW n \in CallRecords \cup {NoCall}, calls' = [calls EXCEPT ![a] = n], UNCHANGED request,
           n # NoCall =>
              /\ Control(n) /\ Holding(n) /\ n.request = calls[a].request
              /\ n.at # "begin" /\ calls[a].at # "begin"
              /\ Unconfirmed(calls[a]) => Unconfirmed(n),
           \A w \in late' \ late :
              \/ w.by = NoRequest
              \/ w.by = calls[a].request /\ calls[a].at # "begin" /\ (n # NoCall => Unconfirmed(n)),
           RowTypes', ClusterTypes', AnswerTypes', SetterTypes'
    PROVE  RequestInv'
<1>1. CallTypes' /\ calls'[a] = n /\ \A b \in Apps : b # a => calls'[b] = calls[b]
  BY CallMoves DEF RequestInv, DeployTypes
<1>2. CallInv /\ LateInv
  BY DEF RequestInv
<1>3. ASSUME NEW b \in Apps, calls'[b] # NoCall
      PROVE  Control(calls'[b]) /\ Holding(calls'[b]) /\ OwnRequest(b, calls[b])'
  <2>1. CASE b = a
    <3>1. OwnRequest(a, calls[a]) /\ calls'[b] = n /\ n # NoCall
      BY <1>1, <1>2, <1>3, <2>1 DEF CallInv
    <3> QED
      BY <2>1, <3>1 DEF OwnRequest
  <2>2. CASE b # a
    <3>1. calls'[b] = calls[b]
      BY <1>1, <2>2
    <3>2. Control(calls[b]) /\ Holding(calls[b]) /\ OwnRequest(b, calls[b])
      BY <1>2, <1>3, <3>1 DEF CallInv
    <3> QED
      BY <3>1, <3>2 DEF OwnRequest
  <2> QED
    BY <2>1, <2>2
<1>4. CallInv'
  BY <1>3 DEF CallInv
<1>5. ASSUME NEW w \in late', w.by # NoRequest
      PROVE  /\ request[w.by] = "pending"
             /\ \A b \in Apps : calls'[b] # NoCall /\ calls'[b].request = w.by => Unconfirmed(calls'[b])
  <2>1. CASE w \in late
    <3>1. /\ request[w.by] = "pending"
          /\ \A b \in Apps : calls[b] # NoCall /\ calls[b].request = w.by => Unconfirmed(calls[b])
      BY <1>2, <1>5, <2>1 DEF LateInv
    <3>2. n # NoCall /\ n.request = w.by => Unconfirmed(n)
      BY <3>1
    <3> QED
      BY <1>1, <3>1, <3>2
  <2>2. CASE w \notin late
    <3>1. w.by = calls[a].request /\ calls[a].at # "begin" /\ (n # NoCall => Unconfirmed(n))
      BY <1>5, <2>2
    <3>2. AppOf[w.by] = a /\ request[w.by] = "pending"
      BY <1>2, <1>5, <3>1 DEF CallInv, OwnRequest
    <3>3. \A b \in Apps : b # a /\ calls[b] # NoCall => calls[b].request # w.by
      BY <1>2, <1>5, <3>2 DEF CallInv, OwnRequest
    <3> QED
      BY <1>1, <3>1, <3>2, <3>3
  <2> QED
    BY <2>1, <2>2
<1>6. LateInv'
  BY <1>5 DEF LateInv
<1> QED
  BY <1>1, <1>4, <1>6 DEF RequestInv, DeployTypes

(* What RequestInv says of the call of one application. *)
LEMMA CallFacts ==
    ASSUME RequestInv, NEW a \in Apps, calls[a] # NoCall
    PROVE  /\ calls[a] \in CallRecords
           /\ Control(calls[a]) /\ Holding(calls[a]) /\ OwnRequest(a, calls[a])
  BY DEF RequestInv, DeployTypes, CallTypes, CallInv

(* A step of a secret call, or a write that arrives, keeps RequestInv. *)
LEMMA Beside ==
    ASSUME RequestInv, UNCHANGED <<calls, request>>, \A w \in late' \ late : w.by = NoRequest,
           RowTypes', ClusterTypes', AnswerTypes', SetterTypes'
    PROVE  RequestInv'
<1>1. CallTypes'
  BY DEF RequestInv, DeployTypes, CallTypes
<1>2. CallInv'
  BY DEF RequestInv, CallInv, OwnRequest
<1>3. LateInv'
  BY DEF RequestInv, LateInv
<1> QED
  BY <1>1, <1>2, <1>3 DEF RequestInv, DeployTypes

(* What follows a failure keeps what a call holds. *)
LEMMA CompensationHolds ==
    ASSUME NEW k \in CallRecords, k.mode = "apply", k.clean, NEW d \in BOOLEAN
    PROVE  LET n == Compensation(k, d) IN
           /\ n \in CallRecords /\ Control(n) /\ Holding(n)
           /\ n.config = k.config /\ n.request = k.request /\ n.report = k.report
           /\ n.previous = k.previous /\ n.hidden = k.hidden
           /\ n.at \in {"erase", "environment", "failed"} /\ n.mode # "apply" /\ n.mode # "delete"
           /\ n.at = "erase" => n.todo = Removal
           /\ n.at = "failed" => n.mode = "fail"
           /\ ~d => Unconfirmed(n)
<1> DEFINE back == [k EXCEPT !.target = k.previous, !.todo = Plan(k.previous), !.clean = TRUE]
           n == Compensation(k, d)
<1>1. Removal \in Seq(Kinds) /\ Plan(k.previous) \in Seq(Kinds)
  BY PlansTyped
<1>2. k.previous \in Configs \cup {NoConfig} /\ k.target \in Configs \cup {NoConfig}
  BY DEF CallRecords
<1>3. Edited(back, k, k.at, k.mode, k.previous, k.revision, Plan(k.previous), TRUE)
  BY <1>1, <1>2 DEF Edited, CallRecords
<1>4. CASE k.report /\ d /\ (k.previous = NoConfig \/ k.hidden)
  <2>1. n = [k EXCEPT !.mode = "withdraw", !.at = "erase", !.todo = Removal]
    BY <1>4 DEF Compensation
  <2>2. Edited(n, k, "erase", "withdraw", k.target, k.revision, Removal, k.clean)
    BY <1>1, <2>1 DEF Edited, CallRecords, Steps, Modes
  <2> HIDE DEF n
  <2> QED
    BY <1>4, <2>2 DEF Edited, Control, Holding, n
<1>5. CASE k.report /\ d /\ k.previous # NoConfig /\ ~k.hidden
  <2>1. n = [back EXCEPT !.mode = "withdraw", !.at = "environment"]
    BY <1>5 DEF Compensation
  <2> HIDE DEF n, back
  <2>2. Edited(n, back, "environment", "withdraw", back.target, back.revision, back.todo, back.clean)
    <3>1. back \in CallRecords
      BY <1>3 DEF Edited
    <3> QED
      BY <2>1, <3>1 DEF Edited, CallRecords, Steps, Modes
  <2> QED
    BY <1>3, <1>5, <2>2 DEF Edited, Control, Holding, n
<1>6. CASE ~(k.report /\ d) /\ k.previous # NoConfig
  <2>1. n = [back EXCEPT !.mode = "rollback", !.at = "environment"]
    BY <1>6 DEF Compensation
  <2> HIDE DEF n, back
  <2>2. Edited(n, back, "environment", "rollback", back.target, back.revision, back.todo, back.clean)
    <3>1. back \in CallRecords
      BY <1>3 DEF Edited
    <3> QED
      BY <2>1, <3>1 DEF Edited, CallRecords, Steps, Modes
  <2> QED
    BY <1>3, <1>6, <2>2 DEF Edited, Control, Holding, Unconfirmed, n
<1>7. CASE ~(k.report /\ d) /\ k.previous = NoConfig
  <2>1. n = [k EXCEPT !.mode = "fail", !.at = "failed"]
    BY <1>7 DEF Compensation
  <2>2. Edited(n, k, "failed", "fail", k.target, k.revision, k.todo, k.clean)
    BY <2>1 DEF Edited, CallRecords, Steps, Modes
  <2> HIDE DEF n
  <2> QED
    BY <1>7, <2>2 DEF Edited, Control, Holding, Unconfirmed, n
<1> QED
  BY <1>4, <1>5, <1>6, <1>7

-----------------------------------------------------------------------------
(* The steps of a call *)

(* The call of a has moved to a step s, in mode m, and so on. *)
Moved(a, s, m, t, v, q, b) ==
    /\ calls' = [calls EXCEPT ![a] = calls'[a]]
    /\ Edited(calls'[a], calls[a], s, m, t, v, q, b)

(* Goto changes the step alone. *)
LEMMA GotoMoves ==
    ASSUME CallTypes, NEW a \in Apps, calls[a] \in CallRecords, NEW s \in Steps, Goto(a, s)
    PROVE  Moved(a, s, calls[a].mode, calls[a].target, calls[a].revision, calls[a].todo, calls[a].clean)
<1>1. calls' = [calls EXCEPT ![a] = [calls[a] EXCEPT !.at = s]]
  BY DEF Goto
<1>2. calls'[a] = [calls[a] EXCEPT !.at = s]
  BY <1>1 DEF CallTypes
<1>3. Edited(calls'[a], calls[a], s, calls[a].mode, calls[a].target, calls[a].revision, calls[a].todo, calls[a].clean)
  BY <1>2 DEF Edited, CallRecords
<1> QED
  BY <1>1, <1>2, <1>3 DEF Moved

(* Spoil changes the step and clears the flag of a clean compensation. *)
LEMMA SpoilMoves ==
    ASSUME CallTypes, NEW a \in Apps, calls[a] \in CallRecords, NEW s \in Steps, Spoil(a, s)
    PROVE  Moved(a, s, calls[a].mode, calls[a].target, calls[a].revision, calls[a].todo, FALSE)
<1>1. calls' = [calls EXCEPT ![a] = [calls[a] EXCEPT !.clean = FALSE, !.at = s]]
  BY DEF Spoil
<1>2. calls'[a] = [calls[a] EXCEPT !.clean = FALSE, !.at = s]
  BY <1>1 DEF CallTypes
<1>3. Edited(calls'[a], calls[a], s, calls[a].mode, calls[a].target, calls[a].revision, calls[a].todo, FALSE)
  BY <1>2 DEF Edited, CallRecords
<1> QED
  BY <1>1, <1>2, <1>3 DEF Moved

(* An answer ends the call. *)
LEMMA ReturnMoves ==
    ASSUME CallTypes, AnswerTypes, NEW a \in Apps, NEW said \in Promises, Return(a, said)
    PROVE  /\ calls' = [calls EXCEPT ![a] = NoCall] /\ calls'[a] = NoCall
           /\ AnswerTypes'
           /\ promise'[a] = IF promise[a] = "void" THEN "void" ELSE said
           /\ fresh'[a] = (fresh[a] \/ said # "none")
           /\ \A b \in Apps : b # a => promise'[b] = promise[b] /\ fresh'[b] = fresh[b]
<1>1. /\ calls' = [calls EXCEPT ![a] = NoCall]
      /\ promise' = [promise EXCEPT ![a] = IF promise[a] = "void" THEN promise[a] ELSE said]
      /\ fresh' = [fresh EXCEPT ![a] = fresh[a] \/ said # "none"]
  BY DEF Return
<1>2. calls'[a] = NoCall
  BY <1>1 DEF CallTypes
<1>3. AnswerTypes'
  BY <1>1 DEF AnswerTypes, Promises
<1> QED
  BY <1>1, <1>2, <1>3 DEF AnswerTypes

(* The statements keep the types of the rows. *)
LEMMA RowStatements ==
    ASSUME RowTypes, NEW a \in Apps
    PROVE  /\ \A c \in Configs : PutRow(a, c) /\ UNCHANGED <<route, request, deployment, secret>> => RowTypes'
           /\ \A x \in {"pending", "healthy", "failed"} :
                 PutStatus(a, x) /\ UNCHANGED <<desired, live, route, request, secret>> => RowTypes'
           /\ \A d \in Domains : PutRoute(a, d) /\ UNCHANGED <<desired, live, request, deployment, secret>> => RowTypes'
           /\ \A v \in Nat : PutSecret(a, v) /\ UNCHANGED <<desired, live, route, request, deployment>> => RowTypes'
           /\ UNCHANGED <<desired, live, route, request, deployment, secret>> => RowTypes'
<1>1. ASSUME NEW c \in Configs, PutRow(a, c), UNCHANGED <<route, request, deployment, secret>>
      PROVE  RowTypes'
  BY <1>1 DEF RowTypes, PutRow
<1>2. ASSUME NEW x \in {"pending", "healthy", "failed"}, PutStatus(a, x), UNCHANGED <<desired, live, route, request, secret>>
      PROVE  RowTypes'
  BY <1>2 DEF RowTypes, PutStatus
<1>3. ASSUME NEW d \in Domains, PutRoute(a, d), UNCHANGED <<desired, live, request, deployment, secret>>
      PROVE  RowTypes'
  BY <1>3 DEF RowTypes, PutRoute
<1>4. ASSUME NEW v \in Nat, PutSecret(a, v), UNCHANGED <<desired, live, route, request, deployment>>
      PROVE  RowTypes'
  BY <1>4 DEF RowTypes, PutSecret
<1>5. ASSUME UNCHANGED <<desired, live, route, request, deployment, secret>>
      PROVE  RowTypes'
  BY <1>5 DEF RowTypes
<1> QED
  BY <1>1, <1>2, <1>3, <1>4, <1>5

(* The first object still to be written, and the rest. *)
LEMMA TodoTyped ==
    ASSUME NEW k \in CallRecords, k.todo # <<>>
    PROVE  Head(k.todo) \in Kinds /\ Tail(k.todo) \in Seq(Kinds)
<1>1. k.todo \in Seq(Kinds)
  BY DEF CallRecords
<1>2. ASSUME NEW q \in Seq(Kinds), q # <<>> PROVE Head(q) \in Kinds /\ Tail(q) \in Seq(Kinds)
  BY <1>2, SMTT(30)
<1> QED
  BY <1>1, <1>2

(* What a call applies is a configuration. *)
LEMMA TargetTyped ==
    ASSUME NEW k \in CallRecords, Control(k), Holding(k), k.at \in {"environment", "objects"}
    PROVE  k.target \in Configs
  BY DEF CallRecords, Control, Holding

(* WriteRow records what the row was before the call. *)
LEMMA WriteRowMoves ==
    ASSUME CallTypes, RowTypes, NEW a \in Apps, calls[a] \in CallRecords, WriteRow(a)
    PROVE  LET k == calls[a]  n == calls'[a] IN
           /\ calls' = [calls EXCEPT ![a] = n] /\ n \in CallRecords
           /\ k.at = "row" /\ n.at = "deployment"
           /\ n.hidden = (desired[a] # NoConfig /\ a \notin live)
           /\ n.previous = IF n.hidden /\ ~k.report THEN NoConfig ELSE desired[a]
           /\ n.mode = k.mode /\ n.config = k.config /\ n.request = k.request /\ n.report = k.report
           /\ n.target = k.target /\ n.revision = k.revision /\ n.todo = k.todo /\ n.clean = k.clean
<1> DEFINE k == calls[a]
           h == desired[a] # NoConfig /\ a \notin live
           p == IF h /\ ~k.report THEN NoConfig ELSE desired[a]
<1>1. calls' = [calls EXCEPT ![a] = [k EXCEPT !.at = "deployment", !.hidden = h, !.previous = p]]
  BY DEF WriteRow
<1>2. calls'[a] = [k EXCEPT !.at = "deployment", !.hidden = h, !.previous = p]
  BY <1>1 DEF CallTypes
<1>3. h \in BOOLEAN /\ p \in Configs \cup {NoConfig}
  BY DEF RowTypes
<1>4. k.at = "row"
  BY DEF WriteRow, At
<1> HIDE DEF h, p
<1>5. calls'[a] \in CallRecords /\ calls'[a].at = "deployment" /\ calls'[a].hidden = h /\ calls'[a].previous = p
  BY <1>2, <1>3 DEF CallRecords, Steps
<1>6. /\ calls'[a].mode = k.mode /\ calls'[a].config = k.config /\ calls'[a].request = k.request
      /\ calls'[a].report = k.report
      /\ calls'[a].target = k.target /\ calls'[a].revision = k.revision /\ calls'[a].todo = k.todo
      /\ calls'[a].clean = k.clean
  BY <1>2 DEF CallRecords
<1> QED
  BY <1>1, <1>2, <1>4, <1>5, <1>6 DEF h, p

(* ResolveEnvironment ends an application, spoils a compensation, or goes on. *)
LEMMA ResolveMoves ==
    ASSUME CallTypes, RowTypes, NEW a \in Apps, calls[a] \in CallRecords, ResolveEnvironment(a)
    PROVE  LET k == calls[a] IN
           /\ k.at = "environment"
           /\ \/ k.mode = "apply" /\ Moved(a, "failed", "fail", k.target, k.revision, k.todo, k.clean)
              \/ k.mode # "apply" /\ Moved(a, "failed", k.mode, k.target, k.revision, k.todo, FALSE)
              \/ Moved(a, "objects", k.mode, k.target, IF k.target.secret THEN secret[a] ELSE 0, k.todo, k.clean)
<1> DEFINE k == calls[a]
           v == IF k.target.secret THEN secret[a] ELSE 0
<1>0. 0 \in Nat
  BY SMTT(30)
<1>1. k.at = "environment" /\ v \in Nat
  BY <1>0 DEF ResolveEnvironment, At, RowTypes
<1>2. CASE k.mode = "apply" /\ calls' = [calls EXCEPT ![a].mode = "fail", ![a].at = "failed"]
  <2>1. calls' = [calls EXCEPT ![a] = [k EXCEPT !.mode = "fail", !.at = "failed"]]
    BY <1>2
  <2>2. calls'[a] = [k EXCEPT !.mode = "fail", !.at = "failed"]
    BY <2>1 DEF CallTypes
  <2>3. Edited(calls'[a], k, "failed", "fail", k.target, k.revision, k.todo, k.clean)
    BY <2>2 DEF Edited, CallRecords, Steps, Modes
  <2> QED
    BY <1>1, <1>2, <2>1, <2>2, <2>3 DEF Moved
<1>3. CASE k.mode # "apply" /\ Spoil(a, "failed")
  BY <1>1, <1>3, SpoilMoves DEF Steps
<1>4. CASE calls' = [calls EXCEPT ![a].at = "objects", ![a].revision = v]
  <2> HIDE DEF v
  <2>1. calls' = [calls EXCEPT ![a] = [k EXCEPT !.at = "objects", !.revision = v]]
    BY <1>4
  <2>2. calls'[a] = [k EXCEPT !.at = "objects", !.revision = v]
    BY <2>1 DEF CallTypes
  <2>3. Edited(calls'[a], k, "objects", k.mode, k.target, v, k.todo, k.clean)
    BY <1>1, <2>2 DEF Edited, CallRecords, Steps, Modes
  <2> QED
    BY <1>1, <2>1, <2>2, <2>3 DEF Moved, v
<1> QED
  BY <1>2, <1>3, <1>4 DEF ResolveEnvironment

(* A reconciling write goes on, starts the compensation, or spoils it. *)
LEMMA ReconcileMoves ==
    ASSUME CallTypes, ClusterTypes, NEW a \in Apps, calls[a] \in CallRecords, Control(calls[a]), Holding(calls[a]),
           NEW outcome, ReconcileObject(a, outcome)
    PROVE  LET k == calls[a]  o == Head(k.todo) IN
           /\ k.at = "objects" /\ k.todo # <<>> /\ o \in Kinds /\ Manifest(o, k.target, k.revision) \in Values
           /\ Write(a, o, Manifest(o, k.target, k.revision), k.request, outcome)
           /\ \/ outcome = "ok" /\ Moved(a, "objects", k.mode, k.target, k.revision, Tail(k.todo), k.clean)
              \/ /\ outcome # "ok" /\ k.mode = "apply"
                 /\ calls'[a] = Compensation(k, Definitive(outcome))
                 /\ calls' = [calls EXCEPT ![a] = calls'[a]]
              \/ outcome # "ok" /\ k.mode # "apply" /\ Moved(a, "objects", k.mode, k.target, k.revision, <<>>, FALSE)
<1> DEFINE k == calls[a]
           o == Head(k.todo)
<1>1. k.at = "objects" /\ k.todo # <<>> /\ Write(a, o, Manifest(o, k.target, k.revision), k.request, outcome)
  BY DEF ReconcileObject, At
<1>2. o \in Kinds /\ Tail(k.todo) \in Seq(Kinds) /\ k.target \in Configs /\ k.revision \in Nat
  BY <1>1, TodoTyped, TargetTyped DEF CallRecords
<1>3. Manifest(o, k.target, k.revision) \in Values
  BY <1>2, ManifestTyped
<1>4. CASE outcome = "ok" /\ calls' = [calls EXCEPT ![a].todo = Tail(k.todo)]
  <2>1. calls' = [calls EXCEPT ![a] = [k EXCEPT !.todo = Tail(k.todo)]]
    BY <1>4
  <2>2. calls'[a] = [k EXCEPT !.todo = Tail(k.todo)]
    BY <2>1 DEF CallTypes
  <2>3. Edited(calls'[a], k, "objects", k.mode, k.target, k.revision, Tail(k.todo), k.clean)
    BY <1>1, <1>2, <2>2 DEF Edited, CallRecords
  <2> QED
    BY <1>1, <1>2, <1>3, <1>4, <2>1, <2>2, <2>3 DEF Moved
<1>5. CASE outcome # "ok" /\ k.mode = "apply" /\ Compensate(a, Definitive(outcome))
  <2>1. calls' = [calls EXCEPT ![a] = Compensation(k, Definitive(outcome))]
    BY <1>5 DEF Compensate
  <2>2. calls'[a] = Compensation(k, Definitive(outcome))
    BY <2>1 DEF CallTypes
  <2> QED
    BY <1>1, <1>2, <1>3, <1>5, <2>1, <2>2
<1>6. CASE /\ outcome # "ok" /\ k.mode # "apply"
           /\ calls' = [calls EXCEPT ![a].clean = FALSE, ![a].todo = <<>>]
  <2>0. <<>> \in Seq(Kinds)
    BY SMTT(30)
  <2>1. calls' = [calls EXCEPT ![a] = [k EXCEPT !.clean = FALSE, !.todo = <<>>]]
    BY <1>6
  <2>2. calls'[a] = [k EXCEPT !.clean = FALSE, !.todo = <<>>]
    BY <2>1 DEF CallTypes
  <2>3. Edited(calls'[a], k, "objects", k.mode, k.target, k.revision, <<>>, FALSE)
    BY <1>1, <2>0, <2>2 DEF Edited, CallRecords
  <2> QED
    BY <1>1, <1>2, <1>3, <1>6, <2>1, <2>2, <2>3 DEF Moved
<1> QED
  BY <1>4, <1>5, <1>6 DEF ReconcileObject

(* A deletion goes on, and stays clean only if it was answered. *)
LEMMA EraseMoves ==
    ASSUME CallTypes, NEW a \in Apps, calls[a] \in CallRecords, NEW outcome, EraseObject(a, outcome)
    PROVE  LET k == calls[a]  o == Head(k.todo) IN
           /\ k.at = "erase" /\ k.todo # <<>> /\ o \in Kinds
           /\ Write(a, o, Absent, k.request, outcome)
           /\ Moved(a, "erase", k.mode, k.target, k.revision, Tail(k.todo), k.clean /\ outcome = "ok")
<1> DEFINE k == calls[a]
           o == Head(k.todo)
           b == k.clean /\ outcome = "ok"
<1>1. k.at = "erase" /\ k.todo # <<>> /\ Write(a, o, Absent, k.request, outcome)
  BY DEF EraseObject, At
<1>2. o \in Kinds /\ Tail(k.todo) \in Seq(Kinds) /\ b \in BOOLEAN
  BY <1>1, TodoTyped
<1>3. calls' = [calls EXCEPT ![a] = [k EXCEPT !.todo = Tail(k.todo), !.clean = b]]
  BY DEF EraseObject
<1> HIDE DEF b
<1>4. calls'[a] = [k EXCEPT !.todo = Tail(k.todo), !.clean = b]
  BY <1>3 DEF CallTypes
<1>5. Edited(calls'[a], k, "erase", k.mode, k.target, k.revision, Tail(k.todo), b)
  BY <1>1, <1>2, <1>4 DEF Edited, CallRecords
<1> QED
  BY <1>1, <1>2, <1>3, <1>4, <1>5 DEF Moved, b

-----------------------------------------------------------------------------
(* RequestInv is invariant *)

(* A step that moves the call and writes no object. *)
LEMMA MovedKeeps ==
    ASSUME RequestInv, NEW a \in Apps, calls[a] # NoCall, calls[a].at # "begin",
           calls' = [calls EXCEPT ![a] = calls'[a]], calls'[a] \in CallRecords,
           Control(calls'[a]), Holding(calls'[a]), calls'[a].request = calls[a].request, calls'[a].at # "begin",
           Unconfirmed(calls[a]) => Unconfirmed(calls'[a]),
           UNCHANGED <<request, clusterVars, setters, answerVars>>, RowTypes'
    PROVE  RequestInv'
<1>1. ClusterTypes' /\ AnswerTypes' /\ SetterTypes'
  BY DEF RequestInv, DeployTypes, ClusterTypes, AnswerTypes, SetterTypes, clusterVars, answerVars
<1>2. late' \ late = {}
  BY DEF clusterVars
<1> QED
  BY <1>1, <1>2, Continues

(* A step that ends the call. *)
LEMMA EndedKeeps ==
    ASSUME RequestInv, NEW a \in Apps, calls[a] # NoCall, NEW said \in Promises, Return(a, said),
           UNCHANGED <<request, clusterVars, setters>>, RowTypes'
    PROVE  RequestInv'
<1>1. ClusterTypes' /\ SetterTypes'
  BY DEF RequestInv, DeployTypes, ClusterTypes, SetterTypes, clusterVars
<1>2. late' \ late = {}
  BY DEF clusterVars
<1>3. calls' = [calls EXCEPT ![a] = NoCall] /\ AnswerTypes'
  BY ReturnMoves DEF RequestInv, DeployTypes
<1> QED
  BY <1>1, <1>2, <1>3, Continues

(* The steps of a call that are one statement of the database keep RequestInv. *)
LEMMA StatementSteps ==
    ASSUME RequestInv, NEW a \in Apps,
           \/ WriteRow(a) \/ CreateDeployment(a) \/ ResolveEnvironment(a)
           \/ MarkHealthy(a) \/ FailDeployment(a) \/ Unroute(a) \/ RestoreRow(a) \/ Leave(a)
    PROVE  RequestInv'
<1> DEFINE k == calls[a]
           n == calls'[a]
<1>1. calls[a] # NoCall
  BY DEF WriteRow, CreateDeployment, ResolveEnvironment, MarkHealthy, FailDeployment, Unroute, RestoreRow, Leave, At
<1>2. k \in CallRecords /\ Control(k) /\ Holding(k) /\ OwnRequest(a, k)
  BY <1>1, CallFacts
<1>3. CallTypes /\ RowTypes
  BY DEF RequestInv, DeployTypes
<1> HIDE DEF k, n
<1>4. CASE WriteRow(a)
  <2>1. /\ calls' = [calls EXCEPT ![a] = n] /\ n \in CallRecords
        /\ k.at = "row" /\ n.at = "deployment" /\ n.mode = k.mode /\ n.config = k.config /\ n.request = k.request
        /\ n.target = k.target /\ n.todo = k.todo /\ n.clean = k.clean
    BY <1>2, <1>3, <1>4, WriteRowMoves DEF k, n
  <2>2. k.mode = "apply"
    BY <1>2, <2>1 DEF Control
  <2>3. Control(n) /\ Holding(n)
    BY <1>2, <2>1, <2>2 DEF Control, Holding
  <2>4. RowTypes' /\ UNCHANGED <<request, clusterVars, setters, answerVars>>
    <3>1. k.config \in Configs
      BY <1>2 DEF CallRecords
    <3> QED
      BY <1>3, <1>4, <3>1, RowStatements DEF WriteRow, requestVars, rowVars, k
  <2>5. ~Unconfirmed(k) /\ k.at # "begin" /\ n.at # "begin"
    BY <2>1, <2>2 DEF Unconfirmed
  <2> QED
    BY <1>1, <2>1, <2>3, <2>4, <2>5, MovedKeeps DEF k, n
<1>5. CASE CreateDeployment(a)
  <2>1. k.at = "deployment" /\ Moved(a, "environment", k.mode, k.target, k.revision, k.todo, k.clean)
    BY <1>2, <1>3, <1>5, GotoMoves DEF CreateDeployment, At, Steps, k
  <2>2. k.mode = "apply"
    BY <1>2, <2>1 DEF Control
  <2>3. Control(n) /\ Holding(n) /\ n \in CallRecords /\ n.request = k.request /\ n.at # "begin" /\ k.at # "begin"
    BY <1>2, <2>1, <2>2 DEF Control, Holding, Moved, Edited, k, n
  <2>4. RowTypes' /\ UNCHANGED <<request, clusterVars, setters, answerVars>>
    BY <1>3, <1>5, RowStatements DEF CreateDeployment, requestVars, rowVars
  <2>5. ~Unconfirmed(k)
    BY <2>2 DEF Unconfirmed
  <2> QED
    BY <1>1, <2>1, <2>3, <2>4, <2>5, MovedKeeps DEF Moved, k, n
<1>6. CASE ResolveEnvironment(a)
  <2>1. /\ k.at = "environment"
        /\ \/ k.mode = "apply" /\ Moved(a, "failed", "fail", k.target, k.revision, k.todo, k.clean)
           \/ k.mode # "apply" /\ Moved(a, "failed", k.mode, k.target, k.revision, k.todo, FALSE)
           \/ Moved(a, "objects", k.mode, k.target, IF k.target.secret THEN secret[a] ELSE 0, k.todo, k.clean)
    BY <1>2, <1>3, <1>6, ResolveMoves DEF k
  <2>2. k.mode \in {"apply", "rollback", "withdraw"}
    BY <1>2, <2>1 DEF Control
  <2>3. Control(n) /\ Holding(n) /\ n \in CallRecords /\ n.request = k.request /\ n.at # "begin" /\ k.at # "begin"
    BY <1>2, <2>1, <2>2 DEF Control, Holding, Moved, Edited, k, n
  <2>4. RowTypes' /\ UNCHANGED <<request, clusterVars, setters, answerVars>>
    BY <1>3, <1>6, RowStatements DEF ResolveEnvironment, requestVars, rowVars
  <2>5. Unconfirmed(k) => Unconfirmed(n)
    BY <2>1, <2>2 DEF Unconfirmed, Moved, Edited, k, n
  <2>6. calls' = [calls EXCEPT ![a] = n]
    BY <2>1 DEF Moved, n
  <2> QED
    BY <1>1, <2>3, <2>4, <2>5, <2>6, MovedKeeps DEF k, n
<1>7. CASE MarkHealthy(a)
  <2>1. k.at = "healthy" /\ k.mode = "apply"
    BY <1>2, <1>7 DEF MarkHealthy, At, Control, k
  <2>2. RowTypes' /\ UNCHANGED <<request, clusterVars, setters>>
    BY <1>3, <1>7, RowStatements DEF MarkHealthy, requestVars, rowVars
  <2>3. CASE Return(a, "applied")
    BY <1>1, <2>2, <2>3, EndedKeeps DEF Promises
  <2>4. CASE k.request # NoRequest /\ Goto(a, "complete") /\ UNCHANGED answerVars
    <3>1. Moved(a, "complete", k.mode, k.target, k.revision, k.todo, k.clean)
      BY <1>2, <1>3, <2>4, GotoMoves DEF Steps, k
    <3>2. Control(n) /\ Holding(n) /\ n \in CallRecords /\ n.request = k.request /\ n.at # "begin" /\ k.at # "begin"
      BY <1>2, <2>1, <2>4, <3>1 DEF Control, Holding, Moved, Edited, k, n
    <3>3. ~Unconfirmed(k)
      BY <2>1 DEF Unconfirmed
    <3> QED
      BY <1>1, <2>2, <2>4, <3>1, <3>2, <3>3, MovedKeeps DEF Moved, k, n
  <2> QED
    BY <1>7, <2>3, <2>4 DEF MarkHealthy, k
<1>8. CASE FailDeployment(a)
  <2>1. k.at = "failed" /\ k.mode \in {"rollback", "withdraw", "fail"}
    BY <1>2, <1>8 DEF FailDeployment, At, Control, k
  <2>2. RowTypes' /\ UNCHANGED <<request, clusterVars, setters>>
    BY <1>3, <1>8, RowStatements DEF FailDeployment, requestVars, rowVars
  <2>3. CASE Return(a, Conclusion(k))
    BY <1>1, <2>2, <2>3, EndedKeeps DEF Promises, Conclusion
  <2>4. CASE /\ Conclusion(k) = "withdrawn" /\ k.request # NoRequest
             /\ Goto(a, "complete") /\ UNCHANGED answerVars
    <3>0. k.mode = "withdraw" /\ k.clean
      BY <2>4 DEF Conclusion
    <3>1. Moved(a, "complete", k.mode, k.target, k.revision, k.todo, k.clean)
      BY <1>2, <1>3, <2>4, GotoMoves DEF Steps, k
    <3>2. Control(n) /\ Holding(n) /\ n \in CallRecords /\ n.request = k.request /\ n.at # "begin" /\ k.at # "begin"
      BY <1>2, <2>1, <2>4, <3>0, <3>1 DEF Control, Holding, Moved, Edited, k, n
    <3>3. ~Unconfirmed(k)
      BY <3>0 DEF Unconfirmed
    <3> QED
      BY <1>1, <2>2, <2>4, <3>1, <3>2, <3>3, MovedKeeps DEF Moved, k, n
  <2> QED
    BY <1>8, <2>3, <2>4 DEF FailDeployment, k
<1>9. CASE Unroute(a)
  <2>1. k.at = "erase" /\ k.clean /\ Moved(a, "restore", k.mode, k.target, k.revision, k.todo, k.clean)
    BY <1>2, <1>3, <1>9, GotoMoves DEF Unroute, At, Steps, k
  <2>2. k.mode \in {"withdraw", "delete"}
    BY <1>2, <2>1 DEF Control
  <2>3. Control(n) /\ Holding(n) /\ n \in CallRecords /\ n.request = k.request /\ n.at # "begin" /\ k.at # "begin"
    BY <1>2, <2>1, <2>2 DEF Control, Holding, Moved, Edited, k, n
  <2>4. RowTypes' /\ UNCHANGED <<request, clusterVars, setters, answerVars>>
    BY <1>3, <1>9, RowStatements DEF Unroute, requestVars, rowVars, Domains
  <2>5. ~Unconfirmed(k)
    BY <2>1, <2>2 DEF Unconfirmed
  <2> QED
    BY <1>1, <2>1, <2>3, <2>4, <2>5, MovedKeeps DEF Moved, k, n
<1>10. CASE RestoreRow(a)
  <2>1. k.at = "restore" /\ (k.mode = "delete" \/ (k.mode = "withdraw" /\ k.clean))
    BY <1>2, <1>10 DEF RestoreRow, At, Control, k
  <2>2. RowTypes' /\ UNCHANGED <<request, clusterVars, setters>>
    <3>1. /\ UNCHANGED <<route, request, deployment, secret, clusterVars, setters>>
          /\ desired' = [desired EXCEPT ![a] = IF k.previous # NoConfig THEN k.previous ELSE desired[a]]
      BY <1>10 DEF RestoreRow, requestVars, k
    <3>2. PICK p \in Configs \cup {NoConfig} :
             /\ p = IF k.previous # NoConfig THEN k.previous ELSE desired[a]
             /\ desired' = [desired EXCEPT ![a] = p] /\ (a \in live => p \in Configs)
      BY <1>2, <1>3, <3>1 DEF CallRecords, RowTypes
    <3>3. live' \subseteq live
      BY <1>10 DEF RestoreRow
    <3> QED
      BY <1>3, <3>1, <3>2, <3>3 DEF RowTypes
  <2>3. CASE Return(a, "deleted")
    BY <1>1, <2>2, <2>3, EndedKeeps DEF Promises
  <2>4. CASE k.mode # "delete" /\ Goto(a, "failed") /\ UNCHANGED answerVars
    <3>1. Moved(a, "failed", k.mode, k.target, k.revision, k.todo, k.clean)
      BY <1>2, <1>3, <2>4, GotoMoves DEF Steps, k
    <3>2. Control(n) /\ Holding(n) /\ n \in CallRecords /\ n.request = k.request /\ n.at # "begin" /\ k.at # "begin"
      BY <1>2, <2>1, <2>4, <3>1 DEF Control, Holding, Moved, Edited, k, n
    <3>3. ~Unconfirmed(k)
      BY <2>1 DEF Unconfirmed
    <3> QED
      BY <1>1, <2>2, <2>4, <3>1, <3>2, <3>3, MovedKeeps DEF Moved, k, n
  <2> QED
    BY <1>10, <2>3, <2>4 DEF RestoreRow, k
<1>11. CASE Leave(a)
  <2>1. RowTypes' /\ UNCHANGED <<request, clusterVars, setters>> /\ Return(a, "none")
    BY <1>3, <1>11, RowStatements DEF Leave, requestVars, rowVars
  <2> QED
    BY <1>1, <2>1, EndedKeeps DEF Promises
<1> QED
  BY <1>4, <1>5, <1>6, <1>7, <1>8, <1>9, <1>10, <1>11

(* So do the writes of the objects. *)
LEMMA ObjectSteps ==
    ASSUME RequestInv, NEW a \in Apps, NEW outcome, ReconcileObject(a, outcome) \/ EraseObject(a, outcome)
    PROVE  RequestInv'
<1> DEFINE k == calls[a]
           n == calls'[a]
           o == Head(k.todo)
<1>1. calls[a] # NoCall
  BY DEF ReconcileObject, EraseObject, At
<1>2. k \in CallRecords /\ Control(k) /\ Holding(k) /\ OwnRequest(a, k)
  BY <1>1, CallFacts
<1>3. CallTypes /\ RowTypes /\ ClusterTypes /\ AnswerTypes /\ SetterTypes
  BY DEF RequestInv, DeployTypes
<1>4. RowTypes' /\ AnswerTypes' /\ SetterTypes' /\ UNCHANGED request
  BY <1>3, RowStatements DEF ReconcileObject, EraseObject, rowVars, requestVars, answerVars, AnswerTypes, SetterTypes
<1>5. k.request \in Requests \cup {NoRequest}
  BY <1>2 DEF CallRecords
<1> HIDE DEF k, n
<1>6. CASE ReconcileObject(a, outcome)
  <2>1. /\ k.at = "objects" /\ k.todo # <<>> /\ o \in Kinds /\ Manifest(o, k.target, k.revision) \in Values
        /\ Write(a, o, Manifest(o, k.target, k.revision), k.request, outcome)
        /\ \/ outcome = "ok" /\ Moved(a, "objects", k.mode, k.target, k.revision, Tail(k.todo), k.clean)
           \/ /\ outcome # "ok" /\ k.mode = "apply"
              /\ n = Compensation(k, Definitive(outcome))
              /\ calls' = [calls EXCEPT ![a] = n]
           \/ outcome # "ok" /\ k.mode # "apply" /\ Moved(a, "objects", k.mode, k.target, k.revision, <<>>, FALSE)
    BY <1>2, <1>3, <1>6, ReconcileMoves DEF k, n
  <2>2. ClusterTypes' /\ \A w \in late' \ late : w.by = k.request /\ outcome = "late"
    <3>1. PICK new \in Values, p \in Kinds, by \in Requests \cup {NoRequest} :
             by = k.request /\ Write(a, p, new, by, outcome)
      BY <1>5, <2>1
    <3>2. ClusterTypes' /\ \A w \in late' \ late : w.by = by /\ outcome = "late"
      BY <1>3, <3>1, WriteEffect, SMTT(30)
    <3> QED
      BY <3>1, <3>2
  <2>3. k.mode \in {"apply", "rollback", "withdraw"} /\ k.at # "begin"
    BY <1>2, <2>1 DEF Control
  <2>4. CASE outcome = "ok" /\ Moved(a, "objects", k.mode, k.target, k.revision, Tail(k.todo), k.clean)
    <3>1. Control(n) /\ Holding(n) /\ n \in CallRecords /\ n.request = k.request /\ n.at # "begin"
      BY <1>2, <2>1, <2>3, <2>4 DEF Control, Holding, Moved, Edited, k, n
    <3>2. Unconfirmed(k) => Unconfirmed(n)
      BY <2>4 DEF Unconfirmed, Moved, Edited, k, n
    <3>3. outcome # "late"
      BY <2>4
    <3>4. late' \ late = {} /\ calls' = [calls EXCEPT ![a] = n]
      BY <2>2, <2>4, <3>3 DEF Moved, n
    <3> QED
      BY <1>1, <1>4, <2>2, <2>3, <3>1, <3>2, <3>4, Continues DEF k
  <2>5. CASE /\ outcome # "ok" /\ k.mode = "apply"
             /\ n = Compensation(k, Definitive(outcome)) /\ calls' = [calls EXCEPT ![a] = n]
    <3>1. k.clean /\ Definitive(outcome) \in BOOLEAN
      BY <1>2, <2>5 DEF Holding, Definitive
    <3>2. /\ Control(n) /\ Holding(n) /\ n \in CallRecords /\ n.request = k.request
          /\ n.at \in {"erase", "environment", "failed"}
          /\ ~Definitive(outcome) => Unconfirmed(n)
      BY <1>2, <2>5, <3>1, CompensationHolds
    <3>3. outcome = "late" => ~Definitive(outcome)
      BY DEF Definitive
    <3>4. ~Unconfirmed(k) /\ n.at # "begin"
      BY <2>5, <3>2 DEF Unconfirmed
    <3>5. \A w \in late' \ late : w.by = k.request /\ (n # NoCall => Unconfirmed(n))
      BY <2>2, <3>2, <3>3
    <3> QED
      BY <1>1, <1>4, <2>2, <2>3, <2>5, <3>2, <3>4, <3>5, Continues DEF k
  <2>6. CASE outcome # "ok" /\ k.mode # "apply" /\ Moved(a, "objects", k.mode, k.target, k.revision, <<>>, FALSE)
    <3>1. Control(n) /\ Holding(n) /\ n \in CallRecords /\ n.request = k.request /\ n.at # "begin"
      BY <1>2, <2>1, <2>3, <2>6 DEF Control, Holding, Moved, Edited, k, n
    <3>2. Unconfirmed(n) /\ calls' = [calls EXCEPT ![a] = n]
      BY <2>3, <2>6 DEF Unconfirmed, Moved, Edited, k, n
    <3> QED
      BY <1>1, <1>4, <2>2, <2>3, <3>1, <3>2, Continues DEF k
  <2> QED
    BY <2>1, <2>4, <2>5, <2>6
<1>7. CASE EraseObject(a, outcome)
  <2>1. /\ k.at = "erase" /\ o \in Kinds /\ Write(a, o, Absent, k.request, outcome)
        /\ Moved(a, "erase", k.mode, k.target, k.revision, Tail(k.todo), k.clean /\ outcome = "ok")
    BY <1>2, <1>3, <1>7, EraseMoves DEF k
  <2>2. ClusterTypes' /\ \A w \in late' \ late : w.by = k.request /\ outcome = "late"
    <3>1. PICK new \in Values, p \in Kinds, by \in Requests \cup {NoRequest} :
             by = k.request /\ Write(a, p, new, by, outcome)
      BY <1>5, <2>1, AbsentTyped
    <3>2. ClusterTypes' /\ \A w \in late' \ late : w.by = by /\ outcome = "late"
      BY <1>3, <3>1, WriteEffect, SMTT(30)
    <3> QED
      BY <3>1, <3>2
  <2>3. k.mode \in {"withdraw", "delete"} /\ k.at # "begin"
    BY <1>2, <2>1 DEF Control
  <2>4. Control(n) /\ Holding(n) /\ n \in CallRecords /\ n.request = k.request /\ n.at # "begin"
    BY <1>2, <2>1, <2>3 DEF Control, Holding, Moved, Edited, k, n
  <2>5. Unconfirmed(k) => Unconfirmed(n)
    BY <2>1, <2>3 DEF Unconfirmed, Moved, Edited, k, n
  <2>6. \A w \in late' \ late : w.by = NoRequest \/ (w.by = k.request /\ Unconfirmed(n))
    <3>1. CASE k.mode = "delete"
      BY <1>2, <2>2, <3>1 DEF Holding
    <3>2. CASE k.mode = "withdraw"
      <4>1. outcome = "late" => outcome # "ok"
        OBVIOUS
      <4>2. outcome = "late" => Unconfirmed(n)
        BY <2>1, <3>2, <4>1 DEF Unconfirmed, Moved, Edited, k, n
      <4> QED
        BY <2>2, <4>2
    <3> QED
      BY <2>3, <3>1, <3>2
  <2>7. calls' = [calls EXCEPT ![a] = n]
    BY <2>1 DEF Moved, n
  <2> QED
    BY <1>1, <1>4, <2>2, <2>3, <2>4, <2>5, <2>6, <2>7, Continues DEF k
<1> QED
  BY <1>6, <1>7

(* So do the route and the final row. *)
LEMMA CommitSteps ==
    ASSUME RequestInv, NEW a \in Apps, NEW ok \in BOOLEAN, SyncRoute(a, ok) \/ CommitRow(a, ok)
    PROVE  RequestInv'
<1> DEFINE k == calls[a]
           n == calls'[a]
<1>1. calls[a] # NoCall
  BY DEF SyncRoute, CommitRow, At
<1>2. k \in CallRecords /\ Control(k) /\ Holding(k) /\ OwnRequest(a, k)
  BY <1>1, CallFacts
<1>3. CallTypes /\ RowTypes
  BY DEF RequestInv, DeployTypes
<1>4. UNCHANGED <<request, clusterVars, setters, answerVars>>
  BY DEF SyncRoute, CommitRow, requestVars
<1>5. ASSUME Compensate(a, TRUE), k.mode = "apply", k.at # "begin", RowTypes'
      PROVE  RequestInv'
  <2>1. calls' = [calls EXCEPT ![a] = Compensation(k, TRUE)]
    BY <1>5 DEF Compensate
  <2>2. n = Compensation(k, TRUE)
    BY <1>3, <2>1 DEF CallTypes
  <2> HIDE DEF k, n
  <2>3. k.clean
    BY <1>2, <1>5 DEF Holding
  <2>4. /\ Control(n) /\ Holding(n) /\ n \in CallRecords /\ n.request = k.request
        /\ n.at \in {"erase", "environment", "failed"}
    BY <1>2, <1>5, <2>2, <2>3, CompensationHolds
  <2>5. ~Unconfirmed(k) /\ n.at # "begin"
    BY <1>5, <2>4 DEF Unconfirmed
  <2> QED
    BY <1>1, <1>4, <1>5, <2>1, <2>2, <2>4, <2>5, MovedKeeps DEF k, n
<1> HIDE DEF k, n
<1>6. CASE SyncRoute(a, ok)
  <2>1. k.at = "objects" /\ k.mode \in {"apply", "rollback", "withdraw"} /\ k.at # "begin"
    BY <1>2, <1>6 DEF SyncRoute, At, Control, k
  <2>2. k.target \in Configs
    BY <1>2, <2>1, TargetTyped
  <2>3. RowTypes'
    <3>1. CASE PutRoute(a, k.target.domain)
      BY <1>3, <1>6, <2>2, <3>1, RowStatements DEF SyncRoute, Domains, rowVars, requestVars
    <3>2. CASE UNCHANGED route
      BY <1>3, <1>6, <3>2, RowStatements DEF SyncRoute, rowVars, requestVars
    <3> QED
      BY <1>6, <3>1, <3>2 DEF SyncRoute, k
  <2>4. CASE Goto(a, AfterRoute(k))
    <3>1. /\ AfterRoute(k) \in {"commit", "healthy", "restore", "failed"}
          /\ AfterRoute(k) = "commit" => k.mode = "apply" /\ k.previous # NoConfig
          /\ AfterRoute(k) = "healthy" => k.mode = "apply"
          /\ AfterRoute(k) = "restore" => k.mode = "withdraw" /\ k.clean
          /\ AfterRoute(k) = "failed" => k.mode # "apply"
      BY <2>1 DEF AfterRoute
    <3>2. PICK x \in Steps : x = AfterRoute(k)
      BY <3>1 DEF Steps
    <3>3. Moved(a, x, k.mode, k.target, k.revision, k.todo, k.clean)
      BY <1>2, <1>3, <2>4, <3>2, GotoMoves DEF k
    <3>4. n.at = x /\ n.mode = k.mode /\ n.target = k.target /\ n.clean = k.clean /\ n.request = k.request
          /\ n.config = k.config /\ n.previous = k.previous /\ n.hidden = k.hidden /\ n \in CallRecords
      BY <3>3 DEF Moved, Edited, k, n
    <3>5. Control(n)
      BY <2>1, <3>1, <3>2, <3>4 DEF Control
    <3>6. Holding(n) /\ n.at # "begin"
      BY <1>2, <3>1, <3>2, <3>4 DEF Holding
    <3>7. Unconfirmed(k) => Unconfirmed(n)
      BY <3>4 DEF Unconfirmed
    <3> QED
      BY <1>1, <1>4, <2>1, <2>3, <3>3, <3>4, <3>5, <3>6, <3>7, MovedKeeps DEF Moved, k, n
  <2>5. CASE k.mode = "apply" /\ Compensate(a, TRUE)
    BY <1>5, <2>1, <2>3, <2>5
  <2>6. CASE k.mode # "apply" /\ Spoil(a, "failed")
    <3>1. Moved(a, "failed", k.mode, k.target, k.revision, k.todo, FALSE)
      BY <1>2, <1>3, <2>6, SpoilMoves DEF Steps, k
    <3>2. Control(n) /\ Holding(n) /\ n \in CallRecords /\ n.request = k.request /\ n.at # "begin"
      BY <1>2, <2>1, <2>6, <3>1 DEF Control, Holding, Moved, Edited, k, n
    <3>3. Unconfirmed(k) => Unconfirmed(n)
      BY <3>1 DEF Unconfirmed, Moved, Edited, k, n
    <3> QED
      BY <1>1, <1>4, <2>1, <2>3, <3>1, <3>2, <3>3, MovedKeeps DEF Moved, k, n
  <2> QED
    BY <1>6, <2>4, <2>5, <2>6 DEF SyncRoute, k
<1>7. CASE CommitRow(a, ok)
  <2>1. k.at = "commit" /\ k.mode = "apply" /\ k.at # "begin" /\ k.config \in Configs
    BY <1>2, <1>7 DEF CommitRow, At, Control, CallRecords, k
  <2>2. RowTypes'
    BY <1>3, <1>7, <2>1, RowStatements DEF CommitRow, rowVars, requestVars, k
  <2>3. CASE Goto(a, "healthy")
    <3>1. Moved(a, "healthy", k.mode, k.target, k.revision, k.todo, k.clean)
      BY <1>2, <1>3, <2>3, GotoMoves DEF Steps, k
    <3>2. Control(n) /\ Holding(n) /\ n \in CallRecords /\ n.request = k.request /\ n.at # "begin"
      BY <1>2, <2>1, <3>1 DEF Control, Holding, Moved, Edited, k, n
    <3>3. ~Unconfirmed(k)
      BY <2>1 DEF Unconfirmed
    <3> QED
      BY <1>1, <1>4, <2>1, <2>2, <3>1, <3>2, <3>3, MovedKeeps DEF Moved, k, n
  <2>4. CASE Compensate(a, TRUE)
    BY <1>5, <2>1, <2>2, <2>4
  <2> QED
    BY <1>7, <2>3, <2>4 DEF CommitRow
<1> QED
  BY <1>6, <1>7

(* A step that opens, closes or takes up a request: the writes under way are  *)
(* of other requests.                                                         *)
LEMMA RequestMoves ==
    ASSUME RequestInv, NEW a \in Apps, NEW n \in CallRecords \cup {NoCall}, calls' = [calls EXCEPT ![a] = n],
           n # NoCall => Control(n) /\ Holding(n) /\ OwnRequest(a, calls[a])',
           \A r \in Requests : AppOf[r] # a => request'[r] = request[r],
           \A w \in late : w.by # NoRequest =>
              request'[w.by] = request[w.by] /\ (n # NoCall => n.request # w.by),
           UNCHANGED <<clusterVars, setters>>, RowTypes', AnswerTypes'
    PROVE  RequestInv'
<1>1. CallTypes' /\ calls'[a] = n /\ \A b \in Apps : b # a => calls'[b] = calls[b]
  BY CallMoves DEF RequestInv, DeployTypes
<1>2. CallInv /\ LateInv /\ CallTypes
  BY DEF RequestInv, DeployTypes
<1>3. ClusterTypes' /\ SetterTypes' /\ late' = late
  BY DEF RequestInv, DeployTypes, ClusterTypes, SetterTypes, clusterVars
<1>4. ASSUME NEW b \in Apps, b # a, calls'[b] # NoCall
      PROVE  Control(calls'[b]) /\ Holding(calls'[b]) /\ OwnRequest(b, calls[b])'
  <2>1. calls'[b] = calls[b]
    BY <1>1, <1>4
  <2>2. calls[b] \in CallRecords /\ Control(calls[b]) /\ Holding(calls[b]) /\ OwnRequest(b, calls[b])
    BY <1>2, <1>4, <2>1 DEF CallInv, CallTypes
  <2>3. calls[b].request # NoRequest =>
           request'[calls[b].request] = request[calls[b].request]
    BY <1>4, <2>2 DEF OwnRequest, CallRecords
  <2> QED
    BY <2>1, <2>2, <2>3 DEF OwnRequest
<1>5. CallInv'
  BY <1>1, <1>4 DEF CallInv
<1>6. ASSUME NEW w \in late, w.by # NoRequest
      PROVE  /\ request'[w.by] = "pending"
             /\ \A b \in Apps : calls'[b] # NoCall /\ calls'[b].request = w.by => Unconfirmed(calls'[b])
  <2>1. /\ request'[w.by] = "pending"
        /\ \A b \in Apps : calls[b] # NoCall /\ calls[b].request = w.by => Unconfirmed(calls[b])
    BY <1>2, <1>6 DEF LateInv
  <2>2. n # NoCall => n.request # w.by
    BY <1>6
  <2> QED
    BY <1>1, <2>1, <2>2
<1>7. LateInv'
  BY <1>3, <1>6 DEF LateInv
<1> QED
  BY <1>1, <1>3, <1>5, <1>7 DEF RequestInv, DeployTypes

(* Opening a request keeps RequestInv. *)
LEMMA BeginKeeps ==
    ASSUME RequestInv, NEW a \in Apps, BeginRequest(a)
    PROVE  RequestInv'
<1> DEFINE k == calls[a]
           n == calls'[a]
<1>1. calls[a] # NoCall /\ k.at = "begin"
  BY DEF BeginRequest, At
<1>2. k \in CallRecords /\ Control(k) /\ Holding(k) /\ OwnRequest(a, k)
  BY <1>1, CallFacts
<1>3. CallTypes /\ RowTypes /\ LateInv /\ AnswerTypes
  BY DEF RequestInv, DeployTypes
<1>4. k.request \in Requests /\ k.request # NoRequest /\ AppOf[k.request] = a /\ request[k.request] = "absent"
  BY <1>1, <1>2 DEF Control, OwnRequest, CallRecords
<1>5. UNCHANGED <<desired, live, route, deployment, secret, clusterVars, setters>>
  BY DEF BeginRequest, rowVars
<1>6. CASE Return(a, "none") /\ UNCHANGED requestVars
  <2>1. RowTypes' /\ UNCHANGED request
    BY <1>3, <1>5, <1>6 DEF RowTypes, requestVars
  <2> QED
    BY <1>1, <1>5, <1>6, <2>1, EndedKeeps DEF Promises
<1>7. CASE request' = [request EXCEPT ![k.request] = "pending"] /\ Goto(a, "row") /\ UNCHANGED answerVars
  <2>1. Moved(a, "row", k.mode, k.target, k.revision, k.todo, k.clean)
    BY <1>2, <1>3, <1>7, GotoMoves DEF Steps
  <2> HIDE DEF k, n
  <2>2. Control(n) /\ Holding(n) /\ n \in CallRecords /\ n.request = k.request /\ n.at = "row"
    BY <1>1, <1>2, <2>1 DEF Control, Holding, Moved, Edited, k, n
  <2>3. RowTypes' /\ AnswerTypes'
    BY <1>3, <1>5, <1>7 DEF RowTypes, AnswerTypes, answerVars
  <2>4. request'[k.request] = "pending" /\ \A r \in Requests : r # k.request => request'[r] = request[r]
    BY <1>3, <1>4, <1>7 DEF RowTypes
  <2>5. OwnRequest(a, calls[a])'
    BY <1>4, <2>2, <2>4 DEF OwnRequest, n
  <2>6. \A w \in late : w.by # NoRequest => w.by \in Requests /\ w.by # k.request
    <3>1. \A w \in late : w.by # NoRequest => w.by \in Requests
      BY DEF RequestInv, DeployTypes, ClusterTypes, WriteRecords
    <3>2. request[k.request] # "pending"
      BY <1>4
    <3> QED
      BY <1>3, <3>1, <3>2 DEF LateInv
  <2>7. \A r \in Requests : AppOf[r] # a => request'[r] = request[r]
    BY <1>4, <2>4
  <2>8. \A w \in late : w.by # NoRequest => request'[w.by] = request[w.by] /\ n.request # w.by
    BY <2>2, <2>4, <2>6
  <2>9. calls' = [calls EXCEPT ![a] = n]
    BY <2>1 DEF Moved, n
  <2> QED
    BY <1>5, <2>2, <2>3, <2>5, <2>7, <2>8, <2>9, RequestMoves
<1> QED
  BY <1>6, <1>7 DEF BeginRequest

(* Closing a request keeps RequestInv: it has no write under way. *)
LEMMA CompleteKeeps ==
    ASSUME RequestInv, NEW a \in Apps, CompleteRequest(a)
    PROVE  RequestInv'
<1> DEFINE k == calls[a]
<1>1. calls[a] # NoCall /\ k.at = "complete"
  BY DEF CompleteRequest, At
<1>2. k \in CallRecords /\ Control(k) /\ Holding(k) /\ OwnRequest(a, k)
  BY <1>1, CallFacts
<1>3. CallTypes /\ RowTypes /\ LateInv /\ AnswerTypes
  BY DEF RequestInv, DeployTypes
<1>4. k.request \in Requests /\ k.request # NoRequest /\ AppOf[k.request] = a /\ ~Unconfirmed(k)
  BY <1>1, <1>2 DEF Control, OwnRequest, CallRecords, Unconfirmed
<1>5. /\ request' = [request EXCEPT ![k.request] = Outcome(k)] /\ Return(a, Outcome(k))
      /\ UNCHANGED <<desired, live, route, deployment, secret, clusterVars, setters>>
  BY DEF CompleteRequest, rowVars
<1>6. Outcome(k) \in {"applied", "withdrawn"} /\ Outcome(k) \in Promises
  BY DEF Outcome, Promises
<1>7. RowTypes' /\ \A r \in Requests : r # k.request => request'[r] = request[r]
  BY <1>3, <1>4, <1>5, <1>6 DEF RowTypes
<1>8. calls' = [calls EXCEPT ![a] = NoCall] /\ calls'[a] = NoCall /\ AnswerTypes'
  BY <1>3, <1>5, <1>6, ReturnMoves
<1>9. \A w \in late : w.by # NoRequest => w.by \in Requests /\ w.by # k.request
  <2>1. \A w \in late : w.by # NoRequest => w.by \in Requests
    BY DEF RequestInv, DeployTypes, ClusterTypes, WriteRecords
  <2> QED
    BY <1>1, <1>3, <1>4, <2>1 DEF LateInv
<1> QED
  BY <1>4, <1>5, <1>7, <1>8, <1>9, RequestMoves

(* A call that starts keeps RequestInv. *)
LEMMA StartKeeps ==
    ASSUME RequestInv, NEW a \in Apps, Start(a)
    PROVE  RequestInv' /\ calls'[a] \in CallRecords /\ calls' = [calls EXCEPT ![a] = calls'[a]]
<1> DEFINE n == calls'[a]
<1>1. CallTypes /\ RowTypes /\ LateInv /\ AnswerTypes
  BY DEF RequestInv, DeployTypes
<1>2. /\ promise' = [promise EXCEPT ![a] = "none"]
      /\ UNCHANGED <<desired, live, route, request, deployment, secret, clusterVars, setters, fresh>>
  BY DEF Start, StartDeploy, StartDelete, rowVars, requestVars
<1>3. RowTypes' /\ AnswerTypes'
  BY <1>1, <1>2 DEF RowTypes, AnswerTypes, Promises
<1>4. \A w \in late : w.by # NoRequest => w.by \in Requests /\ request[w.by] = "pending"
  BY <1>1 DEF LateInv, RequestInv, DeployTypes, ClusterTypes, WriteRecords
<1>5. 0 \in Nat
  BY SMTT(30)
<1>6. ASSUME NEW c \in Configs, NEW r \in Requests \cup {NoRequest}, NEW report \in BOOLEAN,
             StartDeploy(a, c, r, report)
      PROVE  RequestInv' /\ n \in CallRecords /\ calls' = [calls EXCEPT ![a] = n]
  <2>1. PICK m : /\ m = [at |-> IF r = NoRequest THEN "row" ELSE "begin", mode |-> "apply", config |-> c,
                          request |-> r, report |-> report, previous |-> NoConfig, hidden |-> FALSE,
                          target |-> c, revision |-> 0, todo |-> Plan(c), clean |-> TRUE]
                 /\ calls' = [calls EXCEPT ![a] = m]
    BY <1>6 DEF StartDeploy
  <2>2. n = m
    BY <1>1, <2>1 DEF CallTypes
  <2>3. m \in CallRecords
    BY <1>5, <2>1, PlansTyped DEF CallRecords, Steps, Modes
  <2>4. /\ m.at = (IF r = NoRequest THEN "row" ELSE "begin") /\ m.mode = "apply" /\ m.config = c /\ m.request = r
        /\ m.target = c /\ m.todo = Plan(c) /\ m.clean = TRUE /\ m.previous = NoConfig
    BY <2>1
  <2>5. Control(m) /\ Holding(m)
    BY <2>4 DEF Control, Holding
  <2>6. r # NoRequest => AppOf[r] = a /\ request[r] = "absent"
    BY <1>6 DEF StartDeploy
  <2>7. OwnRequest(a, calls[a])'
    BY <1>2, <2>2, <2>4, <2>6 DEF OwnRequest
  <2>8. \A w \in late : w.by # NoRequest => request'[w.by] = request[w.by] /\ m.request # w.by
    <3>1. r # NoRequest => request[r] # "pending"
      BY <2>6
    <3> QED
      BY <1>2, <1>4, <2>4, <3>1
  <2>9. RequestInv'
    <3>1. \A x \in Requests : request'[x] = request[x]
      BY <1>2
    <3>2. calls' = [calls EXCEPT ![a] = m] /\ UNCHANGED <<clusterVars, setters>>
      BY <1>2, <2>1
    <3> QED
      BY <1>3, <2>3, <2>5, <2>7, <2>8, <3>1, <3>2, RequestMoves
  <2> QED
    BY <2>1, <2>2, <2>3, <2>9
<1>7. CASE StartDelete(a)
  <2>1. PICK m : /\ m = [at |-> "erase", mode |-> "delete", config |-> desired[a], request |-> NoRequest,
                          report |-> FALSE, previous |-> NoConfig, hidden |-> FALSE, target |-> desired[a],
                          revision |-> 0, todo |-> Removal, clean |-> TRUE]
                 /\ calls' = [calls EXCEPT ![a] = m]
    BY <1>7 DEF StartDelete
  <2>2. n = m /\ desired[a] \in Configs
    BY <1>1, <1>7, <2>1 DEF CallTypes, StartDelete, RowTypes
  <2>3. m \in CallRecords
    BY <1>5, <2>1, <2>2, PlansTyped DEF CallRecords, Steps, Modes
  <2>4. m.at = "erase" /\ m.mode = "delete" /\ m.request = NoRequest /\ m.previous = NoConfig
    BY <2>1
  <2>5. Control(m) /\ Holding(m)
    BY <2>4 DEF Control, Holding
  <2>6. OwnRequest(a, calls[a])'
    BY <2>2, <2>4 DEF OwnRequest
  <2>7. RequestInv'
    <3>1. \A x \in Requests : request'[x] = request[x]
      BY <1>2
    <3>2. \A w \in late : w.by # NoRequest => request'[w.by] = request[w.by] /\ m.request # w.by
      BY <1>2, <2>4
    <3> QED
      BY <1>2, <1>3, <2>1, <2>3, <2>5, <2>6, <3>1, <3>2, RequestMoves
  <2> QED
    BY <2>1, <2>2, <2>3, <2>7
<1> QED
  BY <1>6, <1>7 DEF Start

(* The steps of a secret call. *)
LEMMA SetterMoves ==
    ASSUME SetterTypes, NEW a \in Apps, NEW m \in SetterRecords \cup {NoCall}, setters' = [setters EXCEPT ![a] = m]
    PROVE  SetterTypes' /\ setters'[a] = m /\ \A b \in Apps : b # a => setters'[b] = setters[b]
  BY DEF SetterTypes

(* A secret call changes its own record, the secret and the freshness of its application. *)
LEMMA SecretMoves ==
    ASSUME RequestInv, NEW a \in Apps, SecretStep(a)
    PROVE  /\ setters' = [setters EXCEPT ![a] = setters'[a]] /\ setters'[a] \in SetterRecords \cup {NoCall}
           /\ UNCHANGED <<rowVars, route, requestVars, deployment, calls, promise>>
           /\ \A b \in Apps : b # a => fresh'[b] = fresh[b] /\ secret'[b] = secret[b]
           /\ fresh' \in [Apps -> BOOLEAN] /\ secret' \in [Apps -> Nat]
<1> DEFINE s == setters[a]
<1>0. SetterTypes /\ RowTypes /\ AnswerTypes /\ 0 \in Nat
  BY SMTT(30) DEF RequestInv, DeployTypes
<1>1. UNCHANGED <<rowVars, route, requestVars, deployment, calls, promise>>
  BY DEF SecretStep, StartSetSecret, ResolveSecret, ReplySetSecret, StoreSecret, ApplySecret, StartDeleteSecret,
         DropSecret, LeaveSecret, answerVars
<1>2. ASSUME NEW m \in SetterRecords \cup {NoCall}, setters' = [setters EXCEPT ![a] = m]
      PROVE  setters' = [setters EXCEPT ![a] = setters'[a]] /\ setters'[a] \in SetterRecords \cup {NoCall}
  BY <1>0, <1>2, SetterMoves
<1>3. <<>> \in Seq(Kinds) /\ \A c : Plan(c) \in Seq(Kinds)
  BY SMTT(30), PlansTyped
<1>4. CASE StartSetSecret(a) \/ StartDeleteSecret(a)
  <2>1. desired[a] \in Configs /\ UNCHANGED <<secret, answerVars>>
    BY <1>0, <1>4 DEF StartSetSecret, StartDeleteSecret, MayRead, RowTypes
  <2>2. \E m \in SetterRecords : setters' = [setters EXCEPT ![a] = m]
    BY <1>0, <1>3, <1>4, <2>1 DEF StartSetSecret, StartDeleteSecret, SetterRecords
  <2> QED
    BY <1>0, <1>1, <1>2, <2>1, <2>2 DEF answerVars, RowTypes, AnswerTypes
<1>5. CASE ReplySetSecret(a) \/ DropSecret(a) \/ LeaveSecret(a)
  <2>1. setters' = [setters EXCEPT ![a] = NoCall]
    BY <1>5 DEF ReplySetSecret, DropSecret, LeaveSecret
  <2>2. UNCHANGED secret \/ secret' = [secret EXCEPT ![a] = 0]
    BY <1>5 DEF ReplySetSecret, DropSecret, LeaveSecret, PutSecret
  <2>3. UNCHANGED fresh \/ fresh' = [fresh EXCEPT ![a] = TRUE]
    BY <1>5 DEF ReplySetSecret, DropSecret, LeaveSecret, answerVars
  <2> QED
    BY <1>0, <1>1, <1>2, <2>1, <2>2, <2>3 DEF RowTypes, AnswerTypes
<1>6. ASSUME NEW version \in 1 .. MaxSecret, StoreSecret(a, version)
      PROVE  /\ setters' = [setters EXCEPT ![a] = setters'[a]] /\ setters'[a] \in SetterRecords \cup {NoCall}
             /\ \A b \in Apps : b # a => fresh'[b] = fresh[b] /\ secret'[b] = secret[b]
             /\ fresh' \in [Apps -> BOOLEAN] /\ secret' \in [Apps -> Nat]
  <2>1. version \in Nat
    BY DeployAssumption, SMTT(30)
  <2>2. s \in SetterRecords
    BY <1>0, <1>6 DEF StoreSecret, SetterAt, SetterTypes
  <2>3. PICK x \in {"resolve", "reply"} : setters' = [setters EXCEPT ![a] = [s EXCEPT !.at = x]]
    BY <1>6 DEF StoreSecret
  <2>4. [s EXCEPT !.at = x] \in SetterRecords
    BY <2>2 DEF SetterRecords
  <2>5. fresh' = [fresh EXCEPT ![a] = FALSE] /\ secret' = [secret EXCEPT ![a] = version]
    BY <1>6 DEF StoreSecret, PutSecret
  <2> QED
    BY <1>0, <1>2, <2>1, <2>3, <2>4, <2>5 DEF RowTypes, AnswerTypes
<1>7. CASE ResolveSecret(a)
  <2>1. s \in SetterRecords /\ secret[a] \in Nat /\ UNCHANGED <<secret, answerVars>>
    BY <1>0, <1>7 DEF ResolveSecret, SetterAt, SetterTypes, RowTypes
  <2>2. PICK x \in {"reply", "objects"} : setters' = [setters EXCEPT ![a] = [s EXCEPT !.revision = secret[a], !.at = x]]
    BY <1>7 DEF ResolveSecret
  <2>3. [s EXCEPT !.revision = secret[a], !.at = x] \in SetterRecords
    BY <2>1 DEF SetterRecords
  <2> QED
    BY <1>0, <1>1, <1>2, <2>1, <2>2, <2>3 DEF answerVars, RowTypes, AnswerTypes
<1>8. ASSUME NEW outcome, ApplySecret(a, outcome)
      PROVE  /\ setters' = [setters EXCEPT ![a] = setters'[a]] /\ setters'[a] \in SetterRecords \cup {NoCall}
             /\ UNCHANGED <<secret, fresh>>
  <2>1. s \in SetterRecords /\ s.todo # <<>>
    BY <1>0, <1>8 DEF ApplySecret, SetterAt, SetterTypes
  <2>2. s.todo \in Seq(Kinds)
    BY <2>1 DEF SetterRecords
  <2>3. Tail(s.todo) \in Seq(Kinds)
    <3>1. ASSUME NEW q \in Seq(Kinds), q # <<>> PROVE Tail(q) \in Seq(Kinds)
      BY <3>1, SMTT(30)
    <3> QED
      BY <2>1, <2>2, <3>1
  <2>4. [s EXCEPT !.todo = Tail(s.todo)] \in SetterRecords
    BY <2>1, <2>3 DEF SetterRecords
  <2>5. setters' = [setters EXCEPT ![a] = IF outcome = "ok" THEN [s EXCEPT !.todo = Tail(s.todo)] ELSE NoCall]
    BY <1>8 DEF ApplySecret
  <2>6. \E m \in SetterRecords \cup {NoCall} : setters' = [setters EXCEPT ![a] = m]
    BY <2>4, <2>5
  <2> QED
    BY <1>2, <1>8, <2>6 DEF ApplySecret, answerVars
<1> QED
  BY <1>0, <1>1, <1>4, <1>5, <1>6, <1>7, <1>8 DEF SecretStep, RowTypes, AnswerTypes

(* What a secret call does to the cluster. *)
LEMMA ApplyMoves ==
    ASSUME RequestInv, NEW a \in Apps, NEW outcome, ApplySecret(a, outcome)
    PROVE  LET s == setters[a]  o == Head(s.todo)  new == Manifest(o, s.config, s.revision) IN
           /\ s \in SetterRecords /\ s.at = "objects" /\ s.todo # <<>> /\ o \in Kinds /\ new \in Values
           /\ Write(a, o, new, NoRequest, outcome)
           /\ outcome = "ok" =>
                 /\ setters'[a] \in SetterRecords /\ setters'[a].at = "objects" /\ setters'[a].config = s.config
                 /\ setters'[a].revision = s.revision /\ setters'[a].todo = Tail(s.todo)
           /\ outcome # "ok" => setters'[a] = NoCall
<1> DEFINE s == setters[a]
<1>0. SetterTypes
  BY DEF RequestInv, DeployTypes
<1>1. s \in SetterRecords /\ s.at = "objects" /\ s.todo # <<>>
  BY <1>0 DEF ApplySecret, SetterAt, SetterTypes
<1>2. s.todo \in Seq(Kinds) /\ s.config \in Configs /\ s.revision \in Nat
  BY <1>1 DEF SetterRecords
<1>3. ASSUME NEW q \in Seq(Kinds), q # <<>> PROVE Head(q) \in Kinds /\ Tail(q) \in Seq(Kinds)
  BY <1>3, SMTT(30)
<1>4. Head(s.todo) \in Kinds /\ Tail(s.todo) \in Seq(Kinds)
  BY <1>1, <1>2, <1>3
<1>5. Manifest(Head(s.todo), s.config, s.revision) \in Values
  BY <1>2, <1>4, ManifestTyped
<1>6. Write(a, Head(s.todo), Manifest(Head(s.todo), s.config, s.revision), NoRequest, outcome)
  BY DEF ApplySecret
<1>7. setters' = [setters EXCEPT ![a] = IF outcome = "ok" THEN [s EXCEPT !.todo = Tail(s.todo)] ELSE NoCall]
  BY DEF ApplySecret
<1>8. setters'[a] = IF outcome = "ok" THEN [s EXCEPT !.todo = Tail(s.todo)] ELSE NoCall
  BY <1>0, <1>7 DEF SetterTypes
<1>9. outcome = "ok" =>
         /\ setters'[a] \in SetterRecords /\ setters'[a].at = "objects" /\ setters'[a].config = s.config
         /\ setters'[a].revision = s.revision /\ setters'[a].todo = Tail(s.todo)
  BY <1>1, <1>4, <1>8 DEF SetterRecords
<1> QED
  BY <1>1, <1>4, <1>5, <1>6, <1>8, <1>9

(* The steps of a secret call keep RequestInv. *)
LEMMA SecretKeeps ==
    ASSUME RequestInv, NEW a \in Apps, SecretStep(a)
    PROVE  RequestInv'
<1>1. /\ setters' = [setters EXCEPT ![a] = setters'[a]] /\ setters'[a] \in SetterRecords \cup {NoCall}
      /\ UNCHANGED <<rowVars, route, requestVars, deployment, calls, promise>>
      /\ fresh' \in [Apps -> BOOLEAN] /\ secret' \in [Apps -> Nat]
  BY SecretMoves
<1>2. RowTypes /\ ClusterTypes /\ AnswerTypes /\ SetterTypes
  BY DEF RequestInv, DeployTypes
<1>3. RowTypes' /\ AnswerTypes' /\ SetterTypes' /\ UNCHANGED <<calls, request>>
  BY <1>1, <1>2, SetterMoves DEF RowTypes, AnswerTypes, rowVars, requestVars
<1>4. CASE UNCHANGED clusterVars
  <2>1. ClusterTypes' /\ late' \ late = {}
    BY <1>2, <1>4 DEF ClusterTypes, clusterVars
  <2> QED
    BY <1>3, <2>1, Beside
<1>5. ASSUME NEW outcome, ApplySecret(a, outcome)
      PROVE  RequestInv'
  <2>1. PICK p \in Kinds, new \in Values : Write(a, p, new, NoRequest, outcome)
    BY <1>5, ApplyMoves
  <2>2. ClusterTypes' /\ \A w \in late' \ late : w.by = NoRequest
    BY <1>2, <2>1, WriteEffect, SMTT(30)
  <2> QED
    BY <1>3, <2>2, Beside
<1> QED
  BY <1>4, <1>5 DEF SecretStep, StartSetSecret, ResolveSecret, ReplySetSecret, StoreSecret, StartDeleteSecret,
         DropSecret, LeaveSecret

(* A write that arrives is performed, or refused. *)
LEMMA ArriveEffect ==
    ASSUME ClusterTypes, AnswerTypes, NEW w \in late, Arrive(w)
    PROVE  /\ ClusterTypes' /\ AnswerTypes' /\ late' \subseteq late /\ w.app \in Apps
           /\ \A b \in Apps : b # w.app => promise'[b] = promise[b] /\ objects'[b] = objects[b]
           /\ promise'[w.app] = "void" \/ (promise' = promise /\ objects' = objects)
           /\ UNCHANGED <<rowVars, route, requestVars, deployment, secret, calls, setters, fresh>>
<1>1. w.app \in Apps /\ w.object \in Kinds /\ w.new \in Values
  BY DEF ClusterTypes, WriteRecords
<1>2. UNCHANGED <<rowVars, route, requestVars, deployment, secret, calls, setters, fresh>>
  BY DEF Arrive
<1>3. CASE /\ Performed(w.app, w.object, w.new, late \ {w})
           /\ promise' = [promise EXCEPT ![w.app] = "void"]
  <2>1. objects' = [objects EXCEPT ![w.app][w.object] = w.new] /\ late' \subseteq late
    BY <1>3 DEF Performed
  <2>2. ClusterTypes' /\ \A b \in Apps : b # w.app => objects'[b] = objects[b]
    BY <1>1, <2>1 DEF ClusterTypes
  <2>3. /\ AnswerTypes' /\ promise'[w.app] = "void"
        /\ \A b \in Apps : b # w.app => promise'[b] = promise[b]
    BY <1>1, <1>2, <1>3 DEF AnswerTypes, Promises
  <2> QED
    BY <1>1, <1>2, <2>1, <2>2, <2>3
<1>4. CASE late' = late \ {w} /\ UNCHANGED <<objects, promise>>
  BY <1>1, <1>2, <1>4 DEF ClusterTypes, AnswerTypes
<1> QED
  BY <1>3, <1>4 DEF Arrive

(* RequestInv holds initially. *)
LEMMA RequestInit == Init => RequestInv
<1> SUFFICES ASSUME Init PROVE RequestInv
  OBVIOUS
<1>1. 0 \in Nat
  BY SMTT(30)
<1>2. RowTypes
  BY <1>1 DEF Init, RowTypes, Domains
<1>3. ClusterTypes
  BY AbsentTyped DEF Init, ClusterTypes, Bare
<1>4. AnswerTypes /\ CallTypes /\ SetterTypes
  BY DEF Init, AnswerTypes, CallTypes, SetterTypes, Promises
<1>5. CallInv /\ LateInv
  BY DEF Init, CallInv, LateInv
<1> QED
  BY <1>2, <1>3, <1>4, <1>5 DEF RequestInv, DeployTypes

(* Every step keeps RequestInv. *)
LEMMA RequestNext == RequestInv /\ [Next]_vars => RequestInv'
<1> SUFFICES ASSUME RequestInv, [Next]_vars PROVE RequestInv'
  OBVIOUS
<1>1. ASSUME NEW a \in Apps, Start(a) PROVE RequestInv'
  BY <1>1, StartKeeps
<1>2. ASSUME NEW a \in Apps, DeployStep(a) PROVE RequestInv'
  BY <1>2, StatementSteps, ObjectSteps, CommitSteps, BeginKeeps, CompleteKeeps DEF DeployStep
<1>3. ASSUME NEW a \in Apps, SecretStep(a) PROVE RequestInv'
  BY <1>3, SecretKeeps
<1>4. ASSUME NEW w \in late, Arrive(w) PROVE RequestInv'
  <2>1. RowTypes /\ ClusterTypes /\ AnswerTypes /\ SetterTypes
    BY DEF RequestInv, DeployTypes
  <2>2. /\ ClusterTypes' /\ AnswerTypes' /\ late' \subseteq late
        /\ UNCHANGED <<rowVars, route, requestVars, deployment, secret, calls, setters, fresh>>
    BY <1>4, <2>1, ArriveEffect
  <2>3. RowTypes' /\ SetterTypes' /\ UNCHANGED <<calls, request>>
    BY <2>1, <2>2 DEF RowTypes, SetterTypes, rowVars, requestVars
  <2>4. late' \ late = {}
    BY <2>2
  <2> QED
    BY <2>2, <2>3, <2>4, Beside
<1>5. CASE UNCHANGED vars
  <2>1. RowTypes' /\ ClusterTypes' /\ AnswerTypes' /\ SetterTypes' /\ UNCHANGED <<calls, request, late>>
    BY <1>5 DEF vars, RequestInv, DeployTypes, RowTypes, ClusterTypes, AnswerTypes, SetterTypes
  <2>2. late' \ late = {}
    BY <2>1
  <2> QED
    BY <2>1, <2>2, Beside
<1> QED
  BY <1>1, <1>2, <1>3, <1>4, <1>5 DEF Next

(* Whatever runs at the same time and whatever replies are lost: no write of  *)
(* a request whose withdrawal was confirmed can still arrive.                 *)
THEOREM WithdrawnHasNoWrite == Spec => []WithdrawnLeavesNoWrite
<1>1. RequestInv => WithdrawnLeavesNoWrite
  BY DEF RequestInv, LateInv, WithdrawnLeavesNoWrite
<1> QED
  BY <1>1, RequestInit, RequestNext, PTL DEF Spec

-----------------------------------------------------------------------------
(* What a call has reached *)

Lacks(todo, o) == \A i \in 1 .. Len(todo) : todo[i] # o

(* The row at each step of a call. *)
RowAt(a, k) ==
    /\ k.mode = "apply" /\ k.at \notin {"begin", "row"} =>
          /\ a \in live
          /\ desired[a] = IF k.at \in {"healthy", "complete"} \/ k.previous = NoConfig \/ k.hidden
                          THEN k.config ELSE k.previous
    /\ k.mode \in {"rollback", "withdraw"} /\ k.previous # NoConfig /\ ~k.hidden =>
          a \in live /\ desired[a] = k.previous
    /\ k.mode = "withdraw" /\ k.at \in {"failed", "complete"} /\ k.clean /\ (k.previous = NoConfig \/ k.hidden) =>
          a \notin live

(* The objects and the route are those of c, with the secret's value. *)
Applied(a, c) == Runs(a, c) /\ (c.secret => objects[a]["deployment"].revision = secret[a])

Cleared(a) == objects[a] = Bare /\ route[a] = NoDomain

(* The objects at each step of a call, unless an earlier write has arrived. *)
ObjectsAt(a, k) ==
    /\ k.at = "objects" /\ k.clean =>
          \A o \in Kinds : Lacks(k.todo, o) => objects[a][o] = Manifest(o, k.target, k.revision)
    /\ k.at = "erase" /\ k.clean =>
          \A o \in Kinds : Lacks(k.todo, o) => objects[a][o] = Absent
    /\ k.at \in {"commit", "healthy"} \/ (k.at = "complete" /\ k.mode = "apply") => Applied(a, k.config)
    /\ k.mode = "rollback" /\ k.at = "failed" /\ k.clean => Applied(a, k.previous)
    /\ k.mode = "withdraw" /\ k.at = "restore" /\ k.previous # NoConfig /\ ~k.hidden => Applied(a, k.previous)
    /\ k.at = "restore" /\ (k.previous = NoConfig \/ k.hidden) => Cleared(a)
    /\ k.mode = "withdraw" /\ k.at \in {"failed", "complete"} /\ k.clean =>
          (a \in live /\ Runs(a, desired[a])) \/ Gone(a)

DeployAt(a, k) ==
    /\ RowAt(a, k)
    /\ k.at = "objects" /\ k.target.secret => k.revision = secret[a]
    /\ k.mode = "withdraw" /\ k.at = "complete" => deployment[a] = "failed"
    /\ promise[a] # "void" => promise[a] = "none" /\ ObjectsAt(a, k)

(* What a secret call has read, and reached. *)
SecretAt(a, s) ==
    /\ a \in live /\ s.config = desired[a]
    /\ s.at \in {"store", "resolve"} => s.todo = Plan(s.config)
    /\ s.at \in {"drop", "reply"} => ~s.config.secret
    /\ s.at = "resolve" => s.config.secret /\ secret[a] # 0
    /\ s.at = "objects" =>
          /\ s.config.secret /\ s.revision = secret[a]
          /\ promise[a] # "void" /\ Lacks(s.todo, "deployment") => objects[a]["deployment"].revision = s.revision

(* AnswersHold and SecretDelivered, of one application. *)
Said(a) ==
    /\ promise[a] \in {"applied", "restored"} =>
          /\ a \in live /\ Runs(a, desired[a])
          /\ fresh[a] /\ desired[a].secret => objects[a]["deployment"].revision = secret[a]
    /\ promise[a] = "withdrawn" =>
          deployment[a] = "failed" /\ ((a \in live /\ Runs(a, desired[a])) \/ Gone(a))
    /\ promise[a] = "deleted" => Gone(a)

(* Nothing runs beside a deploy or delete call. *)
AnswerInv(a) ==
    /\ calls[a] = NoCall \/ setters[a] = NoCall
    /\ \A k \in {calls[a]} \ {NoCall} : DeployAt(a, k)
    /\ \A s \in {setters[a]} \ {NoCall} : SecretAt(a, s)
    /\ Said(a)

AnswersInv == RequestInv /\ (~Overlapping => \A a \in Apps : AnswerInv(a))
(* What the lists of objects still to be written leave out. *)
LEMMA ListsLack ==
    ASSUME NEW o \in Kinds
    PROVE  /\ ~Lacks(Removal, o) /\ Lacks(<<>>, o)
           /\ \A c : ~Lacks(Plan(c), o)
           /\ \A q \in Seq(Kinds) : q # <<>> /\ Lacks(Tail(q), o) => o = Head(q) \/ Lacks(q, o)
<1>1. \A x, y, z : Lacks(<<x, y, z>>, o) => o # x /\ o # y /\ o # z
  BY SMTT(30) DEF Lacks
<1>2. ~Lacks(Removal, o) /\ \A c : ~Lacks(Plan(c), o)
  BY <1>1 DEF Removal, Plan, Kinds
<1>3. Lacks(<<>>, o)
  BY SMTT(30) DEF Lacks
<1>4. ASSUME NEW q \in Seq(Kinds), q # <<>>, Lacks(Tail(q), o), o # Head(q)
      PROVE  Lacks(q, o)
  <2> SUFFICES ASSUME NEW i \in 1 .. Len(q) PROVE q[i] # o
    BY DEF Lacks
  <2>1. CASE i = 1
    BY <1>4, <2>1, SMTT(30)
  <2>2. CASE i # 1
    <3>1. i - 1 \in 1 .. Len(Tail(q)) /\ Tail(q)[i - 1] = q[i]
      BY <1>4, <2>2, SMTT(30)
    <3> QED
      BY <1>4, <3>1 DEF Lacks
  <2> QED
    BY <2>1, <2>2
<1> QED
  BY <1>2, <1>3, <1>4

(* The secret's version appears in the Deployment only. *)
LEMMA ManifestConfig ==
    ASSUME NEW o \in Kinds, NEW c, NEW v
    PROVE  Manifest(o, c, v).config = Manifest(o, c, 0).config /\ Manifest("deployment", c, v).revision = v
  BY DEF Kinds, Manifest, DeploymentManifest, ServiceManifest, IngressManifest, Absent

(* Nothing that is said of b changes. *)
Same(b) ==
    /\ desired'[b] = desired[b] /\ (b \in live' <=> b \in live) /\ route'[b] = route[b]
    /\ deployment'[b] = deployment[b] /\ secret'[b] = secret[b] /\ objects'[b] = objects[b]
    /\ promise'[b] = promise[b] /\ fresh'[b] = fresh[b]

(* What is said of b then stays true. *)
LEMMA SaidSame ==
    ASSUME NEW b, Same(b)
    PROVE  /\ \A k : DeployAt(b, k) => DeployAt(b, k)'
           /\ \A s : SecretAt(b, s) => SecretAt(b, s)'
           /\ Said(b) => Said(b)'
<1>1. \A c : (Runs(b, c) <=> Runs(b, c)') /\ (Applied(b, c) <=> Applied(b, c)')
  BY DEF Same, Runs, Applied
<1>2. (Cleared(b) <=> Cleared(b)') /\ (Gone(b) <=> Gone(b)')
  BY DEF Same, Cleared, Gone
<1>3. Runs(b, desired[b])' <=> Runs(b, desired[b])
  BY DEF Same, Runs
<1>4. ASSUME NEW k PROVE (RowAt(b, k) => RowAt(b, k)') /\ (ObjectsAt(b, k) => ObjectsAt(b, k)')
  <2>1. RowAt(b, k) => RowAt(b, k)'
    BY DEF RowAt, Same
  <2>2. ObjectsAt(b, k) => ObjectsAt(b, k)'
    BY <1>1, <1>2, <1>3 DEF ObjectsAt, Same
  <2> QED
    BY <2>1, <2>2
<1>5. \A k : DeployAt(b, k) => DeployAt(b, k)'
  BY <1>4 DEF DeployAt, Same
<1>6. \A s : SecretAt(b, s) => SecretAt(b, s)'
  BY DEF SecretAt, Same
<1>7. Said(b) => Said(b)'
  BY <1>2, <1>3 DEF Said, Same
<1> QED
  BY <1>5, <1>6, <1>7

(* A step of another application. *)
LEMMA AnswerSame ==
    ASSUME NEW b, AnswerInv(b), Same(b), calls'[b] = calls[b], setters'[b] = setters[b]
    PROVE  AnswerInv(b)'
  BY SaidSame DEF AnswerInv

(* A call that goes on has said nothing yet. *)
LEMMA GoesOn ==
    ASSUME NEW a \in Apps, AnswerInv(a), calls[a] # NoCall, UNCHANGED <<setters, promise>>,
           NEW m, calls'[a] = m, DeployAt(a, m)'
    PROVE  AnswerInv(a)'
<1>1. setters'[a] = NoCall
  BY DEF AnswerInv
<1>2. promise'[a] \in {"void", "none"}
  BY DEF AnswerInv, DeployAt
<1>3. Said(a)'
  BY <1>2 DEF Said
<1> QED
  BY <1>1, <1>3 DEF AnswerInv

(* A call that answers. *)
LEMMA Answers ==
    ASSUME NEW a \in Apps, AnswerTypes, CallTypes, AnswerInv(a), calls[a] # NoCall, UNCHANGED setters,
           NEW said \in Promises, Return(a, said),
           promise[a] # "void" /\ said \in {"applied", "restored"} =>
              /\ a \in live' /\ Runs(a, desired[a])'
              /\ desired'[a].secret => objects'[a]["deployment"].revision = secret'[a],
           promise[a] # "void" /\ said = "withdrawn" =>
              deployment'[a] = "failed" /\ ((a \in live' /\ Runs(a, desired[a])') \/ Gone(a)'),
           promise[a] # "void" /\ said = "deleted" => Gone(a)'
    PROVE  AnswerInv(a)'
<1>1. calls'[a] = NoCall /\ promise'[a] = IF promise[a] = "void" THEN "void" ELSE said
  BY ReturnMoves
<1>2. setters'[a] = NoCall
  BY DEF AnswerInv
<1>3. Said(a)'
  <2>1. CASE promise[a] = "void"
    BY <1>1, <2>1 DEF Said
  <2>2. CASE promise[a] # "void"
    BY <1>1, <2>2 DEF Said
  <2> QED
    BY <2>1, <2>2
<1> QED
  BY <1>1, <1>2, <1>3 DEF AnswerInv

(* The statements of a call before its writes, and the end of a request. *)
LEMMA OpeningAnswers ==
    ASSUME ~Overlapping, RequestInv, NEW a \in Apps, AnswerInv(a),
           BeginRequest(a) \/ WriteRow(a) \/ CreateDeployment(a) \/ ResolveEnvironment(a) \/ Leave(a)
    PROVE  AnswerInv(a)'
<1>1. calls[a] # NoCall
  BY DEF BeginRequest, WriteRow, CreateDeployment, ResolveEnvironment, Leave, At
<1>2. calls[a] \in CallRecords /\ Control(calls[a]) /\ Holding(calls[a])
  BY <1>1, CallFacts
<1>3. CallTypes /\ RowTypes /\ AnswerTypes
  BY DEF RequestInv, DeployTypes
<1>4. PICK k \in CallRecords : k = calls[a]
  BY <1>2
<1>5. Control(k) /\ Holding(k) /\ DeployAt(a, k)
  BY <1>1, <1>2, <1>4 DEF AnswerInv
<1>6. promise[a] # "void" => promise[a] = "none"
  BY <1>5 DEF DeployAt
<1>7. CASE Leave(a)
  <2>1. Return(a, "none") /\ UNCHANGED setters
    BY <1>7 DEF Leave
  <2> QED
    BY <1>1, <1>3, <2>1, Answers DEF Promises
<1>8. CASE BeginRequest(a)
  <2>1. CASE Return(a, "none")
    BY <1>1, <1>3, <1>8, <2>1, Answers DEF BeginRequest, Promises
  <2>2. CASE Goto(a, "row") /\ UNCHANGED answerVars
    <3>1. PICK m : m = calls'[a]
      OBVIOUS
    <3>2. k.at = "begin" /\ Moved(a, "row", k.mode, k.target, k.revision, k.todo, k.clean)
      BY <1>2, <1>3, <1>4, <1>8, <2>2, GotoMoves DEF Steps, BeginRequest, At
    <3>3. m.at = "row" /\ m.mode = "apply"
      BY <1>5, <3>1, <3>2 DEF Moved, Edited, Control
    <3>4. UNCHANGED <<promise, setters>>
      BY <1>8, <2>2 DEF BeginRequest, answerVars
    <3>5. DeployAt(a, m)'
      BY <1>6, <3>3, <3>4 DEF DeployAt, RowAt, ObjectsAt
    <3> QED
      BY <1>1, <3>1, <3>4, <3>5, GoesOn
  <2> QED
    BY <1>8, <2>1, <2>2 DEF BeginRequest
<1>9. CASE WriteRow(a)
  <2>1. PICK m : m = calls'[a]
    OBVIOUS
  <2>2. /\ k.at = "row" /\ m.at = "deployment" /\ m.mode = k.mode /\ m.config = k.config
        /\ m.hidden = (desired[a] # NoConfig /\ a \notin live)
        /\ m.previous = IF m.hidden /\ ~k.report THEN NoConfig ELSE desired[a]
    BY <1>2, <1>3, <1>4, <1>9, <2>1, WriteRowMoves
  <2>3. m.mode = "apply"
    BY <1>5, <2>2 DEF Control
  <2>4. UNCHANGED <<promise, setters>>
    BY <1>9 DEF WriteRow, answerVars
  <2>5. /\ a \in live'
        /\ desired'[a] = IF m.previous = NoConfig \/ m.hidden THEN m.config ELSE m.previous
    <3>1. CASE a \in live /\ UNCHANGED rowVars
      <4>1. desired[a] # NoConfig
        BY <1>3, <3>1, DeployAssumption DEF RowTypes
      <4> QED
        BY <2>2, <3>1, <4>1 DEF rowVars
    <3>2. CASE a \notin live /\ PutRow(a, k.config)
      <4>1. a \in live' /\ desired'[a] = k.config
        BY <1>3, <3>2 DEF PutRow, RowTypes
      <4> QED
        BY <2>2, <3>2, <4>1
    <3> QED
      BY <1>4, <1>9, <3>1, <3>2 DEF WriteRow
  <2>6. DeployAt(a, m)'
    BY <1>6, <2>2, <2>3, <2>4, <2>5 DEF DeployAt, RowAt, ObjectsAt
  <2> QED
    BY <1>1, <2>1, <2>4, <2>6, GoesOn
<1>10. CASE CreateDeployment(a)
  <2>1. PICK m : m = calls'[a]
    OBVIOUS
  <2>2. k.at = "deployment" /\ Moved(a, "environment", k.mode, k.target, k.revision, k.todo, k.clean)
    BY <1>2, <1>3, <1>4, <1>10, GotoMoves DEF CreateDeployment, At, Steps
  <2>3. /\ m.at = "environment" /\ m.mode = "apply" /\ k.mode = "apply" /\ m.config = k.config
        /\ m.previous = k.previous /\ m.hidden = k.hidden
    BY <1>4, <1>5, <2>1, <2>2 DEF Moved, Edited, Control
  <2>4. UNCHANGED <<promise, setters, desired, live>>
    BY <1>10 DEF CreateDeployment, answerVars, rowVars
  <2>5. DeployAt(a, m)'
    BY <1>5, <1>6, <2>2, <2>3, <2>4 DEF DeployAt, RowAt, ObjectsAt
  <2> QED
    BY <1>1, <2>1, <2>4, <2>5, GoesOn
<1>11. CASE ResolveEnvironment(a)
  <2>1. PICK m : m = calls'[a]
    OBVIOUS
  <2>2. /\ k.at = "environment"
        /\ \/ k.mode = "apply" /\ Moved(a, "failed", "fail", k.target, k.revision, k.todo, k.clean)
           \/ k.mode # "apply" /\ Moved(a, "failed", k.mode, k.target, k.revision, k.todo, FALSE)
           \/ Moved(a, "objects", k.mode, k.target, IF k.target.secret THEN secret[a] ELSE 0, k.todo, k.clean)
    BY <1>2, <1>3, <1>4, <1>11, ResolveMoves
  <2>3. m.config = k.config /\ m.previous = k.previous /\ m.hidden = k.hidden
    BY <1>4, <2>1, <2>2 DEF Moved, Edited
  <2>4. \/ m.at = "failed" /\ m.mode = "fail"
        \/ m.at = "failed" /\ m.mode = k.mode /\ k.mode # "apply" /\ ~m.clean
        \/ /\ m.at = "objects" /\ m.mode = k.mode /\ m.target = k.target /\ m.todo = k.todo
           /\ m.target.secret => m.revision = secret[a]
    BY <1>4, <2>1, <2>2 DEF Moved, Edited
  <2>5. UNCHANGED <<promise, setters, desired, live, secret>>
    BY <1>11 DEF ResolveEnvironment, answerVars, rowVars
  <2>6. k.mode \in {"apply", "rollback", "withdraw"} /\ k.todo = Plan(k.target)
    BY <1>5, <2>2 DEF Control
  <2>7. RowAt(a, m)'
    BY <1>5, <2>2, <2>3, <2>4, <2>5, <2>6 DEF DeployAt, RowAt
  <2>8. ObjectsAt(a, m)'
    BY <2>4, <2>6, ListsLack DEF ObjectsAt
  <2>9. DeployAt(a, m)'
    BY <1>6, <2>4, <2>5, <2>7, <2>8 DEF DeployAt
  <2> QED
    BY <1>1, <2>1, <2>5, <2>9, GoesOn
<1> QED
  BY <1>7, <1>8, <1>9, <1>10, <1>11

(* What follows a failure starts from the row as it was. *)
LEMMA CompensationAt ==
    ASSUME NEW a \in Apps, NEW k \in CallRecords, k.mode = "apply", k.at \in {"objects", "commit"}, k.clean,
           DeployAt(a, k), NEW d \in BOOLEAN, NEW m, m = Compensation(k, d),
           UNCHANGED <<desired, live, promise>>
    PROVE  DeployAt(a, m)'
<1>1. /\ m.previous = k.previous /\ m.hidden = k.hidden
      /\ m.at \in {"erase", "environment", "failed"} /\ m.mode # "apply" /\ m.mode # "delete"
      /\ m.at = "erase" => m.todo = Removal
      /\ m.at = "failed" => m.mode = "fail"
  BY CompensationHolds
<1>2. RowAt(a, m)'
  BY <1>1 DEF DeployAt, RowAt
<1>3. ObjectsAt(a, m)'
  BY <1>1, ListsLack DEF ObjectsAt
<1> QED
  BY <1>1, <1>2, <1>3 DEF DeployAt

(* Every object and the route are written: the configuration is applied. *)
LEMMA WholeApplied ==
    ASSUME NEW a \in Apps, NEW c, NEW v, \A o \in Kinds : objects[a][o] = Manifest(o, c, v),
           c.secret => v = secret[a], route'[a] = c.domain, UNCHANGED <<objects, secret>>
    PROVE  Applied(a, c)'
<1>0. \A o \in Kinds : Manifest(o, c, v).config = Manifest(o, c, 0).config /\ Manifest("deployment", c, v).revision = v
  BY ManifestConfig
<1>1. Runs(a, c)'
  BY <1>0 DEF Runs
<1>2. "deployment" \in Kinds
  BY DEF Kinds
<1>3. objects[a]["deployment"].revision = v
  BY <1>0, <1>2
<1> QED
  BY <1>1, <1>3 DEF Applied

(* The writes of a deploy or delete call. *)
LEMMA ObjectAnswers ==
    ASSUME ~Overlapping, RequestInv, NEW a \in Apps, AnswerInv(a), NEW outcome,
           ReconcileObject(a, outcome) \/ EraseObject(a, outcome)
    PROVE  AnswerInv(a)' /\ \A b \in Apps : b # a => objects'[b] = objects[b]
<1>1. calls[a] # NoCall
  BY DEF ReconcileObject, EraseObject, At
<1>2. calls[a] \in CallRecords /\ Control(calls[a]) /\ Holding(calls[a])
  BY <1>1, CallFacts
<1>3. CallTypes /\ RowTypes /\ AnswerTypes /\ ClusterTypes
  BY DEF RequestInv, DeployTypes
<1>4. PICK k \in CallRecords : k = calls[a]
  BY <1>2
<1>5. Control(k) /\ Holding(k) /\ DeployAt(a, k)
  BY <1>1, <1>2, <1>4 DEF AnswerInv
<1>6. promise[a] # "void" => promise[a] = "none" /\ ObjectsAt(a, k)
  BY <1>5 DEF DeployAt
<1>7. k.request \in Requests \cup {NoRequest} /\ k.todo \in Seq(Kinds)
  BY DEF CallRecords
<1>8. PICK m : m = calls'[a]
  OBVIOUS
<1>9. UNCHANGED <<promise, setters, desired, live, secret, route>>
  BY DEF ReconcileObject, EraseObject, answerVars, rowVars
<1>10. PICK o : o = Head(k.todo)
  OBVIOUS
<1>11. ASSUME NEW p \in Kinds, NEW new \in Values, Write(a, p, new, k.request, outcome)
       PROVE  /\ \A b \in Apps : b # a => objects'[b] = objects[b]
              /\ \A q \in Kinds : q # p => objects'[a][q] = objects[a][q]
              /\ outcome = "ok" => objects'[a][p] = new
  <2>1. PICK by \in Requests \cup {NoRequest} : Write(a, p, new, by, outcome)
    BY <1>7, <1>11
  <2>2. /\ ClusterTypes' /\ \A b \in Apps, q \in Kinds : b # a \/ q # p => objects'[b][q] = objects[b][q]
        /\ outcome = "ok" => objects'[a][p] = new
    BY <1>3, <2>1, WriteEffect, SMTT(30)
  <2>3. ASSUME NEW b \in Apps, b # a PROVE objects'[b] = objects[b]
    <3>1. objects[b] \in [Kinds -> Values] /\ objects'[b] \in [Kinds -> Values]
      BY <1>3, <2>2 DEF ClusterTypes
    <3>2. \A q \in Kinds : objects'[b][q] = objects[b][q]
      BY <2>2, <2>3
    <3> QED
      BY <3>1, <3>2, SMTT(30)
  <2> QED
    BY <2>2, <2>3
<1>12. CASE ReconcileObject(a, outcome)
  <2>1. /\ k.at = "objects" /\ k.todo # <<>> /\ o \in Kinds /\ Manifest(o, k.target, k.revision) \in Values
        /\ Write(a, o, Manifest(o, k.target, k.revision), k.request, outcome)
        /\ \/ outcome = "ok" /\ Moved(a, "objects", k.mode, k.target, k.revision, Tail(k.todo), k.clean)
           \/ outcome # "ok" /\ k.mode = "apply" /\ m = Compensation(k, Definitive(outcome))
           \/ outcome # "ok" /\ k.mode # "apply" /\ Moved(a, "objects", k.mode, k.target, k.revision, <<>>, FALSE)
    BY <1>2, <1>3, <1>4, <1>8, <1>10, <1>12, ReconcileMoves
  <2>2. /\ \A b \in Apps : b # a => objects'[b] = objects[b]
        /\ \A q \in Kinds : q # o => objects'[a][q] = objects[a][q]
        /\ outcome = "ok" => objects'[a][o] = Manifest(o, k.target, k.revision)
    BY <1>11, <2>1
  <2>3. k.mode \in {"apply", "rollback", "withdraw"}
    BY <1>5, <2>1 DEF Control
  <2>4. CASE outcome = "ok" /\ Moved(a, "objects", k.mode, k.target, k.revision, Tail(k.todo), k.clean)
    <3>1. /\ m.at = "objects" /\ m.mode = k.mode /\ m.target = k.target /\ m.revision = k.revision
          /\ m.todo = Tail(k.todo) /\ m.clean = k.clean /\ m.config = k.config /\ m.previous = k.previous
          /\ m.hidden = k.hidden
      BY <1>4, <1>8, <2>4 DEF Moved, Edited
    <3>2. RowAt(a, m)'
      BY <1>5, <1>9, <2>1, <3>1 DEF DeployAt, RowAt
    <3>3. ASSUME ObjectsAt(a, k) PROVE ObjectsAt(a, m)'
      <4>1. ASSUME NEW q \in Kinds, k.clean, Lacks(Tail(k.todo), q)
            PROVE  objects'[a][q] = Manifest(q, k.target, k.revision)
        <5>1. q = o \/ Lacks(k.todo, q)
          BY <1>7, <1>10, <2>1, <4>1, ListsLack
        <5> QED
          BY <2>1, <2>2, <2>4, <3>3, <4>1, <5>1 DEF ObjectsAt
      <4> QED
        BY <3>1, <4>1 DEF ObjectsAt
    <3>4. DeployAt(a, m)'
      BY <1>5, <1>6, <1>9, <2>1, <3>1, <3>2, <3>3 DEF DeployAt
    <3> QED
      BY <1>1, <1>8, <1>9, <2>2, <3>4, GoesOn
  <2>5. CASE outcome # "ok" /\ k.mode = "apply" /\ m = Compensation(k, Definitive(outcome))
    <3>1. k.clean /\ Definitive(outcome) \in BOOLEAN
      BY <1>5, <2>5 DEF Holding, Definitive
    <3>2. DeployAt(a, m)'
      BY <1>5, <1>9, <2>1, <2>5, <3>1, CompensationAt
    <3> QED
      BY <1>1, <1>8, <1>9, <2>2, <3>2, GoesOn
  <2>6. CASE outcome # "ok" /\ k.mode # "apply" /\ Moved(a, "objects", k.mode, k.target, k.revision, <<>>, FALSE)
    <3>1. /\ m.at = "objects" /\ m.mode = k.mode /\ m.target = k.target /\ m.revision = k.revision
          /\ ~m.clean /\ m.config = k.config /\ m.previous = k.previous /\ m.hidden = k.hidden
      BY <1>4, <1>8, <2>6 DEF Moved, Edited
    <3>2. RowAt(a, m)' /\ ObjectsAt(a, m)'
      BY <1>5, <1>9, <2>1, <3>1 DEF DeployAt, RowAt, ObjectsAt
    <3>3. DeployAt(a, m)'
      BY <1>5, <1>6, <1>9, <2>1, <3>1, <3>2 DEF DeployAt
    <3> QED
      BY <1>1, <1>8, <1>9, <2>2, <3>3, GoesOn
  <2> QED
    BY <2>1, <2>4, <2>5, <2>6
<1>13. CASE EraseObject(a, outcome)
  <2>1. /\ k.at = "erase" /\ k.todo # <<>> /\ o \in Kinds /\ Write(a, o, Absent, k.request, outcome)
        /\ Moved(a, "erase", k.mode, k.target, k.revision, Tail(k.todo), k.clean /\ outcome = "ok")
    BY <1>2, <1>3, <1>4, <1>10, <1>13, EraseMoves
  <2>2. /\ \A b \in Apps : b # a => objects'[b] = objects[b]
        /\ \A q \in Kinds : q # o => objects'[a][q] = objects[a][q]
        /\ outcome = "ok" => objects'[a][o] = Absent
    BY <1>11, <2>1, AbsentTyped
  <2>3. k.mode \in {"withdraw", "delete"}
    BY <1>5, <2>1 DEF Control
  <2>4. /\ m.at = "erase" /\ m.mode = k.mode /\ m.todo = Tail(k.todo) /\ m.clean = (k.clean /\ outcome = "ok")
        /\ m.previous = k.previous /\ m.hidden = k.hidden
    BY <1>4, <1>8, <2>1 DEF Moved, Edited
  <2>5. RowAt(a, m)'
    BY <1>5, <1>9, <2>1, <2>3, <2>4 DEF DeployAt, RowAt
  <2>6. ASSUME ObjectsAt(a, k) PROVE ObjectsAt(a, m)'
    <3>1. ASSUME NEW q \in Kinds, k.clean, outcome = "ok", Lacks(Tail(k.todo), q)
          PROVE  objects'[a][q] = Absent
      <4>1. q = o \/ Lacks(k.todo, q)
        BY <1>7, <1>10, <2>1, <3>1, ListsLack
      <4> QED
        BY <2>1, <2>2, <2>6, <3>1, <4>1 DEF ObjectsAt
    <3> QED
      BY <2>3, <2>4, <3>1 DEF ObjectsAt
  <2>7. DeployAt(a, m)'
    BY <1>6, <1>9, <2>4, <2>5, <2>6 DEF DeployAt
  <2> QED
    BY <1>1, <1>8, <1>9, <2>2, <2>7, GoesOn
<1> QED
  BY <1>12, <1>13

(* The route, and the final row. *)
LEMMA CommitAnswers ==
    ASSUME ~Overlapping, RequestInv, NEW a \in Apps, AnswerInv(a), NEW ok \in BOOLEAN,
           SyncRoute(a, ok) \/ CommitRow(a, ok)
    PROVE  AnswerInv(a)'
<1>1. calls[a] # NoCall
  BY DEF SyncRoute, CommitRow, At
<1>2. calls[a] \in CallRecords /\ Control(calls[a]) /\ Holding(calls[a])
  BY <1>1, CallFacts
<1>3. CallTypes /\ RowTypes /\ AnswerTypes
  BY DEF RequestInv, DeployTypes
<1>4. PICK k \in CallRecords : k = calls[a]
  BY <1>2
<1>5. Control(k) /\ Holding(k) /\ DeployAt(a, k)
  BY <1>1, <1>2, <1>4 DEF AnswerInv
<1>6. promise[a] # "void" => promise[a] = "none" /\ ObjectsAt(a, k)
  BY <1>5 DEF DeployAt
<1>7. PICK m : m = calls'[a]
  OBVIOUS
<1>8. UNCHANGED <<promise, setters, secret, objects>>
  BY DEF SyncRoute, CommitRow, answerVars, clusterVars
<1>9. ASSUME Compensate(a, TRUE), k.mode = "apply", k.at \in {"objects", "commit"}, UNCHANGED rowVars
      PROVE  AnswerInv(a)'
  <2>1. m = Compensation(k, TRUE)
    BY <1>3, <1>4, <1>7, <1>9 DEF Compensate, CallTypes
  <2>2. k.clean
    BY <1>5, <1>9 DEF Holding
  <2>3. DeployAt(a, m)'
    BY <1>5, <1>8, <1>9, <2>1, <2>2, CompensationAt DEF rowVars
  <2> QED
    BY <1>1, <1>7, <1>8, <2>3, GoesOn
<1>10. CASE SyncRoute(a, ok)
  <2>1. k.at = "objects" /\ k.todo = <<>> /\ k.mode \in {"apply", "rollback", "withdraw"} /\ UNCHANGED rowVars
    BY <1>4, <1>5, <1>10 DEF SyncRoute, At, Control
  <2>2. CASE PutRoute(a, k.target.domain) /\ Goto(a, AfterRoute(k))
    <3>1. \/ AfterRoute(k) = "commit" /\ k.mode = "apply" /\ k.previous # NoConfig
          \/ AfterRoute(k) = "healthy" /\ k.mode = "apply" /\ k.previous = NoConfig
          \/ AfterRoute(k) = "restore" /\ k.mode = "withdraw" /\ k.clean
          \/ AfterRoute(k) = "failed" /\ k.mode = "rollback"
          \/ AfterRoute(k) = "failed" /\ k.mode = "withdraw" /\ ~k.clean
      BY <2>1 DEF AfterRoute
    <3>2. PICK x \in Steps : x = AfterRoute(k)
      BY <3>1 DEF Steps
    <3>3. Moved(a, x, k.mode, k.target, k.revision, k.todo, k.clean)
      BY <1>2, <1>3, <1>4, <2>2, <3>2, GotoMoves
    <3>4. /\ m.at = x /\ m.mode = k.mode /\ m.clean = k.clean /\ m.config = k.config
          /\ m.previous = k.previous /\ m.hidden = k.hidden
      BY <1>4, <1>7, <3>3 DEF Moved, Edited
    <3>5. UNCHANGED <<desired, live>> /\ route'[a] = k.target.domain
      BY <1>3, <2>1, <2>2 DEF rowVars, PutRoute, RowTypes
    <3>6. RowAt(a, m)'
      BY <1>5, <2>1, <3>1, <3>2, <3>4, <3>5 DEF DeployAt, RowAt
    <3>7. ASSUME ObjectsAt(a, k), k.clean PROVE Applied(a, k.target)'
      <4>1. \A o \in Kinds : objects[a][o] = Manifest(o, k.target, k.revision)
        BY <2>1, <3>7, ListsLack DEF ObjectsAt
      <4>2. k.target.secret => k.revision = secret[a]
        BY <1>5, <2>1 DEF DeployAt
      <4> QED
        BY <1>8, <3>5, <4>1, <4>2, WholeApplied
    <3>8. ASSUME ObjectsAt(a, k) PROVE ObjectsAt(a, m)'
      <4>1. /\ k.mode = "apply" => k.clean /\ k.target = k.config
            /\ k.mode \in {"rollback", "withdraw"} => k.target = k.previous /\ k.previous # NoConfig
            /\ k.mode = "withdraw" => ~k.hidden
        BY <1>5, <2>1 DEF Holding
      <4>2. k.clean => Applied(a, k.target)'
        BY <3>7, <3>8
      <4>3. CASE x \in {"commit", "healthy"} /\ k.mode = "apply"
        BY <3>4, <4>1, <4>2, <4>3 DEF ObjectsAt
      <4>4. CASE x = "restore" /\ k.mode = "withdraw" /\ k.clean
        BY <3>4, <4>1, <4>2, <4>4 DEF ObjectsAt
      <4>5. CASE x = "failed" /\ (k.mode = "rollback" \/ (k.mode = "withdraw" /\ ~k.clean))
        BY <3>4, <4>1, <4>2, <4>5 DEF ObjectsAt
      <4> QED
        BY <3>1, <3>2, <4>3, <4>4, <4>5
    <3>9. m.at \notin {"objects", "complete"}
      BY <3>1, <3>2, <3>4
    <3>10. DeployAt(a, m)'
      BY <1>6, <1>8, <3>6, <3>8, <3>9 DEF DeployAt
    <3> QED
      BY <1>1, <1>7, <1>8, <3>10, GoesOn
  <2>3. CASE k.mode = "apply" /\ Compensate(a, TRUE)
    BY <1>9, <2>1, <2>3
  <2>4. CASE k.mode # "apply" /\ Spoil(a, "failed")
    <3>1. Moved(a, "failed", k.mode, k.target, k.revision, k.todo, FALSE)
      BY <1>2, <1>3, <1>4, <2>4, SpoilMoves DEF Steps
    <3>2. m.at = "failed" /\ m.mode = k.mode /\ ~m.clean /\ m.previous = k.previous /\ m.hidden = k.hidden
      BY <1>4, <1>7, <3>1 DEF Moved, Edited
    <3>3. DeployAt(a, m)'
      BY <1>5, <1>6, <1>8, <2>1, <2>4, <3>2 DEF DeployAt, RowAt, ObjectsAt, rowVars
    <3> QED
      BY <1>1, <1>7, <1>8, <3>3, GoesOn
  <2> QED
    BY <1>4, <1>10, <2>2, <2>3, <2>4 DEF SyncRoute
<1>11. CASE CommitRow(a, ok)
  <2>1. k.at = "commit" /\ k.mode = "apply" /\ UNCHANGED route
    BY <1>4, <1>5, <1>11 DEF CommitRow, At, Control
  <2>2. CASE PutRow(a, k.config) /\ Goto(a, "healthy")
    <3>1. Moved(a, "healthy", k.mode, k.target, k.revision, k.todo, k.clean)
      BY <1>2, <1>3, <1>4, <2>2, GotoMoves DEF Steps
    <3>2. m.at = "healthy" /\ m.mode = "apply" /\ m.config = k.config
      BY <1>4, <1>7, <2>1, <3>1 DEF Moved, Edited
    <3>3. a \in live' /\ desired'[a] = k.config
      BY <1>3, <2>2 DEF PutRow, RowTypes
    <3>4. ASSUME ObjectsAt(a, k) PROVE Applied(a, k.config)'
      <4>1. Applied(a, k.config)
        BY <2>1, <3>4 DEF ObjectsAt
      <4> QED
        BY <1>8, <2>1, <4>1 DEF Applied, Runs
    <3>5. DeployAt(a, m)'
      BY <1>6, <1>8, <3>2, <3>3, <3>4 DEF DeployAt, RowAt, ObjectsAt
    <3> QED
      BY <1>1, <1>7, <1>8, <3>5, GoesOn
  <2>3. CASE Compensate(a, TRUE) /\ UNCHANGED rowVars
    BY <1>9, <2>1, <2>3
  <2> QED
    BY <1>4, <1>11, <2>2, <2>3 DEF CommitRow
<1> QED
  BY <1>10, <1>11

(* The steps that end a call, or lead to its end. *)
LEMMA ClosingAnswers ==
    ASSUME ~Overlapping, RequestInv, NEW a \in Apps, AnswerInv(a),
           MarkHealthy(a) \/ CompleteRequest(a) \/ FailDeployment(a) \/ Unroute(a) \/ RestoreRow(a)
    PROVE  AnswerInv(a)'
<1>1. calls[a] # NoCall
  BY DEF MarkHealthy, CompleteRequest, FailDeployment, Unroute, RestoreRow, At
<1>2. calls[a] \in CallRecords /\ Control(calls[a]) /\ Holding(calls[a])
  BY <1>1, CallFacts
<1>3. CallTypes /\ RowTypes /\ AnswerTypes /\ ClusterTypes
  BY DEF RequestInv, DeployTypes
<1>4. PICK k \in CallRecords : k = calls[a]
  BY <1>2
<1>5. Control(k) /\ Holding(k) /\ DeployAt(a, k)
  BY <1>1, <1>2, <1>4 DEF AnswerInv
<1>6. RowAt(a, k) /\ (promise[a] # "void" => promise[a] = "none" /\ ObjectsAt(a, k))
  BY <1>5 DEF DeployAt
<1>7. PICK m : m = calls'[a]
  OBVIOUS
<1>8. UNCHANGED <<setters, secret, objects>>
  BY DEF MarkHealthy, CompleteRequest, FailDeployment, Unroute, RestoreRow, clusterVars
<1>9. CASE MarkHealthy(a)
  <2>1. k.at = "healthy" /\ k.mode = "apply" /\ UNCHANGED <<desired, live, route>>
    BY <1>4, <1>5, <1>9 DEF MarkHealthy, At, Control, rowVars
  <2>2. a \in live /\ desired[a] = k.config
    BY <1>6, <2>1 DEF RowAt
  <2>3. promise[a] # "void" => Applied(a, k.config)'
    BY <1>6, <1>8, <2>1 DEF ObjectsAt, Applied, Runs
  <2>4. CASE Return(a, "applied")
    <3>1. promise[a] # "void" =>
             /\ a \in live' /\ Runs(a, desired[a])'
             /\ desired'[a].secret => objects'[a]["deployment"].revision = secret'[a]
      BY <2>1, <2>2, <2>3 DEF Applied, Runs
    <3> QED
      BY <1>1, <1>3, <1>8, <2>4, <3>1, Answers DEF Promises
  <2>5. CASE Goto(a, "complete") /\ UNCHANGED answerVars
    <3>1. Moved(a, "complete", k.mode, k.target, k.revision, k.todo, k.clean)
      BY <1>2, <1>3, <1>4, <2>5, GotoMoves DEF Steps
    <3>2. m.at = "complete" /\ m.mode = "apply" /\ m.config = k.config
      BY <1>4, <1>7, <2>1, <3>1 DEF Moved, Edited
    <3>3. UNCHANGED promise
      BY <2>5 DEF answerVars
    <3>4. DeployAt(a, m)'
      BY <1>6, <2>1, <2>2, <2>3, <3>2, <3>3 DEF DeployAt, RowAt, ObjectsAt
    <3> QED
      BY <1>1, <1>7, <1>8, <3>3, <3>4, GoesOn
  <2> QED
    BY <1>9, <2>4, <2>5 DEF MarkHealthy
<1>10. CASE CompleteRequest(a)
  <2>1. /\ k.at = "complete" /\ Return(a, Outcome(k)) /\ UNCHANGED <<desired, live, route, deployment>>
    BY <1>4, <1>10 DEF CompleteRequest, At, rowVars
  <2>2. CASE k.mode = "apply"
    <3>1. a \in live /\ desired[a] = k.config
      BY <1>6, <2>1, <2>2 DEF RowAt
    <3>2. promise[a] # "void" => Applied(a, k.config)'
      BY <1>6, <1>8, <2>1, <2>2 DEF ObjectsAt, Applied, Runs
    <3>3. promise[a] # "void" =>
             /\ a \in live' /\ Runs(a, desired[a])'
             /\ desired'[a].secret => objects'[a]["deployment"].revision = secret'[a]
      BY <2>1, <3>1, <3>2 DEF Applied, Runs
    <3>4. Return(a, "applied")
      BY <2>1, <2>2 DEF Outcome
    <3> QED
      BY <1>1, <1>3, <1>8, <3>3, <3>4, Answers DEF Promises
  <2>3. CASE k.mode = "withdraw" /\ k.clean
    <3>1. deployment[a] = "failed"
      BY <1>5, <2>1, <2>3 DEF DeployAt
    <3>2. promise[a] # "void" => (a \in live /\ Runs(a, desired[a])) \/ Gone(a)
      BY <1>6, <2>1, <2>3 DEF ObjectsAt
    <3>3. promise[a] # "void" =>
             deployment'[a] = "failed" /\ ((a \in live' /\ Runs(a, desired[a])') \/ Gone(a)')
      BY <1>8, <2>1, <3>1, <3>2 DEF Runs, Gone
    <3>4. Return(a, "withdrawn")
      BY <2>1, <2>3 DEF Outcome
    <3> QED
      BY <1>1, <1>3, <1>8, <3>3, <3>4, Answers DEF Promises
  <2> QED
    BY <1>5, <2>1, <2>2, <2>3 DEF Control
<1>11. CASE FailDeployment(a)
  <2>1. k.at = "failed" /\ k.mode \in {"rollback", "withdraw", "fail"} /\ UNCHANGED <<desired, live, route>>
    BY <1>4, <1>5, <1>11 DEF FailDeployment, At, Control, rowVars
  <2>2. ASSUME k.mode = "withdraw", k.clean
        PROVE  /\ deployment'[a] = "failed"
               /\ promise[a] # "void" => (a \in live' /\ Runs(a, desired[a])') \/ Gone(a)'
    <3>1. promise[a] # "void" => (a \in live /\ Runs(a, desired[a])) \/ Gone(a)
      BY <1>6, <2>1, <2>2 DEF ObjectsAt
    <3>2. deployment'[a] = "failed"
      BY <1>3, <1>4, <1>11, <2>2 DEF FailDeployment, PutStatus, RowTypes
    <3> QED
      BY <1>8, <2>1, <3>1, <3>2 DEF Runs, Gone
  <2>3. CASE Return(a, Conclusion(k))
    <3>1. CASE k.mode = "rollback" /\ k.clean /\ ~k.hidden
      <4>1. Return(a, "restored")
        BY <2>3, <3>1 DEF Conclusion
      <4>2. a \in live /\ desired[a] = k.previous
        BY <1>5, <1>6, <3>1 DEF RowAt, Holding
      <4>3. promise[a] # "void" => Applied(a, k.previous)'
        BY <1>6, <1>8, <2>1, <3>1 DEF ObjectsAt, Applied, Runs
      <4>4. promise[a] # "void" =>
               /\ a \in live' /\ Runs(a, desired[a])'
               /\ desired'[a].secret => objects'[a]["deployment"].revision = secret'[a]
        BY <2>1, <4>2, <4>3 DEF Applied, Runs
      <4> QED
        BY <1>1, <1>3, <1>8, <4>1, <4>4, Answers DEF Promises
    <3>2. CASE k.mode = "rollback" /\ k.clean /\ k.hidden
      <4>1. Return(a, "revived")
        BY <2>3, <3>2 DEF Conclusion
      <4> QED
        BY <1>1, <1>3, <1>8, <4>1, Answers DEF Promises
    <3>3. CASE k.mode = "withdraw" /\ k.clean
      <4>1. Return(a, "withdrawn")
        BY <2>3, <3>3 DEF Conclusion
      <4> QED
        BY <1>1, <1>3, <1>8, <2>2, <3>3, <4>1, Answers DEF Promises
    <3>4. CASE k.mode = "fail" \/ ~k.clean
      <4>1. Return(a, "none")
        BY <2>3, <3>4 DEF Conclusion
      <4> QED
        BY <1>1, <1>3, <1>8, <4>1, Answers DEF Promises
    <3> QED
      BY <2>1, <3>1, <3>2, <3>3, <3>4
  <2>4. CASE Conclusion(k) = "withdrawn" /\ Goto(a, "complete") /\ UNCHANGED answerVars
    <3>1. k.mode = "withdraw" /\ k.clean
      BY <2>4 DEF Conclusion
    <3>2. Moved(a, "complete", k.mode, k.target, k.revision, k.todo, k.clean)
      BY <1>2, <1>3, <1>4, <2>4, GotoMoves DEF Steps
    <3>3. /\ m.at = "complete" /\ m.mode = "withdraw" /\ m.clean /\ m.previous = k.previous /\ m.hidden = k.hidden
      BY <1>4, <1>7, <3>1, <3>2 DEF Moved, Edited
    <3>4. UNCHANGED promise
      BY <2>4 DEF answerVars
    <3>5. RowAt(a, m)'
      BY <1>6, <2>1, <3>1, <3>3 DEF RowAt
    <3>6. promise[a] # "void" => ObjectsAt(a, m)'
      BY <2>2, <3>1, <3>3 DEF ObjectsAt
    <3>7. DeployAt(a, m)'
      BY <1>6, <2>2, <3>1, <3>3, <3>4, <3>5, <3>6 DEF DeployAt
    <3> QED
      BY <1>1, <1>7, <1>8, <3>4, <3>7, GoesOn
  <2> QED
    BY <1>4, <1>11, <2>3, <2>4 DEF FailDeployment
<1>12. CASE Unroute(a)
  <2>1. /\ k.at = "erase" /\ k.todo = <<>> /\ k.clean /\ PutRoute(a, NoDomain)
        /\ UNCHANGED <<desired, live, promise>>
    BY <1>4, <1>12 DEF Unroute, At, rowVars, answerVars
  <2>2. Moved(a, "restore", k.mode, k.target, k.revision, k.todo, k.clean)
    BY <1>2, <1>3, <1>4, <1>12, GotoMoves DEF Unroute, Steps
  <2>3. /\ m.at = "restore" /\ m.mode = k.mode /\ m.clean = k.clean /\ m.previous = k.previous /\ m.hidden = k.hidden
    BY <1>4, <1>7, <2>2 DEF Moved, Edited
  <2>4. k.mode \in {"withdraw", "delete"} /\ (k.mode = "withdraw" => k.previous = NoConfig \/ k.hidden)
    BY <1>5, <2>1 DEF Control
  <2>5. ASSUME ObjectsAt(a, k) PROVE Cleared(a)'
    <3>1. \A o \in Kinds : objects[a][o] = Absent
      BY <2>1, <2>5, ListsLack DEF ObjectsAt
    <3>2. objects[a] \in [Kinds -> Values]
      BY <1>3 DEF ClusterTypes
    <3>3. objects[a] = [o \in Kinds |-> Absent]
      BY <3>1, <3>2, SMTT(30)
    <3>4. route'[a] = NoDomain
      BY <1>3, <2>1 DEF PutRoute, RowTypes
    <3> QED
      BY <1>8, <3>3, <3>4 DEF Cleared, Bare
  <2>6. RowAt(a, m)'
    BY <1>6, <2>1, <2>3, <2>4 DEF RowAt
  <2>7. promise[a] # "void" => ObjectsAt(a, m)'
    BY <1>6, <2>3, <2>4, <2>5 DEF ObjectsAt
  <2>8. DeployAt(a, m)'
    BY <1>6, <2>1, <2>3, <2>6, <2>7 DEF DeployAt
  <2> QED
    BY <1>1, <1>7, <1>8, <2>1, <2>8, GoesOn
<1>13. CASE RestoreRow(a)
  <2>1. /\ k.at = "restore" /\ (k.mode = "delete" \/ (k.mode = "withdraw" /\ k.clean))
        /\ UNCHANGED <<route, deployment>>
    BY <1>4, <1>5, <1>13 DEF RestoreRow, At, Control
  <2>2. /\ k.previous # NoConfig => desired'[a] = k.previous
        /\ a \in live' <=> a \in live /\ ~(k.previous = NoConfig \/ k.hidden)
    BY <1>3, <1>4, <1>13 DEF RestoreRow, RowTypes
  <2>3. promise[a] # "void" /\ (k.previous = NoConfig \/ k.hidden) => Gone(a)'
    BY <1>6, <1>8, <2>1, <2>2 DEF ObjectsAt, Cleared, Gone
  <2>4. CASE k.mode = "delete" /\ Return(a, "deleted")
    <3>1. promise[a] # "void" => Gone(a)'
      BY <1>5, <2>3, <2>4 DEF Holding
    <3> QED
      BY <1>1, <1>3, <1>8, <2>4, <3>1, Answers DEF Promises
  <2>5. CASE k.mode = "withdraw" /\ k.clean /\ Goto(a, "failed") /\ UNCHANGED answerVars
    <3>1. Moved(a, "failed", k.mode, k.target, k.revision, k.todo, k.clean)
      BY <1>2, <1>3, <1>4, <2>5, GotoMoves DEF Steps
    <3>2. m.at = "failed" /\ m.mode = "withdraw" /\ m.previous = k.previous /\ m.hidden = k.hidden
      BY <1>4, <1>7, <2>5, <3>1 DEF Moved, Edited
    <3>3. UNCHANGED promise
      BY <2>5 DEF answerVars
    <3>4. k.previous # NoConfig /\ ~k.hidden => a \in live' /\ desired'[a] = k.previous
      BY <1>6, <2>2, <2>5 DEF RowAt
    <3>5. RowAt(a, m)'
      BY <2>2, <3>2, <3>4 DEF RowAt
    <3>6. promise[a] # "void" /\ k.previous # NoConfig /\ ~k.hidden => a \in live' /\ Runs(a, desired[a])'
      BY <1>6, <1>8, <2>1, <2>5, <3>4 DEF ObjectsAt, Applied, Runs
    <3>7. promise[a] # "void" => ObjectsAt(a, m)'
      BY <2>3, <3>2, <3>6 DEF ObjectsAt
    <3>8. DeployAt(a, m)'
      BY <1>6, <3>2, <3>3, <3>5, <3>7 DEF DeployAt
    <3> QED
      BY <1>1, <1>7, <1>8, <3>3, <3>8, GoesOn
  <2> QED
    BY <1>4, <1>13, <2>1, <2>4, <2>5 DEF RestoreRow
<1> QED
  BY <1>9, <1>10, <1>11, <1>12, <1>13

(* A deploy or delete call changes nothing of the other applications. *)
LEMMA DeployFrame ==
    ASSUME RequestInv, NEW a \in Apps, DeployStep(a), NEW b \in Apps, b # a, objects'[b] = objects[b]
    PROVE  Same(b) /\ calls'[b] = calls[b] /\ setters'[b] = setters[b]
<1>1. CallTypes /\ RowTypes /\ AnswerTypes
  BY DEF RequestInv, DeployTypes
<1>2. \A said : Return(a, said) => calls'[b] = calls[b] /\ promise'[b] = promise[b] /\ fresh'[b] = fresh[b]
  BY <1>1 DEF Return, CallTypes, AnswerTypes
<1>3. /\ \A x : Goto(a, x) \/ Spoil(a, x) \/ Compensate(a, x) => calls'[b] = calls[b]
      /\ \A c : PutRow(a, c) => desired'[b] = desired[b] /\ (b \in live' <=> b \in live)
      /\ \A x : PutStatus(a, x) => deployment'[b] = deployment[b]
      /\ \A d : PutRoute(a, d) => route'[b] = route[b]
  BY <1>1 DEF Goto, Spoil, Compensate, CallTypes, PutRow, PutStatus, PutRoute, RowTypes
<1>4. CASE BeginRequest(a)
  BY <1>2, <1>3, <1>4 DEF BeginRequest, Same, rowVars, answerVars
<1>5. CASE WriteRow(a)
  BY <1>1, <1>3, <1>5 DEF WriteRow, CallTypes, Same, rowVars, answerVars
<1>6. CASE CreateDeployment(a)
  BY <1>3, <1>6 DEF CreateDeployment, Same, rowVars, answerVars
<1>7. CASE ResolveEnvironment(a)
  BY <1>1, <1>3, <1>7 DEF ResolveEnvironment, CallTypes, Same, rowVars, answerVars
<1>8. ASSUME NEW outcome, ReconcileObject(a, outcome)
      PROVE  Same(b) /\ calls'[b] = calls[b] /\ setters'[b] = setters[b]
  BY <1>1, <1>3, <1>8 DEF ReconcileObject, CallTypes, Same, rowVars, answerVars
<1>9. ASSUME NEW outcome, EraseObject(a, outcome)
      PROVE  Same(b) /\ calls'[b] = calls[b] /\ setters'[b] = setters[b]
  BY <1>1, <1>9 DEF EraseObject, CallTypes, Same, rowVars, answerVars
<1>10. ASSUME NEW ok, SyncRoute(a, ok)
       PROVE  Same(b) /\ calls'[b] = calls[b] /\ setters'[b] = setters[b]
  BY <1>3, <1>10 DEF SyncRoute, Same, rowVars, answerVars
<1>11. ASSUME NEW ok, CommitRow(a, ok)
       PROVE  Same(b) /\ calls'[b] = calls[b] /\ setters'[b] = setters[b]
  BY <1>3, <1>11 DEF CommitRow, Same, rowVars, answerVars
<1>12. CASE MarkHealthy(a)
  BY <1>2, <1>3, <1>12 DEF MarkHealthy, Same, rowVars, answerVars
<1>13. CASE CompleteRequest(a)
  BY <1>2, <1>13 DEF CompleteRequest, Same, rowVars
<1>14. CASE FailDeployment(a)
  BY <1>2, <1>3, <1>14 DEF FailDeployment, Same, rowVars, answerVars
<1>15. CASE Unroute(a)
  BY <1>3, <1>15 DEF Unroute, Same, rowVars, answerVars
<1>16. CASE RestoreRow(a)
  BY <1>1, <1>2, <1>3, <1>16 DEF RestoreRow, RowTypes, Same, answerVars
<1>17. CASE Leave(a)
  BY <1>2, <1>17 DEF Leave, Same, rowVars
<1> QED
  BY <1>4, <1>5, <1>6, <1>7, <1>8, <1>9, <1>10, <1>11, <1>12, <1>13, <1>14, <1>15, <1>16, <1>17 DEF DeployStep

(* Every step of a deploy or delete call. *)
LEMMA DeployAnswers ==
    ASSUME ~Overlapping, RequestInv, \A b \in Apps : AnswerInv(b), NEW a \in Apps, DeployStep(a)
    PROVE  \A b \in Apps : AnswerInv(b)'
<1>1. AnswerInv(a)'
  BY OpeningAnswers, ObjectAnswers, CommitAnswers, ClosingAnswers DEF DeployStep
<1>2. \A b \in Apps : b # a => objects'[b] = objects[b]
  <2>1. CASE \E outcome : ReconcileObject(a, outcome) \/ EraseObject(a, outcome)
    BY <2>1, ObjectAnswers
  <2>2. CASE UNCHANGED clusterVars
    BY <2>2 DEF clusterVars
  <2> QED
    BY <2>1, <2>2 DEF DeployStep, BeginRequest, WriteRow, CreateDeployment, ResolveEnvironment, SyncRoute, CommitRow,
         MarkHealthy, CompleteRequest, FailDeployment, Unroute, RestoreRow, Leave
<1>3. ASSUME NEW b \in Apps, b # a PROVE AnswerInv(b)'
  <2>1. Same(b) /\ calls'[b] = calls[b] /\ setters'[b] = setters[b]
    BY <1>2, <1>3, DeployFrame
  <2> QED
    BY <2>1, AnswerSame
<1> QED
  BY <1>1, <1>3

(* A call that starts. *)
LEMMA StartAnswers ==
    ASSUME ~Overlapping, RequestInv, \A b \in Apps : AnswerInv(b), NEW a \in Apps, Start(a)
    PROVE  \A b \in Apps : AnswerInv(b)'
<1>1. CallTypes /\ AnswerTypes
  BY DEF RequestInv, DeployTypes
<1>2. /\ setters[a] = NoCall /\ promise' = [promise EXCEPT ![a] = "none"]
      /\ UNCHANGED <<desired, live, route, deployment, secret, objects, setters, fresh>>
  BY DEF Start, StartDeploy, StartDelete, Free, rowVars, clusterVars
<1>3. promise'[a] = "none" /\ \A b \in Apps : b # a => promise'[b] = promise[b]
  BY <1>1, <1>2 DEF AnswerTypes
<1>4. PICK m : m = calls'[a] /\ calls' = [calls EXCEPT ![a] = m]
  BY StartKeeps
<1>5. \/ m.mode = "apply" /\ m.at \in {"begin", "row"}
      \/ m.mode = "delete" /\ m.at = "erase" /\ m.todo = Removal
  <2>1. ASSUME NEW c \in Configs, NEW r \in Requests \cup {NoRequest}, NEW report \in BOOLEAN,
               StartDeploy(a, c, r, report)
        PROVE  m.mode = "apply" /\ m.at \in {"begin", "row"}
    <3>1. m = [at |-> IF r = NoRequest THEN "row" ELSE "begin", mode |-> "apply", config |-> c,
               request |-> r, report |-> report, previous |-> NoConfig, hidden |-> FALSE,
               target |-> c, revision |-> 0, todo |-> Plan(c), clean |-> TRUE]
      BY <1>1, <1>4, <2>1 DEF StartDeploy, CallTypes
    <3> QED
      BY <3>1
  <2>2. ASSUME StartDelete(a)
        PROVE  m.mode = "delete" /\ m.at = "erase" /\ m.todo = Removal
    <3>1. m = [at |-> "erase", mode |-> "delete", config |-> desired[a], request |-> NoRequest,
               report |-> FALSE, previous |-> NoConfig, hidden |-> FALSE, target |-> desired[a],
               revision |-> 0, todo |-> Removal, clean |-> TRUE]
      BY <1>1, <1>4, <2>2 DEF StartDelete, CallTypes
    <3> QED
      BY <3>1
  <2> QED
    BY <2>1, <2>2 DEF Start
<1>6. DeployAt(a, m)'
  BY <1>3, <1>5, ListsLack DEF DeployAt, RowAt, ObjectsAt
<1>7. AnswerInv(a)'
  BY <1>2, <1>3, <1>4, <1>6 DEF AnswerInv, Said
<1>8. ASSUME NEW b \in Apps, b # a PROVE AnswerInv(b)'
  <2>1. Same(b) /\ calls'[b] = calls[b] /\ setters'[b] = setters[b]
    BY <1>1, <1>2, <1>3, <1>4, <1>8 DEF Same, CallTypes
  <2> QED
    BY <2>1, AnswerSame
<1> QED
  BY <1>7, <1>8

(* A write of a secret call leaves the configuration that runs. *)
LEMMA WritesSameConfig ==
    ASSUME NEW a \in Apps, NEW c, NEW v, NEW o \in Kinds, Runs(a, c), UNCHANGED route,
           objects'[a][o] \in {objects[a][o], Manifest(o, c, v)},
           \A p \in Kinds : p # o => objects'[a][p] = objects[a][p]
    PROVE  Runs(a, c)'
<1>1. Manifest(o, c, v).config = Manifest(o, c, 0).config
  BY ManifestConfig
<1>2. ASSUME NEW p \in Kinds PROVE objects'[a][p].config = Manifest(p, c, 0).config
  BY <1>1, <1>2 DEF Runs
<1> QED
  BY <1>2 DEF Runs

(* A step of a secret call. *)
LEMMA SecretAnswers ==
    ASSUME ~Overlapping, RequestInv, NEW a \in Apps, AnswerInv(a), SecretStep(a)
    PROVE  AnswerInv(a)' /\ \A b \in Apps : b # a => objects'[b] = objects[b]
<1>1. SetterTypes /\ RowTypes /\ AnswerTypes /\ ClusterTypes
  BY DEF RequestInv, DeployTypes
<1>2. /\ setters' = [setters EXCEPT ![a] = setters'[a]]
      /\ UNCHANGED <<desired, live, route, deployment, calls, promise>>
  BY SecretMoves DEF rowVars
<1>3. calls[a] = NoCall
  BY DEF AnswerInv, SecretStep, StartSetSecret, ResolveSecret, ReplySetSecret, StoreSecret, ApplySecret,
         StartDeleteSecret, DropSecret, LeaveSecret, MayRead, SetterAt
<1>4. PICK s, m : s = setters[a] /\ m = setters'[a]
  OBVIOUS
<1>5. ASSUME m # NoCall => SecretAt(a, m)', Said(a)' PROVE AnswerInv(a)'
  BY <1>2, <1>3, <1>4, <1>5 DEF AnswerInv
<1>6. Said(a) /\ (s # NoCall => s \in SetterRecords /\ SecretAt(a, s))
  BY <1>1, <1>4 DEF AnswerInv, SetterTypes
<1>7. ASSUME UNCHANGED <<secret, objects, fresh>> PROVE Said(a)'
  BY <1>2, <1>6, <1>7, SaidSame DEF Same
<1>8. CASE StartSetSecret(a)
  <2>1. UNCHANGED <<secret, objects, fresh>> /\ a \in live
    BY <1>8 DEF StartSetSecret, MayRead, answerVars, clusterVars
  <2>2. m = [at |-> "store", config |-> desired[a], revision |-> 0, todo |-> Plan(desired[a])]
    BY <1>1, <1>4, <1>8 DEF StartSetSecret, SetterTypes
  <2>3. m.at = "store" /\ m.config = desired[a] /\ m.todo = Plan(m.config)
    BY <2>2
  <2>4. SecretAt(a, m)'
    BY <1>2, <2>1, <2>3 DEF SecretAt
  <2> QED
    BY <1>5, <1>7, <2>1, <2>4
<1>9. CASE StartDeleteSecret(a)
  <2>1. UNCHANGED <<secret, objects, fresh>> /\ a \in live /\ ~desired[a].secret
    BY <1>9 DEF StartDeleteSecret, MayRead, answerVars, clusterVars
  <2>2. m = [at |-> "drop", config |-> desired[a], revision |-> 0, todo |-> <<>>]
    BY <1>1, <1>4, <1>9 DEF StartDeleteSecret, SetterTypes
  <2>3. m.at = "drop" /\ m.config = desired[a]
    BY <2>2
  <2>4. SecretAt(a, m)'
    BY <1>2, <2>1, <2>3 DEF SecretAt
  <2> QED
    BY <1>5, <1>7, <2>1, <2>4
<1>10. ASSUME NEW version \in 1 .. MaxSecret, StoreSecret(a, version)
       PROVE  AnswerInv(a)' /\ UNCHANGED objects
  <2>1. /\ s # NoCall /\ s.at = "store" /\ UNCHANGED objects /\ secret' = [secret EXCEPT ![a] = version]
        /\ fresh' = [fresh EXCEPT ![a] = FALSE]
    BY <1>4, <1>10 DEF StoreSecret, SetterAt, PutSecret, clusterVars
  <2>2. version # 0
    BY DeployAssumption, SMTT(30)
  <2>3. secret'[a] # 0 /\ fresh'[a] = FALSE
    BY <1>1, <2>1, <2>2 DEF RowTypes, AnswerTypes
  <2>4. m = [s EXCEPT !.at = IF s.config.secret THEN "resolve" ELSE "reply"]
    BY <1>1, <1>4, <1>10 DEF StoreSecret, SetterTypes
  <2>5. /\ m.config = s.config /\ m.todo = s.todo
        /\ m.at = IF s.config.secret THEN "resolve" ELSE "reply"
    BY <1>6, <2>1, <2>4 DEF SetterRecords
  <2>6. SecretAt(a, m)'
    BY <1>2, <1>6, <2>1, <2>3, <2>5 DEF SecretAt
  <2>7. Said(a)'
    <3>1. (Runs(a, desired[a]) <=> Runs(a, desired[a])') /\ (Gone(a) <=> Gone(a)')
      BY <1>2, <2>1 DEF Runs, Gone
    <3> QED
      BY <1>2, <1>6, <2>3, <3>1 DEF Said
  <2> QED
    BY <1>5, <2>1, <2>6, <2>7
<1>11. CASE ResolveSecret(a)
  <2>1. s # NoCall /\ s.at = "resolve" /\ UNCHANGED <<secret, objects, fresh>>
    BY <1>4, <1>11 DEF ResolveSecret, SetterAt, answerVars, clusterVars
  <2>2. secret[a] # 0 /\ s.config.secret /\ s.todo = Plan(s.config)
    BY <1>6, <2>1 DEF SecretAt
  <2>3. m = [s EXCEPT !.revision = secret[a], !.at = "objects"]
    BY <1>1, <1>4, <1>11, <2>2 DEF ResolveSecret, SetterTypes
  <2>4. m.at = "objects" /\ m.config = s.config /\ m.todo = s.todo /\ m.revision = secret[a]
    BY <1>6, <2>1, <2>3 DEF SetterRecords
  <2>5. ~Lacks(m.todo, "deployment")
    <3>1. "deployment" \in Kinds
      BY DEF Kinds
    <3>2. \A c : ~Lacks(Plan(c), "deployment")
      BY <3>1, ListsLack
    <3> QED
      BY <2>2, <2>4, <3>2
  <2>6. SecretAt(a, m)'
    BY <1>2, <1>6, <2>1, <2>2, <2>4, <2>5 DEF SecretAt
  <2> QED
    BY <1>5, <1>7, <2>1, <2>6
<1>12. ASSUME NEW outcome, ApplySecret(a, outcome)
       PROVE  AnswerInv(a)' /\ \A b \in Apps : b # a => objects'[b] = objects[b]
  <2>1. PICK o : o = Head(s.todo)
    OBVIOUS
  <2>2. /\ s \in SetterRecords /\ s.at = "objects" /\ s.todo # <<>> /\ o \in Kinds
        /\ Manifest(o, s.config, s.revision) \in Values
        /\ Write(a, o, Manifest(o, s.config, s.revision), NoRequest, outcome)
        /\ outcome = "ok" =>
              /\ m.at = "objects" /\ m.config = s.config /\ m.revision = s.revision /\ m.todo = Tail(s.todo)
        /\ outcome # "ok" => m = NoCall
    BY <1>4, <1>12, <2>1, ApplyMoves
  <2>3. PICK new \in Values : new = Manifest(o, s.config, s.revision) /\ Write(a, o, new, NoRequest, outcome)
    BY <2>2
  <2>4. /\ ClusterTypes' /\ \A b \in Apps, q \in Kinds : b # a \/ q # o => objects'[b][q] = objects[b][q]
        /\ objects'[a][o] \in {objects[a][o], new}
        /\ outcome = "ok" => objects'[a][o] = new
    BY <1>1, <2>2, <2>3, WriteEffect, SMTT(30)
  <2>5. ASSUME NEW b \in Apps, b # a PROVE objects'[b] = objects[b]
    <3>1. objects[b] \in [Kinds -> Values] /\ objects'[b] \in [Kinds -> Values]
      BY <1>1, <2>4 DEF ClusterTypes
    <3>2. \A q \in Kinds : objects'[b][q] = objects[b][q]
      BY <2>4, <2>5
    <3> QED
      BY <3>1, <3>2, SMTT(30)
  <2>6. s # NoCall /\ UNCHANGED <<secret, fresh>>
    BY <1>4, <1>12 DEF ApplySecret, SetterAt, answerVars
  <2>7. a \in live /\ s.config = desired[a] /\ s.config.secret /\ s.revision = secret[a]
    BY <1>6, <2>2, <2>6 DEF SecretAt
  <2>8. o = "deployment" => new.revision = s.revision
    <3>1. Manifest("deployment", s.config, s.revision).revision = s.revision
      BY DEF Manifest, DeploymentManifest
    <3> QED
      BY <2>3, <3>1
  <2>9. \/ objects'[a]["deployment"] = objects[a]["deployment"]
        \/ o = "deployment" /\ objects'[a]["deployment"].revision = secret[a]
    <3>1. "deployment" \in Kinds
      BY DEF Kinds
    <3> QED
      BY <2>4, <2>7, <2>8, <3>1
  <2>10. Runs(a, desired[a]) => Runs(a, desired[a])'
    <3>1. PICK c : c = desired[a] /\ c = s.config
      BY <2>7
    <3>2. PICK v : v = s.revision
      OBVIOUS
    <3>3. /\ UNCHANGED route /\ objects'[a][o] \in {objects[a][o], Manifest(o, c, v)}
          /\ \A p \in Kinds : p # o => objects'[a][p] = objects[a][p]
      BY <1>2, <2>3, <2>4, <3>1, <3>2
    <3>4. Runs(a, c) => Runs(a, c)'
      BY <2>2, <3>3, WritesSameConfig
    <3> QED
      BY <1>2, <3>1, <3>4 DEF Runs
  <2>11. Said(a)'
    <3>1. ~Gone(a)
      BY <2>7 DEF Gone
    <3> QED
      BY <1>2, <1>6, <2>6, <2>7, <2>9, <2>10, <3>1 DEF Said
  <2>12. m # NoCall => SecretAt(a, m)'
    <3> SUFFICES ASSUME m # NoCall PROVE SecretAt(a, m)'
      OBVIOUS
    <3>1. outcome = "ok" /\ s.todo \in Seq(Kinds) /\ "deployment" \in Kinds
      BY <2>2 DEF SetterRecords, Kinds
    <3>2. Lacks(Tail(s.todo), "deployment") => o = "deployment" \/ Lacks(s.todo, "deployment")
      BY <2>1, <2>2, <3>1, ListsLack
    <3>3. o = "deployment" => objects'[a]["deployment"].revision = secret[a]
      BY <2>4, <2>7, <2>8, <3>1
    <3>4. promise[a] # "void" /\ Lacks(Tail(s.todo), "deployment") => objects'[a]["deployment"].revision = secret[a]
      BY <1>6, <2>2, <2>6, <2>7, <2>9, <3>2, <3>3 DEF SecretAt
    <3> QED
      BY <1>2, <2>2, <2>6, <2>7, <3>1, <3>4 DEF SecretAt
  <2> QED
    BY <1>5, <2>5, <2>11, <2>12
<1>13. CASE ReplySetSecret(a)
  <2>1. /\ s # NoCall /\ (s.at = "reply" \/ (s.at = "objects" /\ s.todo = <<>>))
        /\ UNCHANGED <<secret, objects>>
    BY <1>4, <1>13 DEF ReplySetSecret, SetterAt, clusterVars
  <2>2. m = NoCall
    BY <1>1, <1>4, <1>13 DEF ReplySetSecret, SetterTypes
  <2>3. promise[a] # "void" /\ desired[a].secret => objects[a]["deployment"].revision = secret[a]
    <3>1. Lacks(<<>>, "deployment")
      BY ListsLack DEF Kinds
    <3> QED
      BY <1>6, <2>1, <3>1 DEF SecretAt
  <2>4. Said(a)'
    <3>1. (Runs(a, desired[a]) <=> Runs(a, desired[a])') /\ (Gone(a) <=> Gone(a)')
      BY <1>2, <2>1 DEF Runs, Gone
    <3>2. promise[a] \in {"applied", "restored"} => promise[a] # "void"
      OBVIOUS
    <3> QED
      BY <1>2, <1>6, <2>1, <2>3, <3>1, <3>2 DEF Said
  <2> QED
    BY <1>5, <2>1, <2>2, <2>4
<1>14. CASE DropSecret(a)
  <2>1. s # NoCall /\ s.at = "drop" /\ UNCHANGED <<objects, fresh>>
    BY <1>4, <1>14 DEF DropSecret, SetterAt, clusterVars, answerVars
  <2>2. m = NoCall
    BY <1>1, <1>4, <1>14 DEF DropSecret, SetterTypes
  <2>3. ~desired[a].secret
    BY <1>6, <2>1 DEF SecretAt
  <2>4. Said(a)'
    <3>1. (Runs(a, desired[a]) <=> Runs(a, desired[a])') /\ (Gone(a) <=> Gone(a)')
      BY <1>2, <2>1 DEF Runs, Gone
    <3> QED
      BY <1>2, <1>6, <2>3, <3>1 DEF Said
  <2> QED
    BY <1>5, <2>1, <2>2, <2>4
<1>15. CASE LeaveSecret(a)
  <2>1. UNCHANGED <<secret, objects, fresh>>
    BY <1>15 DEF LeaveSecret, clusterVars, answerVars
  <2>2. m = NoCall
    BY <1>1, <1>4, <1>15 DEF LeaveSecret, SetterTypes
  <2> QED
    BY <1>5, <1>7, <2>1, <2>2
<1> QED
  BY <1>8, <1>9, <1>10, <1>11, <1>12, <1>13, <1>14, <1>15
     DEF SecretStep, StartSetSecret, ResolveSecret, ReplySetSecret, StartDeleteSecret, DropSecret, LeaveSecret, clusterVars

(* A write that arrives voids what was said of its application. *)
LEMMA ArriveAnswers ==
    ASSUME RequestInv, \A b \in Apps : AnswerInv(b), NEW w \in late, Arrive(w)
    PROVE  \A b \in Apps : AnswerInv(b)'
<1>1. ClusterTypes /\ AnswerTypes
  BY DEF RequestInv, DeployTypes
<1>2. /\ \A b \in Apps : b # w.app => promise'[b] = promise[b] /\ objects'[b] = objects[b]
      /\ promise'[w.app] = "void" \/ (promise' = promise /\ objects' = objects)
      /\ UNCHANGED <<desired, live, route, deployment, secret, calls, setters, fresh>>
  BY <1>1, ArriveEffect DEF rowVars
<1>3. ASSUME NEW b \in Apps, promise'[b] = promise[b], objects'[b] = objects[b] PROVE AnswerInv(b)'
  <2>1. Same(b)
    BY <1>2, <1>3 DEF Same
  <2> QED
    BY <1>2, <2>1, AnswerSame
<1>4. ASSUME NEW b \in Apps, promise'[b] = "void" PROVE AnswerInv(b)'
  <2>1. \A k : RowAt(b, k) => RowAt(b, k)'
    BY <1>2 DEF RowAt
  <2>2. \A k : DeployAt(b, k) => DeployAt(b, k)'
    BY <1>2, <1>4, <2>1 DEF DeployAt
  <2>3. \A s : SecretAt(b, s) => SecretAt(b, s)'
    BY <1>2, <1>4 DEF SecretAt
  <2>4. Said(b)'
    BY <1>4 DEF Said
  <2> QED
    BY <1>2, <2>2, <2>3, <2>4 DEF AnswerInv
<1> QED
  BY <1>2, <1>3, <1>4

(* AnswersInv holds initially. *)
LEMMA AnswersInit == Init => AnswersInv
<1> SUFFICES ASSUME Init PROVE AnswersInv
  OBVIOUS
<1>1. ASSUME NEW a \in Apps PROVE AnswerInv(a)
  <2>1. calls[a] = NoCall /\ setters[a] = NoCall /\ promise[a] = "none"
    BY DEF Init
  <2> QED
    BY <2>1 DEF AnswerInv, Said
<1> QED
  BY <1>1, RequestInit DEF AnswersInv

(* Every step keeps AnswersInv. *)
LEMMA AnswersNext == AnswersInv /\ [Next]_vars => AnswersInv'
<1> SUFFICES ASSUME AnswersInv, [Next]_vars PROVE AnswersInv'
  OBVIOUS
<1>1. RequestInv /\ RequestInv'
  BY RequestNext DEF AnswersInv
<1> SUFFICES ASSUME ~Overlapping PROVE \A b \in Apps : AnswerInv(b)'
  BY <1>1 DEF AnswersInv
<1>2. \A b \in Apps : AnswerInv(b)
  BY DEF AnswersInv
<1>3. ASSUME NEW a \in Apps, Start(a) PROVE \A b \in Apps : AnswerInv(b)'
  BY <1>1, <1>2, <1>3, StartAnswers
<1>4. ASSUME NEW a \in Apps, DeployStep(a) PROVE \A b \in Apps : AnswerInv(b)'
  BY <1>1, <1>2, <1>4, DeployAnswers
<1>5. ASSUME NEW a \in Apps, SecretStep(a) PROVE \A b \in Apps : AnswerInv(b)'
  <2>1. AnswerInv(a)' /\ \A b \in Apps : b # a => objects'[b] = objects[b]
    BY <1>1, <1>2, <1>5, SecretAnswers
  <2>2. ASSUME NEW b \in Apps, b # a PROVE AnswerInv(b)'
    <3>1. /\ setters' = [setters EXCEPT ![a] = setters'[a]]
          /\ UNCHANGED <<desired, live, route, deployment, calls, promise>>
          /\ fresh'[b] = fresh[b] /\ secret'[b] = secret[b]
      BY <1>1, <1>5, <2>2, SecretMoves DEF rowVars
    <3>2. setters'[b] = setters[b]
      BY <1>1, <2>2, <3>1 DEF RequestInv, DeployTypes, SetterTypes
    <3>3. Same(b)
      BY <2>1, <2>2, <3>1 DEF Same
    <3> QED
      BY <1>2, <3>1, <3>2, <3>3, AnswerSame
  <2> QED
    BY <2>1, <2>2
<1>6. ASSUME NEW w \in late, Arrive(w) PROVE \A b \in Apps : AnswerInv(b)'
  BY <1>1, <1>2, <1>6, ArriveAnswers
<1>7. CASE UNCHANGED vars
  <2>1. ASSUME NEW b \in Apps PROVE Same(b) /\ calls'[b] = calls[b] /\ setters'[b] = setters[b]
    BY <1>7 DEF vars, Same
  <2> QED
    BY <1>2, <2>1, AnswerSame
<1> QED
  BY <1>3, <1>4, <1>5, <1>6, <1>7 DEF Next

(* What DeployApp and DeleteApp answered is true of the row, the route and    *)
(* every object until a delayed write of an earlier call arrives, if no       *)
(* secret call runs beside them.                                              *)
THEOREM AnswersAlwaysHold == ASSUME ~Overlapping PROVE Spec => []AnswersHold
<1>1. AnswersInv => AnswersHold
  BY DEF AnswersInv, AnswerInv, Said, AnswersHold
<1> QED
  BY <1>1, AnswersInit, AnswersNext, PTL DEF Spec

(* The Deployment's template names the value of the secret that was last      *)
(* reported as delivered, if secret calls and deployments exclude each other. *)
THEOREM SecretAlwaysDelivered == ASSUME ~Overlapping PROVE Spec => []SecretDelivered
<1>1. AnswersInv => SecretDelivered
  BY DEF AnswersInv, AnswerInv, Said, SecretDelivered
<1> QED
  BY <1>1, AnswersInit, AnswersNext, PTL DEF Spec
=============================================================================
