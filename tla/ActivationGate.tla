--------------------------- MODULE ActivationGate ---------------------------
(* The stable Kubernetes Service of an application, used as the activation    *)
(* gate of candidate deployments (internal/ingress/activation.go and          *)
(* candidate_bootstrap.go).  A Service has an identity (uid), a               *)
(* resourceVersion (version) and the content the controller writes (spec).    *)
(* An update replaces the whole content, if the resourceVersion it was        *)
(* computed from is still current; the API server keeps the resourceVersion   *)
(* of an object that an update does not change.                               *)
EXTENDS Naturals

(* Operation IDs and selectors are digests of a purpose and an owner.  They   *)
(* are modelled as pairs: distinct purposes and owners never collide.         *)
Id(kind, of) == [kind |-> kind, of |-> of]

NoOperation(a) == Id("none", a)          \* no activation-operation annotation
Operation(r) == Id("request", r)         \* the request's own ID
Recovery(r) == Id("recovery", r)         \* candidateRecoveryID
Bootstrap(r) == Id("bootstrap", r)       \* CandidateBootstrapOperationID
Deletion(a) == Id("deletion", a)         \* candidateDeletionOperationID
Operations(owners) == [kind : {"none", "request", "recovery", "bootstrap", "deletion"}, of : owners]

Legacy(a) == Id("legacy", a)             \* appLabels
Candidate(r) == Id("candidate", r)       \* CandidateSelector
Inactive(r) == Id("inactive", r)         \* matches no generation; of an application
                                         \*   while it is being deleted
Selectors(owners) == [kind : {"legacy", "candidate", "inactive"}, of : owners]

(* ActivationTarget: the selector and the one port of the Service. *)
Target(sel, port) == [sel |-> sel, port |-> port]

-----------------------------------------------------------------------------
Exists(s) == s.uid # 0

(* ActivationGate: the token captured, saved and compared by the coordinator. *)
GateOf(s) == [uid |-> s.uid, version |-> s.version, op |-> s.spec.op]

(* A write sent to the API server.  Create names no version to replace. *)
Create(spec) == [uid |-> 0, version |-> 0, spec |-> spec]
Update(s, spec) == [uid |-> s.uid, version |-> s.version, spec |-> spec]

(* Mutant of Accepts: an update that ignores the resourceVersion. *)
AcceptsAnyVersion(s, w) == s.uid = w.uid

(* Create fails when the Service exists, an update when another write came    *)
(* first or the Service was recreated.  An absent Service has uid 0.          *)
Accepts(s, w) == s.uid = w.uid /\ s.version = w.version

(* The Service after an accepted write; v is a resourceVersion never used before. *)
Written(s, w, v) ==
    IF Exists(s) /\ w.spec = s.spec
    THEN s
    ELSE [uid |-> IF Exists(s) THEN s.uid ELSE v, version |-> v, spec |-> w.spec]

-----------------------------------------------------------------------------
(* The content written by each operation of the controller. *)

(* FenceActivationGate keeps the selected endpoints. *)
Fenced(s, op) == [s.spec EXCEPT !.op = op]

(* ReplaceActivationTarget *)
Replaced(s, target) == [s.spec EXCEPT !.target = target]

(* CreateInactiveCandidateService *)
Initial(a, r, port) ==
    [op |-> NoOperation(a), target |-> Target(Inactive(r), port), boot |-> r, marked |-> FALSE]

(* ResetInactiveCandidateService *)
Rebound(r, port) ==
    [op |-> Bootstrap(r), target |-> Target(Inactive(r), port), boot |-> r, marked |-> FALSE]

(* BeginCandidateDeletion: marker, fence and inactive target in one write;    *)
(* boot is the bootstrap annotation it leaves alone.                          *)
Deleting(a, port, boot) ==
    [op |-> Deletion(a), target |-> Target(Inactive(a), port), boot |-> boot, marked |-> TRUE]
=============================================================================
