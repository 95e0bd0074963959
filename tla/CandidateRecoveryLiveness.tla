---------------------- MODULE CandidateRecoveryLiveness ----------------------
(* Progress of candidate recovery.  CandidateOperation lets a call return at  *)
(* any step; here a call that can take its next step fails only a bounded     *)
(* number of times, and otherwise returns only when the code refuses to go on.*)
EXTENDS CandidateOperation

CONSTANT MaxFaults      \* failed calls, lost replies and workloads that stop being ready

VARIABLE faults

liveVars == <<vars, faults>>

LiveInit == OpInit /\ faults = 0

Spend == faults < MaxFaults /\ faults' = faults + 1

(* The call takes its next step and gets its reply. *)
Proceed(a) == CallStep(a) /\ UNCHANGED <<late, faults>>

(* The code returns: no step of the call can succeed. *)
Refuse(a) == ~ENABLED Proceed(a) /\ Leave(a) /\ UNCHANGED faults

Fault(a) ==
    /\ \/ ENABLED Proceed(a) /\ Leave(a)
       \/ CallStep(a) /\ late' # late
    /\ Spend

Recover(a, r) ==
    /\ call[a] = Idle /\ AppOf[r] = a
    /\ RecoverDeployRequest(a, r)
    /\ UNCHANGED <<clusterVars, deleting, faults>>

Settle(x) ==
    /\ pods[x] \in {"starting", "draining"}
    /\ Reconcile(x)
    /\ UNCHANGED <<journalVars, ingress, call, faults>>

LiveNext ==
    \/ \E a \in Apps :
          \/ Proceed(a) \/ Refuse(a) \/ Fault(a)
          \/ \E r \in Requests : RpcStep(a, r) /\ UNCHANGED faults
    \/ /\ \E w \in late : Arrive(w) \/ Vanish(w)
       /\ UNCHANGED <<journalVars, ingress, call, faults>>
    \/ \E x \in Owners :
          \/ Settle(x)
          \/ pods[x] = "ready" /\ Reconcile(x) /\ Spend /\ UNCHANGED <<journalVars, ingress, call>>

(* A call that can go on does; the cluster converges; a client that wants its *)
(* request recovered keeps asking, and the lock serves every waiter in turn   *)
(* (WaiterIsServed of AppMutationLock).                                       *)
Fairness ==
    /\ \A a \in Apps : WF_liveVars(Proceed(a)) /\ WF_liveVars(Refuse(a))
    /\ \A x \in Owners : WF_liveVars(Settle(x))
    /\ \A r \in Requests : SF_liveVars(Recover(AppOf[r], r))

LiveSpec == LiveInit /\ [][LiveNext]_liveVars /\ Fairness

-----------------------------------------------------------------------------
(* A request whose withdrawal was recorded is eventually decided, wherever    *)
(* its deployment stood, whichever reply was lost and whichever delayed write *)
(* still arrived: RestoreCandidateTraffic, RecoverCandidateOperation and      *)
(* CompleteCandidateOperation never reach a state they refuse forever.        *)
RecoveryConcludes ==
    \A r \in Requests : (r \in withdrawals) ~> (state[r] \in Terminal)
=============================================================================
