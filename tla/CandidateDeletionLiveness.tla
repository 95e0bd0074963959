---------------------- MODULE CandidateDeletionLiveness ----------------------
(* Progress of candidate deletion, with the bounded faults of                 *)
(* CandidateRecoveryLiveness: a DeleteApp call that can take its next step    *)
(* does, except for a bounded number of failures; a call that cannot returns. *)
EXTENDS CandidateDeletion, CandidateRecoveryLiveness

delLiveVars == <<liveVars, deletion>>

DelLiveInit == OpInit /\ deletion = [a \in Apps |-> NoDeletion] /\ faults = 0

ProceedDelete(a) == DeletionStep(a) /\ UNCHANGED <<late, faults>>

(* "retry deletion": no step of the call can succeed now. *)
RefuseDelete(a) == ~ENABLED ProceedDelete(a) /\ StopDelete(a) /\ UNCHANGED faults

FaultDelete(a) ==
    /\ \/ ENABLED ProceedDelete(a) /\ StopDelete(a)
       \/ DeletionStep(a) /\ late' # late
    /\ Spend

AskDelete(a) == StartDelete(a) /\ UNCHANGED faults

DelLiveNext ==
    \/ LiveNext /\ (\A a \in deleting : call'[a] = call[a]) /\ UNCHANGED deletion
    \/ \E a \in Apps : AskDelete(a) \/ ProceedDelete(a) \/ RefuseDelete(a) \/ FaultDelete(a)
    \/ \E w \in late : ArriveRemoval(w) /\ UNCHANGED faults

(* A client that wants the application gone repeats DeleteApp, and the lock   *)
(* serves every waiter in turn (WaiterIsServed of AppMutationLock).           *)
DelFairness ==
    /\ \A a \in Apps :
          /\ WF_delLiveVars(Proceed(a) /\ UNCHANGED deletion)
          /\ WF_delLiveVars(Refuse(a) /\ UNCHANGED deletion)
          /\ WF_delLiveVars(ProceedDelete(a)) /\ WF_delLiveVars(RefuseDelete(a))
          /\ SF_delLiveVars(AskDelete(a))
    /\ \A x \in Owners : WF_delLiveVars(Settle(x) /\ UNCHANGED deletion)

DelLiveSpec == DelLiveInit /\ [][DelLiveNext]_delLiveVars /\ DelFairness

-----------------------------------------------------------------------------
(* A deletion that cut the traffic is completed: once the marker is on the    *)
(* Service the application is eventually hidden and the Service removed,      *)
(* whichever step failed ("A retry can resume after the database mark").      *)
DeletionConcludes ==
    \A a \in Apps : Marked(a) ~> (a \notin live /\ ~Exists(service[a]))
=============================================================================
