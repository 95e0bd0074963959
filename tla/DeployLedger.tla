---------------------------- MODULE DeployLedger ----------------------------
(* What the deployment journal promises its callers, without tables: every   *)
(* tracked request is accepted once, decided once, and the configuration an  *)
(* application is known to run changes exactly when one of its requests is   *)
(* decided as applied, or when the application is deleted while none is open.*)

CONSTANTS
    Apps, Requests, Configs, NoConfig,
    AppOf           \* the application of each request

VARIABLES
    outcome,        \* outcome[r]: absent, pending, applied or withdrawn
    asked,          \* asked[r]: the configuration request r asked for
    visible         \* visible[a]: the configuration application a runs, or NoConfig

vars == <<outcome, asked, visible>>

Init ==
    /\ outcome = [r \in Requests |-> "absent"]
    /\ asked = [r \in Requests |-> NoConfig]
    /\ visible \in [Apps -> Configs \cup {NoConfig}]

Open(a) == \E r \in Requests : AppOf[r] = a /\ outcome[r] = "pending"

Accept(r, c) ==
    /\ outcome[r] = "absent"
    /\ ~Open(AppOf[r])
    /\ outcome' = [outcome EXCEPT ![r] = "pending"]
    /\ asked' = [asked EXCEPT ![r] = c]
    /\ UNCHANGED visible

Apply(r) ==
    /\ outcome[r] = "pending"
    /\ outcome' = [outcome EXCEPT ![r] = "applied"]
    /\ visible' = [visible EXCEPT ![AppOf[r]] = asked[r]]
    /\ UNCHANGED asked

Withdraw(r) ==
    /\ outcome[r] = "pending"
    /\ outcome' = [outcome EXCEPT ![r] = "withdrawn"]
    /\ UNCHANGED <<asked, visible>>

Delete(a) ==
    /\ ~Open(a)
    /\ visible' = [visible EXCEPT ![a] = NoConfig]
    /\ UNCHANGED <<outcome, asked>>

Next ==
    \/ \E r \in Requests : (\E c \in Configs : Accept(r, c)) \/ Apply(r) \/ Withdraw(r)
    \/ \E a \in Apps : Delete(a)

Spec == Init /\ [][Next]_vars
=============================================================================
