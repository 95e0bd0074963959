------------------------------ MODULE AppMutex ------------------------------
(* What internal/server/app_mutation.go promises to the rest of the server:  *)
(* "One server process serializes mutations per application."  It is the     *)
(* lock the coordinator modules use; AppMutationLock implements it.          *)

CONSTANTS
    Goroutines,     \* goroutines serving RPCs
    Apps            \* application names

VARIABLE
    owner           \* owner[a]: the goroutines inside application a's lock

TypeOK == owner \in [Apps -> SUBSET Goroutines]

Init == owner = [a \in Apps |-> {}]

Take(g, a) ==
    /\ owner[a] = {}
    /\ owner' = [owner EXCEPT ![a] = {g}]

Release(g, a) ==
    /\ owner[a] = {g}
    /\ owner' = [owner EXCEPT ![a] = {}]

Next == \E g \in Goroutines, a \in Apps : Take(g, a) \/ Release(g, a)

Spec == Init /\ [][Next]_owner
=============================================================================
