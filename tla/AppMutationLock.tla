--------------------------- MODULE AppMutationLock ---------------------------
(* The in-process lock that serializes mutations of one application           *)
(* (internal/server/app_mutation.go).  acquire keeps a map from application   *)
(* names to reference-counted lock objects; an object is removed from the map *)
(* when its last user forgets it and a later call allocates another one.  The *)
(* map is guarded by l.mu, so each critical section is one action; the        *)
(* one-slot gate channel and the caller's context are not, so they interleave *)
(* with everything else.                                                      *)
EXTENDS Naturals, FiniteSets

CONSTANTS
    Goroutines,     \* goroutines serving RPCs; each calls acquire repeatedly
    Apps,           \* application names
    Locks,          \* addresses of appMutationLock objects; collected ones are reused
    NoLock          \* the nil *appMutationLock

ASSUME LockAssumption ==
    /\ IsFiniteSet(Goroutines)
    /\ NoLock \notin Locks

VARIABLES
    apps,           \* l.apps: the lock object of each application, or NoLock
    users,          \* lock.users of each object
    gate,           \* how many messages lock.gate holds (its capacity is 1)
    pc,             \* where each goroutine stands in acquire or release
    app,            \* the app argument of each goroutine's call
    lock,           \* the lock variable the call captured
    cancelled       \* the goroutines whose context is done

vars == <<apps, users, gate, pc, app, lock, cancelled>>

Registered == {"select", "sent", "holding", "release", "forget"}
Inside == {"sent", "holding", "release"}

UsersOf(l) == {g \in Goroutines : pc[g] \in Registered /\ lock[g] = l}

Init ==
    /\ apps = [a \in Apps |-> NoLock]
    /\ users = [l \in Locks |-> 0]
    /\ gate = [l \in Locks |-> 0]
    /\ pc = [g \in Goroutines |-> "idle"]
    /\ app \in [Goroutines -> Apps]
    /\ lock = [g \in Goroutines |-> NoLock]
    /\ cancelled = {}

Goto(g, label) == pc' = [pc EXCEPT ![g] = label]

(* An RPC names an application and calls acquire with a fresh context. *)
Call(g, a) ==
    /\ pc[g] = "idle"
    /\ Goto(g, "enter")
    /\ app' = [app EXCEPT ![g] = a]
    /\ cancelled' = cancelled \ {g}
    /\ UNCHANGED <<apps, users, gate, lock>>

(* The client goes away or the deadline passes, at any point of the call. *)
Cancel(g) ==
    /\ pc[g] # "idle"
    /\ g \notin cancelled
    /\ cancelled' = cancelled \cup {g}
    /\ UNCHANGED <<apps, users, gate, pc, app, lock>>

(* ctx.Err() on entry. *)
RefuseCancelled(g) ==
    /\ pc[g] = "enter"
    /\ g \in cancelled
    /\ Goto(g, "idle")
    /\ UNCHANGED <<apps, users, gate, app, lock, cancelled>>

PassEntryCheck(g) ==
    /\ pc[g] = "enter"
    /\ g \notin cancelled
    /\ Goto(g, "register")
    /\ UNCHANGED <<apps, users, gate, app, lock, cancelled>>

(* An object no map entry and no goroutine refers to: what the allocator can return. *)
Unreferenced(l) ==
    /\ \A a \in Apps : apps[a] # l
    /\ UsersOf(l) = {}

(* The first critical section of acquire: find or create the object, users++. *)
Join(g) ==
    /\ pc[g] = "register"
    /\ apps[app[g]] # NoLock
    /\ lock' = [lock EXCEPT ![g] = apps[app[g]]]
    /\ users' = [users EXCEPT ![apps[app[g]]] = @ + 1]
    /\ Goto(g, "select")
    /\ UNCHANGED <<apps, gate, app, cancelled>>

Allocate(g, l) ==
    /\ pc[g] = "register"
    /\ apps[app[g]] = NoLock
    /\ Unreferenced(l)
    /\ apps' = [apps EXCEPT ![app[g]] = l]
    /\ lock' = [lock EXCEPT ![g] = l]
    /\ users' = [users EXCEPT ![l] = 1]
    /\ gate' = [gate EXCEPT ![l] = 0]
    /\ Goto(g, "select")
    /\ UNCHANGED <<app, cancelled>>

(* Mutant of Send: a gate without a capacity. *)
SendWithoutSlot(g) ==
    /\ pc[g] = "select"
    /\ gate' = [gate EXCEPT ![lock[g]] = 1]
    /\ Goto(g, "sent")
    /\ UNCHANGED <<apps, users, app, lock, cancelled>>

(* case lock.gate <- struct{}{} : the send that takes the slot. *)
Send(g) ==
    /\ pc[g] = "select"
    /\ gate[lock[g]] = 0
    /\ gate' = [gate EXCEPT ![lock[g]] = 1]
    /\ Goto(g, "sent")
    /\ UNCHANGED <<apps, users, app, lock, cancelled>>

(* case <-ctx.Done() : give up waiting. *)
GiveUp(g) ==
    /\ pc[g] = "select"
    /\ g \in cancelled
    /\ Goto(g, "forget")
    /\ UNCHANGED <<apps, users, gate, app, lock, cancelled>>

(* Mutant of Grant: a context found done after the send skips release. *)
GrantWithoutRelease(g) ==
    /\ pc[g] = "sent"
    /\ Goto(g, IF g \in cancelled THEN "forget" ELSE "holding")
    /\ UNCHANGED <<apps, users, gate, app, lock, cancelled>>

(* ctx.Err() after the send: select may choose the send although ctx is done. *)
Grant(g) ==
    /\ pc[g] = "sent"
    /\ Goto(g, IF g \in cancelled THEN "release" ELSE "holding")
    /\ UNCHANGED <<apps, users, gate, app, lock, cancelled>>

(* The RPC handler returns and its deferred release runs. *)
Finish(g) ==
    /\ pc[g] = "holding"
    /\ Goto(g, "release")
    /\ UNCHANGED <<apps, users, gate, app, lock, cancelled>>

(* release: receive from the gate, which blocks on an empty channel. *)
Drain(g) ==
    /\ pc[g] = "release"
    /\ gate[lock[g]] > 0
    /\ gate' = [gate EXCEPT ![lock[g]] = @ - 1]
    /\ Goto(g, "forget")
    /\ UNCHANGED <<apps, users, app, lock, cancelled>>

(* Mutant of Forget: the entry dropped although others still wait. *)
ForgetDropsEntry(g) ==
    /\ pc[g] = "forget"
    /\ users' = [users EXCEPT ![lock[g]] = @ - 1]
    /\ apps' = [apps EXCEPT ![app[g]] = NoLock]
    /\ lock' = [lock EXCEPT ![g] = NoLock]
    /\ Goto(g, "idle")
    /\ UNCHANGED <<gate, app, cancelled>>

(* forget: users--, and drop the map entry when nobody is left. *)
Forget(g) ==
    /\ pc[g] = "forget"
    /\ users' = [users EXCEPT ![lock[g]] = @ - 1]
    /\ apps' = IF users[lock[g]] = 1 THEN [apps EXCEPT ![app[g]] = NoLock] ELSE apps
    /\ lock' = [lock EXCEPT ![g] = NoLock]
    /\ Goto(g, "idle")
    /\ UNCHANGED <<gate, app, cancelled>>

Step(g) ==
    \/ RefuseCancelled(g)
    \/ PassEntryCheck(g)
    \/ Join(g)
    \/ \E l \in Locks : Allocate(g, l)
    \/ GiveUp(g)
    \/ Grant(g)
    \/ Finish(g)
    \/ Drain(g)
    \/ Forget(g)

Next ==
    \E g \in Goroutines :
        \/ \E a \in Apps : Call(g, a)
        \/ Cancel(g)
        \/ Send(g)
        \/ Step(g)

Spec == Init /\ [][Next]_vars

(* Every runnable goroutine is eventually scheduled, and handlers return.  Go *)
(* queues blocked senders of a channel in order, so a sender that keeps       *)
(* finding the slot empty again is served: strong fairness on the send.       *)
FairSpec ==
    /\ Spec
    /\ \A g \in Goroutines : WF_vars(Step(g)) /\ SF_vars(Send(g))

-----------------------------------------------------------------------------
(* The map, the counters and the locals of acquire have their types; the      *)
(* buffered channel of a lock holds at most its one token, and users never    *)
(* drops below zero.                                                          *)
TypeOK ==
    /\ apps \in [Apps -> Locks \cup {NoLock}]
    /\ users \in [Locks -> Nat]
    /\ gate \in [Locks -> 0..1]
    /\ pc \in [Goroutines -> {"idle", "enter", "register"} \cup Registered]
    /\ app \in [Goroutines -> Apps]
    /\ lock \in [Goroutines -> Locks \cup {NoLock}]
    /\ cancelled \subseteq Goroutines

(* Two goroutines are never between the send and the receive for the same     *)
(* application: acquire serializes mutations per application even though the  *)
(* lock object is removed from the map and allocated again.                   *)
MutualExclusion ==
    \A g, h \in Goroutines :
        (pc[g] \in Inside /\ pc[h] \in Inside /\ app[g] = app[h]) => g = h

(* The map holds an object exactly as long as some call refers to it, every   *)
(* call of an application refers to that one object, and users counts them:   *)
(* forget leaves neither a leaked entry nor a second object for a waiter.     *)
EntriesTrackUsers ==
    /\ \A g \in Goroutines : pc[g] \in Registered => apps[app[g]] = lock[g]
    /\ \A a \in Apps : apps[a] # NoLock => users[apps[a]] > 0
    /\ \A l \in Locks : users[l] = Cardinality(UsersOf(l))

(* The receive in release never finds the gate empty, so a deferred release   *)
(* cannot hang the RPC that runs it.                                          *)
ReleaseNeverBlocks ==
    \A g \in Goroutines : pc[g] = "release" => gate[lock[g]] = 1

(* A call that entered the wait either gets the lock or, once its context is  *)
(* done, returns: no waiter is stranded on an object nobody will signal.      *)
WaiterIsServed ==
    \A g \in Goroutines : (pc[g] = "select") ~> (pc[g] \in {"holding", "idle"})

(* The promise the coordinators rely on. *)
Mutex == INSTANCE AppMutex WITH
            owner <- [a \in Apps |-> {g \in Goroutines : pc[g] \in Inside /\ app[g] = a}]

(* acquire and release implement the per-application mutex: taking is only    *)
(* ever possible when nobody is inside, releasing only from inside.           *)
ImplementsMutex == Mutex!Spec
=============================================================================
