------------------------ MODULE AppMutationLockProofs ------------------------
(* Proofs about AppMutationLock for every set of goroutines, applications and *)
(* lock addresses: mutual exclusion, and that the lock implements AppMutex.   *)
EXTENDS AppMutationLock, FiniteSetTheorems, TLAPS

USE ZenonT(30)

(* A call refers to the object its application's map entry names. *)
RefersToEntry ==
    \A g \in Goroutines : pc[g] \in Registered => lock[g] \in Locks /\ apps[app[g]] = lock[g]

(* Two applications never share an object. *)
EntriesDistinct ==
    \A a, b \in Apps : apps[a] = apps[b] /\ apps[a] # NoLock => a = b

EntriesUsed == \A a \in Apps : apps[a] # NoLock => users[apps[a]] > 0

UsersCounted == \A l \in Locks : users[l] = Cardinality(UsersOf(l))

(* The one slot of a gate belongs to the one call that is inside. *)
SlotOwned ==
    /\ \A g \in Goroutines : pc[g] \in Inside => gate[lock[g]] = 1
    /\ \A g, h \in Goroutines : pc[g] \in Inside /\ pc[h] \in Inside /\ lock[g] = lock[h] => g = h

IInv == TypeOK /\ RefersToEntry /\ EntriesDistinct /\ EntriesUsed /\ UsersCounted /\ SlotOwned

(* The users of an object are finitely many, since goroutines are.  users is  *)
(* lowered and raised by one as acquire and forget add and remove one call.   *)
LEMMA UsersFinite ==
    ASSUME NEW l
    PROVE  IsFiniteSet(UsersOf(l)) /\ Cardinality(UsersOf(l)) \in Nat
<1>1. UsersOf(l) \subseteq Goroutines
  BY DEF UsersOf
<1> QED
  BY <1>1, LockAssumption, FS_Subset, FS_CardinalityType

(* Steps of acquire that neither register nor forget keep every user set. *)
LEMMA UsersKept ==
    ASSUME TypeOK, NEW g \in Goroutines, lock' = lock,
           NEW label, pc' = [pc EXCEPT ![g] = label],
           pc[g] \in Registered <=> label \in Registered, UsersCounted, users' = users
    PROVE  UsersCounted'
<1>1. ASSUME NEW l PROVE UsersOf(l)' = UsersOf(l)
  BY DEF UsersOf, TypeOK
<1> QED
  BY <1>1 DEF UsersCounted

(* Init establishes the invariant: the map is empty and nobody is registered. *)
LEMMA InitIInv == Init => IInv
<1> SUFFICES ASSUME Init PROVE IInv
  OBVIOUS
<1>1. \A l : UsersOf(l) = {}
  BY DEF Init, UsersOf, Registered
<1>2. UsersCounted
  BY <1>1, FS_EmptySet DEF Init, UsersCounted
<1>3. TypeOK
  BY SMTT(30) DEF Init, TypeOK
<1>4. RefersToEntry /\ EntriesDistinct /\ EntriesUsed /\ SlotOwned
  BY DEF Init, RefersToEntry, EntriesDistinct, EntriesUsed, SlotOwned, Registered, Inside
<1> QED
  BY <1>2, <1>3, <1>4 DEF IInv

(* Join, the branch of acquire that finds a map entry, preserves the invariant. *)
LEMMA JoinIInv ==
    ASSUME IInv, NEW g \in Goroutines, Join(g)
    PROVE  IInv'
<1> USE DEF IInv
<1>0. PICK k \in Locks : k = apps[app[g]]
  BY DEF Join, TypeOK
<1>1. k \in Locks /\ app[g] \in Apps /\ lock' = [lock EXCEPT ![g] = k]
      /\ pc' = [pc EXCEPT ![g] = "select"] /\ users' = [users EXCEPT ![k] = @ + 1]
      /\ UNCHANGED <<apps, gate, app, cancelled>> /\ pc[g] = "register"
  BY <1>0 DEF Join, Goto, TypeOK
<1>2. TypeOK'
  BY <1>1, SMTT(30) DEF TypeOK, Registered
<1>3. RefersToEntry' /\ EntriesDistinct'
  BY <1>0, <1>1 DEF RefersToEntry, EntriesDistinct, TypeOK, Registered
<1>4. EntriesUsed'
  BY <1>1, SMTT(30) DEF EntriesUsed, TypeOK
<1>5. UsersOf(k)' = UsersOf(k) \cup {g} /\ g \notin UsersOf(k)
  BY <1>1 DEF UsersOf, TypeOK, Registered
<1>6. \A l \in Locks : l # k => UsersOf(l)' = UsersOf(l)
  BY <1>1 DEF UsersOf, TypeOK, Registered
<1>7. Cardinality(UsersOf(k) \cup {g}) = Cardinality(UsersOf(k)) + 1
  BY <1>5, UsersFinite, FS_AddElement
<1>8. UsersCounted'
  BY <1>1, <1>5, <1>6, <1>7 DEF UsersCounted, TypeOK
<1>9. SlotOwned'
  BY <1>1 DEF SlotOwned, TypeOK, Inside
<1> QED
  BY <1>2, <1>3, <1>4, <1>8, <1>9

(* Allocate, the branch of acquire that creates the object, preserves it. *)
LEMMA AllocateIInv ==
    ASSUME IInv, NEW g \in Goroutines, NEW k \in Locks, Allocate(g, k)
    PROVE  IInv'
<1> USE DEF IInv
<1>1. app[g] \in Apps /\ apps' = [apps EXCEPT ![app[g]] = k] /\ lock' = [lock EXCEPT ![g] = k]
      /\ pc' = [pc EXCEPT ![g] = "select"] /\ users' = [users EXCEPT ![k] = 1]
      /\ gate' = [gate EXCEPT ![k] = 0] /\ UNCHANGED <<app, cancelled>> /\ pc[g] = "register"
      /\ apps[app[g]] = NoLock
  BY DEF Allocate, Goto, TypeOK
<1>2. UsersOf(k) = {} /\ \A a \in Apps : apps[a] # k
  BY DEF Allocate, Unreferenced
<1>3. \A h \in Goroutines : pc[h] \in Registered => lock[h] # k /\ app[h] # app[g]
  BY <1>1, <1>2, LockAssumption DEF UsersOf, RefersToEntry
<1>4. TypeOK'
  BY <1>1, SMTT(30) DEF TypeOK, Registered
<1>5. RefersToEntry'
  BY <1>1, <1>3 DEF RefersToEntry, TypeOK, Registered
<1>6. EntriesDistinct'
  BY <1>1, <1>2 DEF EntriesDistinct, TypeOK
<1>7. EntriesUsed'
  BY <1>1, <1>2, SMTT(30) DEF EntriesUsed, TypeOK
<1>8. UsersOf(k)' = {g}
  BY <1>1, <1>3 DEF UsersOf, TypeOK, Registered
<1>9. \A l \in Locks : l # k => UsersOf(l)' = UsersOf(l)
  BY <1>1 DEF UsersOf, TypeOK, Registered
<1>10. UsersCounted'
  BY <1>1, <1>8, <1>9, FS_Singleton DEF UsersCounted, TypeOK
<1>11. SlotOwned'
  BY <1>1, <1>3, SMTT(30) DEF SlotOwned, TypeOK, Inside, Registered
<1> QED
  BY <1>4, <1>5, <1>6, <1>7, <1>10, <1>11

(* forget preserves it: the entry goes only with the last user. *)
LEMMA ForgetIInv ==
    ASSUME IInv, NEW g \in Goroutines, Forget(g)
    PROVE  IInv'
<1> USE DEF IInv
<1>0. PICK k \in Locks : k = lock[g]
  BY DEF Forget, RefersToEntry, TypeOK, Registered
<1>1. pc[g] = "forget" /\ k \in Locks /\ apps[app[g]] = k /\ app[g] \in Apps /\ k = lock[g]
  BY <1>0 DEF Forget, RefersToEntry, TypeOK, Registered
<1>2. lock' = [lock EXCEPT ![g] = NoLock] /\ pc' = [pc EXCEPT ![g] = "idle"]
      /\ users' = [users EXCEPT ![k] = @ - 1] /\ UNCHANGED <<gate, app, cancelled>>
      /\ apps' = IF users[k] = 1 THEN [apps EXCEPT ![app[g]] = NoLock] ELSE apps
  BY <1>0 DEF Forget, Goto
<1>3. users[k] \in Nat /\ users[k] > 0
  BY <1>1, LockAssumption DEF EntriesUsed, TypeOK
<1>4. g \in UsersOf(k) /\ UsersOf(k)' = UsersOf(k) \ {g}
  BY <1>1, <1>2 DEF UsersOf, TypeOK, Registered
<1>5. \A l \in Locks : l # k => UsersOf(l)' = UsersOf(l)
  BY <1>1, <1>2 DEF UsersOf, TypeOK, Registered
<1>6. Cardinality(UsersOf(k) \ {g}) = Cardinality(UsersOf(k)) - 1
  BY <1>4, UsersFinite, FS_RemoveElement
<1>7. UsersCounted'
  BY <1>1, <1>2, <1>4, <1>5, <1>6 DEF UsersCounted, TypeOK
<1>8. TypeOK'
  BY <1>1, <1>2, <1>3, SMTT(30) DEF TypeOK, Registered
<1>9. ASSUME users[k] = 1, NEW h \in Goroutines, pc[h] \in Registered, h # g
      PROVE  app[h] # app[g]
  <2>1. Cardinality(UsersOf(k)) = 1
    BY <1>1, <1>9 DEF UsersCounted
  <2>2. UsersOf(k) = {g}
    BY <2>1, <1>4, UsersFinite, FS_Singleton, SMTT(30)
  <2> QED
    BY <2>2, <1>1, <1>9 DEF RefersToEntry, UsersOf
<1>10. RefersToEntry'
  BY <1>1, <1>2, <1>9 DEF RefersToEntry, TypeOK, Registered
<1>11. EntriesDistinct'
  BY <1>1, <1>2 DEF EntriesDistinct, TypeOK
<1>12. EntriesUsed'
  BY <1>1, <1>2, <1>3, LockAssumption, SMTT(30) DEF EntriesUsed, EntriesDistinct, TypeOK
<1>13. SlotOwned'
  BY <1>1, <1>2 DEF SlotOwned, TypeOK, Inside, Registered
<1> QED
  BY <1>7, <1>8, <1>10, <1>11, <1>12, <1>13

(* The steps around the gate: the send takes a free slot, the receive gives   *)
(* back the caller's own, the others leave the gates alone.                   *)
LEMMA GateIInv ==
    ASSUME IInv, NEW g \in Goroutines,
           Send(g) \/ GiveUp(g) \/ Grant(g) \/ Finish(g) \/ Drain(g)
    PROVE  IInv'
<1> USE DEF IInv
<1>1. PICK label \in {"sent", "holding", "release", "forget"} : pc' = [pc EXCEPT ![g] = label]
  BY DEF Send, GiveUp, Grant, Finish, Drain, Goto
<1>2. pc[g] \in Registered /\ UNCHANGED <<apps, users, app, lock, cancelled>>
  BY DEF Send, GiveUp, Grant, Finish, Drain, Registered
<1>3. UsersCounted'
  BY <1>1, <1>2, UsersKept DEF Registered
<1>4. lock[g] \in Locks
  BY <1>2 DEF RefersToEntry
<1>5. TypeOK'
  <2>1. gate' \in [Locks -> 0..1]
    BY <1>4, SMTT(30) DEF TypeOK, Send, GiveUp, Grant, Finish, Drain
  <2> QED
    BY <2>1, <1>1, <1>2 DEF TypeOK, Registered
<1>6. RefersToEntry' /\ EntriesDistinct' /\ EntriesUsed'
  BY <1>1, <1>2 DEF RefersToEntry, EntriesDistinct, EntriesUsed, TypeOK
<1>7. SlotOwned'
  <2>1. CASE Send(g)
    <3>1. \A h \in Goroutines : pc[h] \in Inside => lock[h] # lock[g]
      BY <2>1, SMTT(30) DEF Send, SlotOwned
    <3>2. gate' = [gate EXCEPT ![lock[g]] = 1]
      BY <2>1 DEF Send
    <3> QED
      BY <3>1, <3>2, <1>1, <1>2, <1>4, SMTT(30) DEF SlotOwned, TypeOK, Inside
  <2>2. CASE Drain(g)
    <3>1. \A h \in Goroutines : pc[h] \in Inside /\ h # g => lock[h] # lock[g]
      BY <2>2 DEF Drain, SlotOwned, Inside
    <3>2. gate' = [gate EXCEPT ![lock[g]] = @ - 1] /\ pc' = [pc EXCEPT ![g] = "forget"]
      BY <2>2 DEF Drain, Goto
    <3> QED
      BY <3>1, <3>2, <1>2, <1>4 DEF SlotOwned, TypeOK, Inside, RefersToEntry, Registered
  <2>3. CASE GiveUp(g) \/ Grant(g) \/ Finish(g)
    BY <2>3, <1>2, SMTT(30) DEF GiveUp, Grant, Finish, Goto, SlotOwned, TypeOK, Inside
  <2> QED
    BY <2>1, <2>2, <2>3
<1> QED
  BY <1>3, <1>5, <1>6, <1>7

(* The steps outside the registered part of a call. *)
LEMMA OutsideIInv ==
    ASSUME IInv, NEW g \in Goroutines,
           (\E a \in Apps : Call(g, a)) \/ Cancel(g) \/ RefuseCancelled(g) \/ PassEntryCheck(g)
    PROVE  IInv'
<1> USE DEF IInv
<1>1. CASE Cancel(g)
  <2>1. UNCHANGED <<apps, users, gate, pc, app, lock>> /\ cancelled' \subseteq Goroutines
    BY <1>1 DEF Cancel, TypeOK
  <2>2. ASSUME NEW l PROVE UsersOf(l)' = UsersOf(l)
    BY <2>1 DEF UsersOf
  <2> QED
    BY <2>1, <2>2 DEF TypeOK, RefersToEntry, EntriesDistinct, EntriesUsed, UsersCounted, SlotOwned
<1>2. CASE (\E a \in Apps : Call(g, a)) \/ RefuseCancelled(g) \/ PassEntryCheck(g)
  <2>1. PICK label \in {"idle", "enter", "register"} : pc' = [pc EXCEPT ![g] = label]
    BY <1>2 DEF Call, RefuseCancelled, PassEntryCheck, Goto
  <2>2. pc[g] \notin Registered /\ UNCHANGED <<apps, users, gate, lock>>
    BY <1>2 DEF Call, RefuseCancelled, PassEntryCheck, Registered
  <2>3. PICK a \in Apps : app' = [app EXCEPT ![g] = a]
    <3>1. CASE \E a \in Apps : Call(g, a)
      BY <3>1 DEF Call
    <3>2. CASE RefuseCancelled(g) \/ PassEntryCheck(g)
      BY <3>2, SMTT(30) DEF RefuseCancelled, PassEntryCheck, TypeOK
    <3> QED
      BY <3>1, <3>2, <1>2
  <2>4. UsersCounted'
    BY <2>1, <2>2, UsersKept DEF Registered
  <2>5. TypeOK'
    BY <1>2, <2>1, <2>2, <2>3 DEF TypeOK, Call, RefuseCancelled, PassEntryCheck
  <2>6. RefersToEntry' /\ EntriesDistinct' /\ EntriesUsed'
    BY <2>1, <2>2, <2>3 DEF RefersToEntry, EntriesDistinct, EntriesUsed, TypeOK, Registered
  <2>7. SlotOwned'
    BY <2>1, <2>2 DEF SlotOwned, TypeOK, Inside, Registered
  <2> QED
    BY <2>4, <2>5, <2>6, <2>7
<1> QED
  BY <1>1, <1>2

(* Every step of acquire and release preserves the inductive invariant. *)
LEMMA NextIInv == IInv /\ [Next]_vars => IInv'
<1> SUFFICES ASSUME IInv, [Next]_vars PROVE IInv'
  OBVIOUS
<1>1. CASE UNCHANGED vars
  <2>1. ASSUME NEW l PROVE UsersOf(l)' = UsersOf(l)
    BY <1>1 DEF vars, UsersOf
  <2> QED
    BY <1>1, <2>1 DEF vars, IInv, TypeOK, RefersToEntry, EntriesDistinct, EntriesUsed, UsersCounted, SlotOwned
<1>2. ASSUME NEW g \in Goroutines, (\E a \in Apps : Call(g, a)) \/ Cancel(g) \/ Send(g) \/ Step(g)
      PROVE  IInv'
  BY <1>2, JoinIInv, AllocateIInv, ForgetIInv, GateIInv, OutsideIInv DEF Step
<1> QED
  BY <1>1, <1>2 DEF Next

(* The inductive invariant holds in every reachable state of the lock. *)
THEOREM LockInvariant == Spec => []IInv
<1> QED
  BY InitIInv, NextIInv, PTL DEF Spec

(* Type correctness of the lock's state: in particular users never goes       *)
(* negative and a gate never holds more than its one message.                 *)
THEOREM LockTypes == Spec => []TypeOK
<1>1. IInv => TypeOK
  BY DEF IInv
<1> QED
  BY <1>1, LockInvariant, PTL

(* acquire serializes the mutations of one application, for any number of     *)
(* goroutines and applications and any reuse of lock objects.                 *)
THEOREM LockMutualExclusion == Spec => []MutualExclusion
<1>1. IInv => MutualExclusion
  BY SMTT(30) DEF IInv, MutualExclusion, RefersToEntry, SlotOwned, Inside, Registered
<1> QED
  BY <1>1, LockInvariant, PTL

(* The map holds exactly the objects in use and users counts their users. *)
THEOREM LockEntriesTrackUsers == Spec => []EntriesTrackUsers
<1>1. IInv => EntriesTrackUsers
  BY DEF IInv, EntriesTrackUsers, RefersToEntry, EntriesUsed, UsersCounted
<1> QED
  BY <1>1, LockInvariant, PTL

(* The receive in release always finds the caller's own message. *)
THEOREM LockReleaseNeverBlocks == Spec => []ReleaseNeverBlocks
<1>1. IInv => ReleaseNeverBlocks
  BY DEF IInv, ReleaseNeverBlocks, SlotOwned, Inside
<1> QED
  BY <1>1, LockInvariant, PTL

(* The refinement mapping: who is between the send and the receive. *)
InsideOf(a) == {g \in Goroutines : pc[g] \in Inside /\ app[g] = a}

(* A step that moves g from outside to inside its application's gate is a     *)
(* Take, one that moves it back is a Release, and any other step stutters.    *)
LEMMA StepRefines ==
    ASSUME IInv, [Next]_vars
    PROVE  \/ \E g \in Goroutines, a \in Apps : Mutex!Take(g, a) \/ Mutex!Release(g, a)
           \/ UNCHANGED [a \in Apps |-> InsideOf(a)]
<1> USE DEF IInv
<1>1. CASE \E g \in Goroutines : Send(g)
  <2>1. PICK g \in Goroutines : Send(g)
    BY <1>1
  <2>2. app[g] \in Apps /\ lock[g] \in Locks /\ app' = app /\ pc' = [pc EXCEPT ![g] = "sent"]
    BY <2>1 DEF Send, Goto, TypeOK, RefersToEntry, Registered
  <2>3. InsideOf(app[g]) = {}
    BY <2>1, SMTT(30) DEF Send, InsideOf, SlotOwned, RefersToEntry, Inside, Registered
  <2>4. PICK a \in Apps : a = app[g]
    BY <2>2
  <2>5. InsideOf(a)' = {g} /\ \A b \in Apps : b # a => InsideOf(b)' = InsideOf(b)
    BY <2>1, <2>2, <2>3, <2>4 DEF InsideOf, Inside, TypeOK, Send
  <2>6. Mutex!Take(g, a)
    <3>1. [x \in Apps |-> InsideOf(x)]' = [[x \in Apps |-> InsideOf(x)] EXCEPT ![a] = {g}]
      BY <2>5
    <3> QED
      BY <2>3, <2>4, <3>1 DEF Mutex!Take, InsideOf
  <2> QED
    BY <2>6
<1>2. CASE \E g \in Goroutines : Drain(g)
  <2>1. PICK g \in Goroutines : Drain(g)
    BY <1>2
  <2>2. app' = app /\ pc' = [pc EXCEPT ![g] = "forget"] /\ pc[g] = "release"
    BY <2>1 DEF Drain, Goto
  <2>3. PICK a \in Apps : a = app[g]
    BY DEF TypeOK
  <2>4. InsideOf(a) = {g}
    BY <2>2, <2>3, SMTT(30) DEF InsideOf, SlotOwned, RefersToEntry, Inside, Registered
  <2>5. InsideOf(a)' = {} /\ \A b \in Apps : b # a => InsideOf(b)' = InsideOf(b)
    BY <2>2, <2>3, <2>4 DEF InsideOf, Inside, TypeOK
  <2>6. Mutex!Release(g, a)
    <3>1. [x \in Apps |-> InsideOf(x)]' = [[x \in Apps |-> InsideOf(x)] EXCEPT ![a] = {}]
      BY <2>5
    <3> QED
      BY <2>4, <3>1 DEF Mutex!Release, InsideOf
  <2> QED
    BY <2>6
<1>3. CASE \E g \in Goroutines : Cancel(g) \/ \E a \in Apps : Call(g, a)
  BY <1>3, SMTT(30) DEF Cancel, Call, Goto, InsideOf, Inside, TypeOK
<1>4. CASE \E g \in Goroutines : RefuseCancelled(g) \/ PassEntryCheck(g) \/ Join(g) \/ GiveUp(g)
                                 \/ Grant(g) \/ Finish(g) \/ Forget(g) \/ \E l \in Locks : Allocate(g, l)
  <2>1. PICK g \in Goroutines : RefuseCancelled(g) \/ PassEntryCheck(g) \/ Join(g) \/ GiveUp(g)
                                 \/ Grant(g) \/ Finish(g) \/ Forget(g) \/ \E l \in Locks : Allocate(g, l)
    BY <1>4
  <2>2. app' = app
    BY <2>1 DEF RefuseCancelled, PassEntryCheck, Join, Allocate, GiveUp, Grant, Finish, Forget
  <2>3. \A h \in Goroutines : pc'[h] \in Inside <=> pc[h] \in Inside
    BY <2>1 DEF RefuseCancelled, PassEntryCheck, Join, Allocate, GiveUp, Grant, Finish, Forget, Goto, Inside, TypeOK
  <2> QED
    BY <2>2, <2>3 DEF InsideOf
<1>5. CASE UNCHANGED vars
  BY <1>5 DEF vars, InsideOf
<1> QED
  BY <1>1, <1>2, <1>3, <1>4, <1>5 DEF Next, Step

(* acquire and release implement the per-application mutex that the           *)
(* coordinators assume.                                                       *)
THEOREM LockRefinesMutex == Spec => ImplementsMutex
<1>1. Init => Mutex!Init
  BY DEF Init, Mutex!Init, Inside
<1>2. IInv /\ [Next]_vars => [Mutex!Next]_([a \in Apps |-> {g \in Goroutines : pc[g] \in Inside /\ app[g] = a}])
  BY StepRefines DEF Mutex!Next, InsideOf
<1> QED
  BY <1>1, <1>2, LockInvariant, PTL DEF Spec, ImplementsMutex, Mutex!Spec
==============================================================================
