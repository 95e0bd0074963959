\* Three calls in flight on two applications: a holder, a waiter and a
\* canceller, fairly scheduled; no symmetry because of the liveness property.
SPECIFICATION FairSpec
CONSTANTS
    Goroutines = {g1, g2, g3}
    Apps = {a1, a2}
    Locks = {l1, l2, l3}
    NoLock = NoLock
INVARIANT EntriesTrackUsers
PROPERTY ImplementsMutex
PROPERTY WaiterIsServed
