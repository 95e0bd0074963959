\* Handlers one at a time for every RPC and two at a time for enrolment; each
\* may fail after any of its steps.
SPECIFICATION Spec
CONSTANTS
    Bits = 29
    HubIP = 1
    Names = {n1, n2}
    Ids = {i1, i2}
    Keys = {k1, k2}
    Tokens = {t1, t2}
    Callers = {c1, c2}
    Loads <- MCLoads
    Faults = TRUE
    NoKey = NoKey
    NoId = NoId
    NoName = NoName
    NoToken = NoToken
    NoCall = NoCall
SYMMETRY Symmetric
\* Every agent has joined or failed and every token is spent: nothing is left.
CHECK_DEADLOCK FALSE
INVARIANT RemovedIsCutOff
 
 
INVARIANT PeersDistinct
INVARIANT TokenAdmitsOnce
