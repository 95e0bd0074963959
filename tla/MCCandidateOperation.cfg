SPECIFICATION OpSpec
CONSTANTS
    a1 = a1  r1 = r1  r2 = r2  d1 = d1  d2 = d2  p1 = p1
    Apps = {a1}
    Requests = {r1, r2}
    AppOf <- MCAppOf
    Configs <- MCConfigs
    NoConfig = NoConfig
    NoDomain = NoDomain
    Intents <- MCIntents
    NoIntent = NoIntent
    Gates <- MCGates
    NoGate = NoGate
    NoRequest = NoRequest
    NoSpec = NoSpec
    NoTarget = NoTarget
    MaxLate = 2
    MaxRevision = 12
CHECK_DEADLOCK FALSE
SYMMETRY Symmetry
INVARIANT ServedIsRunning
 
INVARIANT PredecessorRestorable
INVARIANT WithdrawnStaysOut
PROPERTY WithdrawalBarsActivation
