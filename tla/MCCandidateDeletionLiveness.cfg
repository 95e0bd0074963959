SPECIFICATION DelLiveSpec
CONSTANTS
    a1 = a1  d1 = d1  p1 = p1
    Apps = {a1}
    Requests = {r1, r2}
    AppOf <- MCAppOf
    Configs <- MCConfigs
    NoConfig = NoConfig
    NoDomain = NoDomain
    Intents <- MCIntents
    NoIntent = NoIntent
    Gates <- MCGates
    NoGate = NoGate
    NoRequest = NoRequest
    NoSpec = NoSpec
    NoTarget = NoTarget
    MaxLate = 1
    MaxRevision = 9
    MaxFaults = 1
    LateMarkers = FALSE
CHECK_DEADLOCK FALSE
 
INVARIANT NothingLeftBehind
PROPERTY DeletionConcludes
