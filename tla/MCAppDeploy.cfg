\* One application, calls cut off at any step, one write that arrives late.
SPECIFICATION Spec
CONSTANTS
    a1 = a1  r1 = r1  d1 = d1
    Apps = {a1}
    Requests = {r1}
    NoRequest = NoRequest
    AppOf <- MCAppOf
    Configs <- MCConfigs
    NoConfig = NoConfig
    NoDomain = NoDomain
    NoCall = NoCall
    Faults = TRUE
    Overlapping = FALSE
    MaxSecret = 2
    MaxLate = 1
CHECK_DEADLOCK FALSE
INVARIANT AnswersHold
 
INVARIANT WithdrawnLeavesNoWrite
