\* SetSecret and DeleteSecret run beside deployments; nothing fails.
SPECIFICATION Spec
CONSTANTS
    a1 = a1  r1 = r1  d1 = d1
    Apps = {a1}
    Requests = {r1}
    NoRequest = NoRequest
    AppOf <- MCAppOf
    Configs <- MCConfigs
    NoConfig = NoConfig
    NoDomain = NoDomain
    NoCall = NoCall
    Faults = FALSE
    Overlapping = TRUE
    MaxSecret = 2
    MaxLate = 0
CHECK_DEADLOCK FALSE
INVARIANT AnswersHold
