\* Two requests of one application, one of another, a shared domain.
SPECIFICATION Spec
CONSTANTS
    a1 = a1  a2 = a2  r1 = r1  r2 = r2  r3 = r3  d1 = d1  p1 = p1  p2 = p2  g1 = g1
    Apps = {a1, a2}
    Requests = {r1, r2, r3}
    AppOf <- MCAppOf
    Configs <- MCConfigs
    NoConfig = NoConfig
    NoDomain = NoDomain
    Intents <- MCIntents
    NoIntent = NoIntent
    Gates = {g1}
    NoGate = NoGate
SYMMETRY Symmetry
INVARIANT PredecessorPreserved
 
PROPERTY RecoveryIsFinal
PROPERTY ImplementsLedger
