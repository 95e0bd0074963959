\* Environment bundles: look-up and insert are two statements.
SPECIFICATION Spec
CONSTANTS
    c1 = c1  c2 = c2  r1 = r1  r2 = r2  r3 = r3  v1 = v1  v2 = v2
    Calls = {c1, c2}
    Revisions = {r1, r2, r3}
    Values = {v1, v2}
    NoValue = NoValue
    NoRevision = NoRevision
    NoCall = NoCall
    Transactional = FALSE
    MaxRevisions = 2
SYMMETRY Symmetry
INVARIANT AcknowledgedIsStored
INVARIANT SecretMatchesRevision
