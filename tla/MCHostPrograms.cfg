\* Each host by itself, with two of each of its programs at a time.
SPECIFICATION HostSpec
CONSTANTS
    Processes = {p1, p2}
    MaxKeys = 2
    MaxTokens = 2
    MaxIds = 2
    MaxWrites = 1
    Addresses = {a1, a2}
    Invocations = {c1, c2}
    Names = {n1}
    NoName = NoName
    Endpoints = {u1}
    NoUrl = NoUrl
    Installations = {s1, old}
    Reporting = {s1}
    FirstServer = s1
    NoIdentity = NoIdentity
    MaxMoves = 1
    MaxJoins = 2
INVARIANT BackupIsWhole
INVARIANT IdentityStable
 
INVARIANT BoundCommandHolds
INVARIANT InstalledOverEnrolledTunnel
 
PROPERTY StopConcludes
PROPERTY K3sConfigKept
PROPERTY BindingKept
PROPERTY AgentIsHeard
\* A host on which nothing is left to run is idle.
CHECK_DEADLOCK FALSE
