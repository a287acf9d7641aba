SPECIFICATION Spec
CONSTANTS
    m1 = m1
    m2 = m2
    c1 = c1
    un = un
    Mac <- MCMac
    Cluster <- MCCluster
    Unclaimed = un
    Files <- Leaving
    NoRow = NoRow
    None = None
    Validations = {v1,v2}
    Requests = {r1}
    Prepared <- WithM1
SYMMETRY
    Populates
INVARIANTS
    TypeOK
    TokenOfOwnNode
    JoinedItsCluster
    SerialTableAgrees
    ProbesFindTheirCluster
PROPERTIES
    DeploymentFollowsFiles
CHECK_DEADLOCK FALSE
