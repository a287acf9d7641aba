SPECIFICATION FairSpec
CONSTANTS
    m1 = m1
    m2 = m2
    c1 = c1
    un = un
    Mac <- MCMac
    Cluster <- MCCluster
    Unclaimed = un
    Files <- Various
    NoRow = NoRow
    None = None
    Validations = {v1}
    Requests = {r1,r2}
    Prepared <- WithOrWithoutM2
INVARIANTS
    JoinedItsCluster
PROPERTIES
    ValidationEnds
    FirstClusterNeedsHelp
    DeploymentFollowsFiles
CHECK_DEADLOCK FALSE
