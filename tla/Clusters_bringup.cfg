SPECIFICATION SmoothSpec
CONSTANTS
    m1 = m1
    m2 = m2
    c1 = c1
    un = un
    Mac <- MCMac
    Cluster <- MCCluster
    Unclaimed = un
    Files <- Steady
    NoRow = NoRow
    None = None
    Validations = {v1}
    Requests = {r1}
    Prepared <- WithNone
PROPERTIES
    ClusterComesUp
CHECK_DEADLOCK FALSE
