----------------------------- MODULE MCClusters -----------------------------
(***************************************************************************)
(* Values for the constants of Clusters: two machines, one cluster besides *)
(* the unclaimed machines, and files in which the machines change roles,   *)
(* a worker's cluster has no master, or both clusters have one.            *)
(***************************************************************************)
EXTENDS Clusters, TLC

CONSTANTS m1, m2, c1, un

MCMac     == {m1, m2}
MCCluster == {c1, un}

Master(k) == [cluster |-> k, role |-> "master", template |-> "k3s-master"]
Worker(k) == [cluster |-> k, role |-> "worker", template |-> "k3s-worker"]
Plain     == [cluster |-> un, role |-> "none", template |-> "none"]

OneCluster == (m1 :> Master(c1)) @@ (m2 :> Worker(c1))
Swapped    == (m1 :> Worker(c1)) @@ (m2 :> Master(c1))
Left       == (m1 :> Plain) @@ (m2 :> Master(c1))
Alone      == (m1 :> NoRow)     @@ (m2 :> Master(c1))
Orphan     == (m1 :> Worker(c1)) @@ (m2 :> Master(un))
TwoMasters == (m1 :> Master(c1)) @@ (m2 :> Master(un))

Changing == {OneCluster, Swapped, Left}
Steady   == {OneCluster}
Leaving  == {OneCluster, Alone}
Various  == {OneCluster, Swapped, Left, Orphan, TwoMasters}
WithM1 == {{m1}}
WithOrWithoutM2 == {{}, {m2}}
WithNone == {{}}

\* Populates differ in nothing but their names.
Populates == Permutations(Validations)

=============================================================================
