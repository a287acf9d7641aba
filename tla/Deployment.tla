------------------------------ MODULE Deployment ------------------------------
(***************************************************************************)
(* What the worker promises of the machines it runs playbooks on, whatever *)
(* requests, Populates and crashes interleave: it follows what clients.csv *)
(* said at some time, it uses only a control plane whose kubeconfig it     *)
(* has, and it undoes nothing.  How a handler comes to know the control    *)
(* plane (the table of clusters, GetClusters, FetchToken) is left out.     *)
(***************************************************************************)
CONSTANTS
    Mac,                \* machines
    Files,              \* the contents clients.csv may have
    NoRow,              \* no row for a machine
    None,               \* no server
    Prepared            \* sets of machines that may have a cluster beforehand

VARIABLES
    server,             \* machines that run a k3s server
    kubeconfig,         \* machines whose kubeconfig is in assets/ansible
    joined,             \* the server each k3s agent has joined
    seen                \* the files read so far

vars == <<server, kubeconfig, joined, seen>>

Init ==
    /\ server \in Prepared
    /\ kubeconfig = server
    /\ joined = [m \in Mac |-> None]
    /\ seen = {}

\* The machines m may be joined to, or installed next to: one file gave m the
\* template and a cluster, one file made them masters of that cluster.
ControlPlane(m, template) ==
    {s \in kubeconfig :
        \E f \in seen, g \in seen :
            /\ f[m] # NoRow /\ f[m].template = template
            /\ g[s] # NoRow /\ g[s].role = "master"
            /\ g[s].cluster = f[m].cluster}

Learn ==
    /\ \E f \in Files : seen' = seen \union {f}
    /\ UNCHANGED <<server, kubeconfig, joined>>

\* The kubeconfig of a new server is fetched last, and may be missed.
Install(m) ==
    /\ joined[m] = None
    /\ ControlPlane(m, "k3s-master") # {}
    /\ server' = server \union {m}
    /\ kubeconfig' \in {kubeconfig, kubeconfig \union {m}}
    /\ UNCHANGED <<joined, seen>>

Join(m) ==
    /\ joined[m] = None
    /\ \E s \in ControlPlane(m, "k3s-worker") : joined' = [joined EXCEPT ![m] = s]
    /\ UNCHANGED <<server, kubeconfig, seen>>

Next == Learn \/ \E m \in Mac : Install(m) \/ Join(m)

Spec == Init /\ [][Next]_vars

=============================================================================
