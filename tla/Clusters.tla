------------------------------- MODULE Clusters -------------------------------
(***************************************************************************)
(* The table of Kubernetes clusters (package kubeclient) and what fills    *)
(* and uses it:                                                            *)
(*                                                                         *)
(*   - the goroutine each Populate starts, which gives every cluster of    *)
(*     the file a fresh object and asks every machine of it for its token  *)
(*     (a validation, with one FetchToken goroutine per machine);          *)
(*   - GET /ansible, /ansible-token and /kubernetes;                       *)
(*   - GetClusters, which all of them call, one step per network call.     *)
(*                                                                         *)
(* Populate is taken here as one step, with the contents of a whole file;  *)
(* that it may be is what FileData establishes.  A machine stands for its  *)
(* own address, and a token for the machine whose k3s server issued it.    *)
(***************************************************************************)
CONSTANTS
    Mac,                \* machines
    Cluster,            \* values of the column CLUSTER
    Unclaimed,          \* the name Populate gives to an empty column
    Files,              \* the contents clients.csv may have
    NoRow,              \* no row for a machine
    None,               \* a field, pointer or map entry without a value
    Validations,        \* bound: the Populates, each runs once
    Requests,           \* bound: GET requests, each sent at most once
    Prepared            \* sets of machines that may have k3s and a kubeconfig
                        \* beforehand

Row  == [cluster : Cluster, role : {"master", "worker", "none"},
         template : {"k3s-master", "k3s-worker", "none"}]
File == [Mac -> Row \union {NoRow}]

Fetches == Validations \X Mac
Calls   == Fetches \union Requests

\* *Cluster; KubeConfig is the file named after the master, and Ready, which the
\* worker only shows, is left out.
Object == [master : Mac, nodes : SUBSET Mac, token : Mac \union {None},
           info : Mac \union {None}]
Table  == [Cluster -> Object \union {None}]

\* A cluster GetClusters is asking, and with whose kubeconfig.
Question == [key : Cluster, master : Mac]

ASSUME UnclaimedAssumption == Unclaimed \in Cluster
ASSUME NoneAssumption ==
    None \notin Mac \union Object \union Question \union File \union Cluster
                \union Validations
ASSUME NoRowAssumption == NoRow \notin Row
ASSUME FilesAssumption == Files \subseteq File
ASSUME CallsAssumption == Fetches \intersect Requests = {}
ASSUME PreparedAssumption == Prepared \subseteq SUBSET Mac

VARIABLES
    rows,               \* the published file, None before the first Populate
    ptr,                \* PtrClusterMap: who made the map it points to
    maps,               \* the map each validation has made since the start
    vpc,                \* where each validation is
    vrows,              \* the file its Populate has read
    vtodo,              \* clusters of it not handled yet
    vcur,               \* the cluster in hand
    unpublished,        \* Populates that have not assigned activePtr yet
    pc,                 \* where each FetchToken goroutine or request is
    job,                \* what it is: its kind, its machine, the file it saw
    target,             \* the machine FetchToken is run on
    creds,              \* the token the playbook brought, None before
    at,                 \* the map GetClusters iterates
    todo,               \* keys it has not come to yet
    asked,              \* the key and the kubeconfig it is asking with
    server,             \* machines that run a k3s server
    kubeconfig,         \* machines whose kubeconfig is in assets/ansible
    joined,             \* the server each k3s agent has joined
    seen,               \* history: the files read so far
    mixed               \* history: validations overlapped since the start

tableVars == <<ptr, maps>>
validationVars == <<vpc, vrows, vtodo, vcur, unpublished>>
callVars == <<pc, job, target, creds, at, todo, asked>>
worldVars == <<server, kubeconfig, joined>>
vars == <<rows, tableVars, validationVars, callVars, worldVars, seen, mixed>>

\* Everything but the calls.
outside == <<rows, tableVars, validationVars, worldVars, seen, mixed>>

EmptyTable == [k \in Cluster |-> None]
NoJob == [kind |-> "none", mac |-> None, rows |-> None]

NodesOf(f, k)   == {m \in Mac : f[m] # NoRow /\ f[m].cluster = k}
MastersOf(f, k) == {m \in NodesOf(f, k) : f[m].role = "master"}
ClustersOf(f)   == {k \in Cluster : NodesOf(f, k) # {}}

\* Calls of FetchToken or of a handler.
Job == [kind : {"none", "validate", "ansible", "token", "list"},
        mac : Mac \union {None}, rows : File \union {None}]

-----------------------------------------------------------------------------
(* The end of a call, and of the process.                                  *)

\* Mutant of Leave: a goroutine of a validation runs its playbook until it works.
LeaveRetrying(t) ==
    LET again == t \in Fetches /\ pc[t] = "run" IN
    /\ pc' = [pc EXCEPT ![t] = IF again THEN "run" ELSE "done"]
    /\ job' = [job EXCEPT ![t] = IF again THEN @ ELSE NoJob]
    /\ target' = [target EXCEPT ![t] = IF again THEN @ ELSE None]
    /\ creds' = [creds EXCEPT ![t] = None]
    /\ at' = [at EXCEPT ![t] = None]
    /\ todo' = [todo EXCEPT ![t] = {}]
    /\ asked' = [asked EXCEPT ![t] = None]

\* A goroutine of a validation is done with wg.Done in any case: it is deferred.
Leave(t) ==
    /\ pc' = [pc EXCEPT ![t] = "done"]
    /\ job' = [job EXCEPT ![t] = NoJob]
    /\ target' = [target EXCEPT ![t] = None]
    /\ creds' = [creds EXCEPT ![t] = None]
    /\ at' = [at EXCEPT ![t] = None]
    /\ todo' = [todo EXCEPT ![t] = {}]
    /\ asked' = [asked EXCEPT ![t] = None]

\* Memory is lost; files, and what runs on other machines, are not.
Crash ==
    /\ rows' = None
    /\ ptr' = None
    /\ maps' = [v \in Validations |-> EmptyTable]
    /\ vpc' = [v \in Validations |-> IF vpc[v] = "new" THEN "new" ELSE "done"]
    /\ vrows' = [v \in Validations |-> None]
    /\ vtodo' = [v \in Validations |-> {}]
    /\ vcur' = [v \in Validations |-> None]
    /\ unpublished' = {}
    /\ pc' = [t \in Calls |->
                IF pc[t] = "new" /\ (t \in Fetches => vpc[t[1]] = "new")
                THEN "new" ELSE "done"]
    /\ job' = [t \in Calls |-> NoJob]
    /\ target' = [t \in Calls |-> None]
    /\ creds' = [t \in Calls |-> None]
    /\ at' = [t \in Calls |-> None]
    /\ todo' = [t \in Calls |-> {}]
    /\ asked' = [t \in Calls |-> None]
    /\ mixed' = FALSE
    /\ UNCHANGED <<worldVars, seen>>

Kill == (rows # None \/ unpublished # {}) /\ Crash

\* A nil dereference.  net/http recovers it in a handler; in a goroutine of a
\* validation it ends the process.
Panic(t) ==
    IF t \in Fetches THEN Crash
    ELSE Leave(t) /\ UNCHANGED outside

-----------------------------------------------------------------------------
(* Populate and the validation it starts.                                  *)

\* A validation that may still write to the table.
Filling(v) == vpc[v] \in {"loop", "create", "write"} \/ v \in unpublished

\* The goroutine is started before activePtr is assigned.
Populate(v) ==
    /\ vpc[v] = "new"
    /\ \E f \in Files :
        /\ vrows' = [vrows EXCEPT ![v] = f]
        /\ vtodo' = [vtodo EXCEPT ![v] = ClustersOf(f)]
        /\ seen' = seen \union {f}
    /\ vpc' = [vpc EXCEPT ![v] = "loop"]
    /\ unpublished' = unpublished \union {v}
    /\ mixed' = (mixed \/ \E u \in Validations : Filling(u))
    /\ UNCHANGED <<rows, tableVars, vcur, callVars, worldVars>>

Publish(v) ==
    /\ v \in unpublished
    /\ rows' = vrows[v]
    /\ unpublished' = unpublished \ {v}
    /\ UNCHANGED <<tableVars, vpc, vrows, vtodo, vcur, callVars, worldVars, seen,
                   mixed>>

\* Mutant of InitCluster: every Populate makes a table of its own.
InitAnew(v) ==
    /\ vpc[v] = "loop"
    /\ \E k \in vtodo[v] :
        /\ vcur' = [vcur EXCEPT ![v] = k]
        /\ vtodo' = [vtodo EXCEPT ![v] = @ \ {k}]
    /\ vpc' = [vpc EXCEPT ![v] = "create"]
    /\ UNCHANGED <<rows, tableVars, vrows, unpublished, callVars, worldVars,
                   seen, mixed>>

\* InitCluster looks for the map ...
InitCluster(v) ==
    /\ vpc[v] = "loop"
    /\ \E k \in vtodo[v] :
        /\ vcur' = [vcur EXCEPT ![v] = k]
        /\ vtodo' = [vtodo EXCEPT ![v] = @ \ {k}]
    /\ vpc' = [vpc EXCEPT ![v] = IF ptr = None THEN "create" ELSE "write"]
    /\ UNCHANGED <<rows, tableVars, vrows, unpublished, callVars, worldVars,
                   seen, mixed>>

\* ... makes one if it has found none, in spite of who made one meanwhile ...
CreateMap(v) ==
    /\ vpc[v] = "create"
    /\ ptr' = v
    /\ vpc' = [vpc EXCEPT ![v] = "write"]
    /\ UNCHANGED <<rows, maps, vrows, vtodo, vcur, unpublished, callVars,
                   worldVars, seen, mixed>>

FreshObject(f, k, m) ==
    [master |-> m, nodes |-> NodesOf(f, k), token |-> None, info |-> None]

\* Mutant of NewTable: the nodes are those of the object it had before.
OldNodes(f, k) ==
    {[maps EXCEPT ![ptr][k] =
        IF maps[ptr][k] = None THEN FreshObject(f, k, m)
        ELSE [FreshObject(f, k, m) EXCEPT !.nodes = maps[ptr][k].nodes]] :
            m \in MastersOf(f, k)}

\* Mutant of NewTable: the object is made before a master is found.
NamelessObject(f, k) == {[maps EXCEPT ![ptr][k] = FreshObject(f, k, None)]}

\* The maps with a fresh object for a cluster; which of several masters it is
\* named after depends on the order of the rows.
NewTable(f, k) ==
    {[maps EXCEPT ![ptr][k] = FreshObject(f, k, m)] : m \in MastersOf(f, k)}

\* Who iterates the map of clusters; a key inserted now may come up or not.
Iterating == {t \in Calls : pc[t] \in {"probe", "ask"} /\ at[t] = ptr}

\* ... and puts a fresh object into it if a node is a master.  Then the nodes
\* are asked for their tokens, each by a goroutine.
WriteCluster(v) ==
    LET f == vrows[v]
        k == vcur[v]
        new == {v} \X NodesOf(f, k) IN
    /\ vpc[v] = "write"
    /\ IF MastersOf(f, k) = {} THEN UNCHANGED <<maps, todo>>
       ELSE /\ maps' \in NewTable(f, k)
            /\ \E late \in SUBSET Iterating :
                todo' = [t \in Calls |->
                            IF t \in late /\ maps[ptr][k] = None
                            THEN todo[t] \union {k} ELSE todo[t]]
    /\ vpc' = [vpc EXCEPT ![v] = "loop"]
    /\ vcur' = [vcur EXCEPT ![v] = None]
    /\ pc' = [t \in Calls |-> IF t \in new THEN "run" ELSE pc[t]]
    /\ job' = [t \in Calls |->
                IF t \in new THEN [NoJob EXCEPT !.kind = "validate", !.mac = t[2]]
                ELSE job[t]]
    /\ target' = [t \in Calls |-> IF t \in new THEN t[2] ELSE target[t]]
    /\ UNCHANGED <<rows, ptr, vrows, vtodo, unpublished, creds, at, asked,
                   worldVars, seen, mixed>>

\* All clusters are handled; wg.Wait.
AwaitFetches(v) ==
    /\ vpc[v] = "loop"
    /\ vtodo[v] = {}
    /\ vpc' = [vpc EXCEPT ![v] = "wait"]
    /\ UNCHANGED <<rows, tableVars, vrows, vtodo, vcur, unpublished, callVars,
                   worldVars, seen, mixed>>

EndValidation(v) ==
    /\ vpc[v] = "wait"
    /\ v \notin unpublished
    /\ \A m \in Mac : pc[<<v, m>>] \in {"new", "done"}
    /\ vpc' = [vpc EXCEPT ![v] = "done"]
    /\ vrows' = [vrows EXCEPT ![v] = None]
    /\ pc' = [t \in Calls |-> IF t \in {v} \X Mac THEN "done" ELSE pc[t]]
    /\ UNCHANGED <<rows, tableVars, vtodo, vcur, unpublished, job, target, creds,
                   at, todo, asked, worldVars, seen, mixed>>

ValidationStep(v) ==
    \/ Publish(v)
    \/ InitCluster(v)
    \/ CreateMap(v)
    \/ WriteCluster(v)
    \/ AwaitFetches(v)
    \/ EndValidation(v)

-----------------------------------------------------------------------------
(* GetClusters.                                                            *)

Known(i) == {k \in Cluster : maps[i][k] # None}

\* A nil map pointer is dereferenced; the keys are those of the map it points
\* to now.
StartGet(t) ==
    /\ pc[t] = "get"
    /\ IF ptr = None THEN Panic(t)
       ELSE /\ pc' = [pc EXCEPT ![t] = "probe"]
            /\ at' = [at EXCEPT ![t] = ptr]
            /\ todo' = [todo EXCEPT ![t] = Known(ptr)]
            /\ UNCHANGED <<outside, job, target, creds, asked>>

\* The client is built from the kubeconfig; without the file the next cluster is
\* tried.  The object is read from the map iterated, and whether it is ready is
\* noted in the map PtrClusterMap points to now.
ProbeCluster(t) ==
    /\ pc[t] = "probe"
    /\ \E k \in todo[t] :
        LET master == maps[at[t]][k].master
            found == master \in kubeconfig IN
        IF maps[ptr][k] = None THEN Panic(t)
        ELSE /\ todo' = [todo EXCEPT ![t] = @ \ {k}]
             /\ pc' = [pc EXCEPT ![t] = IF found THEN "ask" ELSE "probe"]
             /\ asked' = [asked EXCEPT ![t] =
                            IF found THEN [key |-> k, master |-> master] ELSE None]
             /\ UNCHANGED <<outside, job, target, creds, at>>

\* The cluster's API answers.
AnswerProbe(t) ==
    LET k == asked[t].key IN
    /\ pc[t] = "ask"
    /\ IF maps[ptr][k] = None THEN Panic(t)
       ELSE /\ maps' = [maps EXCEPT ![ptr][k].info = asked[t].master]
            /\ pc' = [pc EXCEPT ![t] = "probe"]
            /\ asked' = [asked EXCEPT ![t] = None]
            /\ UNCHANGED <<rows, ptr, validationVars, job, target, creds, at,
                           todo, worldVars, seen, mixed>>

\* It does not: GetClusters returns nil and an error.  /kubernetes answers with
\* the error, everyone else dereferences the nil.
FailProbe(t) ==
    /\ pc[t] = "ask"
    /\ IF job[t].kind = "list"
       THEN Leave(t) /\ UNCHANGED outside
       ELSE Panic(t)

Probed(t) == pc[t] = "probe" /\ todo[t] = {}

\* /kubernetes encodes the table.
AnswerList(t) ==
    /\ Probed(t)
    /\ job[t].kind = "list"
    /\ Leave(t)
    /\ UNCHANGED outside

-----------------------------------------------------------------------------
(* FetchToken.                                                             *)

\* The playbook reads the token of a k3s server ...
FetchToken(t) ==
    /\ pc[t] = "run"
    /\ target[t] \in server
    /\ creds' = [creds EXCEPT ![t] = target[t]]
    /\ pc' = [pc EXCEPT ![t] = "get"]
    /\ UNCHANGED <<outside, job, target, at, todo, asked>>

\* ... and fails on any other machine, where there is none to read ...
NoToken(t) ==
    /\ pc[t] = "run"
    /\ target[t] \notin server
    /\ Leave(t)
    /\ UNCHANGED outside

\* ... or if it cannot run at all.
FailToken(t) ==
    /\ pc[t] = "run"
    /\ target[t] \in server
    /\ Leave(t)
    /\ UNCHANGED outside

\* The MAC FetchToken was given: for a worker that of the control plane node's
\* row, if it has one.
TokenMac(t) ==
    IF job[t].kind # "ansible" THEN job[t].mac
    ELSE IF job[t].rows[target[t]] # NoRow THEN target[t] ELSE None

\* Mutant of Tokened: the token goes to the clusters the machine's file had.
TokenedAll(t, k) == k # Unclaimed

\* The clusters a token is stored for: those that list the machine by now.
Tokened(t, k) == k # Unclaimed /\ TokenMac(t) \in maps[ptr][k].nodes

StoreToken(t) ==
    /\ Probed(t)
    /\ creds[t] # None
    /\ maps' = [maps EXCEPT ![ptr] =
                [k \in Cluster |->
                    IF @[k] # None /\ Tokened(t, k)
                    THEN [@[k] EXCEPT !.token = creds[t]] ELSE @[k]]]
    /\ IF job[t].kind = "ansible"
       THEN /\ pc' = [pc EXCEPT ![t] = "join"]
            /\ UNCHANGED <<job, target, creds, at, todo, asked>>
       ELSE Leave(t)
    /\ UNCHANGED <<rows, ptr, validationVars, worldVars, seen, mixed>>

-----------------------------------------------------------------------------
(* The handlers.                                                           *)

Ask(r, kind, m, place) ==
    /\ pc' = [pc EXCEPT ![r] = place]
    /\ job' = [job EXCEPT ![r] =
                [kind |-> kind, mac |-> m, rows |-> IF kind = "ansible" THEN rows ELSE None]]

\* handleAnsible: an unknown machine is dereferenced, which ends the request.
AskAnsible(r) ==
    /\ pc[r] = "new"
    /\ rows # None
    /\ \E m \in Mac :
        IF rows[m] = NoRow THEN Leave(r)
        ELSE Ask(r, "ansible", m, "get") /\ UNCHANGED <<target, creds, at, todo, asked>>
    /\ UNCHANGED outside

\* handleAnsibleFetchToken: an unknown machine is refused.
AskToken(r) ==
    /\ pc[r] = "new"
    /\ rows # None
    /\ \E m \in Mac :
        IF rows[m] = NoRow THEN Leave(r)
        ELSE /\ Ask(r, "token", m, "run")
             /\ target' = [target EXCEPT ![r] = m]
             /\ UNCHANGED <<creds, at, todo, asked>>
    /\ UNCHANGED outside

\* handleKubernetes.
AskClusters(r) ==
    /\ pc[r] = "new"
    /\ rows # None
    /\ Ask(r, "list", None, "get")
    /\ UNCHANGED <<outside, target, creds, at, todo, asked>>

\* Mutant of RowOf: the templates of the two roles are exchanged.
RowExchanged(t) ==
    [job[t].rows[job[t].mac] EXCEPT
        !.template = IF @ = "k3s-master" THEN "k3s-worker" ELSE "k3s-master"]

RowOf(t) == job[t].rows[job[t].mac]

\* Mutant of NodeOf: a node of any cluster that is known.
NodeOfAny(t) == {maps[ptr][k].info : k \in Known(ptr)} \ {None}

\* Mutant of NodeOf: without an Info the machine itself is taken.
NodeOrSelf(t) ==
    LET object == maps[ptr][RowOf(t).cluster] IN
    IF object = None \/ object.info = None THEN {job[t].mac} ELSE {object.info}

\* handleAnsible takes the control plane node from the Info of the cluster in
\* the machine's row: none if the cluster or its Info is a nil pointer.
NodeOf(t) ==
    LET object == maps[ptr][RowOf(t).cluster] IN
    IF object = None THEN {} ELSE {object.info} \ {None}

PickNode(t) ==
    /\ Probed(t)
    /\ job[t].kind = "ansible"
    /\ creds[t] = None
    /\ IF NodeOf(t) = {} THEN Panic(t)
       ELSE /\ \E m \in NodeOf(t) :
                CASE RowOf(t).template = "k3s-master" ->
                        /\ pc' = [pc EXCEPT ![t] = "install"]
                        /\ UNCHANGED <<job, target, creds, at, todo, asked>>
                  [] RowOf(t).template = "k3s-worker" ->
                        /\ pc' = [pc EXCEPT ![t] = "run"]
                        /\ target' = [target EXCEPT ![t] = m]
                        /\ UNCHANGED <<job, creds, at, todo, asked>>
                  [] OTHER -> Leave(t)
            /\ UNCHANGED outside

\* k3s-master.yaml installs the server, then fetches its kubeconfig.  Where the
\* k3s of an agent is installed, it installs nothing and fails.
InstallMaster(t) ==
    /\ pc[t] = "install"
    /\ joined[job[t].mac] = None
    /\ server' = server \union {job[t].mac}
    /\ kubeconfig' = kubeconfig \union {job[t].mac}
    /\ Leave(t)
    /\ UNCHANGED <<rows, tableVars, validationVars, joined, seen, mixed>>

\* k3s-worker.yaml; an agent that is installed stays with its server.
JoinWorker(t) ==
    /\ pc[t] = "join"
    /\ joined' = [joined EXCEPT ![job[t].mac] = IF @ = None THEN creds[t] ELSE @]
    /\ Leave(t)
    /\ UNCHANGED <<rows, tableVars, validationVars, server, kubeconfig, seen, mixed>>

\* A playbook fails, before or after the server was installed.
FailPlaybook(t) ==
    /\ \/ pc[t] \in {"install", "join"} /\ server' = server
       \/ /\ pc[t] = "install"
          /\ joined[job[t].mac] = None
          /\ server' = server \union {job[t].mac}
    /\ Leave(t)
    /\ UNCHANGED <<rows, tableVars, validationVars, kubeconfig, joined, seen, mixed>>

-----------------------------------------------------------------------------
\* A write to the map of clusters while another goroutine writes to it or is
\* about to take its next key: the runtime may stop the process.
MapRace ==
    /\ \E v \in Validations :
        /\ vpc[v] = "write"
        /\ MastersOf(vrows[v], vcur[v]) # {}
        /\ \/ \E u \in Validations \ {v} : vpc[u] = "write"
           \/ \E t \in Calls : pc[t] = "probe" /\ at[t] = ptr
    /\ Crash

\* What the worker does by itself ...
OwnStep(t) ==
    \/ StartGet(t)
    \/ ProbeCluster(t)
    \/ AnswerList(t)
    \/ StoreToken(t)
    \/ PickNode(t)

\* ... and the end of a playbook or of an API call, good ...
GoodEnd(t) ==
    \/ AnswerProbe(t)
    \/ FetchToken(t)
    \/ NoToken(t)
    \/ InstallMaster(t)
    \/ JoinWorker(t)

\* ... or bad.  None of them has a deadline.
BadEnd(t) == FailProbe(t) \/ FailToken(t) \/ FailPlaybook(t)

CallStep(t) == OwnStep(t) \/ GoodEnd(t) \/ BadEnd(t)

RequestArrives(r) == AskAnsible(r) \/ AskToken(r) \/ AskClusters(r)

Init ==
    /\ rows = None
    /\ ptr = None
    /\ maps = [v \in Validations |-> EmptyTable]
    /\ vpc = [v \in Validations |-> "new"]
    /\ vrows = [v \in Validations |-> None]
    /\ vtodo = [v \in Validations |-> {}]
    /\ vcur = [v \in Validations |-> None]
    /\ unpublished = {}
    /\ pc = [t \in Calls |-> "new"]
    /\ job = [t \in Calls |-> NoJob]
    /\ target = [t \in Calls |-> None]
    /\ creds = [t \in Calls |-> None]
    /\ at = [t \in Calls |-> None]
    /\ todo = [t \in Calls |-> {}]
    /\ asked = [t \in Calls |-> None]
    /\ server \in Prepared
    /\ kubeconfig = server
    /\ joined = [m \in Mac |-> None]
    /\ seen = {}
    /\ mixed = FALSE

Next ==
    \/ \E v \in Validations : Populate(v) \/ ValidationStep(v)
    \/ \E r \in Requests : RequestArrives(r)
    \/ \E t \in Calls : CallStep(t)
    \/ MapRace
    \/ Kill

Spec == Init /\ [][Next]_vars

\* Goroutines are scheduled.  Playbooks and API calls are given no deadline and
\* may never end.
Fairness ==
    /\ \A v \in Validations : WF_vars(ValidationStep(v))
    /\ \A t \in Calls : WF_vars(OwnStep(t))

FairSpec == Spec /\ Fairness

\* A world in which nothing fails, everything asked answers in the end, and
\* nobody stops the worker.
SmoothNext ==
    \/ \E v \in Validations : Populate(v) \/ ValidationStep(v)
    \/ \E r \in Requests : RequestArrives(r)
    \/ \E t \in Calls : OwnStep(t) \/ GoodEnd(t)

SmoothSpec ==
    /\ Init
    /\ [][SmoothNext]_vars
    /\ \A v \in Validations : WF_vars(ValidationStep(v))
    /\ \A t \in Calls : WF_vars(OwnStep(t) \/ GoodEnd(t))

-----------------------------------------------------------------------------
(* Properties.                                                             *)

CallPc == {"new", "get", "probe", "ask", "run", "install", "join", "done"}

TableTypes ==
    /\ rows \in File \union {None}
    /\ ptr \in Validations \union {None}
    /\ maps \in [Validations -> Table]

ValidationTypes ==
    /\ vpc \in [Validations -> {"new", "loop", "create", "write", "wait", "done"}]
    /\ vrows \in [Validations -> File \union {None}]
    /\ vtodo \in [Validations -> SUBSET Cluster]
    /\ vcur \in [Validations -> Cluster \union {None}]
    /\ unpublished \in SUBSET Validations

CallTypes ==
    /\ pc \in [Calls -> CallPc]
    /\ job \in [Calls -> Job]
    /\ target \in [Calls -> Mac \union {None}]
    /\ creds \in [Calls -> Mac \union {None}]
    /\ at \in [Calls -> Validations \union {None}]
    /\ todo \in [Calls -> SUBSET Cluster]
    /\ asked \in [Calls -> Question \union {None}]

WorldTypes ==
    /\ server \in SUBSET Mac
    /\ kubeconfig \in SUBSET Mac
    /\ joined \in [Mac -> Mac \union {None}]
    /\ seen \in SUBSET File
    /\ mixed \in BOOLEAN

\* Every variable has its type (internal/kubernetes and its callers).
TypeOK == TableTypes /\ ValidationTypes /\ CallTypes /\ WorldTypes

\* A token stored for a cluster came from a k3s server among the nodes the
\* cluster has now, also when the playbook that fetched it was started by a
\* Populate of an older file, and no token is stored for the unclaimed
\* machines (the loops of InitCluster and FetchToken over one table).
TokenOfOwnNode ==
    \A v \in Validations, k \in Cluster :
        LET object == maps[v][k] IN
        object # None /\ object.token # None =>
            k # Unclaimed /\ object.token \in object.nodes \intersect server

\* A k3s agent joins only a server that some version of the file made master
\* of the cluster some version of the file put the agent's machine into,
\* however handleAnsible's reads of the registry and of the table straddle
\* repopulations.
JoinedItsCluster ==
    \A w \in Mac : joined[w] # None =>
        \E f \in seen, g \in seen :
            /\ f[w] # NoRow
            /\ f[w].template = "k3s-worker"
            /\ joined[w] \in MastersOf(g, f[w].cluster)

\* The abstract specification: constants and variables of the same names.
D == INSTANCE Deployment

\* However requests, Populates and crashes interleave, a k3s server or agent is
\* installed only as files read so far say, next to a control plane whose
\* kubeconfig the worker has, and nothing is undone (handleAnsible and
\* everything GetClusters and FetchToken leave in the table for it).
DeploymentFollowsFiles == D!Spec

\* The calls of GetClusters never use a table entry that is not there: a
\* goroutine of a validation finds a table, which would else end the process,
\* and unless Populates have overlapped, whoever ranges over the table writes
\* to the same table, where every key it has left is still known.
ProbesFindTheirCluster ==
    /\ \A t \in Fetches : pc[t] \in {"run", "get"} => ptr # None
    /\ ~mixed => \A t \in Calls :
        /\ pc[t] \in {"probe", "ask"} => at[t] = ptr /\ todo[t] \subseteq Known(ptr)
        /\ pc[t] = "ask" => asked[t].key \in Known(ptr)

\* If no two Populates have overlapped since the start, then once they have
\* filled the table it has every cluster of the registry that has a master,
\* with the registry's nodes, whatever FetchToken and the handlers write to the
\* same objects meanwhile.
SerialTableAgrees ==
    rows # None /\ ~mixed /\ (\A v \in Validations : ~Filling(v)) =>
        \A k \in Cluster : MastersOf(rows, k) # {} =>
            /\ maps[ptr][k] # None
            /\ maps[ptr][k].nodes = NodesOf(rows, k)
            /\ maps[ptr][k].master \in MastersOf(rows, k)

\* Every playbook and API call the goroutines of v wait for ends at last.
AllEnd(v) == \A m \in Mac : WF_vars(GoodEnd(<<v, m>>) \/ BadEnd(<<v, m>>))

\* A validation comes to its end, or the process does, unless a playbook or an
\* API call hangs for ever: its wait group counts down to zero although its
\* goroutines may fail anywhere, and nothing a handler does, or never comes to
\* do, keeps it from that.
ValidationEnds ==
    \A v \in Validations : AllEnd(v) => (vpc[v] = "loop" ~> vpc[v] = "done")

\* Without a kubeconfig that came from elsewhere the worker never installs a
\* server: handleAnsible needs the Info of the cluster before it runs the
\* playbook that would make the cluster.
FirstClusterNeedsHelp ==
    kubeconfig = {} /\ server = {} =>
        [](kubeconfig = {} /\ server = {} /\ \A w \in Mac : joined[w] = None)

\* The machine's row makes it the master and the table has its cluster.
Wanted(r, m) ==
    /\ pc[r] = "get"
    /\ job[r].kind = "ansible"
    /\ job[r].mac = m
    /\ RowOf(r).template = "k3s-master"
    /\ ptr # None /\ \E k \in Known(ptr) : maps[ptr][k].master = m

\* Readme: after the installation of a machine k3s is deployed on it.  Once the
\* cluster of a master is in the table, the machine's call of /ansible leads to
\* a kubeconfig of that cluster (handleAnsible).
ClusterComesUp ==
    \A r \in Requests, m \in Mac : Wanted(r, m) ~> m \in kubeconfig

=============================================================================
