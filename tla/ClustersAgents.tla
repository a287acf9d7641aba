---------------------------- MODULE ClustersAgents ----------------------------
(***************************************************************************)
(* Proofs about what Clusters does outside the process: an agent joins a   *)
(* server of its own cluster, what is deployed is what the files say       *)
(* (Deployment), and without a kubeconfig from elsewhere no server is ever *)
(* installed.                                                              *)
(***************************************************************************)
EXTENDS ClustersSafety

USE UnclaimedAssumption, NoneAssumption, NoRowAssumption, FilesAssumption,
    CallsAssumption, PreparedAssumption DEF outside

-----------------------------------------------------------------------------
(* Agents.                                                                 *)

\* Some version of the file made the machine master of the cluster.
IsMaster(m, k) == \E g \in seen : m \in MastersOf(g, k)

\* ... and the worker has its kubeconfig.
Controls(m, k) == m \in kubeconfig /\ IsMaster(m, k)

FilesSeen ==
    /\ rows \in seen \union {None}
    /\ \A v \in Validations : vrows[v] \in seen \union {None}

ObjectMastered(v, k) ==
    maps[v][k] # None =>
        /\ IsMaster(maps[v][k].master, k)
        /\ maps[v][k].info # None => Controls(maps[v][k].info, k)

CallMastered(t) ==
    /\ asked[t] # None => Controls(asked[t].master, asked[t].key)
    /\ job[t].kind = "ansible" =>
        /\ job[t].rows \in seen
        /\ target[t] # None =>
            /\ RowOf(t).template = "k3s-worker"
            /\ Controls(target[t], RowOf(t).cluster)
        /\ pc[t] = "install" =>
            /\ RowOf(t).template = "k3s-master"
            /\ \E s \in Mac : Controls(s, RowOf(t).cluster)

ObjectsMastered == \A v \in Validations, k \in Cluster : ObjectMastered(v, k)
CallsMastered == \A t \in Calls : CallMastered(t)

Mastered == FilesSeen /\ ObjectsMastered /\ CallsMastered /\ JoinedItsCluster

\* What was true of the files seen is true when there are more.
LEMMA MasteredObjectsStay ==
    ASSUME Mastered, UNCHANGED maps, seen \subseteq seen',
           kubeconfig \subseteq kubeconfig'
    PROVE  ObjectsMastered'
BY DEF Mastered, ObjectsMastered, ObjectMastered, Controls, IsMaster

LEMMA MasteredCallStays ==
    ASSUME Mastered, NEW u \in Calls, seen \subseteq seen',
           kubeconfig \subseteq kubeconfig', pc'[u] = "install" => pc[u] = "install",
           job'[u] = job[u], target'[u] = target[u], asked'[u] = asked[u]
    PROVE  CallMastered(u)'
BY DEF Mastered, CallsMastered, CallMastered, Controls, IsMaster, RowOf

LEMMA JoinedStays ==
    ASSUME Mastered, UNCHANGED joined, seen \subseteq seen'
    PROVE  JoinedItsCluster'
BY DEF Mastered, JoinedItsCluster

\* One call moves; files, table and agents stay.
LEMMA MasteredCall ==
    ASSUME Mastered, NEW t \in Calls, OthersStay(t), CallMastered(t)',
           UNCHANGED <<rows, vrows, maps, joined, seen>>,
           kubeconfig \subseteq kubeconfig'
    PROVE  Mastered'
<1>1. FilesSeen'
  BY DEF Mastered, FilesSeen
<1>2. CallsMastered'
  BY MasteredCallStays DEF CallsMastered, OthersStay
<1> QED
  BY <1>1, <1>2, MasteredObjectsStay, JoinedStays DEF Mastered

LEMMA MasteredEnd ==
    ASSUME IInv, Mastered, NEW t \in Calls, Leave(t),
           UNCHANGED <<rows, vrows, maps, joined, seen>>,
           kubeconfig \subseteq kubeconfig'
    PROVE  Mastered'
<1>1. Ended(t) /\ OthersStay(t)
  BY LeaveMoves
<1>2. CallMastered(t)'
  BY <1>1 DEF Ended, NoJob, CallMastered
<1> QED
  BY <1>1, <1>2, MasteredCall

LEMMA MasteredCrash ==
    ASSUME Mastered, Crash
    PROVE  Mastered'
<1>1. FilesSeen' /\ ObjectsMastered' /\ CallsMastered'
  BY DEF Crash, FilesSeen, ObjectsMastered, ObjectMastered, EmptyTable,
         CallsMastered, CallMastered, NoJob
<1> QED
  BY <1>1, JoinedStays DEF Crash, worldVars, Mastered

LEMMA MasteredPanic ==
    ASSUME IInv, Mastered, NEW t \in Calls, Panic(t)
    PROVE  Mastered'
BY MasteredEnd, MasteredCrash DEF Panic, tableVars, validationVars, worldVars

\* No call moves and the table stays, a file may be read or published.
LEMMA MasteredFiles ==
    ASSUME Mastered, UNCHANGED <<maps, callVars, joined, kubeconfig>>,
           seen \subseteq seen', FilesSeen'
    PROVE  Mastered'
<1>1. CallsMastered'
  BY MasteredCallStays DEF CallsMastered, callVars
<1> QED
  BY <1>1, MasteredObjectsStay, JoinedStays DEF Mastered

LEMMA MasteredWriteCluster ==
    ASSUME IInv, Mastered, NEW v \in Validations, WriteCluster(v)
    PROVE  Mastered'
<1> DEFINE f == vrows[v]
           new == {v} \X NodesOf(f, vcur[v])
<1>1. f \in seen
  BY DEF WriteCluster, IInv, PlacesOK, ValidationPlace, Mastered, FilesSeen
<1>2. UNCHANGED <<rows, vrows, joined, kubeconfig, seen, asked>>
  BY DEF WriteCluster, worldVars
<1>3. ASSUME NEW w \in Validations, NEW c \in Cluster
      PROVE  ObjectMastered(w, c)'
  <2>1. CASE maps'[w][c] = maps[w][c]
    BY <1>2, <2>1 DEF Mastered, ObjectsMastered, ObjectMastered, Controls, IsMaster
  <2>2. CASE maps'[w][c] # maps[w][c]
    <3>1. maps'[w][c].master \in MastersOf(f, c) /\ maps'[w][c].info = None
      BY <2>2, WriteClusterTable
    <3> QED
      BY <1>1, <1>2, <3>1 DEF ObjectMastered, Controls, IsMaster
  <2> QED
    BY <2>1, <2>2
<1>4. ASSUME NEW t \in Calls
      PROVE  CallMastered(t)'
  <2>1. CASE t \notin new
    BY <1>2, <2>1, MasteredCallStays DEF WriteCluster
  <2>2. CASE t \in new
    <3>1. job'[t].kind = "validate"
      BY <2>2 DEF WriteCluster, NoJob
    <3> QED
      BY <1>2, <3>1 DEF Mastered, CallsMastered, CallMastered, Controls, IsMaster
  <2> QED
    BY <2>1, <2>2
<1>5. FilesSeen'
  BY <1>2 DEF Mastered, FilesSeen
<1> QED
  BY <1>2, <1>3, <1>4, <1>5, JoinedStays DEF Mastered, ObjectsMastered, CallsMastered

LEMMA MasteredValidation ==
    ASSUME IInv, Mastered, NEW v \in Validations, Populate(v) \/ ValidationStep(v)
    PROVE  Mastered'
<1>1. CASE Populate(v)
  <2>1. FilesSeen'
    BY <1>1 DEF Populate, Mastered, FilesSeen, IInv, TypeOK, ValidationTypes
  <2> QED
    BY <1>1, <2>1, MasteredFiles DEF Populate, tableVars, worldVars
<1>2. CASE Publish(v) \/ InitCluster(v) \/ CreateMap(v) \/ AwaitFetches(v)
  <2>1. FilesSeen'
    BY <1>2 DEF Publish, InitCluster, CreateMap, AwaitFetches, Mastered, FilesSeen
  <2> QED
    BY <1>2, <2>1, MasteredFiles
       DEF Publish, InitCluster, CreateMap, AwaitFetches, tableVars, worldVars
<1>3. CASE EndValidation(v)
  <2>1. FilesSeen'
    BY <1>3 DEF EndValidation, Mastered, FilesSeen, IInv, TypeOK, ValidationTypes
  <2>2. CallsMastered'
    BY <1>3, MasteredCallStays, CallFacts DEF EndValidation, CallsMastered, worldVars
  <2> QED
    BY <1>3, <2>1, <2>2, MasteredObjectsStay, JoinedStays
       DEF EndValidation, tableVars, worldVars, Mastered
<1> QED
  BY <1>1, <1>2, <1>3, MasteredWriteCluster DEF ValidationStep

LEMMA MasteredProbe ==
    ASSUME IInv, Mastered, NEW t \in Calls, StartGet(t) \/ ProbeCluster(t)
    PROVE  Mastered'
<1>1. CASE Panic(t)
  BY <1>1, MasteredPanic
<1>2. CASE StartGet(t) /\ ~Panic(t)
  <2>1. /\ OthersStay(t) /\ job' = job /\ target' = target /\ asked' = asked
        /\ pc'[t] = "probe"
    BY <1>2, CallFacts DEF StartGet, OthersStay, CallTypes
  <2>2. UNCHANGED <<rows, vrows, maps, joined, kubeconfig, seen>>
    BY <1>2 DEF StartGet, tableVars, validationVars, worldVars
  <2> QED
    BY <2>1, <2>2, MasteredCallStays, MasteredCall
<1>3. CASE ProbeCluster(t) /\ ~Panic(t)
  <2>1. PICK k \in todo[t] :
            /\ asked' = [asked EXCEPT ![t] =
                            IF maps[at[t]][k].master \in kubeconfig
                            THEN [key |-> k, master |-> maps[at[t]][k].master]
                            ELSE None]
            /\ UNCHANGED <<outside, job, target, creds, at>>
            /\ \A u \in Calls \ {t} : pc'[u] = pc[u]
            /\ pc'[t] \in {"probe", "ask"}
    BY <1>3, CallFacts DEF ProbeCluster, CallTypes
  <2>2. UNCHANGED <<rows, vrows, maps, joined, kubeconfig, seen>>
    BY <2>1 DEF tableVars, validationVars, worldVars
  <2>3. IsMaster(maps[at[t]][k].master, k)
    BY <1>3, CallFacts
       DEF ProbeCluster, CallPlace, Mastered, ObjectsMastered, ObjectMastered
  <2>4. OthersStay(t)
    BY <2>1, CallFacts DEF OthersStay, CallTypes
  <2>5. \/ asked'[t] = None
        \/ /\ asked'[t].key = k
           /\ asked'[t].master = maps[at[t]][k].master
           /\ asked'[t].master \in kubeconfig
    BY <2>1, CallFacts DEF CallTypes
  <2>6. CallMastered(t)'
    BY <2>1, <2>2, <2>3, <2>5
       DEF CallMastered, Controls, IsMaster, RowOf, Mastered, CallsMastered
  <2> QED
    BY <2>2, <2>4, <2>6, MasteredCall
<1> QED
  BY <1>1, <1>2, <1>3

\* The Info is that of the master whose kubeconfig the call has used.
LEMMA MasteredAnswerProbe ==
    ASSUME IInv, Mastered, NEW t \in Calls, AnswerProbe(t)
    PROVE  Mastered'
<1>1. CASE maps[ptr][asked[t].key] = None
  BY <1>1, MasteredPanic DEF AnswerProbe
<1>2. CASE maps[ptr][asked[t].key] # None
  <2>1. /\ asked' = [asked EXCEPT ![t] = None]
        /\ pc' = [pc EXCEPT ![t] = "probe"]
        /\ UNCHANGED <<rows, vrows, job, target, joined, kubeconfig, seen>>
    BY <1>2 DEF AnswerProbe, validationVars, worldVars
  <2>2. Controls(asked[t].master, asked[t].key)
    BY CallFacts DEF AnswerProbe, CallPlace, Mastered, CallsMastered, CallMastered
  <2>3. ASSUME NEW v \in Validations, NEW c \in Cluster
        PROVE  ObjectMastered(v, c)'
    BY <1>2, <2>1, <2>2, AnswerProbeTable
       DEF Mastered, ObjectsMastered, ObjectMastered, Controls, IsMaster
  <2>4. ASSUME NEW u \in Calls
        PROVE  CallMastered(u)'
    BY <2>1, CallFacts
       DEF Mastered, CallsMastered, CallMastered, Controls, IsMaster, RowOf, CallTypes
  <2>5. FilesSeen'
    BY <2>1 DEF Mastered, FilesSeen
  <2> QED
    BY <2>1, <2>3, <2>4, <2>5, JoinedStays DEF Mastered, ObjectsMastered, CallsMastered
<1> QED
  BY <1>1, <1>2

LEMMA MasteredStoreToken ==
    ASSUME IInv, Mastered, NEW t \in Calls, StoreToken(t)
    PROVE  Mastered'
<1>1. UNCHANGED <<rows, vrows, joined, kubeconfig, seen>>
  BY DEF StoreToken, validationVars, worldVars
<1>2. ASSUME NEW v \in Validations, NEW k \in Cluster
      PROVE  ObjectMastered(v, k)'
  BY <1>1, StoreTokenTable DEF Mastered, ObjectsMastered, ObjectMastered, Controls, IsMaster
<1>3. ASSUME NEW u \in Calls
      PROVE  CallMastered(u)'
  <2>1. CASE job[t].kind = "ansible" \/ u # t
    <3>1. /\ job'[u] = job[u] /\ target'[u] = target[u] /\ asked'[u] = asked[u]
          /\ pc'[u] \in {pc[u], "join"}
      BY <2>1, LeaveMoves, CallFacts DEF StoreToken, OthersStay, CallTypes
    <3> QED
      BY <1>1, <3>1, MasteredCallStays
  <2>2. CASE job[t].kind # "ansible" /\ u = t
    BY <2>2, LeaveMoves DEF StoreToken, Ended, NoJob, CallMastered
  <2> QED
    BY <2>1, <2>2
<1>4. FilesSeen'
  BY <1>1 DEF Mastered, FilesSeen
<1> QED
  BY <1>1, <1>2, <1>3, <1>4, JoinedStays DEF Mastered, ObjectsMastered, CallsMastered

LEMMA MasteredFetchToken ==
    ASSUME IInv, Mastered, NEW t \in Calls, FetchToken(t)
    PROVE  Mastered'
<1>1. /\ OthersStay(t) /\ job' = job /\ target' = target /\ asked' = asked
      /\ pc'[t] = "get"
  BY CallFacts DEF FetchToken, OthersStay, CallTypes
<1>2. UNCHANGED <<rows, vrows, maps, joined, kubeconfig, seen>>
  BY DEF FetchToken, tableVars, validationVars, worldVars
<1> QED
  BY <1>1, <1>2, MasteredCallStays, MasteredCall

\* handleAnsible looks up the cluster of the row it has read, and takes the
\* node from its Info.
LEMMA MasteredPickNode ==
    ASSUME IInv, Mastered, NEW t \in Calls, PickNode(t)
    PROVE  Mastered'
<1>1. Probed(t) /\ job[t].kind = "ansible"
  BY DEF PickNode
<1>2. CASE NodeOf(t) = {}
  BY <1>2, MasteredPanic DEF PickNode
<1>3. CASE NodeOf(t) # {}
  <2>1. PICK m \in NodeOf(t) :
            CASE RowOf(t).template = "k3s-master" ->
                    /\ pc' = [pc EXCEPT ![t] = "install"]
                    /\ UNCHANGED <<job, target, creds, at, todo, asked>>
              [] RowOf(t).template = "k3s-worker" ->
                    /\ pc' = [pc EXCEPT ![t] = "run"]
                    /\ target' = [target EXCEPT ![t] = m]
                    /\ UNCHANGED <<job, creds, at, todo, asked>>
              [] OTHER -> Leave(t)
    BY <1>3 DEF PickNode
  <2>2. UNCHANGED <<rows, vrows, maps, joined, kubeconfig, seen>>
    BY <1>3 DEF PickNode, tableVars, validationVars, worldVars
  <2>3. m \in Mac /\ Controls(m, RowOf(t).cluster)
    <3>1. m \in Mac /\ RowOf(t) \in Row /\ ptr \in Validations
      BY <1>1, <2>1, NodeOfMachine
    <3>2. RowOf(t).cluster \in Cluster
      BY <3>1 DEF Row
    <3>3. ObjectMastered(ptr, RowOf(t).cluster)
      BY <3>1, <3>2 DEF Mastered, ObjectsMastered
    <3> QED
      BY <2>1, <3>1, <3>3 DEF NodeOf, ObjectMastered
  <2>4. CallMastered(t)
    BY DEF Mastered, CallsMastered
  <2>5. CASE RowOf(t).template = "k3s-master"
    <3>1. OthersStay(t) /\ job' = job /\ target' = target /\ asked' = asked
      BY <2>1, <2>5, CallFacts DEF OthersStay, CallTypes
    <3>2. CallMastered(t)'
      BY <2>2, <2>3, <2>4, <2>5, <3>1 DEF CallMastered, Controls, IsMaster, RowOf
    <3> QED
      BY <2>2, <3>1, <3>2, MasteredCall
  <2>6. CASE RowOf(t).template = "k3s-worker"
    <3>1. /\ OthersStay(t) /\ job' = job /\ asked' = asked
          /\ target'[t] = m /\ pc'[t] = "run"
      BY <2>1, <2>6, CallFacts DEF OthersStay, CallTypes
    <3>2. CallMastered(t)'
      BY <2>2, <2>3, <2>4, <2>6, <3>1 DEF CallMastered, Controls, IsMaster, RowOf
    <3> QED
      BY <2>2, <3>1, <3>2, MasteredCall
  <2>7. CASE /\ RowOf(t).template # "k3s-master"
             /\ RowOf(t).template # "k3s-worker"
    BY <2>1, <2>2, <2>7, MasteredEnd
  <2> QED
    BY <2>5, <2>6, <2>7
<1> QED
  BY <1>2, <1>3

\* The token an agent joins with is that of a control plane of its cluster.
LEMMA TokenOfControlPlane ==
    ASSUME IInv, Tokens, Mastered, NEW t \in Calls, pc[t] = "join", creds[t] # None
    PROVE  /\ job[t].mac \in Mac
           /\ job[t].rows \in seen
           /\ RowOf(t) # NoRow
           /\ RowOf(t).template = "k3s-worker"
           /\ Controls(creds[t], RowOf(t).cluster)
<1>1. job[t].kind = "ansible" /\ job[t].mac \in Mac /\ RowOf(t) # NoRow
  BY CallFacts DEF CallPlace, RowOf
<1> QED
  BY <1>1 DEF Tokens, TokenPlace, Mastered, CallsMastered, CallMastered

LEMMA MasteredJoinWorker ==
    ASSUME IInv, Tokens, Mastered, NEW t \in Calls, JoinWorker(t)
    PROVE  Mastered'
<1> DEFINE w == job[t].mac
<1>1. /\ w \in Mac
      /\ creds[t] # None =>
            /\ job[t].rows \in seen
            /\ RowOf(t) # NoRow /\ RowOf(t).template = "k3s-worker"
            /\ IsMaster(creds[t], RowOf(t).cluster)
  <2>1. w \in Mac /\ pc[t] = "join"
    BY CallFacts DEF JoinWorker, CallPlace
  <2> QED
    BY <2>1, TokenOfControlPlane DEF Controls
<1>2. UNCHANGED <<rows, vrows, maps, kubeconfig, seen>>
  BY DEF JoinWorker, tableVars, validationVars
<1>3. \A x \in Mac : joined'[x] = joined[x] \/ (x = w /\ joined'[x] = creds[t])
  BY DEF JoinWorker, IInv, TypeOK, WorldTypes
<1>4. JoinedItsCluster'
  <2> SUFFICES ASSUME NEW x \in Mac, joined'[x] # None
               PROVE  \E f \in seen, g \in seen :
                        /\ f[x] # NoRow
                        /\ f[x].template = "k3s-worker"
                        /\ joined'[x] \in MastersOf(g, f[x].cluster)
    BY <1>2 DEF JoinedItsCluster
  <2>1. CASE joined'[x] = joined[x]
    BY <2>1 DEF Mastered, JoinedItsCluster
  <2>2. CASE x = w /\ joined'[x] = creds[t]
    BY <1>1, <2>2 DEF RowOf, IsMaster
  <2> QED
    BY <1>3, <2>1, <2>2
<1>5. Ended(t) /\ OthersStay(t)
  BY LeaveMoves DEF JoinWorker
<1>6. CallMastered(t)'
  BY <1>5 DEF Ended, NoJob, CallMastered
<1>7. FilesSeen' /\ CallsMastered'
  BY <1>2, <1>5, <1>6, MasteredCallStays
     DEF Mastered, FilesSeen, CallsMastered, OthersStay
<1> QED
  BY <1>2, <1>4, <1>7, MasteredObjectsStay DEF Mastered

LEMMA MasteredRequest ==
    ASSUME IInv, Tokens, Mastered, NEW r \in Requests, RequestArrives(r)
    PROVE  Mastered'
<1>1. r \in Calls /\ pc[r] = "new" /\ rows # None
  BY DEF Calls, RequestArrives, AskAnsible, AskToken, AskClusters
<1>2. UNCHANGED <<rows, vrows, maps, joined, kubeconfig, seen>>
  BY DEF RequestArrives, AskAnsible, AskToken, AskClusters, tableVars,
         validationVars, worldVars
<1>3. target[r] = None /\ rows \in seen
  BY <1>1 DEF Tokens, TokenPlace, Mastered, FilesSeen
<1>4. CASE Leave(r)
  BY <1>1, <1>2, <1>4, MasteredEnd
<1>5. CASE ~Leave(r)
  <2>1. OthersStay(r)
    BY <1>1, <1>5, CallFacts
       DEF RequestArrives, AskAnsible, AskToken, AskClusters, Ask, OthersStay, CallTypes
  <2>2. /\ asked' = asked /\ (AskAnsible(r) => target' = target)
        /\ pc'[r] \in {"get", "run"}
    BY <1>1, <1>5, CallFacts
       DEF RequestArrives, AskAnsible, AskToken, AskClusters, Ask, CallTypes
  <2>3. /\ AskAnsible(r) => job'[r].kind = "ansible" /\ job'[r].rows = rows
        /\ ~AskAnsible(r) => job'[r].kind # "ansible"
    BY <1>1, <1>5, CallFacts
       DEF RequestArrives, AskAnsible, AskToken, AskClusters, Ask, CallTypes
  <2>4. CallMastered(r)'
    BY <1>1, <1>2, <1>3, <2>2, <2>3 DEF Mastered, CallsMastered, CallMastered, Controls, IsMaster
  <2> QED
    BY <1>1, <1>2, <2>1, <2>4, MasteredCall
<1> QED
  BY <1>4, <1>5

LEMMA MasteredCallEnds ==
    ASSUME IInv, Mastered, NEW t \in Calls,
           \/ FailProbe(t) \/ AnswerList(t) \/ NoToken(t) \/ FailToken(t)
           \/ InstallMaster(t) \/ FailPlaybook(t)
    PROVE  Mastered'
<1>1. CASE Panic(t)
  BY <1>1, MasteredPanic
<1>2. CASE ~Panic(t)
  <2>1. /\ Leave(t) /\ UNCHANGED <<rows, vrows, maps, joined, seen>>
        /\ kubeconfig \subseteq kubeconfig'
    BY <1>2 DEF FailProbe, AnswerList, NoToken, FailToken, InstallMaster,
                FailPlaybook, tableVars, validationVars, worldVars
  <2> QED
    BY <2>1, MasteredEnd
<1> QED
  BY <1>1, <1>2

LEMMA MasteredNext ==
    ASSUME IInv, Tokens, Mastered, [Next]_vars
    PROVE  Mastered'
<1>1. CASE UNCHANGED vars
  BY <1>1, MasteredFiles DEF vars, tableVars, validationVars, worldVars, Mastered, FilesSeen
<1>2. ASSUME NEW v \in Validations, Populate(v) \/ ValidationStep(v)
      PROVE  Mastered'
  BY <1>2, MasteredValidation
<1>3. ASSUME NEW r \in Requests, RequestArrives(r)
      PROVE  Mastered'
  BY <1>3, MasteredRequest
<1>4. ASSUME NEW t \in Calls, CallStep(t)
      PROVE  Mastered'
  BY <1>4, MasteredProbe, MasteredAnswerProbe, MasteredStoreToken, MasteredFetchToken,
     MasteredPickNode, MasteredJoinWorker, MasteredCallEnds DEF CallStep, OwnStep, GoodEnd, BadEnd
<1>5. CASE MapRace \/ Kill
  BY <1>5, MasteredCrash DEF MapRace, Kill
<1> QED
  BY <1>1, <1>2, <1>3, <1>4, <1>5 DEF Next

LEMMA MasteredInvariant == Spec => []Mastered
<1>1. Init => Mastered
  BY DEF Init, Mastered, FilesSeen, ObjectsMastered, ObjectMastered, EmptyTable,
         CallsMastered, CallMastered, NoJob, JoinedItsCluster
<1> QED
  BY <1>1, IInvInvariant, TokensInvariant, MasteredNext, PTL DEF Spec

\* However the reads of /ansible straddle repopulations, an agent joins a server
\* that a version of the file made master of the cluster a version of the file
\* put the agent's machine into.
THEOREM AgentsJoinTheirCluster == Spec => []JoinedItsCluster
<1>1. Mastered => JoinedItsCluster
  BY DEF Mastered
<1> QED
  BY <1>1, MasteredInvariant, PTL

-----------------------------------------------------------------------------
(* Clusters implements Deployment.                                         *)

\* The world outside the process as Deployment sees it.
Still == UNCHANGED <<worldVars, seen>>

LEMMA StillStutters ==
    ASSUME Still
    PROVE  UNCHANGED D!vars
BY DEF Still, worldVars, D!vars

LEMMA ControlPlaneOf ==
    ASSUME NEW f \in seen, NEW m \in Mac, f[m] # NoRow,
           NEW s, Controls(s, f[m].cluster)
    PROVE  s \in D!ControlPlane(m, f[m].template)
<1>1. PICK g \in seen : s \in MastersOf(g, f[m].cluster)
  BY DEF Controls, IsMaster
<1> QED
  BY <1>1 DEF Controls, MastersOf, NodesOf, D!ControlPlane

LEMMA EndStill ==
    ASSUME NEW t \in Calls, Panic(t) \/ UNCHANGED outside
    PROVE  Still
BY DEF Still, Panic, Crash

LEMMA ValidationRefines ==
    ASSUME NEW v \in Validations, Populate(v) \/ ValidationStep(v)
    PROVE  [D!Next]_(D!vars)
<1>1. CASE Populate(v)
  BY <1>1 DEF Populate, worldVars, D!Next, D!Learn
<1>2. CASE ValidationStep(v)
  BY <1>2, StillStutters
     DEF ValidationStep, Publish, InitCluster, CreateMap, WriteCluster,
         AwaitFetches, EndValidation, Still
<1> QED
  BY <1>1, <1>2

LEMMA InstallRefines ==
    ASSUME IInv, Mastered, NEW t \in Calls, InstallMaster(t) \/ FailPlaybook(t)
    PROVE  [D!Next]_(D!vars)
<1> DEFINE m == job[t].mac
<1>1. CASE server' = server /\ FailPlaybook(t)
  BY <1>1, StillStutters DEF FailPlaybook, Still, worldVars
<1>2. CASE ~(server' = server /\ FailPlaybook(t))
  <2>1. /\ pc[t] = "install" /\ joined[m] = None
        /\ server' = server \union {m}
        /\ kubeconfig' \in {kubeconfig, kubeconfig \union {m}}
        /\ UNCHANGED <<joined, seen>>
    BY <1>2 DEF InstallMaster, FailPlaybook
  <2>2. /\ m \in Mac /\ job[t].rows \in seen /\ RowOf(t) # NoRow
        /\ RowOf(t).template = "k3s-master"
        /\ \E s \in Mac : Controls(s, RowOf(t).cluster)
    BY <2>1, CallFacts
       DEF CallPlace, Mastered, CallsMastered, CallMastered, RowOf
  <2>3. D!ControlPlane(m, "k3s-master") # {}
    BY <2>2, ControlPlaneOf DEF RowOf
  <2> QED
    BY <2>1, <2>2, <2>3 DEF D!Next, D!Install
<1> QED
  BY <1>1, <1>2

LEMMA JoinRefines ==
    ASSUME IInv, Tokens, Mastered, NEW t \in Calls, JoinWorker(t)
    PROVE  [D!Next]_(D!vars)
<1> DEFINE w == job[t].mac
<1>1. /\ w \in Mac /\ pc[t] = "join"
      /\ joined' = [joined EXCEPT ![w] = IF @ = None THEN creds[t] ELSE @]
      /\ UNCHANGED <<server, kubeconfig, seen>>
      /\ joined \in [Mac -> Mac \union {None}]
  BY CallFacts DEF JoinWorker, CallPlace, IInv, TypeOK, WorldTypes
<1>2. CASE joined[w] # None \/ creds[t] = None
  <2>1. joined' = joined
    BY <1>1, <1>2
  <2> QED
    BY <1>1, <2>1 DEF D!vars
<1>3. CASE joined[w] = None /\ creds[t] # None
  <2>1. creds[t] \in D!ControlPlane(w, "k3s-worker")
    <3>1. /\ job[t].rows \in seen /\ RowOf(t) # NoRow
          /\ RowOf(t).template = "k3s-worker"
          /\ Controls(creds[t], RowOf(t).cluster)
      BY <1>1, <1>3, TokenOfControlPlane
    <3>2. RowOf(t) = job[t].rows[w]
      BY DEF RowOf
    <3> HIDE DEF w
    <3> QED
      BY <1>1, <3>1, <3>2, ControlPlaneOf
  <2>2. joined' = [joined EXCEPT ![w] = creds[t]]
    BY <1>1, <1>3
  <2> QED
    BY <1>1, <1>3, <2>1, <2>2 DEF D!Next, D!Join
<1> QED
  BY <1>2, <1>3

\* Whatever else a call does, it does to the memory of the process.
LEMMA CallRefines ==
    ASSUME IInv, Tokens, Mastered, NEW t \in Calls, CallStep(t)
    PROVE  [D!Next]_(D!vars)
<1>1. CASE StartGet(t) \/ ProbeCluster(t) \/ AnswerProbe(t)
  BY <1>1, EndStill, StillStutters DEF StartGet, ProbeCluster, AnswerProbe, Still
<1>2. CASE AnswerList(t) \/ FetchToken(t) \/ NoToken(t) \/ StoreToken(t)
  BY <1>2, StillStutters DEF AnswerList, FetchToken, NoToken, StoreToken, Still
<1>3. CASE PickNode(t) \/ FailProbe(t) \/ FailToken(t)
  BY <1>3, EndStill, StillStutters DEF PickNode, FailProbe, FailToken
<1> QED
  BY <1>1, <1>2, <1>3, InstallRefines, JoinRefines DEF CallStep, OwnStep, GoodEnd, BadEnd

LEMMA RequestRefines ==
    ASSUME NEW r \in Requests, RequestArrives(r)
    PROVE  Still
BY DEF RequestArrives, AskAnsible, AskToken, AskClusters, Still

\* The worker deploys what the files say, next to control planes it has a
\* kubeconfig of, and undoes nothing: for any files, machines and clusters and
\* any number of overlapping Populates and requests, Clusters implements
\* Deployment.
THEOREM DeploymentRefinement == Spec => DeploymentFollowsFiles
<1>1. Init => D!Init
  BY DEF Init, D!Init
<1>2. ASSUME IInv, Tokens, Mastered, [Next]_vars
      PROVE  [D!Next]_(D!vars)
  <2>1. CASE UNCHANGED vars
    BY <1>2, <2>1, StillStutters DEF vars, Still
  <2>2. CASE MapRace \/ Kill
    BY <1>2, <2>2, StillStutters DEF MapRace, Kill, Crash, Still
  <2> QED
    BY <1>2, <2>1, <2>2, ValidationRefines, RequestRefines, StillStutters,
       CallRefines DEF Next
<1> QED
  BY <1>1, <1>2, IInvInvariant, TokensInvariant, MasteredInvariant, PTL
     DEF Spec, DeploymentFollowsFiles, D!Spec

-----------------------------------------------------------------------------
(* Nothing comes from nothing.                                             *)

\* Without a kubeconfig from elsewhere no machine ever gets k3s: whatever the
\* file, the requests and the faults, handleAnsible panics before it runs the
\* playbook that would make the first cluster.  Deployment says so already: no
\* machine can be a control plane.
THEOREM NoClusterFromNothing == Spec => FirstClusterNeedsHelp
<1> DEFINE Nothing ==
        kubeconfig = {} /\ server = {} /\ \A w \in Mac : joined[w] = None
<1>1. Init /\ kubeconfig = {} /\ server = {} => Nothing
  BY DEF Init
<1>2. ASSUME Nothing, [D!Next]_(D!vars)
      PROVE  Nothing'
  <2>1. \A m \in Mac : \A template : D!ControlPlane(m, template) = {}
    BY <1>2 DEF D!ControlPlane
  <2>2. ~\E m \in Mac : D!Install(m) \/ D!Join(m)
    BY <2>1 DEF D!Install, D!Join
  <2> QED
    BY <1>2, <2>2 DEF D!Next, D!Learn, D!vars
<1>3. Nothing => kubeconfig = {} /\ server = {} /\ \A w \in Mac : joined[w] = None
  OBVIOUS
<1> QED
  BY <1>1, <1>2, <1>3, DeploymentRefinement, PTL
     DEF Spec, FirstClusterNeedsHelp, DeploymentFollowsFiles, D!Spec

-----------------------------------------------------------------------------
(* What else follows from Deployment alone.                                *)

\* An agent's server runs k3s and its kubeconfig is with the worker.
AgentsHaveServers ==
    /\ kubeconfig \subseteq server
    /\ \A w \in Mac : joined[w] # None => joined[w] \in kubeconfig

\* The server an agent has joined is one that was installed, or was there
\* before, and whose kubeconfig was fetched: then, and ever after, whatever
\* stops, faults and later versions of the file there are.
THEOREM AgentsKeepServers ==
    Spec => /\ []AgentsHaveServers
            /\ [][\A w \in Mac : joined[w] # None => joined'[w] = joined[w]]_joined
<1> DEFINE Kept == \A w \in Mac : joined[w] # None => joined'[w] = joined[w]
<1>1. Init => AgentsHaveServers
  BY DEF Init, AgentsHaveServers
<1>2. ASSUME IInv, AgentsHaveServers, [D!Next]_(D!vars)
      PROVE  AgentsHaveServers' /\ Kept
  <2>1. joined \in [Mac -> Mac \union {None}]
    BY <1>2 DEF IInv, TypeOK, WorldTypes
  <2>2. CASE UNCHANGED <<server, kubeconfig, joined>>
    BY <1>2, <2>2 DEF AgentsHaveServers
  <2>3. ASSUME NEW m \in Mac, D!Install(m)
        PROVE  AgentsHaveServers' /\ Kept
    BY <1>2, <2>3 DEF AgentsHaveServers, D!Install
  <2>4. ASSUME NEW m \in Mac, D!Join(m)
        PROVE  AgentsHaveServers' /\ Kept
    BY <1>2, <2>1, <2>4 DEF AgentsHaveServers, D!Join, D!ControlPlane
  <2> QED
    BY <1>2, <2>2, <2>3, <2>4 DEF D!Next, D!Learn, D!vars
<1>3. IInv /\ AgentsHaveServers /\ [D!Next]_(D!vars) => AgentsHaveServers'
  BY <1>2
<1>4. IInv /\ AgentsHaveServers /\ [D!Next]_(D!vars) => [Kept]_joined
  BY <1>2
<1> QED
  BY <1>1, <1>3, <1>4, IInvInvariant, DeploymentRefinement, PTL
     DEF Spec, DeploymentFollowsFiles, D!Spec

=============================================================================
