---------------------------- MODULE ClustersSafety ----------------------------
(***************************************************************************)
(* The safety properties of Clusters, proved beside its inductive          *)
(* invariant: where tokens go, what a table filled without overlap holds,  *)
(* and that the calls that write to it find it there.                      *)
(***************************************************************************)
EXTENDS ClustersProofs

USE UnclaimedAssumption, NoneAssumption, NoRowAssumption, FilesAssumption,
    CallsAssumption, PreparedAssumption DEF outside

\* All other calls are where they were.
OthersStay(t) ==
    \A u \in Calls \ {t} :
        /\ pc'[u] = pc[u] /\ job'[u] = job[u] /\ target'[u] = target[u]
        /\ creds'[u] = creds[u] /\ asked'[u] = asked[u]

\* A call that ends is done and holds nothing.
Ended(t) ==
    /\ pc'[t] = "done" /\ job'[t] = NoJob /\ target'[t] = None
    /\ creds'[t] = None /\ asked'[t] = None

LEMMA LeaveMoves ==
    ASSUME IInv, NEW t \in Calls, Leave(t)
    PROVE  Ended(t) /\ OthersStay(t)
BY CallFacts DEF Leave, Ended, OthersStay, CallTypes

-----------------------------------------------------------------------------
(* Tokens.                                                                 *)

\* What a call knows of the token it fetches: whose it is, and that the
\* machine is the one FetchToken was told.
TokenPlace(t) ==
    /\ job[t].kind \in {"validate", "token"} => target[t] = job[t].mac
    /\ job[t].kind \in {"none", "list"} => target[t] = None
    /\ creds[t] # None => creds[t] = target[t] /\ target[t] \in server
    /\ t \in Fetches =>
        /\ job[t].kind \in {"none", "validate"}
        /\ job[t].kind = "validate" => job[t].mac = t[2]
    /\ pc[t] \in {"new", "done"} => job[t].kind = "none"

Tokens == TokenOfOwnNode /\ \A t \in Calls : TokenPlace(t)

\* One call moves, the table does not, and no server is taken away.
LEMMA TokensCall ==
    ASSUME Tokens, NEW t \in Calls, OthersStay(t), TokenPlace(t)',
           UNCHANGED maps, server \subseteq server'
    PROVE  Tokens'
<1>1. TokenOfOwnNode'
  BY DEF Tokens, TokenOfOwnNode
<1>2. ASSUME NEW u \in Calls, u # t
      PROVE  TokenPlace(u)'
  BY <1>2 DEF Tokens, TokenPlace, OthersStay
<1> QED
  BY <1>1, <1>2 DEF Tokens

LEMMA TokensEnd ==
    ASSUME IInv, Tokens, NEW t \in Calls, Leave(t), UNCHANGED maps,
           server \subseteq server'
    PROVE  Tokens'
<1>1. Ended(t) /\ OthersStay(t)
  BY LeaveMoves
<1>2. TokenPlace(t)'
  BY <1>1 DEF Ended, NoJob, TokenPlace
<1> QED
  BY <1>1, <1>2, TokensCall

LEMMA TokensCrash ==
    ASSUME Tokens, Crash
    PROVE  Tokens'
BY DEF Crash, Tokens, TokenOfOwnNode, TokenPlace, EmptyTable, NoJob

LEMMA TokensPanic ==
    ASSUME IInv, Tokens, NEW t \in Calls, Panic(t)
    PROVE  Tokens'
BY TokensEnd, TokensCrash DEF Panic, tableVars, worldVars

LEMMA TokensStay ==
    ASSUME Tokens, UNCHANGED <<maps, callVars, server>>
    PROVE  Tokens'
BY DEF Tokens, TokenOfOwnNode, TokenPlace, callVars

LEMMA TokensWriteCluster ==
    ASSUME IInv, Tokens, NEW v \in Validations, WriteCluster(v)
    PROVE  Tokens'
<1> DEFINE new == {v} \X NodesOf(vrows[v], vcur[v])
<1>1. server' = server
  BY DEF WriteCluster, worldVars
<1>2. TokenOfOwnNode'
  <2>1. \A w \in Validations, c \in Cluster :
            maps'[w][c] = maps[w][c] \/ maps'[w][c].token = None
    BY WriteClusterTable
  <2> QED
    BY <1>1, <2>1 DEF Tokens, TokenOfOwnNode
<1>3. ASSUME NEW t \in Calls
      PROVE  TokenPlace(t)'
  <2>1. TokenPlace(t)
    BY DEF Tokens
  <2>2. CASE t \notin new
    BY <2>1, <2>2 DEF WriteCluster, worldVars, TokenPlace
  <2>3. CASE t \in new
    <3>1. t \in Fetches /\ t[2] \in Mac
      BY <2>3 DEF Fetches, NodesOf
    <3>2. /\ pc'[t] = "run" /\ target'[t] = t[2] /\ creds'[t] = creds[t]
          /\ job'[t].kind = "validate" /\ job'[t].mac = t[2] /\ server' = server
      BY <2>3 DEF WriteCluster, worldVars, NoJob
    <3>3. creds[t] # None => creds[t] = t[2] /\ t[2] \in server
      BY <2>1, <3>1 DEF TokenPlace
    <3> QED
      BY <3>1, <3>2, <3>3 DEF TokenPlace
  <2> QED
    BY <2>2, <2>3
<1> QED
  BY <1>2, <1>3 DEF Tokens

LEMMA TokensEndValidation ==
    ASSUME IInv, Tokens, NEW v \in Validations, EndValidation(v)
    PROVE  Tokens'
<1>1. TokenOfOwnNode'
  BY DEF EndValidation, tableVars, worldVars, Tokens, TokenOfOwnNode
<1>2. ASSUME NEW t \in Calls
      PROVE  TokenPlace(t)'
  <2>1. /\ TokenPlace(t)
        /\ pc'[t] = pc[t] \/ pc[t] \in {"new", "done"}
    BY DEF EndValidation, Tokens
  <2> QED
    BY <2>1 DEF EndValidation, worldVars, TokenPlace
<1> QED
  BY <1>1, <1>2 DEF Tokens

LEMMA TokensValidation ==
    ASSUME IInv, Tokens, NEW v \in Validations, Populate(v) \/ ValidationStep(v)
    PROVE  Tokens'
<1>1. CASE Populate(v) \/ Publish(v) \/ InitCluster(v) \/ CreateMap(v) \/ AwaitFetches(v)
  BY <1>1, TokensStay
     DEF Populate, Publish, InitCluster, CreateMap, AwaitFetches, tableVars, worldVars
<1> QED
  BY <1>1, TokensWriteCluster, TokensEndValidation DEF ValidationStep

\* A call that moves on without a new target or token.
LEMMA TokensGoOn ==
    ASSUME IInv, Tokens, NEW t \in Calls, OthersStay(t),
           pc[t] \notin {"new", "done"}, pc'[t] \notin {"new", "done"},
           UNCHANGED <<job, target, creds, maps, server>>
    PROVE  Tokens'
<1>1. TokenPlace(t)'
  BY DEF Tokens, TokenPlace
<1> QED
  BY <1>1, TokensCall

\* Probes give the object an Info and leave its token alone.
LEMMA TokensAnswerProbe ==
    ASSUME IInv, Tokens, NEW t \in Calls, AnswerProbe(t)
    PROVE  Tokens'
<1>1. CASE maps[ptr][asked[t].key] = None
  BY <1>1, TokensPanic DEF AnswerProbe
<1>2. CASE maps[ptr][asked[t].key] # None
  <2>1. \A v \in Validations, c \in Cluster : maps'[v][c] # None =>
            /\ maps[v][c] # None
            /\ maps'[v][c].token = maps[v][c].token
            /\ maps'[v][c].nodes = maps[v][c].nodes
    BY <1>2, AnswerProbeTable
  <2>2. server' = server
    BY <1>2 DEF AnswerProbe, worldVars
  <2>3. TokenOfOwnNode'
    BY <2>1, <2>2 DEF Tokens, TokenOfOwnNode
  <2>4. ASSUME NEW u \in Calls
        PROVE  TokenPlace(u)'
    BY <1>2, CallFacts DEF AnswerProbe, worldVars, Tokens, TokenPlace, CallTypes
  <2> QED
    BY <2>3, <2>4 DEF Tokens
<1> QED
  BY <1>1, <1>2

\* The heart: a token is stored where its machine is a node.
LEMMA TokensStoreToken ==
    ASSUME IInv, Tokens, NEW t \in Calls, StoreToken(t)
    PROVE  Tokens'
<1>1. ptr \in Validations /\ creds[t] \in Mac
  BY CallFacts DEF StoreToken, Probed, CallPlace
<1>2. creds[t] = target[t] /\ creds[t] \in server
  BY DEF StoreToken, Tokens, TokenPlace
<1>3. TokenMac(t) \in {creds[t], None}
  BY <1>1, <1>2, CallFacts DEF TokenMac, Tokens, TokenPlace, Job
<1>4. server' = server
  BY DEF StoreToken, worldVars
<1>5. ASSUME NEW v \in Validations, NEW k \in Cluster,
             maps'[v][k] # None, maps'[v][k].token # None
      PROVE  /\ k # Unclaimed
             /\ maps'[v][k].token \in maps'[v][k].nodes \intersect server
  <2>1. CASE maps'[v][k] = maps[v][k]
    BY <1>5, <2>1 DEF Tokens, TokenOfOwnNode
  <2>2. CASE maps'[v][k] # maps[v][k]
    <3>1. /\ v = ptr /\ maps[v][k] \in Object /\ Tokened(t, k)
          /\ maps'[v][k].token = creds[t]
          /\ maps'[v][k].nodes = maps[v][k].nodes
      BY <2>2, StoreTokenTable
    <3>2. maps[v][k].nodes \subseteq Mac
      BY <3>1 DEF Object
    <3>3. k # Unclaimed /\ creds[t] \in maps[v][k].nodes
      BY <1>3, <3>1, <3>2 DEF Tokened
    <3> QED
      BY <1>2, <3>1, <3>3
  <2> QED
    BY <2>1, <2>2
<1>6. TokenOfOwnNode'
  BY <1>4, <1>5 DEF Tokens, TokenOfOwnNode
<1>7. ASSUME NEW u \in Calls
      PROVE  TokenPlace(u)'
  <2>1. CASE job[t].kind = "ansible"
    BY <1>4, <2>1, CallFacts DEF StoreToken, Tokens, TokenPlace, CallTypes
  <2>2. CASE job[t].kind # "ansible"
    <3>1. Ended(t) /\ OthersStay(t)
      BY <2>2, LeaveMoves DEF StoreToken
    <3> QED
      BY <1>4, <3>1 DEF Ended, OthersStay, NoJob, Tokens, TokenPlace
  <2> QED
    BY <2>1, <2>2
<1> QED
  BY <1>6, <1>7 DEF Tokens

LEMMA TokensFetchToken ==
    ASSUME IInv, Tokens, NEW t \in Calls, FetchToken(t)
    PROVE  Tokens'
<1>1. OthersStay(t)
  BY CallFacts DEF FetchToken, OthersStay, CallTypes
<1>2. TokenPlace(t)'
  BY CallFacts DEF FetchToken, worldVars, Tokens, TokenPlace, CallTypes
<1> QED
  BY <1>1, <1>2, TokensCall DEF FetchToken, tableVars, worldVars

LEMMA TokensPickNode ==
    ASSUME IInv, Tokens, NEW t \in Calls, PickNode(t)
    PROVE  Tokens'
<1>1. CASE NodeOf(t) = {}
  BY <1>1, TokensPanic DEF PickNode
<1>2. CASE NodeOf(t) # {}
  <2>1. PICK m \in NodeOf(t) :
            CASE RowOf(t).template = "k3s-master" ->
                    /\ pc' = [pc EXCEPT ![t] = "install"]
                    /\ UNCHANGED <<job, target, creds, at, todo, asked>>
              [] RowOf(t).template = "k3s-worker" ->
                    /\ pc' = [pc EXCEPT ![t] = "run"]
                    /\ target' = [target EXCEPT ![t] = m]
                    /\ UNCHANGED <<job, creds, at, todo, asked>>
              [] OTHER -> Leave(t)
    BY <1>2 DEF PickNode
  <2>2. UNCHANGED <<maps, server>>
    BY <1>2 DEF PickNode, tableVars, worldVars
  <2>3. CASE RowOf(t).template = "k3s-master"
    BY <2>1, <2>2, <2>3, TokensGoOn, CallFacts
       DEF PickNode, Probed, OthersStay, CallTypes
  <2>4. CASE RowOf(t).template = "k3s-worker"
    <3>1. OthersStay(t)
      BY <2>1, <2>4, CallFacts DEF OthersStay, CallTypes
    <3>2. TokenPlace(t)'
      BY <2>1, <2>2, <2>4, CallFacts DEF PickNode, Tokens, TokenPlace, CallTypes
    <3> QED
      BY <2>2, <3>1, <3>2, TokensCall
  <2>5. CASE /\ RowOf(t).template # "k3s-master"
             /\ RowOf(t).template # "k3s-worker"
    BY <2>1, <2>2, <2>5, TokensEnd
  <2> QED
    BY <2>3, <2>4, <2>5
<1> QED
  BY <1>1, <1>2

LEMMA TokensProbeCluster ==
    ASSUME IInv, Tokens, NEW t \in Calls, StartGet(t) \/ ProbeCluster(t)
    PROVE  Tokens'
<1>1. CASE Panic(t)
  BY <1>1, TokensPanic
<1>2. CASE StartGet(t) /\ ~Panic(t)
  BY <1>2, TokensGoOn, CallFacts DEF StartGet, OthersStay, CallTypes, tableVars, worldVars
<1>3. CASE ProbeCluster(t) /\ ~Panic(t)
  BY <1>3, TokensGoOn, CallFacts
     DEF ProbeCluster, OthersStay, CallTypes, tableVars, worldVars
<1> QED
  BY <1>1, <1>2, <1>3

LEMMA TokensRequest ==
    ASSUME IInv, Tokens, NEW r \in Requests, RequestArrives(r)
    PROVE  Tokens'
<1>1. r \in Calls /\ r \notin Fetches
  BY DEF Calls
<1>2. UNCHANGED <<maps, server>> /\ pc[r] = "new"
  BY DEF RequestArrives, AskAnsible, AskToken, AskClusters, tableVars, worldVars
<1>3. target[r] = None /\ creds[r] = None
  BY <1>1, <1>2 DEF Tokens, TokenPlace
<1>4. CASE Leave(r)
  BY <1>1, <1>2, <1>4, TokensEnd
<1>5. CASE ~Leave(r)
  <2>1. OthersStay(r)
    BY <1>1, <1>5, CallFacts
       DEF RequestArrives, AskAnsible, AskToken, AskClusters, Ask, OthersStay, CallTypes
  <2>2. TokenPlace(r)'
    BY <1>1, <1>2, <1>3, <1>5, CallFacts
       DEF RequestArrives, AskAnsible, AskToken, AskClusters, Ask, TokenPlace, CallTypes
  <2> QED
    BY <1>1, <1>2, <2>1, <2>2, TokensCall
<1> QED
  BY <1>4, <1>5

LEMMA TokensCallEnds ==
    ASSUME IInv, Tokens, NEW t \in Calls,
           \/ FailProbe(t) \/ AnswerList(t) \/ NoToken(t) \/ FailToken(t)
           \/ InstallMaster(t) \/ JoinWorker(t) \/ FailPlaybook(t)
    PROVE  Tokens'
<1>1. CASE Panic(t)
  BY <1>1, TokensPanic
<1>2. CASE ~Panic(t)
  <2>1. Leave(t) /\ UNCHANGED maps /\ server \subseteq server'
    BY <1>2 DEF FailProbe, AnswerList, NoToken, FailToken, InstallMaster,
                JoinWorker, FailPlaybook, tableVars, worldVars
  <2> QED
    BY <2>1, TokensEnd
<1> QED
  BY <1>1, <1>2

LEMMA TokensNext ==
    ASSUME IInv, Tokens, [Next]_vars
    PROVE  Tokens'
<1>1. CASE UNCHANGED vars
  BY <1>1, TokensStay DEF vars, tableVars, worldVars
<1>2. ASSUME NEW v \in Validations, Populate(v) \/ ValidationStep(v)
      PROVE  Tokens'
  BY <1>2, TokensValidation
<1>3. ASSUME NEW r \in Requests, RequestArrives(r)
      PROVE  Tokens'
  BY <1>3, TokensRequest
<1>4. ASSUME NEW t \in Calls, CallStep(t)
      PROVE  Tokens'
  BY <1>4, TokensProbeCluster, TokensAnswerProbe, TokensStoreToken, TokensFetchToken,
     TokensPickNode, TokensCallEnds DEF CallStep, OwnStep, GoodEnd, BadEnd
<1>5. CASE MapRace \/ Kill
  BY <1>5, TokensCrash DEF MapRace, Kill
<1> QED
  BY <1>1, <1>2, <1>3, <1>4, <1>5 DEF Next

\* What is known of tokens, at rest and on their way.
THEOREM TokensInvariant == Spec => []Tokens
<1>1. Init => Tokens
  BY DEF Init, Tokens, TokenOfOwnNode, TokenPlace, EmptyTable, NoJob
<1> QED
  BY <1>1, IInvInvariant, TokensNext, PTL DEF Spec

\* A token stored for a cluster is that of a server among the nodes the cluster
\* has now, whichever Populate started the playbook that fetched it.
THEOREM TokensStayHome == Spec => []TokenOfOwnNode
<1>1. Tokens => TokenOfOwnNode
  BY DEF Tokens
<1> QED
  BY <1>1, TokensInvariant, PTL

-----------------------------------------------------------------------------
(* The table against the registry.                                         *)

\* The table has cluster k as file f has it.
Agrees(f, k) ==
    /\ ptr # None
    /\ maps[ptr][k] # None
    /\ maps[ptr][k].nodes = NodesOf(f, k)
    /\ maps[ptr][k].master \in MastersOf(f, k)

\* A validation will still come to cluster k, or is at it.
InHand(v, k) ==
    \/ k \in vtodo[v]
    \/ vpc[v] \in {"create", "write"} /\ k = vcur[v]

\* What a validation that fills the table alone has done of its file.
FillPlace(v) ==
    /\ vpc[v] = "create" => ptr = None
    /\ v \notin unpublished => rows = vrows[v]
    /\ \A k \in Cluster : MastersOf(vrows[v], k) # {} =>
        InHand(v, k) \/ Agrees(vrows[v], k)

FillingAlone ==
    /\ \A u, v \in Validations : Filling(u) /\ Filling(v) => u = v
    /\ \A v \in Validations : Filling(v) => FillPlace(v)
    /\ rows # None /\ (\A v \in Validations : ~Filling(v)) =>
        \A k \in Cluster : MastersOf(rows, k) # {} => Agrees(rows, k)

Fill ==
    /\ \A v \in unpublished : vpc[v] \in {"loop", "create", "write", "wait"}
    /\ \A v \in Validations : vpc[v] = "wait" => vtodo[v] = {}
    /\ ~mixed => FillingAlone

\* The objects of the table keep their nodes and their masters.
ObjectsStay ==
    \A v \in Validations, k \in Cluster : maps[v][k] # None =>
        /\ maps'[v][k] # None
        /\ maps'[v][k].nodes = maps[v][k].nodes
        /\ maps'[v][k].master = maps[v][k].master

\* Tokens and Infos do not matter to it.
LEMMA FillStays ==
    ASSUME IInv, Fill, ObjectsStay, UNCHANGED <<rows, ptr, validationVars, mixed>>
    PROVE  Fill'
<1>1. ptr \in Validations \union {None}
  BY DEF IInv, TypeOK, TableTypes
<1>2. ASSUME NEW f \in File, NEW k \in Cluster, Agrees(f, k)
      PROVE  /\ maps'[ptr][k] # None
             /\ maps'[ptr][k].nodes = NodesOf(f, k)
             /\ maps'[ptr][k].master \in MastersOf(f, k)
  BY <1>1, <1>2 DEF Agrees, ObjectsStay
<1>3. \A v \in Validations : (Filling(v))' <=> Filling(v)
  BY DEF Filling, validationVars
<1> SUFFICES ASSUME ~mixed PROVE FillingAlone'
  BY DEF Fill, validationVars
<1>4. FillingAlone
  BY DEF Fill
<1>5. ASSUME NEW v \in Validations, Filling(v)
      PROVE  FillPlace(v)'
  <2>1. vrows[v] \in File
    BY <1>5 DEF Filling, IInv, TypeOK, ValidationTypes, PlacesOK, ValidationPlace
  <2>2. FillPlace(v)
    BY <1>4, <1>5 DEF FillingAlone
  <2>3. ASSUME NEW k \in Cluster, MastersOf(vrows[v], k) # {}
        PROVE  InHand(v, k) \/ Agrees(vrows[v], k)'
    BY <1>2, <2>1, <2>2, <2>3 DEF FillPlace, Agrees, validationVars, NodesOf, MastersOf
  <2> QED
    BY <2>2, <2>3 DEF FillPlace, InHand, validationVars, NodesOf, MastersOf
<1>6. ASSUME rows # None, \A v \in Validations : ~Filling(v),
             NEW k \in Cluster, MastersOf(rows, k) # {}
      PROVE  Agrees(rows, k)'
  <2>1. rows \in File
    BY <1>6 DEF IInv, TypeOK, TableTypes
  <2>2. Agrees(rows, k)
    BY <1>4, <1>6 DEF FillingAlone
  <2> QED
    BY <1>2, <2>1, <2>2 DEF Agrees, NodesOf, MastersOf
<1> QED
  BY <1>3, <1>4, <1>5, <1>6 DEF FillingAlone, MastersOf, NodesOf

LEMMA FillCrash ==
    ASSUME Crash
    PROVE  Fill'
BY DEF Crash, Fill, FillingAlone, Filling

\* A call writes no nodes, no masters and no pointer, whatever happens to it.
LEMMA FillCall ==
    ASSUME IInv, Fill, NEW t \in Calls, CallStep(t)
    PROVE  Fill'
<1>1. CASE Crash
  BY <1>1, FillCrash
<1>2. CASE StoreToken(t)
  <2>1. ObjectsStay
    BY <1>2, StoreTokenTable DEF ObjectsStay
  <2> QED
    BY <1>2, <2>1, FillStays DEF StoreToken
<1>3. CASE AnswerProbe(t) /\ maps[ptr][asked[t].key] # None
  <2>1. ObjectsStay
    BY <1>3, AnswerProbeTable DEF ObjectsStay
  <2> QED
    BY <1>3, <2>1, FillStays DEF AnswerProbe
<1>4. ASSUME UNCHANGED <<rows, tableVars, validationVars, mixed>>
      PROVE  Fill'
  BY <1>4, FillStays DEF tableVars, ObjectsStay
<1>5. CASE FetchToken(t) \/ NoToken(t) \/ FailToken(t) \/ AnswerList(t)
  BY <1>4, <1>5 DEF FetchToken, NoToken, FailToken, AnswerList
<1>6. CASE InstallMaster(t) \/ JoinWorker(t) \/ FailPlaybook(t)
  BY <1>4, <1>6 DEF InstallMaster, JoinWorker, FailPlaybook
<1>7. CASE Panic(t)
  BY <1>1, <1>4, <1>7 DEF Panic
<1>8. CASE StartGet(t) \/ ProbeCluster(t) \/ FailProbe(t)
  BY <1>4, <1>7, <1>8 DEF StartGet, ProbeCluster, FailProbe
<1>9. CASE PickNode(t)
  BY <1>4, <1>7, <1>9 DEF PickNode
<1>10. CASE AnswerProbe(t) /\ maps[ptr][asked[t].key] = None
  BY <1>7, <1>10 DEF AnswerProbe
<1> QED
  BY <1>2, <1>3, <1>5, <1>6, <1>8, <1>9, <1>10 DEF CallStep, OwnStep, GoodEnd, BadEnd

LEMMA FillRequest ==
    ASSUME IInv, Fill, NEW r \in Requests, RequestArrives(r)
    PROVE  Fill'
<1>1. UNCHANGED <<rows, tableVars, validationVars, mixed>>
  BY DEF RequestArrives, AskAnsible, AskToken, AskClusters
<1> QED
  BY <1>1, FillStays DEF tableVars, ObjectsStay

\* A Populate beside nobody has its whole file in hand.
LEMMA FillPopulate ==
    ASSUME IInv, Fill, NEW v \in Validations, Populate(v)
    PROVE  Fill'
<1>1. /\ vpc[v] = "new" /\ v \notin unpublished
      /\ vpc'[v] = "loop" /\ unpublished' = unpublished \union {v}
      /\ \A u \in Validations \ {v} : vpc'[u] = vpc[u] /\ vtodo'[u] = vtodo[u]
      /\ mixed' = (mixed \/ \E u \in Validations : Filling(u))
  BY DEF Populate, Fill, IInv, TypeOK, ValidationTypes
<1>2. PICK f \in Files : vrows'[v] = f /\ vtodo'[v] = ClustersOf(f)
  BY DEF Populate, IInv, TypeOK, ValidationTypes
<1> SUFFICES ASSUME ~mixed' PROVE FillingAlone'
  BY <1>1 DEF Fill, IInv, TypeOK, ValidationTypes
<1>3. \A u \in Validations : ~Filling(u)
  BY <1>1
<1>4. \A u \in Validations : Filling(u)' => u = v
  BY <1>1, <1>3 DEF Filling
<1>5. Filling(v)'
  BY <1>1 DEF Filling
<1>6. ASSUME NEW k \in Cluster, MastersOf(f, k) # {} PROVE k \in ClustersOf(f)
  BY <1>6 DEF ClustersOf, MastersOf
<1>7. FillPlace(v)'
  BY <1>1, <1>2, <1>6 DEF FillPlace, InHand, MastersOf, NodesOf
<1> QED
  BY <1>4, <1>5, <1>7 DEF FillingAlone

\* The registry takes over the file the validation goes by.
LEMMA FillPublish ==
    ASSUME IInv, Fill, NEW v \in Validations, Publish(v)
    PROVE  Fill'
<1>1. /\ v \in unpublished /\ unpublished' = unpublished \ {v}
      /\ rows' = vrows[v] /\ vpc[v] \in {"loop", "create", "write", "wait"}
      /\ UNCHANGED <<ptr, maps, vpc, vrows, vtodo, vcur, mixed>>
  BY DEF Publish, Fill, tableVars
<1> SUFFICES ASSUME ~mixed PROVE FillingAlone'
  BY <1>1 DEF Fill
<1>2. FillingAlone /\ Filling(v) /\ FillPlace(v)
  BY <1>1 DEF Fill, FillingAlone, Filling
<1>3. \A u \in Validations : Filling(u)' => u = v
  BY <1>1, <1>2 DEF FillingAlone, Filling
<1>4. \A k \in Cluster : MastersOf(vrows[v], k)' = MastersOf(vrows[v], k)
  BY <1>1 DEF MastersOf, NodesOf
<1>5. \A k \in Cluster : Agrees(vrows[v], k) => Agrees(vrows[v], k)'
  BY <1>1 DEF Agrees, MastersOf, NodesOf
<1>6. FillPlace(v)'
  BY <1>1, <1>2, <1>4, <1>5 DEF FillPlace, InHand
<1>7. ASSUME ~Filling(v)', NEW k \in Cluster, MastersOf(rows, k)' # {}
      PROVE  Agrees(rows, k)'
  <2>1. vpc[v] = "wait" /\ vtodo[v] = {}
    BY <1>1, <1>7 DEF Filling, Fill
  <2>2. MastersOf(vrows[v], k) # {}
    BY <1>1, <1>7 DEF MastersOf, NodesOf
  <2>3. Agrees(vrows[v], k)
    BY <1>2, <2>1, <2>2 DEF FillPlace, InHand
  <2> QED
    BY <1>1, <2>3 DEF Agrees, MastersOf, NodesOf
<1> QED
  BY <1>3, <1>6, <1>7 DEF FillingAlone

\* The validation's own steps: it goes on with its file, or has finished it.
LEMMA FillMoves ==
    ASSUME IInv, Fill, NEW v \in Validations,
           vpc[v] \in {"loop", "create", "write"},
           vpc'[v] \in {"loop", "create", "write", "wait"},
           vpc'[v] = "wait" => vtodo'[v] = {},
           \A u \in Validations \ {v} :
                vpc'[u] = vpc[u] /\ vtodo'[u] = vtodo[u],
           UNCHANGED <<rows, vrows, unpublished, mixed>>,
           ~mixed /\ FillPlace(v) =>
                /\ vpc'[v] = "create" => ptr' = None
                /\ \A k \in Cluster : MastersOf(vrows[v], k) # {} =>
                    InHand(v, k)' \/ Agrees(vrows[v], k)'
    PROVE  Fill'
<1> SUFFICES ASSUME ~mixed PROVE FillingAlone'
  BY DEF Fill, IInv, TypeOK, ValidationTypes
<1>1. FillingAlone /\ Filling(v) /\ FillPlace(v)
  BY DEF Fill, FillingAlone, Filling
<1>2. \A u \in Validations : Filling(u)' => u = v
  BY <1>1 DEF FillingAlone, Filling
<1>3. FillPlace(v)'
  BY <1>1 DEF FillPlace, MastersOf, NodesOf
<1>4. ASSUME ~Filling(v)', NEW k \in Cluster, MastersOf(rows, k)' # {}
      PROVE  Agrees(rows, k)'
  <2>1. vpc'[v] = "wait" /\ v \notin unpublished /\ rows = vrows[v]
    BY <1>1, <1>4 DEF Filling, FillPlace
  <2>2. MastersOf(vrows[v], k) # {} /\ ~InHand(v, k)'
    BY <1>4, <2>1 DEF MastersOf, NodesOf, InHand
  <2>3. Agrees(vrows[v], k)'
    BY <1>1, <2>2
  <2> QED
    BY <2>1, <2>3 DEF Agrees, MastersOf, NodesOf
<1> QED
  BY <1>2, <1>3, <1>4 DEF FillingAlone

LEMMA FillInitCluster ==
    ASSUME IInv, Fill, NEW v \in Validations, InitCluster(v)
    PROVE  Fill'
<1>1. /\ vpc[v] = "loop" /\ UNCHANGED <<rows, ptr, maps, vrows, unpublished, mixed>>
      /\ vpc'[v] = IF ptr = None THEN "create" ELSE "write"
      /\ \A u \in Validations \ {v} : vpc'[u] = vpc[u] /\ vtodo'[u] = vtodo[u]
  BY DEF InitCluster, tableVars, IInv, TypeOK, ValidationTypes
<1>2. PICK c \in vtodo[v] : vcur'[v] = c /\ vtodo'[v] = vtodo[v] \ {c}
  BY DEF InitCluster, IInv, TypeOK, ValidationTypes
<1>3. \A k \in Cluster : InHand(v, k) => InHand(v, k)'
  BY <1>1, <1>2 DEF InHand
<1>4. \A k \in Cluster : Agrees(vrows[v], k) => Agrees(vrows[v], k)'
  BY <1>1 DEF Agrees, MastersOf, NodesOf
<1>5. ASSUME FillPlace(v)
      PROVE  /\ vpc'[v] = "create" => ptr' = None
             /\ \A k \in Cluster : MastersOf(vrows[v], k) # {} =>
                    InHand(v, k)' \/ Agrees(vrows[v], k)'
  BY <1>1, <1>3, <1>4, <1>5 DEF FillPlace
<1>6. vpc'[v] \in {"create", "write"}
  BY <1>1
<1> QED
  BY <1>1, <1>5, <1>6, FillMoves

\* Nobody else has made a map, so nothing in one is given up.
LEMMA FillCreateMap ==
    ASSUME IInv, Fill, NEW v \in Validations, CreateMap(v)
    PROVE  Fill'
<1>1. /\ vpc[v] = "create" /\ vpc'[v] = "write"
      /\ UNCHANGED <<rows, vtodo, vcur, vrows, unpublished, mixed>>
      /\ \A u \in Validations \ {v} : vpc'[u] = vpc[u] /\ vtodo'[u] = vtodo[u]
  BY DEF CreateMap, IInv, TypeOK, ValidationTypes
<1>2. \A k \in Cluster : InHand(v, k) => InHand(v, k)'
  BY <1>1 DEF InHand
<1>3. FillPlace(v) => \A k \in Cluster : ~Agrees(vrows[v], k)
  BY <1>1 DEF FillPlace, Agrees
<1> QED
  BY <1>1, <1>2, <1>3, FillMoves DEF FillPlace

LEMMA FillWriteCluster ==
    ASSUME IInv, Fill, NEW v \in Validations, WriteCluster(v)
    PROVE  Fill'
<1> DEFINE f == vrows[v]
           c == vcur[v]
<1>1. /\ vpc[v] = "write" /\ vpc'[v] = "loop"
      /\ UNCHANGED <<rows, ptr, vtodo, vrows, unpublished, mixed>>
      /\ \A u \in Validations \ {v} : vpc'[u] = vpc[u] /\ vtodo'[u] = vtodo[u]
  BY DEF WriteCluster, IInv, TypeOK, ValidationTypes
<1>2. c \in Cluster /\ ptr \in Validations /\ maps \in [Validations -> Table]
  BY <1>1 DEF IInv, TypeOK, TableTypes, ValidationTypes, PlacesOK, ValidationPlace
<1>3. ASSUME NEW k \in Cluster, MastersOf(f, k) # {},
             InHand(v, k) \/ Agrees(f, k)
      PROVE  InHand(v, k)' \/ Agrees(f, k)'
  <2>1. CASE k = c
    <3>1. PICK m \in MastersOf(f, c) :
              maps' = [maps EXCEPT ![ptr][c] = FreshObject(f, c, m)]
      BY <1>3, <2>1 DEF WriteCluster, NewTable
    <3>2. maps'[ptr][c] = FreshObject(f, c, m)
      BY <1>2, <3>1 DEF Table
    <3>3. m \in Mac /\ NodesOf(f, c) \in SUBSET Mac
      BY DEF MastersOf, NodesOf
    <3>4. FreshObject(f, c, m) \in Object
      BY <3>3 DEF FreshObject, Object
    <3>5. FreshObject(f, c, m) # None
      BY <3>4
    <3>6. /\ FreshObject(f, c, m).nodes = NodesOf(f, c)
          /\ FreshObject(f, c, m).master = m
      BY DEF FreshObject
    <3>7. maps'[ptr'][k] # None /\ maps'[ptr'][k].nodes = NodesOf(f, k)
          /\ maps'[ptr'][k].master \in MastersOf(f, k) /\ ptr' # None
      BY <1>1, <1>2, <2>1, <3>2, <3>5, <3>6
    <3> QED
      BY <1>1, <3>7 DEF Agrees, MastersOf, NodesOf
  <2>2. CASE k # c
    <3>1. maps'[ptr][k] = maps[ptr][k]
      <4>1. CASE MastersOf(f, c) = {}
        BY <4>1 DEF WriteCluster
      <4>2. CASE MastersOf(f, c) # {}
        <5>1. PICK m \in MastersOf(f, c) :
                  maps' = [maps EXCEPT ![ptr][c] = FreshObject(f, c, m)]
          BY <4>2 DEF WriteCluster, NewTable
        <5> QED
          BY <1>2, <2>2, <5>1 DEF Table
      <4> QED
        BY <4>1, <4>2
    <3>2. InHand(v, k) => InHand(v, k)'
      BY <1>1, <2>2 DEF InHand
    <3>3. Agrees(f, k) => Agrees(f, k)'
      BY <1>1, <3>1 DEF Agrees, MastersOf, NodesOf
    <3> QED
      BY <1>3, <3>2, <3>3
  <2> QED
    BY <2>1, <2>2
<1> QED
  BY <1>1, <1>3, FillMoves DEF FillPlace

LEMMA FillAwait ==
    ASSUME IInv, Fill, NEW v \in Validations, AwaitFetches(v)
    PROVE  Fill'
<1>1. /\ vpc[v] = "loop" /\ vpc'[v] = "wait" /\ vtodo[v] = {}
      /\ UNCHANGED <<rows, ptr, maps, vtodo, vrows, unpublished, mixed>>
      /\ \A u \in Validations \ {v} : vpc'[u] = vpc[u] /\ vtodo'[u] = vtodo[u]
  BY DEF AwaitFetches, tableVars, IInv, TypeOK, ValidationTypes
<1>2. \A k \in Cluster : ~InHand(v, k)
  BY <1>1 DEF InHand
<1>3. \A k \in Cluster : Agrees(vrows[v], k) => Agrees(vrows[v], k)'
  BY <1>1 DEF Agrees, MastersOf, NodesOf
<1>4. ASSUME FillPlace(v)
      PROVE  \A k \in Cluster : MastersOf(vrows[v], k) # {} =>
                    InHand(v, k)' \/ Agrees(vrows[v], k)'
  BY <1>2, <1>3, <1>4 DEF FillPlace
<1> QED
  BY <1>1, <1>4, FillMoves

LEMMA FillEndValidation ==
    ASSUME IInv, Fill, NEW v \in Validations, EndValidation(v)
    PROVE  Fill'
<1>1. /\ vpc[v] = "wait" /\ vpc'[v] = "done" /\ v \notin unpublished
      /\ UNCHANGED <<rows, ptr, maps, vtodo, vcur, unpublished, mixed>>
      /\ \A u \in Validations \ {v} : vpc'[u] = vpc[u] /\ vrows'[u] = vrows[u]
  BY DEF EndValidation, tableVars, IInv, TypeOK, ValidationTypes
<1>2. \A u \in Validations : Filling(u)' <=> Filling(u)
  BY <1>1 DEF Filling
<1> SUFFICES ASSUME ~mixed PROVE FillingAlone'
  BY <1>1 DEF Fill, IInv, TypeOK, ValidationTypes
<1>3. FillingAlone
  BY DEF Fill
<1>4. ASSUME NEW u \in Validations, Filling(u) PROVE FillPlace(u)'
  <2>1. u # v /\ FillPlace(u)
    BY <1>1, <1>3, <1>4 DEF FillingAlone, Filling
  <2> QED
    BY <1>1, <2>1 DEF FillPlace, InHand, Agrees, MastersOf, NodesOf
<1> QED
  BY <1>1, <1>2, <1>3, <1>4 DEF FillingAlone, Agrees, MastersOf, NodesOf

LEMMA FillNext ==
    ASSUME IInv, Fill, [Next]_vars
    PROVE  Fill'
<1>1. CASE UNCHANGED vars
  BY <1>1, FillStays DEF vars, tableVars, ObjectsStay
<1>2. ASSUME NEW v \in Validations, Populate(v) \/ ValidationStep(v)
      PROVE  Fill'
  BY <1>2, FillPopulate, FillPublish, FillInitCluster, FillCreateMap,
     FillWriteCluster, FillAwait, FillEndValidation DEF ValidationStep
<1>3. ASSUME NEW r \in Requests, RequestArrives(r)
      PROVE  Fill'
  BY <1>3, FillRequest
<1>4. ASSUME NEW t \in Calls, CallStep(t)
      PROVE  Fill'
  BY <1>4, FillCall
<1>5. CASE MapRace \/ Kill
  BY <1>5, FillCrash DEF MapRace, Kill
<1> QED
  BY <1>1, <1>2, <1>3, <1>4, <1>5 DEF Next

\* What a validation that fills the table alone has done so far.
LEMMA FillInvariant == Spec => []Fill
<1>1. Init => Fill
  BY DEF Init, Fill, FillingAlone, Filling
<1> QED
  BY <1>1, IInvInvariant, FillNext, PTL DEF Spec

\* If no two Populates have overlapped since the start, a filled table has every
\* cluster of the registry that has a master, with the registry's nodes,
\* whatever FetchToken and the handlers write to the same objects meanwhile.
THEOREM TableFollowsRegistry == Spec => []SerialTableAgrees
<1>1. Fill => SerialTableAgrees
  BY DEF Fill, FillingAlone, Agrees, SerialTableAgrees
<1> QED
  BY <1>1, FillInvariant, PTL

-----------------------------------------------------------------------------
(* GetClusters.                                                            *)

FetchHasTable(t) == t \in Fetches /\ pc[t] \in {"run", "get"} => ptr # None

ProbeFinds(t) ==
    /\ pc[t] \in {"probe", "ask"} => at[t] = ptr /\ todo[t] \subseteq Known(ptr)
    /\ pc[t] = "ask" => asked[t].key \in Known(ptr)

\* No entry of a table is ever removed while the process runs.
EntriesStay ==
    \A v \in Validations, k \in Cluster : maps[v][k] # None => maps'[v][k] # None

OthersProbe(t) ==
    \A u \in Calls \ {t} :
        pc'[u] = pc[u] /\ at'[u] = at[u] /\ todo'[u] = todo[u] /\ asked'[u] = asked[u]

\* The property, call by call.
LEMMA FoundParts ==
    ASSUME ProbesFindTheirCluster, NEW t \in Calls
    PROVE  FetchHasTable(t) /\ (~mixed => ProbeFinds(t))
BY DEF ProbesFindTheirCluster, FetchHasTable, ProbeFinds

LEMMA FoundTogether ==
    ASSUME \A t \in Calls : FetchHasTable(t)' /\ (~mixed' => ProbeFinds(t)')
    PROVE  ProbesFindTheirCluster'
BY DEF ProbesFindTheirCluster, FetchHasTable, ProbeFinds, Calls

\* A call stays where it is and the table keeps what it has.
LEMMA FoundStays ==
    ASSUME IInv, NEW t \in Calls, EntriesStay, UNCHANGED ptr,
           pc'[t] = pc[t], at'[t] = at[t], todo'[t] = todo[t], asked'[t] = asked[t]
    PROVE  /\ FetchHasTable(t) => FetchHasTable(t)'
           /\ ProbeFinds(t) => ProbeFinds(t)'
<1>1. pc[t] \in {"probe", "ask"} => ptr \in Validations
  BY CallFacts DEF CallPlace
<1> QED
  BY <1>1 DEF FetchHasTable, ProbeFinds, EntriesStay, Known

LEMMA FoundCall ==
    ASSUME IInv, ProbesFindTheirCluster, NEW t \in Calls, EntriesStay,
           UNCHANGED <<ptr, mixed>>, OthersProbe(t),
           FetchHasTable(t)', ~mixed => ProbeFinds(t)'
    PROVE  ProbesFindTheirCluster'
<1>1. ASSUME NEW u \in Calls
      PROVE  FetchHasTable(u)' /\ (~mixed' => ProbeFinds(u)')
  BY FoundParts, FoundStays DEF OthersProbe
<1> QED
  BY <1>1, FoundTogether

LEMMA FoundEnd ==
    ASSUME IInv, ProbesFindTheirCluster, NEW t \in Calls, Leave(t),
           EntriesStay, UNCHANGED <<ptr, mixed>>
    PROVE  ProbesFindTheirCluster'
<1>1. OthersProbe(t) /\ pc'[t] = "done"
  BY CallFacts DEF Leave, OthersProbe, CallTypes
<1> QED
  BY <1>1, FoundCall DEF FetchHasTable, ProbeFinds

LEMMA FoundCrash ==
    ASSUME Crash
    PROVE  ProbesFindTheirCluster'
BY DEF Crash, ProbesFindTheirCluster, Calls

LEMMA FoundPanic ==
    ASSUME IInv, ProbesFindTheirCluster, NEW t \in Calls, Panic(t)
    PROVE  ProbesFindTheirCluster'
BY FoundEnd, FoundCrash DEF Panic, EntriesStay, tableVars

\* A table is made where there was none, unless Populates have overlapped.
LEMMA FoundCreateMap ==
    ASSUME IInv, Fill, ProbesFindTheirCluster, NEW v \in Validations, CreateMap(v)
    PROVE  ProbesFindTheirCluster'
<1>1. vpc[v] = "create" /\ ptr' = v /\ v # None /\ UNCHANGED <<mixed, callVars>>
  BY DEF CreateMap
<1>2. ~mixed => ptr = None
  BY <1>1 DEF Fill, FillingAlone, FillPlace, Filling
<1>3. ASSUME NEW t \in Calls
      PROVE  FetchHasTable(t)' /\ (~mixed' => ProbeFinds(t)')
  BY <1>1, <1>2, CallFacts DEF callVars, CallPlace, FetchHasTable, ProbeFinds
<1> QED
  BY <1>3, FoundTogether

\* A key that comes up late is one that has just been written.
LEMMA FoundWriteCluster ==
    ASSUME IInv, ProbesFindTheirCluster, NEW v \in Validations, WriteCluster(v)
    PROVE  ProbesFindTheirCluster'
<1> DEFINE k == vcur[v]
           new == {v} \X NodesOf(vrows[v], k)
<1>1. ptr \in Validations /\ k \in Cluster /\ maps \in [Validations -> Table]
  BY DEF WriteCluster, IInv, TypeOK, TableTypes, ValidationTypes, PlacesOK,
         ValidationPlace
<1>2. EntriesStay
  BY WriteClusterTable DEF EntriesStay
<1>3. UNCHANGED <<ptr, mixed, at, asked>>
  BY DEF WriteCluster
<1>4. ASSUME NEW t \in Calls
      PROVE  /\ pc'[t] = IF t \in new THEN "run" ELSE pc[t]
             /\ todo'[t] # todo[t] =>
                    /\ todo'[t] = todo[t] \union {k}
                    /\ maps'[ptr][k] # None
  <2>1. CASE MastersOf(vrows[v], k) = {}
    BY <2>1 DEF WriteCluster
  <2>2. CASE MastersOf(vrows[v], k) # {}
    <3>1. PICK m \in MastersOf(vrows[v], k) :
              maps' = [maps EXCEPT ![ptr][k] = FreshObject(vrows[v], k, m)]
      BY <2>2 DEF WriteCluster, NewTable
    <3>2. FreshObject(vrows[v], k, m) \in Object
      BY DEF FreshObject, Object, MastersOf, NodesOf
    <3>3. maps'[ptr][k] # None
      BY <1>1, <3>1, <3>2 DEF Table
    <3> QED
      BY <2>2, <3>3 DEF WriteCluster
  <2> QED
    BY <2>1, <2>2
<1>5. ASSUME NEW t \in Calls
      PROVE  FetchHasTable(t)' /\ (~mixed' => ProbeFinds(t)')
  <2>1. FetchHasTable(t)'
    BY <1>1, <1>3 DEF FetchHasTable
  <2>2. ASSUME ~mixed', pc'[t] \in {"probe", "ask"}
        PROVE  ProbeFinds(t)'
    <3>1. pc'[t] = pc[t] /\ ProbeFinds(t)
      BY <1>3, <1>4, <2>2, FoundParts
    <3>2. \A c \in Known(ptr) : c \in Known(ptr)'
      BY <1>1, <1>2, <1>3 DEF EntriesStay, Known
    <3>3. todo'[t] \subseteq Known(ptr)'
      BY <1>1, <1>3, <1>4, <2>2, <3>1, <3>2 DEF ProbeFinds, Known
    <3> QED
      BY <1>3, <3>1, <3>2, <3>3 DEF ProbeFinds
  <2> QED
    BY <2>1, <2>2 DEF ProbeFinds
<1> QED
  BY <1>5, FoundTogether

LEMMA FoundValidation ==
    ASSUME IInv, Fill, ProbesFindTheirCluster, NEW v \in Validations,
           Populate(v) \/ ValidationStep(v)
    PROVE  ProbesFindTheirCluster'
<1>1. CASE Populate(v) \/ Publish(v) \/ InitCluster(v) \/ AwaitFetches(v)
  <2>1. UNCHANGED <<ptr, maps, callVars>>
    BY <1>1 DEF Populate, Publish, InitCluster, AwaitFetches, tableVars
  <2>2. mixed => mixed'
    BY <1>1, Zenon DEF Populate, Publish, InitCluster, AwaitFetches
  <2>3. ASSUME NEW t \in Calls
        PROVE  FetchHasTable(t)' /\ (~mixed' => ProbeFinds(t)')
    BY <2>1, <2>2, FoundParts, FoundStays DEF callVars, EntriesStay
  <2> QED
    BY <2>3, FoundTogether
<1>2. CASE EndValidation(v)
  <2>1. UNCHANGED <<ptr, maps, mixed, at, todo, asked>>
    BY <1>2 DEF EndValidation, tableVars
  <2>2. \A t \in Calls : pc'[t] \in {pc[t], "done"}
    BY <1>2 DEF EndValidation
  <2>3. ASSUME NEW t \in Calls
        PROVE  FetchHasTable(t)' /\ (~mixed' => ProbeFinds(t)')
    BY <2>1, <2>2, FoundParts DEF FetchHasTable, ProbeFinds, Known
  <2> QED
    BY <2>3, FoundTogether
<1> QED
  BY <1>1, <1>2, FoundCreateMap, FoundWriteCluster DEF ValidationStep

LEMMA FoundProbe ==
    ASSUME IInv, ProbesFindTheirCluster, NEW t \in Calls,
           StartGet(t) \/ ProbeCluster(t)
    PROVE  ProbesFindTheirCluster'
<1>1. CASE Panic(t)
  BY <1>1, FoundPanic
<1>2. CASE StartGet(t) /\ ~Panic(t)
  <2>1. /\ UNCHANGED <<ptr, maps, mixed, asked>> /\ OthersProbe(t)
        /\ pc'[t] = "probe" /\ at'[t] = ptr /\ todo'[t] = Known(ptr)
    BY <1>2, CallFacts DEF StartGet, OthersProbe, CallTypes, tableVars
  <2>2. EntriesStay /\ FetchHasTable(t)' /\ ProbeFinds(t)'
    BY <2>1 DEF EntriesStay, FetchHasTable, ProbeFinds, Known
  <2> QED
    BY <2>1, <2>2, FoundCall
<1>3. CASE ProbeCluster(t) /\ ~Panic(t)
  <2>1. PICK k \in todo[t] :
            /\ maps[ptr][k] # None
            /\ todo' = [todo EXCEPT ![t] = @ \ {k}]
            /\ pc'[t] \in {"probe", "ask"} /\ UNCHANGED <<outside, at>>
            /\ pc'[t] = "ask" => asked'[t].key = k
            /\ OthersProbe(t)
    BY <1>3, CallFacts DEF ProbeCluster, CallTypes, OthersProbe
  <2>2. UNCHANGED <<ptr, maps, mixed>> /\ EntriesStay /\ FetchHasTable(t)'
    BY <2>1 DEF EntriesStay, FetchHasTable, tableVars
  <2>3. ~mixed => ProbeFinds(t)'
    <3>1. pc[t] = "probe" /\ k \in Cluster /\ todo'[t] \subseteq todo[t]
      BY <1>3, <2>1, CallFacts DEF ProbeCluster, CallTypes
    <3>2. ~mixed => ProbeFinds(t)
      BY FoundParts
    <3> QED
      BY <2>1, <2>2, <3>1, <3>2 DEF ProbeFinds, Known
  <2> QED
    BY <2>1, <2>2, <2>3, FoundCall
<1> QED
  BY <1>1, <1>2, <1>3

LEMMA FoundAnswerProbe ==
    ASSUME IInv, ProbesFindTheirCluster, NEW t \in Calls, AnswerProbe(t)
    PROVE  ProbesFindTheirCluster'
<1>1. CASE maps[ptr][asked[t].key] = None
  BY <1>1, FoundPanic DEF AnswerProbe
<1>2. CASE maps[ptr][asked[t].key] # None
  <2>1. /\ pc'[t] = "probe" /\ OthersProbe(t)
        /\ UNCHANGED <<ptr, mixed, at, todo>>
    BY <1>2, CallFacts DEF AnswerProbe, OthersProbe, CallTypes
  <2>2. EntriesStay
    BY <1>2, AnswerProbeTable DEF EntriesStay
  <2>3. ~mixed => ProbeFinds(t)'
    <3>1. pc[t] = "ask" /\ ptr \in Validations
      BY CallFacts DEF AnswerProbe, CallPlace
    <3>2. ~mixed => at[t] = ptr /\ todo[t] \subseteq Known(ptr)
      BY <3>1, FoundParts DEF ProbeFinds
    <3>3. \A c \in Known(ptr) : c \in Known(ptr)'
      BY <2>1, <2>2, <3>1 DEF EntriesStay, Known
    <3> QED
      BY <2>1, <3>2, <3>3 DEF ProbeFinds
  <2> QED
    BY <2>1, <2>2, <2>3, FoundCall DEF FetchHasTable
<1> QED
  BY <1>1, <1>2

LEMMA FoundStoreToken ==
    ASSUME IInv, ProbesFindTheirCluster, NEW t \in Calls, StoreToken(t)
    PROVE  ProbesFindTheirCluster'
<1>1. EntriesStay /\ UNCHANGED <<ptr, mixed>>
  BY StoreTokenTable DEF EntriesStay, StoreToken
<1>2. CASE job[t].kind = "ansible"
  <2>1. OthersProbe(t) /\ pc'[t] = "join"
    BY <1>2, CallFacts DEF StoreToken, OthersProbe, CallTypes
  <2> QED
    BY <1>1, <2>1, FoundCall DEF FetchHasTable, ProbeFinds
<1>3. CASE job[t].kind # "ansible"
  BY <1>1, <1>3, FoundEnd DEF StoreToken
<1> QED
  BY <1>2, <1>3

\* The token of a goroutine that is running comes back to a table that is there.
LEMMA FoundFetchToken ==
    ASSUME IInv, ProbesFindTheirCluster, NEW t \in Calls, FetchToken(t)
    PROVE  ProbesFindTheirCluster'
<1>1. /\ pc[t] = "run" /\ pc'[t] = "get" /\ OthersProbe(t)
      /\ UNCHANGED <<ptr, maps, mixed>>
  BY CallFacts DEF FetchToken, OthersProbe, CallTypes, tableVars
<1>2. FetchHasTable(t)'
  BY <1>1, FoundParts DEF FetchHasTable
<1> QED
  BY <1>1, <1>2, FoundCall DEF EntriesStay, ProbeFinds

LEMMA FoundPickNode ==
    ASSUME IInv, ProbesFindTheirCluster, NEW t \in Calls, PickNode(t)
    PROVE  ProbesFindTheirCluster'
<1>1. CASE NodeOf(t) = {}
  BY <1>1, FoundPanic DEF PickNode
<1>2. CASE NodeOf(t) # {}
  <2>1. UNCHANGED <<ptr, maps, mixed>> /\ ptr # None
    BY <1>2, CallFacts DEF PickNode, Probed, CallPlace, tableVars
  <2>2. CASE Leave(t)
    BY <2>1, <2>2, FoundEnd DEF EntriesStay
  <2>3. CASE ~Leave(t)
    <3>1. OthersProbe(t) /\ pc'[t] \in {"install", "run"}
      BY <1>2, <2>3, CallFacts DEF PickNode, OthersProbe, CallTypes
    <3> QED
      BY <2>1, <3>1, FoundCall DEF EntriesStay, FetchHasTable, ProbeFinds
  <2> QED
    BY <2>2, <2>3
<1> QED
  BY <1>1, <1>2

LEMMA FoundRequest ==
    ASSUME IInv, ProbesFindTheirCluster, NEW r \in Requests, RequestArrives(r)
    PROVE  ProbesFindTheirCluster'
<1>1. r \in Calls /\ r \notin Fetches
  BY DEF Calls
<1>2. UNCHANGED <<ptr, maps, mixed>>
  BY DEF RequestArrives, AskAnsible, AskToken, AskClusters, tableVars
<1>3. CASE Leave(r)
  BY <1>1, <1>2, <1>3, FoundEnd DEF EntriesStay
<1>4. CASE ~Leave(r)
  <2>1. OthersProbe(r) /\ pc'[r] \in {"get", "run"}
    BY <1>1, <1>4, CallFacts
       DEF RequestArrives, AskAnsible, AskToken, AskClusters, Ask, OthersProbe, CallTypes
  <2> QED
    BY <1>1, <1>2, <2>1, FoundCall DEF EntriesStay, FetchHasTable, ProbeFinds
<1> QED
  BY <1>3, <1>4

LEMMA FoundCallEnds ==
    ASSUME IInv, ProbesFindTheirCluster, NEW t \in Calls,
           \/ FailProbe(t) \/ AnswerList(t) \/ NoToken(t) \/ FailToken(t)
           \/ InstallMaster(t) \/ JoinWorker(t) \/ FailPlaybook(t)
    PROVE  ProbesFindTheirCluster'
<1>1. CASE Panic(t)
  BY <1>1, FoundPanic
<1>2. CASE ~Panic(t)
  <2>1. Leave(t) /\ UNCHANGED <<ptr, maps, mixed>>
    BY <1>2 DEF FailProbe, AnswerList, NoToken, FailToken, InstallMaster,
                JoinWorker, FailPlaybook, tableVars
  <2> QED
    BY <2>1, FoundEnd DEF EntriesStay
<1> QED
  BY <1>1, <1>2

LEMMA FoundNext ==
    ASSUME IInv, Fill, ProbesFindTheirCluster, [Next]_vars
    PROVE  ProbesFindTheirCluster'
<1>1. CASE UNCHANGED vars
  BY <1>1 DEF vars, tableVars, callVars, ProbesFindTheirCluster, Known
<1>2. ASSUME NEW v \in Validations, Populate(v) \/ ValidationStep(v)
      PROVE  ProbesFindTheirCluster'
  BY <1>2, FoundValidation
<1>3. ASSUME NEW r \in Requests, RequestArrives(r)
      PROVE  ProbesFindTheirCluster'
  BY <1>3, FoundRequest
<1>4. ASSUME NEW t \in Calls, CallStep(t)
      PROVE  ProbesFindTheirCluster'
  BY <1>4, FoundProbe, FoundAnswerProbe, FoundStoreToken, FoundFetchToken,
     FoundPickNode, FoundCallEnds DEF CallStep, OwnStep, GoodEnd, BadEnd
<1>5. CASE MapRace \/ Kill
  BY <1>5, FoundCrash DEF MapRace, Kill
<1> QED
  BY <1>1, <1>2, <1>3, <1>4, <1>5 DEF Next

\* A goroutine of a validation always finds a table, and unless Populates have
\* overlapped nobody who ranges over the table writes to an entry that is not
\* there, however many calls and Populates one after the other change it.
THEOREM ProbesFind == Spec => []ProbesFindTheirCluster
<1>1. Init => ProbesFindTheirCluster
  BY DEF Init, ProbesFindTheirCluster, Calls
<1> QED
  BY <1>1, IInvInvariant, FillInvariant, FoundNext, PTL DEF Spec

=============================================================================
