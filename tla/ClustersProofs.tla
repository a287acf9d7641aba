---------------------------- MODULE ClustersProofs ----------------------------
(***************************************************************************)
(* Proofs about Clusters, for every set of machines, clusters, files,      *)
(* validations and requests.                                               *)
(***************************************************************************)
EXTENDS Clusters, TLAPS

\* What a validation holds at each place of the goroutine Populate starts.
ValidationPlace(v) ==
    /\ vpc[v] \in {"loop", "create", "write"} \/ v \in unpublished
        => vrows[v] # None
    /\ vpc[v] \in {"create", "write"} => vcur[v] # None
    /\ vpc[v] = "write" => ptr # None

\* What a call holds at each place of GetClusters, FetchToken and the handlers.
CallPlace(t) ==
    /\ pc[t] \in {"probe", "ask"} =>
        /\ ptr # None
        /\ at[t] # None
        /\ \A k \in todo[t] : maps[at[t]][k] # None
    /\ pc[t] = "ask" => asked[t] # None
    /\ pc[t] = "run" => target[t] # None
    /\ pc[t] \in {"install", "join"} => job[t].kind = "ansible"
    /\ job[t].kind = "ansible" =>
        /\ job[t].mac \in Mac
        /\ job[t].rows \in File
        /\ job[t].rows[job[t].mac] # NoRow

\* The types of what the actions use, place by place.  That the code has it
\* where it uses it is not what this says: the nil pointers it dereferences
\* (server.go:217, kubernetes.go:103, ansible.go:152) are steps of their own in
\* Clusters, which end the call or the process (Panic).
PlacesOK ==
    /\ \A v \in Validations : ValidationPlace(v)
    /\ \A t \in Calls : CallPlace(t)

IInv == TypeOK /\ PlacesOK

USE UnclaimedAssumption, NoneAssumption, NoRowAssumption, FilesAssumption,
    CallsAssumption, PreparedAssumption DEF outside

\* Objects are replaced but never taken out of a map, and the pointer, once
\* set, is set.
Grow ==
    /\ ptr # None => ptr' # None
    /\ \A v \in Validations, k \in Cluster :
        maps[v][k] # None => maps'[v][k] # None

\* An action that moves one call leaves the places of the others as they were.
LEMMA OneCallMoves ==
    ASSUME IInv, NEW t \in Calls, Grow, CallTypes', CallPlace(t)',
           \A u \in Calls \ {t} :
                /\ pc'[u] = pc[u] /\ job'[u] = job[u] /\ target'[u] = target[u]
                /\ at'[u] = at[u] /\ todo'[u] = todo[u] /\ asked'[u] = asked[u]
    PROVE  \A u \in Calls : CallPlace(u)'
<1> SUFFICES ASSUME NEW u \in Calls, u # t
             PROVE  CallPlace(u)'
  OBVIOUS
<1>1. CallPlace(u)
  BY DEF IInv, PlacesOK
<1>2. todo[u] \subseteq Cluster /\ at[u] \in Validations \union {None}
  BY DEF IInv, TypeOK, CallTypes
<1> QED
  BY <1>1, <1>2 DEF CallPlace, Grow

\* The same for an action that moves no call.
LEMMA NoCallMoves ==
    ASSUME IInv, Grow, UNCHANGED callVars
    PROVE  CallTypes' /\ \A u \in Calls : CallPlace(u)'
<1>1. CallTypes'
  BY DEF IInv, TypeOK, CallTypes, callVars
<1> SUFFICES ASSUME NEW u \in Calls
             PROVE  CallPlace(u)'
  BY <1>1
<1>2. CallPlace(u)
  BY DEF IInv, PlacesOK
<1>3. todo[u] \subseteq Cluster /\ at[u] \in Validations \union {None}
  BY DEF IInv, TypeOK, CallTypes
<1> QED
  BY <1>2, <1>3 DEF CallPlace, Grow, callVars

\* Nor do the validations move when a call does.
LEMMA NoValidationMoves ==
    ASSUME IInv, Grow, UNCHANGED validationVars
    PROVE  ValidationTypes' /\ \A v \in Validations : ValidationPlace(v)'
<1>1. ValidationTypes'
  BY DEF IInv, TypeOK, ValidationTypes, validationVars
<1>2. \A v \in Validations : ValidationPlace(v)
  BY DEF IInv, PlacesOK
<1> QED
  BY <1>1, <1>2 DEF ValidationPlace, Grow, validationVars

LEMMA GrowUnchanged ==
    ASSUME UNCHANGED tableVars
    PROVE  Grow
BY DEF Grow, tableVars

\* A call that ends holds nothing.
LEMMA LeaveOK ==
    ASSUME IInv, NEW t \in Calls, Leave(t), Grow
    PROVE  CallTypes' /\ \A u \in Calls : CallPlace(u)'
<1>1. NoJob \in Job
  BY DEF NoJob, Job
<1>2. CallTypes'
  BY <1>1 DEF IInv, TypeOK, CallTypes, CallPc, Leave
<1>3. CallPlace(t)'
  BY DEF IInv, TypeOK, CallTypes, Leave, CallPlace, NoJob
<1> QED
  BY <1>2, <1>3, OneCallMoves DEF IInv, TypeOK, CallTypes, Leave

\* A stop leaves nothing in memory.
LEMMA CrashOK ==
    ASSUME IInv, Crash
    PROVE  IInv'
<1>1. EmptyTable \in Table /\ NoJob \in Job
  BY DEF EmptyTable, Table, NoJob, Job
<1>2. TableTypes'
  BY <1>1 DEF TableTypes, Crash
<1>3. ValidationTypes'
  BY DEF IInv, TypeOK, ValidationTypes, Crash
<1>4. CallTypes'
  BY <1>1 DEF IInv, TypeOK, CallTypes, CallPc, Crash
<1>5. WorldTypes'
  BY DEF IInv, TypeOK, WorldTypes, Crash, worldVars
<1>6. \A v \in Validations : ValidationPlace(v)'
  BY DEF ValidationPlace, Crash
<1>7. \A t \in Calls : CallPlace(t)'
  BY DEF CallPlace, Crash, NoJob
<1> QED
  BY <1>2, <1>3, <1>4, <1>5, <1>6, <1>7 DEF IInv, TypeOK, PlacesOK

\* A call ends, and nothing else changes.
LEMMA LeaveAlone ==
    ASSUME IInv, NEW t \in Calls, Leave(t),
           UNCHANGED <<rows, tableVars, validationVars, seen, mixed>>,
           server' \in SUBSET Mac, kubeconfig' \in SUBSET Mac,
           joined' \in [Mac -> Mac \union {None}]
    PROVE  IInv'
<1>1. Grow
  BY GrowUnchanged
<1>2. TableTypes'
  BY DEF IInv, TypeOK, TableTypes, tableVars
<1>3. WorldTypes'
  BY DEF IInv, TypeOK, WorldTypes
<1> QED
  BY <1>1, <1>2, <1>3, LeaveOK, NoValidationMoves DEF IInv, TypeOK, PlacesOK

LEMMA PanicOK ==
    ASSUME IInv, NEW t \in Calls, Panic(t)
    PROVE  IInv'
<1>1. CASE t \in Fetches
  BY <1>1, CrashOK DEF Panic
<1>2. CASE t \notin Fetches
  BY <1>2, LeaveAlone DEF Panic, worldVars, IInv, TypeOK, WorldTypes
<1> QED
  BY <1>1, <1>2

\* A call moves, and nothing but the call changes.
LEMMA CallAlone ==
    ASSUME IInv, NEW t \in Calls, CallTypes', CallPlace(t)',
           UNCHANGED outside,
           \A u \in Calls \ {t} :
                /\ pc'[u] = pc[u] /\ job'[u] = job[u] /\ target'[u] = target[u]
                /\ at'[u] = at[u] /\ todo'[u] = todo[u] /\ asked'[u] = asked[u]
    PROVE  IInv'
<1>1. Grow
  BY GrowUnchanged
<1>2. TableTypes'
  BY DEF IInv, TypeOK, TableTypes, tableVars
<1>3. WorldTypes'
  BY DEF IInv, TypeOK, WorldTypes, worldVars
<1> QED
  BY <1>1, <1>2, <1>3, OneCallMoves, NoValidationMoves
     DEF IInv, TypeOK, PlacesOK

-----------------------------------------------------------------------------
(* The validations.                                                        *)

LEMMA PopulateOK ==
    ASSUME IInv, NEW v \in Validations, Populate(v)
    PROVE  IInv'
<1> USE DEF Populate
<1>1. PICK f \in Files : /\ vrows' = [vrows EXCEPT ![v] = f]
                         /\ vtodo' = [vtodo EXCEPT ![v] = ClustersOf(f)]
                         /\ seen' = seen \union {f}
  OBVIOUS
<1>2. f \in File /\ ClustersOf(f) \subseteq Cluster /\ f # None
  BY DEF ClustersOf
<1>3. TableTypes'
  BY DEF IInv, TypeOK, TableTypes, tableVars
<1>4. ValidationTypes'
  BY <1>1, <1>2 DEF IInv, TypeOK, ValidationTypes
<1>5. WorldTypes'
  BY <1>1, <1>2 DEF IInv, TypeOK, WorldTypes, worldVars
<1>6. \A u \in Validations : ValidationPlace(u)'
  BY <1>1, <1>2 DEF IInv, TypeOK, ValidationTypes, PlacesOK, ValidationPlace, tableVars
<1>7. CallTypes' /\ \A u \in Calls : CallPlace(u)'
  BY GrowUnchanged, NoCallMoves
<1> QED
  BY <1>3, <1>4, <1>5, <1>6, <1>7 DEF IInv, TypeOK, PlacesOK

\* The steps of a validation that touch neither the table nor a call.
LEMMA ValidationAlone ==
    ASSUME IInv, NEW v \in Validations,
           Publish(v) \/ InitCluster(v) \/ AwaitFetches(v)
    PROVE  IInv'
<1> USE DEF Publish, InitCluster, AwaitFetches
<1>1. TableTypes'
  BY DEF IInv, TypeOK, TableTypes, tableVars, ValidationTypes, PlacesOK,
         ValidationPlace
<1>2. ValidationTypes'
  <2>1. CASE Publish(v)
    BY <2>1 DEF IInv, TypeOK, ValidationTypes
  <2>2. CASE InitCluster(v)
    BY <2>2 DEF IInv, TypeOK, ValidationTypes
  <2>3. CASE AwaitFetches(v)
    BY <2>3 DEF IInv, TypeOK, ValidationTypes
  <2> QED
    BY <2>1, <2>2, <2>3
<1>3. WorldTypes'
  BY DEF IInv, TypeOK, WorldTypes, worldVars
<1>4. \A u \in Validations : ValidationPlace(u)'
  <2> USE DEF IInv, TypeOK, ValidationTypes, PlacesOK, ValidationPlace, tableVars
  <2>1. CASE Publish(v)
    BY <2>1
  <2>2. CASE InitCluster(v)
    BY <2>2
  <2>3. CASE AwaitFetches(v)
    BY <2>3
  <2> QED
    BY <2>1, <2>2, <2>3
<1>5. CallTypes' /\ \A u \in Calls : CallPlace(u)'
  BY GrowUnchanged, NoCallMoves
<1> QED
  BY <1>1, <1>2, <1>3, <1>4, <1>5 DEF IInv, TypeOK, PlacesOK

LEMMA CreateMapOK ==
    ASSUME IInv, NEW v \in Validations, CreateMap(v)
    PROVE  IInv'
<1> USE DEF CreateMap
<1>1. Grow
  BY DEF Grow
<1>2. TableTypes'
  BY DEF IInv, TypeOK, TableTypes
<1>3. ValidationTypes'
  BY DEF IInv, TypeOK, ValidationTypes
<1>4. WorldTypes'
  BY DEF IInv, TypeOK, WorldTypes, worldVars
<1>5. \A u \in Validations : ValidationPlace(u)'
  BY DEF IInv, TypeOK, ValidationTypes, PlacesOK, ValidationPlace
<1>6. CallTypes' /\ \A u \in Calls : CallPlace(u)'
  BY <1>1, NoCallMoves
<1> QED
  BY <1>2, <1>3, <1>4, <1>5, <1>6 DEF IInv, TypeOK, PlacesOK

\* An object made for a cluster of a file.
LEMMA FreshObjectType ==
    ASSUME NEW f \in File, NEW k \in Cluster, NEW m \in MastersOf(f, k)
    PROVE  FreshObject(f, k, m) \in Object /\ FreshObject(f, k, m) # None
BY DEF FreshObject, Object, MastersOf, NodesOf

LEMMA WriteClusterOK ==
    ASSUME IInv, NEW v \in Validations, WriteCluster(v)
    PROVE  IInv'
<1> DEFINE f == vrows[v]
           k == vcur[v]
           new == {v} \X NodesOf(f, k)
<1>1. f \in File /\ k \in Cluster /\ ptr \in Validations
  BY DEF WriteCluster, IInv, TypeOK, TableTypes, ValidationTypes, PlacesOK,
         ValidationPlace
<1>2. maps \in [Validations -> Table]
  BY DEF IInv, TypeOK, TableTypes
<1>3. maps' \in [Validations -> Table] /\ Grow
  <2>1. CASE MastersOf(f, k) = {}
    BY <1>2, <2>1 DEF WriteCluster, Grow
  <2>2. CASE MastersOf(f, k) # {}
    <3>1. PICK m \in MastersOf(f, k) :
            maps' = [maps EXCEPT ![ptr][k] = FreshObject(f, k, m)]
      BY <2>2 DEF WriteCluster, NewTable
    <3>2. FreshObject(f, k, m) \in Object /\ FreshObject(f, k, m) # None
      BY <1>1, FreshObjectType
    <3> QED
      BY <1>1, <1>2, <3>1, <3>2 DEF WriteCluster, Grow, Table
  <2> QED
    BY <2>1, <2>2
<1>4. TableTypes'
  BY <1>3 DEF WriteCluster, IInv, TypeOK, TableTypes
<1>5. ValidationTypes'
  BY DEF WriteCluster, IInv, TypeOK, ValidationTypes
<1>6. WorldTypes'
  BY DEF WriteCluster, IInv, TypeOK, WorldTypes, worldVars
<1>7. \A u \in Validations : ValidationPlace(u)'
  BY DEF WriteCluster, IInv, TypeOK, ValidationTypes, PlacesOK, ValidationPlace
<1>8. \A t \in new : t \in Calls /\ t[2] \in Mac
  BY DEF NodesOf, Calls, Fetches
\* Only calls that range over the map written to may get a key, and only this.
<1>9. /\ todo' \in [Calls -> SUBSET Cluster]
      /\ \A t \in Calls :
            \/ todo'[t] = todo[t]
            \/ /\ pc[t] \in {"probe", "ask"}
               /\ at[t] = ptr
               /\ MastersOf(f, k) # {}
               /\ todo'[t] = todo[t] \union {k}
  <2>1. todo \in [Calls -> SUBSET Cluster]
    BY DEF IInv, TypeOK, CallTypes
  <2>2. CASE MastersOf(f, k) = {}
    BY <2>1, <2>2 DEF WriteCluster
  <2>3. CASE MastersOf(f, k) # {}
    <3>1. PICK late \in SUBSET Iterating :
            todo' = [t \in Calls |->
                        IF t \in late /\ maps[ptr][k] = None
                        THEN todo[t] \union {k} ELSE todo[t]]
      BY <2>3 DEF WriteCluster
    <3>2. \A t \in late : pc[t] \in {"probe", "ask"} /\ at[t] = ptr
      BY <3>1 DEF Iterating
    <3> QED
      BY <1>1, <2>1, <2>3, <3>1, <3>2
  <2> QED
    BY <2>2, <2>3
<1>10. MastersOf(f, k) # {} => maps'[ptr][k] # None
  <2> SUFFICES ASSUME MastersOf(f, k) # {}
               PROVE  maps'[ptr][k] # None
    OBVIOUS
  <2>1. PICK m \in MastersOf(f, k) :
            maps' = [maps EXCEPT ![ptr][k] = FreshObject(f, k, m)]
    BY DEF WriteCluster, NewTable
  <2> QED
    BY <1>1, <1>2, <2>1, FreshObjectType DEF Table
<1>11. CallTypes'
  <2>1. /\ pc' \in [Calls -> CallPc]
        /\ target' \in [Calls -> Mac \union {None}]
    BY <1>8 DEF WriteCluster, IInv, TypeOK, CallTypes, CallPc
  <2>2. job' \in [Calls -> Job]
    BY <1>8 DEF WriteCluster, IInv, TypeOK, CallTypes, Job, NoJob
  <2> QED
    BY <1>9, <2>1, <2>2 DEF WriteCluster, IInv, TypeOK, CallTypes
<1>12. \A t \in Calls : CallPlace(t)'
  <2> SUFFICES ASSUME NEW t \in Calls
               PROVE  CallPlace(t)'
    OBVIOUS
  <2>1. CASE t \in new
    <3>1. /\ pc'[t] = "run"
          /\ job'[t].kind = "validate"
          /\ target'[t] \in Mac
      BY <1>8, <2>1 DEF WriteCluster, IInv, TypeOK, CallTypes, NoJob
    <3> QED
      BY <3>1 DEF CallPlace
  <2>2. CASE t \notin new
    <3>1. /\ pc'[t] = pc[t] /\ job'[t] = job[t] /\ target'[t] = target[t]
          /\ at'[t] = at[t] /\ asked'[t] = asked[t]
      BY <2>2 DEF WriteCluster
    <3>2. CallPlace(t)
      BY DEF IInv, PlacesOK
    <3>3. todo[t] \subseteq Cluster /\ at[t] \in Validations \union {None}
      BY DEF IInv, TypeOK, CallTypes
    <3> QED
      BY <1>3, <1>9, <1>10, <3>1, <3>2, <3>3 DEF CallPlace, Grow
  <2> QED
    BY <2>1, <2>2
<1> QED
  BY <1>4, <1>5, <1>6, <1>7, <1>11, <1>12 DEF IInv, TypeOK, PlacesOK

LEMMA EndValidationOK ==
    ASSUME IInv, NEW v \in Validations, EndValidation(v)
    PROVE  IInv'
<1> USE DEF EndValidation
<1>1. TableTypes'
  BY DEF IInv, TypeOK, TableTypes, tableVars
<1>2. ValidationTypes'
  BY DEF IInv, TypeOK, ValidationTypes
<1>3. WorldTypes'
  BY DEF IInv, TypeOK, WorldTypes, worldVars
<1>4. CallTypes'
  BY DEF IInv, TypeOK, CallTypes, CallPc
<1>5. \A u \in Validations : ValidationPlace(u)'
  BY DEF IInv, TypeOK, ValidationTypes, PlacesOK, ValidationPlace, tableVars
<1>6. \A t \in Calls : CallPlace(t)'
  <2> SUFFICES ASSUME NEW t \in Calls
               PROVE  CallPlace(t)'
    OBVIOUS
  <2>1. CallPlace(t) /\ pc'[t] \in {pc[t], "done"}
    BY DEF IInv, PlacesOK
  <2> QED
    BY <2>1 DEF CallPlace, tableVars
<1> QED
  BY <1>1, <1>2, <1>3, <1>4, <1>5, <1>6 DEF IInv, TypeOK, PlacesOK

-----------------------------------------------------------------------------
(* GetClusters and FetchToken.                                             *)

\* What a call holds is of its type.
LEMMA CallFacts ==
    ASSUME IInv, NEW t \in Calls
    PROVE  /\ CallPlace(t)
           /\ CallTypes
           /\ maps \in [Validations -> Table]
           /\ ptr \in Validations \union {None}
           /\ job[t] \in Job
           /\ target[t] \in Mac \union {None}
           /\ creds[t] \in Mac \union {None}
           /\ at[t] \in Validations \union {None}
           /\ todo[t] \subseteq Cluster
           /\ asked[t] \in Question \union {None}
BY DEF IInv, TypeOK, PlacesOK, CallTypes, TableTypes

LEMMA StartGetOK ==
    ASSUME IInv, NEW t \in Calls, StartGet(t)
    PROVE  IInv'
<1>1. CASE ptr = None
  BY <1>1, PanicOK DEF StartGet
<1>2. CASE ptr # None
  <2>1. Known(ptr) \subseteq Cluster /\ \A k \in Known(ptr) : maps[ptr][k] # None
    BY DEF Known
  <2>2. CallTypes'
    BY <1>2, <2>1, CallFacts DEF StartGet, CallTypes, CallPc
  <2>3. CallPlace(t)'
    BY <1>2, <2>1, CallFacts DEF StartGet, CallPlace, CallTypes, tableVars
  <2> QED
    BY <1>2, <2>2, <2>3, CallAlone, CallFacts DEF StartGet, CallTypes
<1> QED
  BY <1>1, <1>2

LEMMA ProbeClusterOK ==
    ASSUME IInv, NEW t \in Calls, ProbeCluster(t)
    PROVE  IInv'
<1>1. PICK k \in todo[t] :
        LET master == maps[at[t]][k].master
            found == master \in kubeconfig IN
        IF maps[ptr][k] = None THEN Panic(t)
        ELSE /\ todo' = [todo EXCEPT ![t] = @ \ {k}]
             /\ pc' = [pc EXCEPT ![t] = IF found THEN "ask" ELSE "probe"]
             /\ asked' = [asked EXCEPT ![t] =
                            IF found THEN [key |-> k, master |-> master] ELSE None]
             /\ UNCHANGED <<outside, job, target, creds, at>>
  BY DEF ProbeCluster
<1>2. CASE maps[ptr][k] = None
  BY <1>1, <1>2, PanicOK
<1>3. CASE maps[ptr][k] # None
  <2>1. pc[t] = "probe" /\ k \in Cluster /\ maps[at[t]][k].master \in Mac
    BY CallFacts DEF ProbeCluster, CallPlace, Table, Object
  <2> DEFINE found == maps[at[t]][k].master \in kubeconfig
             question == [key |-> k, master |-> maps[at[t]][k].master]
  <2>2. question \in Question
    BY <2>1 DEF Question
  <2>3. question # None
    BY <2>2
  <2>4. CallTypes'
    BY <1>1, <1>3, <2>2, CallFacts DEF CallTypes, CallPc
  <2>5. CallPlace(t)'
    BY <1>1, <1>3, <2>1, <2>3, CallFacts DEF CallPlace, CallTypes, tableVars
  <2> QED
    BY <1>1, <1>3, <2>4, <2>5, CallAlone, CallFacts DEF CallTypes
<1> QED
  BY <1>2, <1>3

\* A call writes to the objects of the map the pointer points to.
LEMMA ObjectsWritten ==
    ASSUME IInv, NEW t \in Calls, Grow, maps' \in [Validations -> Table],
           CallTypes', CallPlace(t)',
           UNCHANGED <<rows, ptr, validationVars, worldVars, seen, mixed>>,
           \A u \in Calls \ {t} :
                /\ pc'[u] = pc[u] /\ job'[u] = job[u] /\ target'[u] = target[u]
                /\ at'[u] = at[u] /\ todo'[u] = todo[u] /\ asked'[u] = asked[u]
    PROVE  IInv'
<1>1. TableTypes'
  BY DEF IInv, TypeOK, TableTypes
<1>2. WorldTypes'
  BY DEF IInv, TypeOK, WorldTypes, worldVars
<1> QED
  BY <1>1, <1>2, OneCallMoves, NoValidationMoves DEF IInv, TypeOK, PlacesOK

LEMMA AnswerProbeOK ==
    ASSUME IInv, NEW t \in Calls, AnswerProbe(t)
    PROVE  IInv'
<1> DEFINE k == asked[t].key
<1>1. CASE maps[ptr][k] = None
  BY <1>1, PanicOK DEF AnswerProbe
<1>2. CASE maps[ptr][k] # None
  <2>1. ptr \in Validations /\ k \in Cluster /\ asked[t].master \in Mac
    BY CallFacts DEF AnswerProbe, CallPlace, Question
  <2> DEFINE answered == [maps[ptr][k] EXCEPT !.info = asked[t].master]
  <2>2. maps \in [Validations -> [Cluster -> Object \union {None}]]
    BY CallFacts DEF Table
  <2>3. maps[ptr][k] \in Object
    BY <1>2, <2>1, <2>2
  <2>4. answered \in Object /\ answered # None
    BY <2>1, <2>3 DEF Object
  <2>5. maps' = [maps EXCEPT ![ptr] = [@ EXCEPT ![k] = answered]]
    BY <1>2, <2>1, <2>2 DEF AnswerProbe
  <2>6. maps' \in [Validations -> Table] /\ Grow
    <3> HIDE DEF answered
    <3> QED
      BY <1>2, <2>1, <2>2, <2>4, <2>5 DEF AnswerProbe, Table, Grow
  <2>7. CallTypes'
    BY <1>2, CallFacts DEF AnswerProbe, CallTypes, CallPc
  <2>8. CallPlace(t)'
    BY <1>2, <2>1, <2>6, CallFacts DEF AnswerProbe, CallPlace, CallTypes, Grow
  <2> QED
    BY <1>2, <2>6, <2>7, <2>8, ObjectsWritten, CallFacts DEF AnswerProbe, CallTypes
<1> QED
  BY <1>1, <1>2

LEMMA StoreTokenOK ==
    ASSUME IInv, NEW t \in Calls, StoreToken(t)
    PROVE  IInv'
<1>1. ptr \in Validations /\ creds[t] \in Mac
  BY CallFacts DEF StoreToken, Probed, CallPlace
<1>2. \A k \in Cluster : maps[ptr][k] # None =>
        /\ maps[ptr][k] \in Object
        /\ [maps[ptr][k] EXCEPT !.token = creds[t]] \in Object
  BY <1>1, CallFacts DEF Table, Object
<1>3. maps' \in [Validations -> Table] /\ Grow
  BY <1>1, <1>2, CallFacts DEF StoreToken, Table, Grow
<1>4. CASE job[t].kind = "ansible"
  <2>1. CallTypes'
    BY <1>4, CallFacts DEF StoreToken, CallTypes, CallPc
  <2>2. CallPlace(t)'
    BY <1>4, CallFacts DEF StoreToken, CallPlace, CallTypes
  <2> QED
    BY <1>3, <1>4, <2>1, <2>2, ObjectsWritten, CallFacts DEF StoreToken, CallTypes
<1>5. CASE job[t].kind # "ansible"
  <2>1. Leave(t)
    BY <1>5 DEF StoreToken
  <2>2. CallTypes' /\ \A u \in Calls : CallPlace(u)'
    BY <1>3, <2>1, LeaveOK
  <2>3. TableTypes' /\ WorldTypes'
    BY <1>3 DEF StoreToken, IInv, TypeOK, TableTypes, WorldTypes, worldVars
  <2> QED
    BY <1>3, <2>2, <2>3, NoValidationMoves DEF StoreToken, IInv, TypeOK, PlacesOK
<1> QED
  BY <1>4, <1>5

LEMMA FetchTokenOK ==
    ASSUME IInv, NEW t \in Calls, FetchToken(t)
    PROVE  IInv'
<1>1. target[t] \in Mac
  BY DEF FetchToken, IInv, TypeOK, WorldTypes
<1>2. CallTypes'
  BY <1>1, CallFacts DEF FetchToken, CallTypes, CallPc
<1>3. CallPlace(t)'
  BY CallFacts DEF FetchToken, CallPlace, CallTypes
<1> QED
  BY <1>2, <1>3, CallAlone, CallFacts DEF FetchToken, CallTypes

\* The steps that end a call and change nothing else in the process.
LEMMA CallEnds ==
    ASSUME IInv, NEW t \in Calls,
           \/ FailProbe(t) \/ AnswerList(t) \/ NoToken(t) \/ FailToken(t)
           \/ InstallMaster(t) \/ JoinWorker(t) \/ FailPlaybook(t)
    PROVE  IInv'
<1>1. WorldTypes
  BY DEF IInv, TypeOK
<1>2. CASE FailProbe(t)
  BY <1>1, <1>2, LeaveAlone, PanicOK DEF FailProbe, worldVars, WorldTypes
<1>3. CASE AnswerList(t) \/ NoToken(t) \/ FailToken(t)
  BY <1>1, <1>3, LeaveAlone
     DEF AnswerList, NoToken, FailToken, worldVars, WorldTypes
<1>4. CASE InstallMaster(t)
  BY <1>1, <1>4, LeaveAlone, CallFacts DEF InstallMaster, WorldTypes, CallPlace
<1>5. CASE JoinWorker(t)
  BY <1>1, <1>5, LeaveAlone, CallFacts DEF JoinWorker, WorldTypes, CallPlace
<1>6. CASE FailPlaybook(t)
  BY <1>1, <1>6, LeaveAlone, CallFacts DEF FailPlaybook, WorldTypes, CallPlace
<1> QED
  BY <1>2, <1>3, <1>4, <1>5, <1>6

-----------------------------------------------------------------------------
(* The handlers.                                                           *)

LEMMA AskTypes ==
    ASSUME IInv, NEW r \in Requests, NEW m \in Mac, rows \in File,
           NEW kind \in {"ansible", "token"}, NEW place \in {"get", "run"},
           Ask(r, kind, m, place)
    PROVE  pc' \in [Calls -> CallPc] /\ job' \in [Calls -> Job]
<1>1. [kind |-> kind, mac |-> m, rows |-> IF kind = "ansible" THEN rows ELSE None]
        \in Job
  BY DEF Job
<1>2. pc \in [Calls -> CallPc] /\ job \in [Calls -> Job]
  BY DEF IInv, TypeOK, CallTypes
<1>3. pc' \in [Calls -> CallPc]
  BY <1>2 DEF Ask, CallPc
<1> QED
  BY <1>1, <1>2, <1>3 DEF Ask

LEMMA RequestArrivesOK ==
    ASSUME IInv, NEW r \in Requests, RequestArrives(r)
    PROVE  IInv'
<1>1. r \in Calls
  BY DEF Calls
<1>2. rows \in File
  BY DEF RequestArrives, AskAnsible, AskToken, AskClusters, IInv, TypeOK, TableTypes
<1>3. WorldTypes
  BY DEF IInv, TypeOK
<1>4. CASE AskAnsible(r)
  <2>1. PICK m \in Mac :
            IF rows[m] = NoRow THEN Leave(r)
            ELSE Ask(r, "ansible", m, "get") /\ UNCHANGED <<target, creds, at, todo, asked>>
    BY <1>4 DEF AskAnsible
  <2>2. CASE rows[m] = NoRow
    BY <1>1, <1>3, <1>4, <2>1, <2>2, LeaveAlone
       DEF AskAnsible, worldVars, WorldTypes
  <2>3. CASE rows[m] # NoRow
    <3>1. CallTypes'
      BY <1>1, <1>2, <2>1, <2>3, AskTypes, CallFacts DEF CallTypes
    <3>2. CallPlace(r)'
      BY <1>1, <1>2, <2>1, <2>3, CallFacts DEF Ask, CallTypes, CallPlace
    <3> QED
      BY <1>1, <1>4, <2>1, <2>3, <3>1, <3>2, CallAlone, CallFacts
         DEF AskAnsible, Ask, CallTypes
  <2> QED
    BY <2>2, <2>3
<1>5. CASE AskToken(r)
  <2>1. PICK m \in Mac :
            IF rows[m] = NoRow THEN Leave(r)
            ELSE /\ Ask(r, "token", m, "run")
                 /\ target' = [target EXCEPT ![r] = m]
                 /\ UNCHANGED <<creds, at, todo, asked>>
    BY <1>5 DEF AskToken
  <2>2. CASE rows[m] = NoRow
    BY <1>1, <1>3, <1>5, <2>1, <2>2, LeaveAlone
       DEF AskToken, worldVars, WorldTypes
  <2>3. CASE rows[m] # NoRow
    <3>1. CallTypes'
      BY <1>1, <1>2, <2>1, <2>3, AskTypes, CallFacts DEF CallTypes
    <3>2. CallPlace(r)'
      BY <1>1, <1>2, <2>1, <2>3, CallFacts DEF Ask, CallTypes, CallPlace
    <3> QED
      BY <1>1, <1>5, <2>1, <2>3, <3>1, <3>2, CallAlone, CallFacts
         DEF AskToken, Ask, CallTypes
  <2> QED
    BY <2>2, <2>3
<1>6. CASE AskClusters(r)
  <2>1. CallTypes'
    BY <1>1, <1>2, <1>6, CallFacts DEF AskClusters, Ask, CallTypes, CallPc, Job
  <2>2. CallPlace(r)'
    BY <1>1, <1>2, <1>6, CallFacts DEF AskClusters, Ask, CallTypes, CallPlace
  <2> QED
    BY <1>1, <1>6, <2>1, <2>2, CallAlone, CallFacts DEF AskClusters, Ask, CallTypes
<1> QED
  BY <1>4, <1>5, <1>6 DEF RequestArrives

\* The control plane node handleAnsible finds is a machine of the table's Info.
LEMMA NodeOfMachine ==
    ASSUME IInv, NEW t \in Calls, Probed(t), job[t].kind = "ansible"
    PROVE  /\ RowOf(t) \in Row
           /\ NodeOf(t) \subseteq Mac
           /\ \A m \in NodeOf(t) : \E k \in Cluster :
                /\ ptr \in Validations
                /\ maps[ptr][k] # None
                /\ maps[ptr][k].info = m
<1>1. RowOf(t) \in Row
  BY CallFacts DEF RowOf, CallPlace, File
<1>2. ptr \in Validations
  BY CallFacts DEF Probed, CallPlace
<1>3. RowOf(t).cluster \in Cluster
  BY <1>1 DEF Row
<1> QED
  BY <1>1, <1>2, <1>3, CallFacts DEF NodeOf, Table, Object

LEMMA PickNodeOK ==
    ASSUME IInv, NEW t \in Calls, PickNode(t)
    PROVE  IInv'
<1>1. Probed(t) /\ job[t].kind = "ansible"
  BY DEF PickNode
<1>2. CASE NodeOf(t) = {}
  BY <1>2, PanicOK DEF PickNode
<1>3. CASE NodeOf(t) # {}
  <2>1. PICK m \in NodeOf(t) :
            CASE RowOf(t).template = "k3s-master" ->
                    /\ pc' = [pc EXCEPT ![t] = "install"]
                    /\ UNCHANGED <<job, target, creds, at, todo, asked>>
              [] RowOf(t).template = "k3s-worker" ->
                    /\ pc' = [pc EXCEPT ![t] = "run"]
                    /\ target' = [target EXCEPT ![t] = m]
                    /\ UNCHANGED <<job, creds, at, todo, asked>>
              [] OTHER -> Leave(t)
    BY <1>3 DEF PickNode
  <2>2. m \in Mac
    BY <1>1, <2>1, NodeOfMachine
  <2>3. UNCHANGED outside
    BY <1>3 DEF PickNode
  <2>4. CASE RowOf(t).template = "k3s-master"
    <3>1. CallTypes'
      BY <2>1, <2>4, CallFacts DEF CallTypes, CallPc
    <3>2. CallPlace(t)'
      BY <1>1, <2>1, <2>4, CallFacts DEF CallPlace, CallTypes
    <3> QED
      BY <2>1, <2>3, <2>4, <3>1, <3>2, CallAlone, CallFacts DEF CallTypes
  <2>5. CASE RowOf(t).template = "k3s-worker"
    <3>1. CallTypes'
      BY <2>1, <2>2, <2>5, CallFacts DEF CallTypes, CallPc
    <3>2. CallPlace(t)'
      BY <1>1, <2>1, <2>2, <2>5, CallFacts DEF CallPlace, CallTypes
    <3> QED
      BY <2>1, <2>3, <2>5, <3>1, <3>2, CallAlone, CallFacts DEF CallTypes
  <2>6. CASE /\ RowOf(t).template # "k3s-master"
             /\ RowOf(t).template # "k3s-worker"
    BY <2>1, <2>3, <2>6, LeaveAlone DEF worldVars, IInv, TypeOK, WorldTypes
  <2> QED
    BY <2>4, <2>5, <2>6
<1> QED
  BY <1>2, <1>3

-----------------------------------------------------------------------------
(* What the three writers leave in the table.                              *)

LEMMA WriteClusterTable ==
    ASSUME IInv, NEW v \in Validations, WriteCluster(v),
           NEW w \in Validations, NEW c \in Cluster
    PROVE  \/ maps'[w][c] = maps[w][c]
           \/ /\ maps'[w][c].master \in MastersOf(vrows[v], c)
              /\ maps'[w][c].token = None
              /\ maps'[w][c].info = None
              /\ maps'[w][c] # None
<1> DEFINE f == vrows[v]
           k == vcur[v]
<1>1. k \in Cluster /\ ptr \in Validations /\ maps \in [Validations -> Table]
  BY DEF WriteCluster, IInv, TypeOK, TableTypes, ValidationTypes, PlacesOK,
         ValidationPlace
<1>2. CASE MastersOf(f, k) = {}
  BY <1>2 DEF WriteCluster
<1>3. CASE MastersOf(f, k) # {}
  <2>1. PICK m \in MastersOf(f, k) :
            maps' = [maps EXCEPT ![ptr][k] = FreshObject(f, k, m)]
    BY <1>3 DEF WriteCluster, NewTable
  <2>2. CASE w = ptr /\ c = k
    <3>1. maps'[w][c] = FreshObject(f, k, m)
      BY <1>1, <2>1, <2>2 DEF Table
    <3>2. FreshObject(f, k, m) \in Object
      BY DEF FreshObject, Object, MastersOf, NodesOf
    <3>3. FreshObject(f, k, m) # None
      BY <3>2
    <3> QED
      BY <2>1, <2>2, <3>1, <3>3 DEF FreshObject
  <2>3. CASE ~(w = ptr /\ c = k)
    BY <1>1, <2>1, <2>3 DEF Table
  <2> QED
    BY <2>2, <2>3
<1> QED
  BY <1>2, <1>3

LEMMA StoreTokenTable ==
    ASSUME IInv, NEW t \in Calls, StoreToken(t),
           NEW v \in Validations, NEW k \in Cluster
    PROVE  \/ maps'[v][k] = maps[v][k]
           \/ /\ v = ptr
              /\ maps[v][k] \in Object /\ maps[v][k] # None
              /\ Tokened(t, k)
              /\ maps'[v][k] # None
              /\ maps'[v][k].token = creds[t]
              /\ maps'[v][k].nodes = maps[v][k].nodes
              /\ maps'[v][k].master = maps[v][k].master
              /\ maps'[v][k].info = maps[v][k].info
<1>1. ptr \in Validations
  BY CallFacts DEF StoreToken, Probed, CallPlace
<1>2. CASE v # ptr
  BY <1>2, CallFacts DEF StoreToken
<1>3. CASE v = ptr
  <2>1. maps'[v][k] = IF maps[v][k] # None /\ Tokened(t, k)
                      THEN [maps[v][k] EXCEPT !.token = creds[t]]
                      ELSE maps[v][k]
    BY <1>1, <1>3, CallFacts DEF StoreToken
  <2>2. maps[v][k] # None => maps[v][k] \in Object
    BY CallFacts DEF Table
  <2>3. creds[t] \in Mac
    BY CallFacts DEF StoreToken
  <2>4. maps[v][k] # None => [maps[v][k] EXCEPT !.token = creds[t]] \in Object
    BY <2>2, <2>3 DEF Object
  <2>5. maps[v][k] # None => [maps[v][k] EXCEPT !.token = creds[t]] # None
    BY <2>4
  <2> QED
    BY <1>3, <2>1, <2>2, <2>5 DEF Object
<1> QED
  BY <1>2, <1>3

LEMMA AnswerProbeTable ==
    ASSUME IInv, NEW t \in Calls, AnswerProbe(t), maps[ptr][asked[t].key] # None,
           NEW v \in Validations, NEW k \in Cluster
    PROVE  \/ maps'[v][k] = maps[v][k]
           \/ /\ k = asked[t].key
              /\ maps[v][k] # None /\ maps'[v][k] # None
              /\ maps'[v][k].info = asked[t].master
              /\ maps'[v][k].token = maps[v][k].token
              /\ maps'[v][k].nodes = maps[v][k].nodes
              /\ maps'[v][k].master = maps[v][k].master
<1>1. /\ ptr \in Validations
      /\ asked[t].key \in Cluster /\ asked[t].master \in Mac
  BY CallFacts DEF AnswerProbe, CallPlace, Question
<1>2. maps \in [Validations -> [Cluster -> Object \union {None}]]
  BY CallFacts DEF Table
<1>3. maps' = [maps EXCEPT ![ptr][asked[t].key].info = asked[t].master]
  BY DEF AnswerProbe
<1>4. CASE ~(v = ptr /\ k = asked[t].key)
  BY <1>1, <1>2, <1>3, <1>4
<1>5. CASE v = ptr /\ k = asked[t].key
  <2>1. maps'[v][k] = [maps[v][k] EXCEPT !.info = asked[t].master]
    BY <1>1, <1>2, <1>3, <1>5
  <2>2. maps[v][k] \in Object
    BY <1>2, <1>5
  <2>3. [maps[v][k] EXCEPT !.info = asked[t].master] \in Object
    BY <1>1, <2>2 DEF Object
  <2> QED
    BY <1>5, <2>1, <2>2, <2>3 DEF Object
<1> QED
  BY <1>4, <1>5

-----------------------------------------------------------------------------
(* The theorems.                                                           *)

LEMMA InitOK ==
    ASSUME Init
    PROVE  IInv
<1>1. EmptyTable \in Table /\ NoJob \in Job
  BY DEF EmptyTable, Table, NoJob, Job
<1>2. TypeOK
  BY <1>1 DEF Init, TypeOK, TableTypes, ValidationTypes, CallTypes, WorldTypes, CallPc
<1>3. PlacesOK
  BY DEF Init, PlacesOK, ValidationPlace, CallPlace, NoJob
<1> QED
  BY <1>2, <1>3 DEF IInv

LEMMA StutterOK ==
    ASSUME IInv, UNCHANGED vars
    PROVE  IInv'
<1>1. Grow /\ UNCHANGED callVars /\ UNCHANGED validationVars
  BY GrowUnchanged DEF vars
<1>2. TableTypes' /\ WorldTypes'
  BY DEF vars, tableVars, worldVars, IInv, TypeOK, TableTypes, WorldTypes
<1> QED
  BY <1>1, <1>2, NoCallMoves, NoValidationMoves DEF IInv, TypeOK, PlacesOK

LEMMA NextOK ==
    ASSUME IInv, Next
    PROVE  IInv'
<1>1. ASSUME NEW v \in Validations, Populate(v) \/ ValidationStep(v)
      PROVE  IInv'
  BY <1>1, PopulateOK, ValidationAlone, CreateMapOK, WriteClusterOK, EndValidationOK
     DEF ValidationStep
<1>2. ASSUME NEW r \in Requests, RequestArrives(r)
      PROVE  IInv'
  BY <1>2, RequestArrivesOK
<1>3. ASSUME NEW t \in Calls, CallStep(t)
      PROVE  IInv'
  BY <1>3, StartGetOK, ProbeClusterOK, AnswerProbeOK, FetchTokenOK, StoreTokenOK,
     PickNodeOK, CallEnds DEF CallStep, OwnStep, GoodEnd, BadEnd
<1>4. CASE MapRace \/ Kill
  BY <1>4, CrashOK DEF MapRace, Kill
<1> QED
  BY <1>1, <1>2, <1>3, <1>4 DEF Next

\* The two together are inductive.
THEOREM IInvInvariant == Spec => []IInv
<1>1. IInv /\ [Next]_vars => IInv'
  BY NextOK, StutterOK
<1> QED
  BY <1>1, InitOK, PTL DEF Spec

\* Every variable of Clusters keeps its type, whatever the sets of machines,
\* files and calls.
THEOREM TypeCorrect == Spec => []TypeOK
<1>1. IInv => TypeOK
  BY DEF IInv
<1> QED
  BY <1>1, IInvInvariant, PTL

=============================================================================
