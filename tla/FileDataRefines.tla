--------------------------- MODULE FileDataRefines ---------------------------
(***************************************************************************)
(* FileData implements AtomicRegistry: every step of the worker, of its    *)
(* clients and of the operator is a step of the abstract specification or  *)
(* leaves its variables alone.  The read of a call of Populate takes place *)
(* at the step that finds the end of the file.                             *)
(***************************************************************************)
EXTENDS FileDataProofs, FiniteSetTheorems

USE NoIPAssumption, NilAssumption, HeaderAssumption, ThreadsAssumption,
    ContentsAssumption, BoundsAssumption
    DEF Inode, Populators, Threads, faultVars

-----------------------------------------------------------------------------
(* What a file stands for.                                                 *)

\* At most one registry.
LEMMA StandsForOne ==
    ASSUME NEW lines, NEW n \in Nat,
           NEW r \in Registry, StandsFor(lines, n, r),
           NEW s \in Registry, StandsFor(lines, n, s)
    PROVE  r = s
<1>1. ASSUME NEW m \in Mac PROVE r[m] = s[m]
  <2>1. CASE RowsOf(lines, n, m) = {}
    BY <2>1 DEF StandsFor
  <2>2. CASE RowsOf(lines, n, m) # {}
    <3>1. PICK k \in RowsOf(lines, n, m) :
            r[m] = lines[k].ip /\ \A l \in RowsOf(lines, n, m) : l <= k
      BY <2>2 DEF StandsFor
    <3>2. PICK j \in RowsOf(lines, n, m) :
            s[m] = lines[j].ip /\ \A l \in RowsOf(lines, n, m) : l <= j
      BY <2>2 DEF StandsFor
    <3>3. k \in Int /\ j \in Int /\ j <= k /\ k <= j
      BY <3>1, <3>2 DEF RowsOf
    <3> QED
      BY <3>1, <3>2, <3>3
  <2> QED
    BY <2>1, <2>2
<1> QED
  BY <1>1 DEF Registry

\* Of the rows of a MAC one is the last.
LEMMA LastRow ==
    ASSUME NEW n \in Nat, NEW S \in SUBSET (2..n), S # {}
    PROVE  \E k \in S : \A j \in S : j <= k
<1> DEFINE Above(k) == {j \in S : j > k}
           T == {Above(k) : k \in S}
<1>1. S \in SUBSET Int /\ IsFiniteSet(S)
  <2>1. IsFiniteSet(2..n)
    BY FS_Interval
  <2>2. IsFiniteSet(S)
    BY <2>1, FS_Subset
  <2>3. S \in SUBSET Int
    OBVIOUS
  <2> QED
    BY <2>2, <2>3
<1>2. T \subseteq FiniteSubsetsOf(S) /\ T # {}
  <2>1. \A k \in S : Above(k) \in FiniteSubsetsOf(S)
    BY <1>1, FS_Subset DEF FiniteSubsetsOf
  <2> HIDE DEF Above
  <2> QED
    BY <2>1
<1>3. PICK x \in T : \A y \in T : ~(<<y, x>> \in StrictSubsetOrdering(S))
  <2> HIDE DEF T
  <2> QED
    BY <1>2, FS_StrictSubsetOrderingWellFounded, WFMin
<1>4. PICK k \in S : x = Above(k)
  OBVIOUS
<1>5. ASSUME NEW j \in S, j > k PROVE FALSE
  <2>1. Above(j) \in T /\ Above(k) \subseteq S
    OBVIOUS
  <2>2. Above(j) \subseteq Above(k) /\ Above(j) # Above(k)
    <3>1. j \in Int /\ k \in Int /\ \A l \in S : l \in Int
      BY <1>1
    <3>2. ASSUME NEW l \in Above(j) PROVE l \in Above(k)
      <4>1. l \in S /\ l > j
        OBVIOUS
      <4> QED
        BY <1>5, <3>1, <4>1
    <3>3. j \in Above(k) /\ j \notin Above(j)
      BY <1>5, <3>1
    <3> QED
      BY <3>2, <3>3
  <2> HIDE DEF Above, T
  <2>3. Above(j) \in SUBSET S
    BY <2>1, <2>2
  <2>4. <<Above(j), x>> \in StrictSubsetOrdering(S)
    BY <1>4, <2>1, <2>2, <2>3 DEF StrictSubsetOrdering
  <2> QED
    BY <1>3, <2>1, <2>4
<1> QED
  BY <1>1, <1>5

\* Lines without a row that misses columns stand for exactly one registry, and
\* Value is that one: what a file promises is defined however often its
\* machines are listed, and in whatever order (the map of Populate, which a
\* later row of a MAC overwrites).
THEOREM FileHasOneRegistry ==
    ASSUME NEW lines \in Seq(Line), WellFormed(lines, Len(lines))
    PROVE  /\ Value(lines) \in Registry
           /\ \A r \in Registry :
                StandsFor(lines, Len(lines), r) <=> r = Value(lines)
<1> DEFINE n == Len(lines)
           Last(m, k) == /\ k \in RowsOf(lines, n, m)
                         /\ \A j \in RowsOf(lines, n, m) : j <= k
           r == [m \in Mac |->
                    IF RowsOf(lines, n, m) = {} THEN NoIP
                    ELSE lines[CHOOSE k \in RowsOf(lines, n, m) : Last(m, k)].ip]
<1>1. n \in Nat /\ \A m \in Mac : RowsOf(lines, n, m) \in SUBSET (2..n)
  BY DEF RowsOf
<1>2. ASSUME NEW m \in Mac, RowsOf(lines, n, m) # {}
      PROVE  \E k \in RowsOf(lines, n, m) : Last(m, k) /\ r[m] = lines[k].ip
  <2>1. \E k \in RowsOf(lines, n, m) : Last(m, k)
    BY <1>1, <1>2, LastRow
  <2> QED
    BY <1>2, <2>1
<1>3. \A k \in 2..n : lines[k].ip \in IP
  BY DEF WellFormed, FullRow
<1>4. r \in Registry
  <2>1. ASSUME NEW m \in Mac PROVE r[m] \in IP \union {NoIP}
    BY <1>1, <1>2, <1>3
  <2>2. r = [m \in Mac |-> r[m]]
    OBVIOUS
  <2> HIDE DEF r
  <2> QED
    BY <2>1, <2>2 DEF Registry
<1>5. StandsFor(lines, n, r)
  <2>1. \A m \in Mac : RowsOf(lines, n, m) = {} => r[m] = NoIP
    OBVIOUS
  <2> QED
    BY <1>2, <2>1 DEF StandsFor
<1>6. Value(lines) = CHOOSE s \in Registry : StandsFor(lines, n, s)
  BY DEF Value
<1> HIDE DEF r
<1>7. Value(lines) \in Registry /\ StandsFor(lines, n, Value(lines))
  BY <1>4, <1>5, <1>6
<1> QED
  BY <1>1, <1>7, StandsForOne

\* The map of a Populate at the end of its file is what the file stands for.
LEMMA MapIsValue ==
    ASSUME IInv, NEW t \in Populators, pc[t] \in {"init", "scan"}, AtEOF(t)
    PROVE  /\ fd[t] \in 0..MaxInode
           /\ map[t] \in Registry
           /\ value[fd[t]] = map[t]
<1> DEFINE lines == Lines(fd[t])
<1>1. /\ fd[t] \in 0..used /\ fd[t] \in 0..MaxInode
      /\ done[t] \in Nat /\ map[t] \in Registry
  <2>1. used \in 0..MaxInode /\ fd[t] \in 0..used
    BY DEF IInv, TypeOK
  <2> QED
    BY <2>1 DEF IInv, TypeOK
<1>2. lines \in Seq(Line) /\ Len(lines) \in Nat
  BY <1>1, LinesType DEF IInv
<1>3. /\ done[t] = Len(lines)
      /\ WellFormed(lines, done[t]) /\ StandsFor(lines, done[t], map[t])
  <2>1. CASE pc[t] = "init"
    <3>1. done[t] = 0 /\ map[t] = NoRegistry
      BY <2>1 DEF IInv, ScanInv, PopulateInv
    <3>2. Len(lines) = 0
      BY <1>2, <3>1 DEF AtEOF
    <3> QED
      BY <3>1, <3>2, StandsForNothing
  <2>2. CASE pc[t] = "scan"
    <3>1. PopulateInv(t)
      BY DEF IInv, ScanInv
    <3> QED
      BY <1>1, <1>2, <2>2, <3>1 DEF PopulateInv, AtEOF
  <2> QED
    BY <2>1, <2>2
<1>4. value[fd[t]] = Value(lines)
  BY <1>1 DEF value
<1> HIDE DEF lines
<1>5. WellFormed(lines, Len(lines)) /\ StandsFor(lines, Len(lines), map[t])
  BY <1>3
<1>6. Value(lines) = map[t]
  BY <1>1, <1>2, <1>5, FileHasOneRegistry
<1> QED
  BY <1>1, <1>4, <1>6

-----------------------------------------------------------------------------
(* Steps.                                                                  *)

\* The step of one goroutine, seen from above.
LEMMA OneMoves ==
    ASSUME NEW t \in Populators, Only(t)
    PROVE  /\ handle' = [handle EXCEPT ![t] =
                IF pc'[t] \in {"init", "reset", "scan", "store", "publish"}
                THEN fd'[t] ELSE Nil]
           /\ got' = [got EXCEPT ![t] =
                IF HasRead(t)' THEN map'[t] ELSE Nil]
BY DEF handle, got, HasRead, Populating, Only

\* A step that opens, ends and publishes nothing.
LEMMA EditStep ==
    ASSUME activePtr' = activePtr,
           \A t \in Populators :
                \/ /\ pc'[t] = pc[t] /\ fd'[t] = fd[t] /\ done'[t] = done[t]
                   /\ map'[t] = map[t]
                \/ /\ t \in Populating /\ fd'[t] = fd[t]
                   /\ pc'[t] \in {"init", "reset", "scan", "store", "publish"}
                   /\ HasRead(t)' = HasRead(t)
                   /\ HasRead(t) => map'[t] = map[t]
                \/ /\ t \notin Populating
                   /\ pc'[t] \notin {"init", "reset", "scan", "store", "publish"}
    PROVE  R!Next
<1>1. handle' = handle
  BY DEF handle, Populating
<1>2. got' = got
  BY DEF got, HasRead, Populating
<1> QED
  BY <1>1, <1>2 DEF R!Next, R!Edit

LEMMA ValueSame ==
    ASSUME UNCHANGED <<content, cur>>
    PROVE  UNCHANGED <<value, cur>>
<1>1. \A i \in 0..MaxInode : Lines(i)' = Lines(i)
  BY DEF Lines
<1> QED
  BY <1>1 DEF value

LEMMA CrashRefines ==
    ASSUME Crash
    PROVE  R!Next
<1>1. \A t \in Populators : pc'[t] \in {"off", "new", "done"}
  BY DEF Crash, PcAfterCrash
<1>2. /\ handle' = [t \in Populators |-> Nil]
      /\ got' = [t \in Populators |-> Nil]
  BY <1>1 DEF handle, got, HasRead, Populating
<1> QED
  BY <1>2, ValueSame DEF Crash, fileVars, R!Next, R!Stop

LEMMA OpenFileRefines ==
    ASSUME IInv, NEW t \in Populators, OpenFile(t)
    PROVE  R!Next
<1>1. /\ Only(t) /\ pc[t] = "open" /\ pc'[t] = "init" /\ fd'[t] = cur
      /\ UNCHANGED <<content, cur, activePtr>>
  BY DEF OpenFile, Only, IInv, TypeOK, fileVars
<1>2. handle[t] = Nil /\ got[t] = Nil
  BY <1>1 DEF handle, got, HasRead, Populating
<1>3. handle' = [handle EXCEPT ![t] = cur]
  BY <1>1, OneMoves
<1>4. got' = got
  BY <1>1, <1>2, OneMoves DEF got, HasRead
<1> QED
  BY <1>1, <1>2, <1>3, <1>4, ValueSame DEF R!Next, R!Open

\* The end of the file is found, also by a scanner that never read a line.
LEMMA ReadRefines ==
    ASSUME IInv, NEW t \in Populators, Only(t), AtEOF(t),
           pc[t] \in {"init", "scan"}, HasRead(t)',
           fd'[t] = fd[t], map'[t] = map[t],
           UNCHANGED <<content, cur, activePtr>>
    PROVE  R!Next
<1>1. /\ fd[t] \in 0..MaxInode
      /\ map[t] \in Registry
      /\ value[fd[t]] = map[t]
  BY MapIsValue
<1>2. handle[t] = fd[t] /\ got[t] = Nil /\ handle[t] # Nil /\ map[t] # Nil
  BY <1>1 DEF handle, got, HasRead, Populating
<1>3. handle' = handle
  <2>1. handle' = [handle EXCEPT ![t] = handle'[t]] /\ handle'[t] = fd'[t]
    BY OneMoves DEF handle, Populating, HasRead
  <2> QED
    BY <1>2, <2>1 DEF handle
<1>4. got' = [got EXCEPT ![t] = value[handle[t]]]
  BY <1>1, <1>2, OneMoves
<1> QED
  BY <1>1, <1>2, <1>3, <1>4, ValueSame DEF R!Next, R!Read

\* A handler's Populate that panics gives up: it has read nothing.
LEMMA UnwindRefines ==
    ASSUME IInv, NEW t \in Posts, pc[t] = "scan",
           pc' = [pc EXCEPT ![t] = "done"], DropLocals(t),
           UNCHANGED <<fileVars, activePtr>>
    PROVE  R!Next
<1>1. Only(t) /\ pc'[t] = "done" /\ UNCHANGED <<content, cur>>
  BY DEF DropLocals, Only, IInv, TypeOK, fileVars
<1>2. got[t] = Nil
  BY DEF got, HasRead
<1> QED
  BY <1>1, <1>2, OneMoves, ValueSame DEF R!Next, R!GiveUp, R!Close, HasRead

LEMMA PopulateRefines ==
    ASSUME IInv, NEW t \in Populators, PopulateStep(t)
    PROVE  R!Next
<1>1. CASE OpenFile(t)
  BY <1>1, OpenFileRefines
<1>2. CASE SkipHeader(t)
  <2>1. /\ Only(t) /\ pc[t] = "init"
        /\ UNCHANGED <<content, cur, fd, map, activePtr>>
    BY <1>2 DEF SkipHeader, Only, IInv, TypeOK, fileVars
  <2>2. CASE AtEOF(t)
    <3>1. HasRead(t)'
      BY <1>2, <2>1, <2>2 DEF SkipHeader, IInv, ScanInv, PopulateInv, TypeOK, HasRead
    <3> QED
      BY <2>1, <2>2, <3>1, ReadRefines
  <2>3. CASE ~AtEOF(t)
    <3>1. pc'[t] = "reset" /\ done'[t] = 1
      BY <1>2, <2>3 DEF SkipHeader, IInv, TypeOK
    <3> QED
      BY <2>1, <3>1, EditStep DEF Only, HasRead, Populating
  <2> QED
    BY <2>2, <2>3
<1>3. CASE ScanRow(t)
  <2>1. /\ Only(t) /\ pc[t] = "scan" /\ pc'[t] = "store"
        /\ UNCHANGED <<fd, activePtr>>
    BY <1>3 DEF ScanRow, Only, IInv, TypeOK, scanVars
  <2> QED
    BY <2>1, EditStep DEF Only, HasRead, Populating
<1>4. CASE StoreRow(t)
  <2>1. /\ Only(t) /\ pc[t] = "store" /\ pc'[t] = "scan"
        /\ UNCHANGED <<fd, activePtr>>
    BY <1>4 DEF StoreRow, Only, IInv, TypeOK
  <2> QED
    BY <2>1, EditStep DEF Only, HasRead, Populating
<1>5. CASE ScanShortRow(t)
  BY <1>5, CrashRefines, UnwindRefines DEF ScanShortRow
<1>6. CASE ScanEnd(t)
  <2>1. /\ Only(t) /\ AtEOF(t) /\ pc[t] = "scan" /\ pc'[t] = "publish"
        /\ UNCHANGED <<content, cur, fd, map, activePtr>>
    BY <1>6 DEF ScanEnd, Only, IInv, TypeOK, fileVars, scanVars
  <2>2. HasRead(t)'
    BY <2>1 DEF HasRead
  <2> QED
    BY <2>1, <2>2, ReadRefines
<1>7. CASE Publish(t)
  <2>1. /\ Only(t) /\ pc[t] = "publish" /\ pc'[t] \in {"serve", "idle", "done"}
        /\ activePtr' = map[t] /\ map[t] \in Registry
        /\ UNCHANGED <<content, cur>>
    BY <1>7 DEF Publish, DropLocals, PcAfterPopulate, Only, IInv, TypeOK, fileVars
  <2>2. got[t] = map[t] /\ got[t] # Nil
    BY <2>1 DEF got, HasRead
  <2> QED
    BY <2>1, <2>2, OneMoves, ValueSame DEF R!Next, R!Publish, R!Close, HasRead
<1>8. CASE EmptyLog(t)
  <2>1. /\ Only(t) /\ pc[t] = "reset"
        /\ pc'[t] = IF done[t] = 0 THEN "publish" ELSE "scan"
        /\ UNCHANGED <<fd, done, map, activePtr>>
    BY <1>8 DEF EmptyLog, Only, IInv, TypeOK, scanVars
  <2>2. HasRead(t)' = HasRead(t)
    BY <2>1 DEF HasRead
  <2> QED
    BY <2>1, <2>2, EditStep DEF Only, Populating
<1> QED
  BY <1>1, <1>2, <1>3, <1>4, <1>5, <1>6, <1>7, <1>8 DEF PopulateStep

\* The rest is for AtomicRegistry a change of files or nothing.
LEMMA PostRefines ==
    ASSUME IInv, NEW p \in Posts,
           PostGather(p) \/ PostStep(p) \/ FailAppend(p) \/ FailWrite(p)
    PROVE  R!Next
<1>1. CASE OpenAppend(p)
  <2>1. /\ Only(p) /\ pc[p] = "append" /\ pc'[p] = "write"
        /\ UNCHANGED activePtr
    BY <1>1 DEF OpenAppend, PostGoes, Only, IInv, TypeOK
  <2> QED
    BY <2>1, EditStep DEF Only, Populating
<1>2. CASE ~OpenAppend(p)
  <2>1. /\ Only(p) /\ UNCHANGED activePtr
        /\ pc[p] \in {"new", "decode", "add", "append", "write"}
        /\ pc'[p] \in {"decode", "done", "add", "append", "open"}
    BY <1>2 DEF PostGather, PostStep, PostReject, PostAccept, AddItem, WriteRow,
       FailAppend, FailWrite, PostGoes, Only, IInv, TypeOK, scanVars
  <2> QED
    BY <2>1, EditStep DEF Only, Populating
<1> QED
  BY <1>1, <1>2

LEMMA RestRefines ==
    ASSUME IInv,
           \/ Start \/ Operator \/ TakeEvent \/ UNCHANGED vars
           \/ \E c \in Callbacks : \/ LookupMachine(c)
                                  \/ CallbackStep(c)
                                  \/ (FailEntries(c) /\ ~Crash)
    PROVE  R!Next
<1>1. CASE Start \/ TakeEvent
  <2>1. /\ UNCHANGED <<fd, done, map, activePtr>>
        /\ \A t \in Populators :
            \/ pc'[t] = pc[t]
            \/ pc[t] \in {"off", "idle"} /\ pc'[t] \in {"open", "idle"}
    BY <1>1 DEF Start, Running, TakeEvent, IInv, ScanInv, TypeOK, scanVars
  <2> QED
    BY <2>1, EditStep DEF Populating
<1>2. CASE Operator \/ UNCHANGED vars
  BY <1>2, EditStep DEF Operator, OperatorSaves, OperatorRemoves,
     OperatorAppends, vars, scanVars
<1>3. ASSUME NEW c \in Callbacks,
             LookupMachine(c) \/ CallbackStep(c) \/ (FailEntries(c) /\ ~Crash)
      PROVE  R!Next
  <2>1. /\ UNCHANGED <<fd, done, map, activePtr>>
        /\ \A t \in Populators : pc'[t] = pc[t]
    <3>1. pc \in [Threads -> PopulatorPc \union CallbackPc] /\ c \notin Populators
      BY DEF IInv, TypeOK
    <3>2. CASE LookupMachine(c)
      BY <3>1, <3>2 DEF LookupMachine, scanVars
    <3>3. CASE CallbackStep(c)
      BY <3>1, <3>3 DEF CallbackStep, LogMachine, MarkMachine, WriteEntries,
         CallbackDone, scanVars
    <3>4. CASE FailEntries(c) /\ ~Crash
      BY <3>1, <3>4 DEF FailEntries, CallbackDone, scanVars
    <3> QED
      BY <1>3, <3>2, <3>3, <3>4
  <2> QED
    BY <2>1, EditStep
<1> QED
  BY <1>1, <1>2, <1>3

LEMMA FaultRefines ==
    ASSUME IInv, Fault
    PROVE  R!Next
<1>1. ASSUME NEW t \in Populators, FailRow(t) PROVE R!Next
  BY <1>1, CrashRefines, UnwindRefines DEF FailRow
<1> QED
  BY <1>1, CrashRefines, PostRefines, RestRefines DEF Fault

\* Populate is an atomic read of the file it opened, followed by one
\* assignment of the registry, for any number of concurrent requests, files
\* and machines.
THEOREM RegistryRefinement == Spec => PopulateIsAtomic
<1>1. Init => R!Init
  BY DEF Init, R!Init, handle, got, HasRead, Populating
<1>2. IInv /\ [Next]_vars => [R!Next]_R!vars
  BY PopulateRefines, PostRefines, RestRefines, FaultRefines, CrashRefines
     DEF Next, WorkerNext, MapRace, Kill
<1> QED
  BY <1>1, <1>2, Invariance, PTL DEF Spec, PopulateIsAtomic, R!Spec

=============================================================================
