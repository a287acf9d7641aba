---------------------------- MODULE FileDataSafety ----------------------------
(***************************************************************************)
(* Two safety properties of FileData, proved from the invariant of         *)
(* FileDataProofs: what is published stands for a version of the file, and *)
(* a machine the inventory calls installed boots from its disk.            *)
(***************************************************************************)
EXTENDS FileDataProofs

USE NoIPAssumption, NilAssumption, HeaderAssumption, ThreadsAssumption,
    ContentsAssumption, BoundsAssumption
    DEF Inode, Populators, Threads, faultVars

\* A step that opens, extends or replaces files.
LEMMA AppendGrows ==
    ASSUME IInv, [Next]_vars
    PROVE  Grow
<1> USE DEF IInv
<1>1. CASE UNCHANGED <<content, saved>>
  BY <1>1, GrowUnchanged
<1>2. CASE \E lines \in Seq(Line) : PutFile(lines)
  BY <1>2, GrowPutFile
<1>3. CASE \E i \in 1..used, line \in Line : AppendLine(i, line)
  BY <1>3, GrowAppendLine
<1>4. CASE Operator
  <2>1. CASE OperatorSaves
    BY <1>2, <2>1 DEF OperatorSaves
  <2>2. CASE OperatorRemoves
    BY <1>1, <2>2 DEF OperatorRemoves
  <2>3. CASE OperatorAppends
    BY <1>3, <2>3 DEF OperatorAppends, TypeOK, Line
  <2> QED
    BY <1>4, <2>1, <2>2, <2>3 DEF Operator
<1>5. ASSUME NEW p \in Posts, OpenAppend(p) PROVE Grow
  <2>1. << >> \in Seq(Line)
    OBVIOUS
  <2> QED
    BY <1>1, <1>2, <1>5, <2>1 DEF OpenAppend, fileVars
<1>6. ASSUME NEW p \in Posts, WriteRow(p) PROVE Grow
  <2>1. fd[p] \in 1..used /\ payload[p] \in Line
    BY <1>6 DEF ScanInv, PostInv, WriteRow, TypeOK, Line
  <2> QED
    BY <1>3, <1>6, <2>1 DEF WriteRow
<1>7. CASE Crash
  BY <1>1, <1>7 DEF Crash, fileVars
<1>8. CASE Start \/ TakeEvent \/ UNCHANGED vars
  BY <1>1, <1>8 DEF Start, TakeEvent, vars, fileVars
<1>9. ASSUME NEW t \in Populators, PopulateStep(t) PROVE Grow
  BY <1>1, <1>7, <1>9 DEF PopulateStep, OpenFile, SkipHeader, EmptyLog, ScanRow,
     StoreRow, ScanShortRow, ScanEnd, Publish, fileVars
<1>10. ASSUME NEW p \in Posts, PostGather(p) \/ PostStep(p) PROVE Grow
  BY <1>1, <1>5, <1>6, <1>10 DEF PostGather, PostStep, PostReject, PostAccept,
     AddItem, fileVars
<1>11. ASSUME NEW c \in Callbacks, LookupMachine(c) \/ CallbackStep(c) PROVE Grow
  BY <1>1, <1>11 DEF LookupMachine, CallbackStep, LogMachine, MarkMachine,
     WriteEntries, fileVars
<1>12. CASE Fault
  BY <1>1, <1>7, <1>12 DEF Fault, FailRow, FailAppend, FailWrite, FailEntries,
     fileVars
<1> QED
  BY <1>4, <1>7, <1>8, <1>9, <1>10, <1>11, <1>12 DEF Next, WorkerNext, MapRace, Kill

\* Only Publish and the end of the process change what is published.
LEMMA OnlyPublish ==
    ASSUME [Next]_vars
    PROVE  \/ Crash
           \/ \E t \in Populators : Publish(t)
           \/ UNCHANGED <<activePtr, source>>
<1>1. ASSUME NEW t \in Populators, PopulateStep(t), ~Crash, ~Publish(t)
      PROVE  UNCHANGED <<activePtr, source>>
  BY <1>1 DEF PopulateStep, OpenFile, SkipHeader, EmptyLog, ScanRow, StoreRow,
     ScanShortRow, ScanEnd, historyVars
<1>2. ASSUME NEW p \in Posts, PostGather(p) \/ PostStep(p)
      PROVE  UNCHANGED <<activePtr, source>>
  BY <1>2 DEF PostGather, PostStep, PostReject, PostAccept, AddItem, OpenAppend,
     WriteRow, historyVars
<1>3. ASSUME NEW c \in Callbacks, LookupMachine(c) \/ CallbackStep(c)
      PROVE  UNCHANGED <<activePtr, source>>
  BY <1>3 DEF LookupMachine, CallbackStep, LogMachine, MarkMachine, WriteEntries,
     historyVars
<1>4. CASE Start \/ Operator \/ TakeEvent \/ UNCHANGED vars
  BY <1>4 DEF Start, Operator, OperatorSaves, OperatorRemoves, OperatorAppends,
     TakeEvent, vars, historyVars
<1>5. CASE Fault /\ ~Crash
  BY <1>5 DEF Fault, FailRow, FailAppend, FailWrite, FailEntries, historyVars
<1> QED
  BY <1>1, <1>2, <1>3, <1>4, <1>5 DEF Next, WorkerNext, MapRace, Kill

\* The published registry goes on standing for the version it was read from
\* while the files grow.
LEMMA RegistryFrame ==
    ASSUME IInv, IInv', Grow, RegistryFromFile, UNCHANGED <<activePtr, source>>
    PROVE  RegistryFromFile'
<1> USE DEF IInv
<1> SUFFICES ASSUME activePtr # Nil PROVE RegistryFromFile'
  BY DEF RegistryFromFile
<1> DEFINE i == source.inode
           n == source.lines
<1>1. i \in 0..used /\ n \in Nat /\ i' = i /\ n' = n
  BY DEF TypeOK
<1>2. /\ i # 0 => Version(i, n)
      /\ StandsFor(Lines(i), n, activePtr)
  BY DEF RegistryFromFile
<1>3. CASE i = 0
  <2>1. Lines(i)' = Lines(i)
    BY <1>1, <1>3 DEF Lines
  <2> QED
    BY <1>1, <1>2, <1>3, <2>1 DEF RegistryFromFile, StandsFor, RowsOf
<1>4. CASE i # 0
  <2>1. /\ i \in Inode
        /\ content[i] \in Seq(Line) /\ content'[i] \in Seq(Line)
        /\ saved[i] \in Nat
    <3>1. i \in Inode
      <4>1. used \in 0..MaxInode
        BY DEF TypeOK
      <4> HIDE DEF i
      <4> QED
        BY <1>1, <1>4, <4>1
    <3>2. /\ content \in [Inode -> Seq(Line)] /\ content' \in [Inode -> Seq(Line)]
          /\ saved \in [Inode -> Nat]
      BY DEF TypeOK
    <3> QED
      BY <3>1, <3>2
  <2>2. Extends(content[i], content'[i]) /\ saved'[i] = saved[i]
    BY <1>1, <1>4 DEF Grow
  <2>3. n \in saved[i]..Len(content[i]) /\ WellFormed(content[i], n)
    BY <1>2, <1>4 DEF Version
  <2>4. StandsFor(content[i], n, activePtr)
    BY <1>2, <1>4 DEF Lines
  <2>5. StandsFor(content'[i], n, activePtr) /\ WellFormed(content'[i], n)
    BY <1>1, <2>1, <2>2, <2>3, <2>4, StandsForExtends
  <2>6. n \in saved'[i]..Len(content'[i])
    BY <2>1, <2>2, <2>3 DEF Extends
  <2>7. Version(i, n)'
    BY <1>1, <2>5, <2>6 DEF Version, WellFormed
  <2>8. StandsFor(Lines(i), n, activePtr)'
    BY <1>1, <1>4, <2>5 DEF Lines, StandsFor, RowsOf
  <2> QED
    BY <2>7, <2>8 DEF RegistryFromFile
<1> QED
  BY <1>3, <1>4

\* What Publish publishes is a whole version: the end of the file was reached.
LEMMA RegistryPublish ==
    ASSUME IInv, NEW t \in Populators, Publish(t)
    PROVE  RegistryFromFile'
<1> USE DEF IInv
<1> DEFINE i == fd[t]
           n == done[t]
<1>1. /\ activePtr' = map[t]
      /\ source' = [inode |-> i, lines |-> n]
      /\ UNCHANGED <<content, saved>>
  BY DEF Publish, fileVars
<1>2. /\ i \in 0..used /\ n \in Nat
      /\ n <= Len(Lines(i))
      /\ WellFormed(Lines(i), n)
      /\ StandsFor(Lines(i), n, map[t])
      /\ i # 0 => saved[i] <= n
  BY DEF Publish, ScanInv, PopulateInv, TypeOK
<1>3. source'.inode = i /\ source'.lines = n
  BY <1>1
<1>5. StandsFor(Lines(source.inode), source.lines, activePtr)'
  BY <1>1, <1>2, <1>3 DEF StandsFor, RowsOf, Lines
<1>6. source'.inode # 0 => Version(source.inode, source.lines)'
  BY <1>1, <1>2, <1>3 DEF Version, Lines, TypeOK, WellFormed
<1> QED
  BY <1>5, <1>6 DEF RegistryFromFile

\* Whatever is saved, appended, removed, killed or run in parallel, the registry
\* that answers DHCP and HTTP stands for one whole version of the file.
THEOREM RegistryIsAVersion == Spec => []RegistryFromFile
<1>1. Init => RegistryFromFile
  BY DEF Init, RegistryFromFile
<1>2. IInv /\ IInv' /\ RegistryFromFile /\ [Next]_vars => RegistryFromFile'
  <2> SUFFICES ASSUME IInv, IInv', RegistryFromFile, [Next]_vars
               PROVE  RegistryFromFile'
    OBVIOUS
  <2>1. CASE Crash
    BY <2>1 DEF Crash, RegistryFromFile
  <2>2. CASE \E t \in Populators : Publish(t)
    BY <2>2, RegistryPublish
  <2>3. CASE UNCHANGED <<activePtr, source>>
    BY <2>3, AppendGrows, RegistryFrame
  <2> QED
    BY <2>1, <2>2, <2>3, OnlyPublish
<1> QED
  BY <1>1, <1>2, Invariance, PTL DEF Spec

-----------------------------------------------------------------------------
(* InstalledBootsLocal.                                                    *)

\* Files only grow, so a row stays the same while it is in the hands of a
\* goroutine that stands still.
LEMMA HandFrame ==
    ASSUME IInv, IInv', Grow, NEW m \in Mac, EntryInHand(m),
           \A u \in Populators : pc[u] = "store" /\ NextLine(u).mac = m =>
                pc'[u] = pc[u] /\ fd'[u] = fd[u] /\ done'[u] = done[u],
           \A c \in Callbacks : pc[c] = "entries" /\ target[c] = m =>
                pc'[c] = pc[c] /\ target'[c] = target[c]
    PROVE  EntryInHand(m)'
<1> USE DEF IInv
<1>1. ASSUME NEW u \in Populators, pc[u] = "store", NextLine(u).mac = m
      PROVE  EntryInHand(m)'
  <2>1. pc'[u] = "store" /\ fd'[u] = fd[u] /\ done'[u] = done[u]
    BY <1>1
  <2>2. fd[u] \in 0..used /\ done[u] \in Nat /\ Lines(fd[u]) \in Seq(Line)
    BY LinesType DEF TypeOK
  <2>3. done[u] < Len(Lines(fd[u]))
    BY <1>1, <2>2 DEF ScanInv, PopulateInv, AtEOF
  <2>4. fd[u] \in 1..used
    BY <2>2, <2>3 DEF Lines
  <2>5. NextLine(u)' = NextLine(u)
    <3>1. Extends(content[fd[u]], content'[fd[u]])
      BY <2>4 DEF Grow
    <3>2. done[u] + 1 \in 1..Len(content[fd[u]])
      BY <2>2, <2>3, <2>4 DEF Lines
    <3>3. content'[fd[u]][done[u] + 1] = content[fd[u]][done[u] + 1]
      BY <3>1, <3>2 DEF Extends
    <3> QED
      BY <2>1, <2>4, <3>3 DEF NextLine, Lines
  <2> QED
    BY <1>1, <2>1, <2>5 DEF EntryInHand
<1>2. ASSUME NEW c \in Callbacks, pc[c] = "entries", target[c] = m
      PROVE  EntryInHand(m)'
  BY <1>2 DEF EntryInHand
<1> QED
  BY <1>1, <1>2 DEF EntryInHand

\* What InstalledBootsLocal asks of an installed machine.
Kept(m) == EntryInHand(m) \/ efiEntry[m] \in {"local", "torn"} \/ m \in spoilt

\* A step that leaves the inventory and every goroutine with an entry in its
\* hands alone.
LEMMA InstalledFrame ==
    ASSUME IInv, IInv', Grow, InstalledBootsLocal,
           UNCHANGED <<machines, efiEntry, spoilt>>,
           \A u \in Populators : pc[u] = "store" =>
                pc'[u] = pc[u] /\ fd'[u] = fd[u] /\ done'[u] = done[u],
           \A c \in Callbacks : pc[c] = "entries" =>
                pc'[c] = pc[c] /\ target'[c] = target[c]
    PROVE  InstalledBootsLocal'
BY HandFrame DEF InstalledBootsLocal

LEMMA InstalledScanRow ==
    ASSUME IInv, IInv', Grow, InstalledBootsLocal,
           NEW t \in Populators, ScanRow(t)
    PROVE  InstalledBootsLocal'
<1> USE DEF IInv
<1>1. /\ UNCHANGED <<machines, target>>
      /\ efiEntry' = [efiEntry EXCEPT ![NextLine(t).mac] = RenderEfi(FALSE)]
      /\ spoilt' = spoilt \ {NextLine(t).mac}
      /\ pc[t] = "scan" /\ pc'[t] = "store" /\ Only(t)
      /\ NextLine(t)' = NextLine(t)
  BY DEF ScanRow, GenPXEEntries, callbackVars, scanVars, fileVars, Only, TypeOK,
         NextLine, Lines
<1> SUFFICES ASSUME NEW m \in Mac, machines'[m] = "installed" PROVE Kept(m)'
  BY DEF InstalledBootsLocal, Kept
<1>2. Kept(m)
  BY <1>1 DEF InstalledBootsLocal, Kept
<1>3. CASE NextLine(t).mac = m
  BY <1>1, <1>3 DEF Kept, EntryInHand
<1>4. CASE NextLine(t).mac # m
  <2>1. efiEntry'[m] = efiEntry[m] /\ (m \in spoilt => m \in spoilt')
    BY <1>1, <1>4 DEF TypeOK, InventoryTypeOK
  <2>2. EntryInHand(m) => EntryInHand(m)'
    BY <1>1, HandFrame DEF Only
  <2> QED
    BY <1>2, <2>1, <2>2 DEF Kept
<1> QED
  BY <1>3, <1>4

LEMMA InstalledStoreRow ==
    ASSUME IInv, IInv', Grow, InstalledBootsLocal,
           NEW t \in Populators, StoreRow(t)
    PROVE  InstalledBootsLocal'
<1> USE DEF IInv
<1>1. /\ UNCHANGED <<efiEntry, target, spoilt>>
      /\ machines' = [machines EXCEPT ![NextLine(t).mac] = "pending"]
      /\ pc[t] = "store" /\ Only(t)
  BY DEF StoreRow, StoreMachine, Only, TypeOK, historyVars
<1> SUFFICES ASSUME NEW m \in Mac, machines'[m] = "installed" PROVE Kept(m)'
  BY DEF InstalledBootsLocal, Kept
<1>2. NextLine(t).mac # m /\ machines[m] = "installed"
  BY <1>1 DEF TypeOK, InventoryTypeOK
<1>3. Kept(m)
  BY <1>2 DEF InstalledBootsLocal, Kept
<1>4. EntryInHand(m) => EntryInHand(m)'
  BY <1>1, <1>2, HandFrame DEF Only
<1> QED
  BY <1>1, <1>3, <1>4 DEF Kept

LEMMA InstalledMarkMachine ==
    ASSUME IInv, IInv', Grow, InstalledBootsLocal,
           NEW c \in Callbacks, MarkMachine(c)
    PROVE  InstalledBootsLocal'
<1> USE DEF IInv
<1>1. /\ UNCHANGED <<efiEntry, target, spoilt>>
      /\ MarkInstalled(target[c], c \in live)
      /\ pc[c] = "mark" /\ pc'[c] = "entries" /\ Only(c)
  BY DEF MarkMachine, callbackVars, scanVars, historyVars, Only, TypeOK
<1> SUFFICES ASSUME NEW m \in Mac, machines'[m] = "installed" PROVE Kept(m)'
  BY DEF InstalledBootsLocal, Kept
<1>2. CASE m = target[c]
  BY <1>1, <1>2 DEF Kept, EntryInHand
<1>3. CASE m # target[c]
  <2>1. machines[m] = "installed"
    BY <1>1, <1>3 DEF MarkInstalled, TypeOK, InventoryTypeOK
  <2>2. Kept(m)
    BY <2>1 DEF InstalledBootsLocal, Kept
  <2>3. EntryInHand(m) => EntryInHand(m)'
    BY <1>1, HandFrame DEF Only
  <2> QED
    BY <1>1, <2>2, <2>3 DEF Kept
<1> QED
  BY <1>2, <1>3

\* A callback that wrote the entry, or could not: of its own machine it leaves
\* the new text, a torn one, or the old one on record as spoilt.
LEMMA InstalledEntries ==
    ASSUME IInv, IInv', Grow, InstalledBootsLocal,
           NEW c \in Callbacks, WriteEntries(c) \/ (FailEntries(c) /\ ~Crash)
    PROVE  InstalledBootsLocal'
<1> USE DEF IInv
<1>1. /\ UNCHANGED machines
      /\ pc[c] = "entries" /\ Only(c)
      /\ \A d \in Callbacks \ {c} : target'[d] = target[d]
  BY DEF WriteEntries, FailEntries, CallbackDone, scanVars, Only, TypeOK
<1>2. /\ target[c] \in Mac
      /\ \A m \in Mac \ {target[c]} :
            efiEntry'[m] = efiEntry[m] /\ (m \in spoilt => m \in spoilt')
      /\ efiEntry'[target[c]] \in {"local", "torn"} \/ target[c] \in spoilt'
  <2>1. target[c] \in Mac
    BY <1>1 DEF ScanInv, CallbackInv
  <2>2. efiEntry \in [Mac -> Entry]
    BY DEF TypeOK, InventoryTypeOK
  <2>3. CASE WriteEntries(c)
    BY <2>1, <2>2, <2>3 DEF WriteEntries, GenPXEEntries, RenderEfi
  <2>4. CASE FailEntries(c) /\ ~Crash
    BY <2>1, <2>2, <2>4 DEF FailEntries, PartEntries
  <2> QED
    BY <2>1, <2>3, <2>4
<1> SUFFICES ASSUME NEW m \in Mac, machines'[m] = "installed" PROVE Kept(m)'
  BY DEF InstalledBootsLocal, Kept
<1>3. CASE m = target[c]
  BY <1>2, <1>3 DEF Kept
<1>4. CASE m # target[c]
  <2>1. Kept(m)
    BY <1>1 DEF InstalledBootsLocal, Kept
  <2>2. EntryInHand(m) => EntryInHand(m)'
    BY <1>1, <1>4, HandFrame DEF Only
  <2> QED
    BY <1>2, <1>4, <2>1, <2>2 DEF Kept
<1> QED
  BY <1>3, <1>4

\* A handler's Populate that could not write an entry leaves it as it was, or
\* torn.
LEMMA InstalledFailRow ==
    ASSUME IInv, IInv', Grow, InstalledBootsLocal,
           NEW t \in Populators, FailRow(t), ~Crash
    PROVE  InstalledBootsLocal'
<1> USE DEF IInv
<1>1. /\ UNCHANGED <<machines, target, spoilt>>
      /\ pc[t] = "scan" /\ Only(t)
  BY DEF FailRow, DropLocals, callbackVars, Only, TypeOK
<1>2. \A m \in Mac : efiEntry'[m] \in {efiEntry[m], "torn"}
  BY DEF FailRow, PartEntries, TypeOK, InventoryTypeOK
<1> SUFFICES ASSUME NEW m \in Mac, machines'[m] = "installed" PROVE Kept(m)'
  BY DEF InstalledBootsLocal, Kept
<1>3. Kept(m)
  BY <1>1 DEF InstalledBootsLocal, Kept
<1>4. EntryInHand(m) => EntryInHand(m)'
  BY <1>1, HandFrame DEF Only
<1> QED
  BY <1>1, <1>2, <1>3, <1>4 DEF Kept

\* A step after which no machine is installed.
LEMMA InstalledReset ==
    ASSUME machines' = NoMachines
    PROVE  InstalledBootsLocal'
BY DEF InstalledBootsLocal, NoMachines

\* Every machine the inventory calls installed boots from its disk once nobody
\* is rewriting its entry, unless writing it failed.
THEOREM InstalledMachinesBootLocal == Spec => []InstalledBootsLocal
<1>1. Init => InstalledBootsLocal
  BY DEF Init, InventoryInit, NoMachines, InstalledBootsLocal
<1>2. IInv /\ IInv' /\ InstalledBootsLocal /\ [Next]_vars => InstalledBootsLocal'
  <2> SUFFICES ASSUME IInv, IInv', InstalledBootsLocal, [Next]_vars
               PROVE  InstalledBootsLocal'
    OBVIOUS
  <2> USE DEF IInv
  <2>1. Grow
    BY AppendGrows
  <2>2. CASE Crash
    BY <2>2, InstalledReset DEF Crash, ResetMachines
  <2>3. ASSUME NEW t \in Populators, PopulateStep(t), ~Crash
        PROVE  InstalledBootsLocal'
    <3>1. CASE OpenFile(t) \/ EmptyLog(t) \/ ScanShortRow(t) \/ ScanEnd(t)
                 \/ Publish(t)
      <4>1. /\ Only(t) /\ pc[t] \notin {"store", "entries"}
            /\ UNCHANGED <<machines, efiEntry, target, spoilt>>
        <5>1. CASE OpenFile(t)
          BY <5>1 DEF OpenFile, Only, TypeOK, callbackVars, inventoryVars
        <5>2. CASE EmptyLog(t)
          BY <5>2 DEF EmptyLog, Only, TypeOK, scanVars, callbackVars, historyVars
        <5>3. CASE ScanShortRow(t)
          BY <2>3, <5>3 DEF ScanShortRow, DropLocals, Only, TypeOK, callbackVars,
             inventoryVars
        <5>4. CASE ScanEnd(t)
          BY <5>4 DEF ScanEnd, Only, TypeOK, scanVars, callbackVars, historyVars,
             inventoryVars
        <5>5. CASE Publish(t)
          BY <5>5 DEF Publish, DropLocals, Only, TypeOK, callbackVars, inventoryVars
        <5> QED
          BY <3>1, <5>1, <5>2, <5>3, <5>4, <5>5
      <4> QED
        BY <2>1, <4>1, InstalledFrame DEF Only
    <3>2. CASE SkipHeader(t)
      BY <3>2, InstalledReset DEF SkipHeader, ResetMachines
    <3> QED
      BY <2>1, <2>3, <3>1, <3>2, InstalledScanRow, InstalledStoreRow DEF PopulateStep
  <2>4. ASSUME NEW p \in Posts,
               PostGather(p) \/ PostStep(p) \/ FailAppend(p) \/ FailWrite(p)
        PROVE  InstalledBootsLocal'
    <3>1. /\ Only(p) /\ pc[p] \notin {"store", "entries"}
          /\ UNCHANGED <<machines, efiEntry, target, spoilt>>
      <4>1. CASE OpenAppend(p)
        BY <4>1 DEF OpenAppend, PostGoes, Only, TypeOK, callbackVars, historyVars,
           inventoryVars
      <4>2. CASE WriteRow(p)
        BY <4>2 DEF WriteRow, PostGoes, Only, TypeOK, scanVars, callbackVars,
           historyVars, inventoryVars
      <4>3. CASE PostGather(p) \/ PostReject(p) \/ PostAccept(p) \/ AddItem(p)
        BY <4>3 DEF PostGather, PostReject, PostAccept, AddItem, PostGoes, Only,
           TypeOK, scanVars, callbackVars, historyVars, inventoryVars
      <4>4. CASE FailAppend(p) \/ FailWrite(p)
        BY <4>4 DEF FailAppend, FailWrite, PostGoes, Only, TypeOK, scanVars,
           callbackVars, historyVars, inventoryVars
      <4> QED
        BY <2>4, <4>1, <4>2, <4>3, <4>4 DEF PostStep
    <3> QED
      BY <2>1, <3>1, InstalledFrame DEF Only
  <2>5. ASSUME NEW c \in Callbacks, LookupMachine(c) \/ LogMachine(c)
        PROVE  InstalledBootsLocal'
    <3>1. /\ Only(c) /\ pc[c] \notin {"store", "entries"}
          /\ UNCHANGED <<machines, efiEntry, spoilt>>
          /\ \A d \in Callbacks \ {c} : target'[d] = target[d]
      <4>1. /\ UNCHANGED <<fd, done, map, machines, efiEntry, spoilt>>
            /\ pc[c] \in {"new", "log"}
        BY <2>5 DEF LookupMachine, LogMachine, scanVars, historyVars, inventoryVars
      <4>2. \A d \in Threads \ {c} : pc'[d] = pc[d]
        <5>1. pc \in [Threads -> PopulatorPc \union CallbackPc]
          BY DEF TypeOK
        <5> QED
          BY <2>5, <5>1 DEF LookupMachine, LogMachine
      <4>3. \A d \in Callbacks \ {c} : target'[d] = target[d]
        <5>1. target \in [Callbacks -> Mac \union {Nil}]
          BY DEF TypeOK
        <5> QED
          BY <2>5, <5>1 DEF LookupMachine, LogMachine, callbackVars
      <4> QED
        BY <4>1, <4>2, <4>3 DEF Only
    <3> QED
      BY <2>1, <3>1, InstalledFrame DEF Only
  <2>6. ASSUME NEW c \in Callbacks, MarkMachine(c) \/ WriteEntries(c)
        PROVE  InstalledBootsLocal'
    BY <2>1, <2>6, InstalledMarkMachine, InstalledEntries
  <2>7. CASE Start \/ TakeEvent \/ Operator \/ UNCHANGED vars
    <3>1. /\ UNCHANGED <<machines, efiEntry, fd, done, target, spoilt>>
          /\ \A u \in Threads : pc[u] \in {"store", "entries"} => pc'[u] = pc[u]
      BY <2>7 DEF Start, Running, TakeEvent, Operator, OperatorSaves,
         OperatorRemoves, OperatorAppends, vars, ScanInv, TypeOK, scanVars,
         callbackVars, historyVars, inventoryVars
    <3> QED
      BY <2>1, <3>1, InstalledFrame
  <2>8. CASE Fault /\ ~Crash
    BY <2>1, <2>4, <2>8, InstalledFailRow, InstalledEntries DEF Fault
  <2> QED
    BY <2>2, <2>3, <2>4, <2>5, <2>6, <2>7, <2>8
       DEF Next, WorkerNext, MapRace, Kill, CallbackStep
<1> QED
  BY <1>1, <1>2, Invariance, PTL DEF Spec

=============================================================================
