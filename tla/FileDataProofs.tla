---------------------------- MODULE FileDataProofs ----------------------------
(***************************************************************************)
(* Proofs about FileData, for every set of machines, addresses, requests   *)
(* and saved files, and whatever the bounds.                               *)
(***************************************************************************)
EXTENDS FileData, SequenceTheorems, TLAPS

-----------------------------------------------------------------------------
(* Files.                                                                  *)

\* d starts with all of c.
Extends(c, d) ==
    /\ Len(c) <= Len(d)
    /\ \A k \in 1..Len(c) : d[k] = c[k]

\* One more full row: its MAC gets its address, every other MAC keeps what it
\* has (m[currMAC] = currClient in the loop of Populate).
LEMMA StandsForNext ==
    ASSUME NEW lines \in Seq(Line), NEW n \in Nat \ {0}, n < Len(lines),
           lines[n + 1] \in FullRow,
           NEW registry \in Registry, StandsFor(lines, n, registry)
    PROVE  StandsFor(lines, n + 1,
                [registry EXCEPT ![lines[n + 1].mac] = lines[n + 1].ip])
<1> DEFINE row == lines[n + 1]
           next == [registry EXCEPT ![row.mac] = row.ip]
<1>1. row.mac \in Mac
  BY DEF FullRow
<1>2. ASSUME NEW m \in Mac
      PROVE  RowsOf(lines, n + 1, m) =
                RowsOf(lines, n, m) \union (IF row.mac = m THEN {n + 1} ELSE {})
  BY DEF RowsOf
<1>3. \A m \in Mac : RowsOf(lines, n, m) \subseteq 2..n
  BY DEF RowsOf
<1>4. SUFFICES ASSUME NEW m \in Mac
               PROVE  \/ next[m] = NoIP /\ RowsOf(lines, n + 1, m) = {}
                      \/ \E k \in RowsOf(lines, n + 1, m) :
                            /\ next[m] = lines[k].ip
                            /\ \A j \in RowsOf(lines, n + 1, m) : j <= k
  BY DEF StandsFor
<1>5. CASE row.mac = m
  <2>1. n + 1 \in RowsOf(lines, n + 1, m)
    BY <1>2, <1>5
  <2>2. \A j \in RowsOf(lines, n + 1, m) : j <= n + 1
    BY <1>2, <1>3, <1>5
  <2>3. next[m] = lines[n + 1].ip
    BY <1>5 DEF Registry
  <2> QED
    BY <2>1, <2>2, <2>3
<1>6. CASE row.mac # m
  <2>1. RowsOf(lines, n + 1, m) = RowsOf(lines, n, m)
    BY <1>2, <1>6
  <2>2. next[m] = registry[m]
    BY <1>1, <1>6 DEF Registry
  <2> QED
    BY <2>1, <2>2 DEF StandsFor
<1> QED
  BY <1>5, <1>6

\* What was read of a file stays true of it when lines are appended.
LEMMA StandsForExtends ==
    ASSUME NEW c \in Seq(Line), NEW d \in Seq(Line), Extends(c, d),
           NEW n \in Nat, n <= Len(c), NEW registry
    PROVE  /\ StandsFor(c, n, registry) => StandsFor(d, n, registry)
           /\ WellFormed(c, n) => WellFormed(d, n)
<1>1. \A k \in 2..n : d[k] = c[k]
  BY DEF Extends
<1>2. \A m \in Mac : RowsOf(d, n, m) = RowsOf(c, n, m)
  BY <1>1 DEF RowsOf
<1>3. \A m \in Mac : \A k \in RowsOf(c, n, m) : d[k] = c[k]
  BY <1>1 DEF RowsOf
<1>4. StandsFor(c, n, registry) => StandsFor(d, n, registry)
  BY <1>2, <1>3 DEF StandsFor
<1>5. WellFormed(c, n) => WellFormed(d, n)
  BY <1>1 DEF WellFormed
<1> QED
  BY <1>4, <1>5

-----------------------------------------------------------------------------
(* Types and what a Populate knows: the inductive invariant.               *)

IInv == TypeOK /\ ScanInv

USE NoIPAssumption, NilAssumption, HeaderAssumption, ThreadsAssumption,
    ContentsAssumption, BoundsAssumption
    DEF Inode, Populators, Threads, faultVars

\* Inodes only ever grow, and what was saved in one stays on record.
Grow ==
    \A i \in 1..used :
        /\ Extends(content[i], content'[i])
        /\ saved'[i] = saved[i]

LEMMA GrowUnchanged ==
    ASSUME TypeOK, UNCHANGED <<content, saved>>
    PROVE  Grow
BY DEF Grow, Extends, TypeOK

LEMMA GrowPutFile ==
    ASSUME TypeOK, NEW lines \in Seq(Line), PutFile(lines)
    PROVE  /\ Grow
           /\ content' \in [Inode -> Seq(Line)]
           /\ saved' \in [Inode -> Nat]
           /\ used' \in 0..MaxInode
           /\ used' > used
           /\ cur' \in 0..used'
           /\ (\A i \in Inode : saved[i] <= Len(content[i]))
                => \A i \in Inode : saved'[i] <= Len(content'[i])
<1>1. used + 1 \in Inode
  BY DEF TypeOK, PutFile
<1>2. Grow
  BY <1>1 DEF Grow, Extends, PutFile, TypeOK
<1> QED
  BY <1>1, <1>2 DEF PutFile, TypeOK

LEMMA GrowAppendLine ==
    ASSUME TypeOK, NEW i \in 1..used, NEW line \in Line, AppendLine(i, line)
    PROVE  /\ Grow
           /\ content' \in [Inode -> Seq(Line)]
           /\ (\A j \in Inode : saved[j] <= Len(content[j]))
                => \A j \in Inode : saved'[j] <= Len(content'[j])
<1>1. i \in Inode /\ content[i] \in Seq(Line)
  BY DEF TypeOK
<1>2. /\ Append(content[i], line) \in Seq(Line)
      /\ Len(Append(content[i], line)) = Len(content[i]) + 1
      /\ \A k \in 1..Len(content[i]) : Append(content[i], line)[k] = content[i][k]
  BY <1>1, AppendProperties
<1>3. content' = [content EXCEPT ![i] = Append(content[i], line)] /\ saved' = saved
  BY DEF AppendLine
<1>4. Grow
  <2>1. content \in [Inode -> Seq(Line)] /\ 1..used \subseteq Inode
    BY DEF TypeOK
  <2>2. Extends(content[i], content'[i])
    BY <1>1, <1>2, <1>3, <2>1 DEF Extends
  <2>3. \A j \in 1..used : j # i => Extends(content[j], content'[j])
    BY <1>3, <2>1 DEF Extends
  <2> QED
    BY <1>3, <2>2, <2>3 DEF Grow
<1>5. content' \in [Inode -> Seq(Line)]
  BY <1>1, <1>2, <1>3 DEF TypeOK
<1>6. ASSUME \A j \in Inode : saved[j] <= Len(content[j]), NEW j \in Inode
      PROVE  saved'[j] <= Len(content'[j])
  BY <1>1, <1>2, <1>3, <1>6 DEF TypeOK
<1> QED
  BY <1>4, <1>5, <1>6

LEMMA LinesType ==
    ASSUME TypeOK, NEW i \in 0..used
    PROVE  Lines(i) \in Seq(Line)
BY DEF Lines, TypeOK

\* What holds of a goroutine goes on holding while it stands still and the
\* files grow.
LEMMA PopulateInvFrame ==
    ASSUME TypeOK, TypeOK', Grow, NEW t \in Populators, PopulateInv(t),
           pc'[t] = pc[t], fd'[t] = fd[t], done'[t] = done[t], map'[t] = map[t]
    PROVE  PopulateInv(t)'
<1> DEFINE i == fd[t]
<1>1. i \in 0..used /\ done[t] \in Nat
  BY DEF TypeOK
<1>2. Lines(i) \in Seq(Line) /\ Lines(i)' \in Seq(Line)
  <2>0. used \in 0..MaxInode
    BY DEF TypeOK
  <2>1. i' = i /\ i \in 0..MaxInode
    BY <1>1, <2>0
  <2>2. content \in [Inode -> Seq(Line)] /\ content' \in [Inode -> Seq(Line)]
    BY DEF TypeOK
  <2>3. << >> \in Seq(Line)
    OBVIOUS
  <2> QED
    BY <2>1, <2>2, <2>3 DEF Lines
<1>3. Extends(Lines(i), Lines(i)')
  BY <1>1 DEF Grow, Extends, Lines
<1>4. i # 0 => saved'[i] = saved[i]
  BY <1>1 DEF Grow
<1>5. CASE pc[t] \notin {"reset", "scan", "store", "publish"}
  BY <1>5 DEF PopulateInv
<1>6. CASE pc[t] \in {"reset", "scan", "store", "publish"}
  <2>1. /\ done[t] <= Len(Lines(i))
        /\ WellFormed(Lines(i), done[t])
        /\ StandsFor(Lines(i), done[t], map[t])
    BY <1>6 DEF PopulateInv
  <2>2. /\ done[t] <= Len(Lines(i)')
        /\ WellFormed(Lines(i)', done[t])
        /\ StandsFor(Lines(i)', done[t], map[t])
    <3>1. done[t] <= Len(Lines(i)')
      BY <1>1, <1>2, <1>3, <2>1 DEF Extends
    <3>2. WellFormed(Lines(i)', done[t]) /\ StandsFor(Lines(i)', done[t], map[t])
      BY <1>1, <1>2, <1>3, <2>1, StandsForExtends
    <3> QED
      BY <3>1, <3>2
  <2>3. ASSUME pc[t] = "store"
        PROVE  ~AtEOF(t)' /\ NextLine(t)' \in FullRow
    <3>1. done[t] < Len(Lines(i)) /\ Lines(i)[done[t] + 1] \in FullRow
      BY <1>1, <1>2, <2>3 DEF PopulateInv, AtEOF, NextLine
    <3>2. done[t] < Len(Lines(i)') /\ Lines(i)'[done[t] + 1] = Lines(i)[done[t] + 1]
      <4> DEFINE n == done[t] + 1
      <4>1. Len(Lines(i)) \in Nat /\ Len(Lines(i)') \in Nat /\ done[t] \in Nat
        BY <1>1, <1>2
      <4>2. n \in 1..Len(Lines(i))
        BY <3>1, <4>1
      <4> HIDE DEF n
      <4>3. Len(Lines(i)) <= Len(Lines(i)') /\ Lines(i)'[n] = Lines(i)[n]
        BY <1>3, <4>2 DEF Extends
      <4> QED
        BY <3>1, <4>1, <4>3 DEF n
    <3> QED
      BY <1>1, <1>2, <3>1, <3>2 DEF AtEOF, NextLine
  <2>4. WellFormed(Lines(fd[t]), done[t])' /\ StandsFor(Lines(fd[t]), done[t], map[t])'
    BY <2>2 DEF WellFormed, StandsFor, RowsOf
  <2>5. (pc[t] \in {"scan", "store"} => done[t] >= 1)'
    BY DEF PopulateInv
  <2>6. (pc[t] = "publish" /\ fd[t] # 0 => saved[fd[t]] <= done[t])'
    BY <1>4 DEF PopulateInv
  <2>7. (/\ pc[t] = "reset" => done[t] <= 1 /\ map[t] = NoRegistry
         /\ pc[t] = "reset" /\ done[t] = 0 /\ fd[t] # 0 => saved[fd[t]] = 0)'
    BY <1>4 DEF PopulateInv
  <2> QED
    BY <1>6, <2>2, <2>3, <2>4, <2>5, <2>6, <2>7 DEF PopulateInv
<1> QED
  BY <1>5, <1>6

-----------------------------------------------------------------------------
(* Each action keeps the inductive invariant.                              *)

\* Only goroutine t moves; it touches no descriptor or map of another one.
Only(t) ==
    \A u \in Threads \ {t} :
        /\ pc'[u] = pc[u]
        /\ u \in Populators =>
            fd'[u] = fd[u] /\ done'[u] = done[u] /\ map'[u] = map[u]

LEMMA PopulateInvOnly ==
    ASSUME TypeOK, TypeOK', Grow, \A u \in Populators : PopulateInv(u),
           NEW t \in Threads, Only(t), t \in Populators => PopulateInv(t)'
    PROVE  \A u \in Populators : PopulateInv(u)'
<1> SUFFICES ASSUME NEW u \in Populators PROVE PopulateInv(u)'
  OBVIOUS
<1>1. CASE u = t
  BY <1>1
<1>2. CASE u # t
  BY <1>2, PopulateInvFrame DEF Only
<1> QED
  BY <1>1, <1>2

\* What a Populate that is not scanning has to satisfy.
LEMMA PopulateInvRest ==
    ASSUME NEW t \in Populators,
           pc'[t] \notin {"reset", "scan", "store", "publish"},
           done'[t] = 0, map'[t] = NoRegistry
    PROVE  PopulateInv(t)'
BY DEF PopulateInv

\* No line read yet, or only the header: nothing is known of any MAC.
LEMMA StandsForNothing ==
    ASSUME NEW lines, NEW n \in {0, 1}
    PROVE  StandsFor(lines, n, NoRegistry) /\ WellFormed(lines, n)
<1>1. 2..n = {}
  OBVIOUS
<1> QED
  BY <1>1 DEF StandsFor, WellFormed, RowsOf, NoRegistry

LEMMA InitIInv == Init => IInv
<1> SUFFICES ASSUME Init PROVE IInv
  OBVIOUS
<1>1. NoRegistry \in Registry
  BY DEF NoRegistry, Registry
<1>2. TypeOK
  <2>1. << >> \in Seq(Line)
    OBVIOUS
  <2>2. InventoryTypeOK
    BY DEF Init, InventoryInit, InventoryTypeOK, NoMachines, Status, Entry
  <2>3. pc \in [Threads -> PopulatorPc \union CallbackPc]
    BY DEF Init, PopulatorPc, CallbackPc
  <2>4. content \in [Inode -> Seq(Line)] /\ saved \in [Inode -> Nat]
    BY <2>1 DEF Init
  <2>5. used \in 0..MaxInode /\ cur \in 0..used /\ events \in 0..MaxEvents
    BY DEF Init
  <2>6. source \in [inode : 0..used, lines : Nat]
    BY DEF Init, NoSource
  <2>7. /\ fd \in [Populators -> 0..used]
        /\ done \in [Populators -> Nat]
        /\ map \in [Populators -> Registry]
    BY <1>1 DEF Init
  <2> QED
    BY <2>2, <2>3, <2>4, <2>5, <2>6, <2>7 DEF Init, TypeOK
<1>3. \A i \in Inode : saved[i] <= Len(content[i])
  BY DEF Init
<1>4. pc[Main] = "off" <=> pc[Watcher] = "off"
  BY DEF Init
<1>5. \A t \in Populators : PopulateInv(t)
  BY DEF Init, PopulateInv
<1>6. \A p \in Posts : PostInv(p)
  BY DEF Init, PostInv
<1>7. \A c \in Callbacks : CallbackInv(c)
  BY DEF Init, CallbackInv
<1> QED
  BY <1>2, <1>3, <1>4, <1>5, <1>6, <1>7 DEF IInv, ScanInv

LEMMA CrashIInv ==
    ASSUME IInv, Crash, efiEntry' \in [Mac -> Entry]
    PROVE  IInv'
<1>1. NoRegistry \in Registry
  BY DEF NoRegistry, Registry
<1>2. pc' \in [Threads -> PopulatorPc \union CallbackPc]
  BY DEF Crash, PcAfterCrash, PopulatorPc, CallbackPc
<1>3. TypeOK'
  <2>1. InventoryTypeOK'
    BY DEF IInv, TypeOK, Crash, ResetMachines, ResetLog, InventoryTypeOK,
           NoMachines, Status
  <2>2. source' \in [inode : 0..used', lines : Nat]
    BY DEF IInv, TypeOK, Crash, fileVars, NoSource
  <2>3. /\ fd' \in [Populators -> 0..used']
        /\ done' \in [Populators -> Nat]
        /\ map' \in [Populators -> Registry]
    BY <1>1 DEF IInv, TypeOK, Crash, fileVars
  <2>4. /\ content' \in [Inode -> Seq(Line)]
        /\ saved' \in [Inode -> Nat]
        /\ used' \in 0..MaxInode
        /\ cur' \in 0..used'
        /\ events' \in 0..MaxEvents
    BY DEF IInv, TypeOK, Crash, fileVars
  <2>5. /\ activePtr' \in Registry \union {Nil}
        /\ snap' \in [Posts -> Registry \union {Nil}]
        /\ payload' \in [Posts -> ShortRow \union {Nil}]
        /\ target' \in [Callbacks -> Mac \union {Nil}]
    BY DEF Crash
  <2>6. /\ live' \in SUBSET Callbacks
        /\ overlapped' \in SUBSET Populators
        /\ raced' \in BOOLEAN /\ failed' \in BOOLEAN /\ spoilt' \in SUBSET Mac
    BY DEF Crash
  <2>7. used' = used
    BY DEF Crash, fileVars
  <2> QED
    BY <1>2, <2>1, <2>2, <2>3, <2>4, <2>5, <2>6, <2>7 DEF TypeOK
<1>4. \A t \in Threads : pc'[t] \in {"off", "new", "done"}
  BY DEF Crash, PcAfterCrash
<1>5. \A t \in Populators : PopulateInv(t)'
  BY <1>4, PopulateInvRest DEF Crash
<1>6. (\A i \in Inode : saved[i] <= Len(content[i]))'
  BY DEF IInv, ScanInv, Crash, fileVars
<1>7. (pc[Main] = "off" <=> pc[Watcher] = "off")'
  BY DEF Crash, PcAfterCrash
<1>8. \A p \in Posts : PostInv(p)'
  BY <1>4 DEF PostInv
<1>9. \A c \in Callbacks : CallbackInv(c)'
  BY <1>4 DEF CallbackInv
<1> QED
  BY <1>3, <1>5, <1>6, <1>7, <1>8, <1>9 DEF IInv, ScanInv

LEMMA StartIInv == IInv /\ Start => IInv'
<1> SUFFICES ASSUME IInv, Start PROVE IInv'
  OBVIOUS
<1> USE DEF IInv
<1>1. TypeOK'
  BY DEF TypeOK, Start, PopulatorPc, CallbackPc, fileVars, scanVars, postVars,
         callbackVars, historyVars, inventoryVars, InventoryTypeOK
<1>2. Grow
  BY GrowUnchanged DEF Start, fileVars
<1>3. pc[Main] = "off" /\ pc[Watcher] = "off"
  BY DEF Start, Running, ScanInv
<1>4. \A t \in Populators : PopulateInv(t)'
  <2> SUFFICES ASSUME NEW t \in Populators PROVE PopulateInv(t)'
    OBVIOUS
  <2>1. done'[t] = done[t] /\ map'[t] = map[t] /\ fd'[t] = fd[t]
    BY DEF Start, scanVars
  <2>2. PopulateInv(t)
    BY DEF ScanInv
  <2>3. CASE t \in {Main, Watcher}
    <3>1. pc'[t] \in {"open", "idle"}
      BY <2>3 DEF Start, TypeOK
    <3> QED
      BY <1>3, <2>1, <2>2, <2>3, <3>1, PopulateInvRest DEF PopulateInv
  <2>4. CASE t \notin {Main, Watcher}
    BY <1>1, <1>2, <2>1, <2>2, <2>4, PopulateInvFrame DEF Start, TypeOK
  <2> QED
    BY <2>3, <2>4
<1>5. (\A i \in Inode : saved[i] <= Len(content[i]))'
  BY DEF ScanInv, Start, fileVars
<1>6. (pc[Main] = "off" <=> pc[Watcher] = "off")'
  BY DEF Start, TypeOK
<1>7. \A p \in Posts : PostInv(p)'
  BY DEF ScanInv, PostInv, Start, postVars, scanVars, TypeOK
<1>8. \A c \in Callbacks : CallbackInv(c)'
  BY DEF ScanInv, CallbackInv, Start, callbackVars, TypeOK
<1> QED
  BY <1>1, <1>4, <1>5, <1>6, <1>7, <1>8 DEF ScanInv

\* The parts of ScanInv a step of Populate does not touch.
LEMMA PopulateRest ==
    ASSUME TypeOK, ScanInv, NEW t \in Populators, Only(t),
           UNCHANGED <<content, saved, payload, target>>,
           pc[t] \notin {"off", "add", "append", "write"},
           pc'[t] \notin {"off", "add", "append", "write"}
    PROVE  /\ (\A i \in Inode : saved[i] <= Len(content[i]))'
           /\ (pc[Main] = "off" <=> pc[Watcher] = "off")'
           /\ \A p \in Posts : PostInv(p)'
           /\ \A c \in Callbacks : CallbackInv(c)'
<1>1. (\A i \in Inode : saved[i] <= Len(content[i]))'
  BY DEF ScanInv
<1>2. (pc[Main] = "off" <=> pc[Watcher] = "off")'
  BY DEF ScanInv, Only
<1>3. ASSUME NEW p \in Posts PROVE PostInv(p)'
  BY DEF ScanInv, PostInv, Only
<1>4. ASSUME NEW c \in Callbacks PROVE CallbackInv(c)'
  BY DEF ScanInv, CallbackInv, Only
<1> QED
  BY <1>1, <1>2, <1>3, <1>4

LEMMA OpenFileIInv ==
    ASSUME IInv, NEW t \in Populators, OpenFile(t)
    PROVE  IInv'
<1> USE DEF IInv
<1>1. TypeOK'
  <2>1. pc' \in [Threads -> PopulatorPc \union CallbackPc]
    BY DEF TypeOK, OpenFile, PopulatorPc
  <2>2. fd' \in [Populators -> 0..used]
    BY DEF TypeOK, OpenFile
  <2>3. overlapped' \in SUBSET Populators
    BY DEF TypeOK, OpenFile, Populating
  <2> QED
    BY <2>1, <2>2, <2>3 DEF TypeOK, OpenFile, fileVars, postVars, callbackVars,
       inventoryVars, InventoryTypeOK
<1>2. Grow
  BY GrowUnchanged DEF OpenFile, fileVars
<1>3. Only(t) /\ pc'[t] = "init"
  BY DEF Only, OpenFile, TypeOK
<1>4. PopulateInv(t)'
  BY <1>3, PopulateInvRest DEF OpenFile, ScanInv, PopulateInv
<1>5. \A u \in Populators : PopulateInv(u)'
  BY <1>1, <1>2, <1>3, <1>4, PopulateInvOnly DEF ScanInv
<1> QED
  BY <1>1, <1>3, <1>5, PopulateRest
     DEF ScanInv, OpenFile, fileVars, postVars, callbackVars

LEMMA SkipHeaderIInv ==
    ASSUME IInv, NEW t \in Populators, SkipHeader(t)
    PROVE  IInv'
<1> USE DEF IInv
<1>1. TypeOK'
  <2>1. pc' \in [Threads -> PopulatorPc \union CallbackPc]
    BY DEF TypeOK, SkipHeader, PopulatorPc
  <2>2. done' \in [Populators -> Nat]
    BY DEF TypeOK, SkipHeader
  <2>3. InventoryTypeOK'
    BY DEF TypeOK, SkipHeader, ResetMachines, InventoryTypeOK, NoMachines, Status
  <2> QED
    BY <2>1, <2>2, <2>3 DEF TypeOK, SkipHeader, fileVars, postVars
<1>2. Grow
  BY GrowUnchanged DEF SkipHeader, fileVars
<1>3. Only(t) /\ pc[t] = "init" /\ pc'[t] = "reset"
  BY DEF Only, SkipHeader, TypeOK
<1>4. done[t] = 0 /\ map[t] = NoRegistry /\ map'[t] = NoRegistry
  BY <1>3 DEF ScanInv, PopulateInv, SkipHeader
<1>5. Lines(fd[t])' = Lines(fd[t]) /\ Lines(fd[t]) \in Seq(Line)
  BY LinesType DEF SkipHeader, fileVars, Lines, TypeOK
<1>6. PopulateInv(t)'
  <2>1. CASE AtEOF(t)
    <3>1. done'[t] = 0
      BY <1>4, <2>1 DEF SkipHeader, TypeOK
    <3>2. fd[t] # 0 => saved[fd[t]] = 0
      <4>0. used \in 0..MaxInode /\ fd[t] \in 0..used /\ saved \in [Inode -> Nat]
        BY DEF TypeOK
      <4>1. fd[t] # 0 => fd[t] \in Inode /\ saved[fd[t]] \in Nat
        BY <4>0
      <4>2. \A i \in Inode : saved[i] <= Len(content[i])
        BY DEF ScanInv
      <4> QED
        BY <1>4, <1>5, <2>1, <4>1, <4>2 DEF AtEOF, Lines
    <3>3. StandsFor(Lines(fd[t]), 0, NoRegistry) /\ WellFormed(Lines(fd[t]), 0)
      BY StandsForNothing
    <3> QED
      BY <1>3, <1>4, <1>5, <3>1, <3>2, <3>3
         DEF PopulateInv, SkipHeader, fileVars, StandsFor, WellFormed, RowsOf
  <2>2. CASE ~AtEOF(t)
    <3>1. done'[t] = 1
      BY <2>2 DEF SkipHeader, TypeOK
    <3>2. 1 <= Len(Lines(fd[t]))
      BY <1>4, <1>5, <2>2 DEF AtEOF
    <3>3. StandsFor(Lines(fd[t]), 1, NoRegistry) /\ WellFormed(Lines(fd[t]), 1)
      BY StandsForNothing
    <3> QED
      BY <1>3, <1>4, <1>5, <3>1, <3>2, <3>3
         DEF PopulateInv, SkipHeader, StandsFor, WellFormed, RowsOf
  <2> QED
    BY <2>1, <2>2
<1>7. \A u \in Populators : PopulateInv(u)'
  BY <1>1, <1>2, <1>3, <1>6, PopulateInvOnly DEF ScanInv
<1> QED
  BY <1>1, <1>3, <1>7, PopulateRest DEF ScanInv, SkipHeader, fileVars, postVars

LEMMA EmptyLogIInv ==
    ASSUME IInv, NEW t \in Populators, EmptyLog(t)
    PROVE  IInv'
<1> USE DEF IInv
<1>1. TypeOK'
  <2>1. pc' \in [Threads -> PopulatorPc \union CallbackPc]
    BY DEF TypeOK, EmptyLog, PopulatorPc
  <2>2. InventoryTypeOK'
    BY DEF TypeOK, EmptyLog, ResetLog, InventoryTypeOK
  <2> QED
    BY <2>1, <2>2 DEF TypeOK, EmptyLog, fileVars, scanVars, postVars,
       callbackVars, historyVars
<1>2. Grow
  BY GrowUnchanged DEF EmptyLog, fileVars
<1>3. /\ Only(t) /\ pc[t] = "reset"
      /\ pc'[t] = IF done[t] = 0 THEN "publish" ELSE "scan"
  BY DEF Only, EmptyLog, TypeOK, scanVars
<1>4. PopulateInv(t)'
  <2>1. UNCHANGED <<content, saved, fd, done, map>>
    BY DEF EmptyLog, fileVars, scanVars
  <2>2. PopulateInv(t)
    BY DEF ScanInv
  <2>3. done[t] \in Nat
    BY DEF TypeOK
  <2> QED
    BY <1>3, <2>1, <2>2, <2>3 DEF PopulateInv, Lines, StandsFor, WellFormed,
                                  RowsOf
<1>5. \A u \in Populators : PopulateInv(u)'
  BY <1>1, <1>2, <1>3, <1>4, PopulateInvOnly DEF ScanInv
<1> QED
  BY <1>1, <1>3, <1>5, PopulateRest
     DEF ScanInv, EmptyLog, fileVars, postVars, callbackVars

LEMMA ScanRowIInv ==
    ASSUME IInv, NEW t \in Populators, ScanRow(t)
    PROVE  IInv'
<1> USE DEF IInv
<1>1. NextLine(t).mac \in Mac
  BY DEF ScanRow, FullRow
<1>2. TypeOK'
  <2>1. pc' \in [Threads -> PopulatorPc \union CallbackPc]
    BY DEF TypeOK, ScanRow, PopulatorPc
  <2>2. InventoryTypeOK'
    BY <1>1 DEF TypeOK, ScanRow, GenPXEEntries, RenderEfi,
                InventoryTypeOK, Entry
  <2> QED
    BY <2>1, <2>2 DEF TypeOK, ScanRow, fileVars, scanVars, postVars,
       callbackVars
<1>3. Grow
  BY GrowUnchanged DEF ScanRow, fileVars
<1>4. Only(t) /\ pc[t] = "scan" /\ pc'[t] = "store"
  BY DEF Only, ScanRow, TypeOK, scanVars
<1>5. PopulateInv(t)'
  <2>1. UNCHANGED <<content, saved, fd, done, map>>
    BY DEF ScanRow, fileVars, scanVars
  <2>2. PopulateInv(t) /\ ~AtEOF(t) /\ NextLine(t) \in FullRow
    BY DEF ScanInv, ScanRow
  <2> QED
    BY <1>4, <2>1, <2>2 DEF PopulateInv, Lines, AtEOF, NextLine, StandsFor,
                            WellFormed, RowsOf
<1>6. \A u \in Populators : PopulateInv(u)'
  BY <1>2, <1>3, <1>4, <1>5, PopulateInvOnly DEF ScanInv
<1> QED
  BY <1>2, <1>4, <1>6, PopulateRest
     DEF ScanInv, ScanRow, fileVars, postVars, callbackVars

LEMMA StoreRowIInv ==
    ASSUME IInv, NEW t \in Populators, StoreRow(t)
    PROVE  IInv'
<1> USE DEF IInv
<1> DEFINE lines == Lines(fd[t])
           row   == lines[done[t] + 1]
<1>1. /\ lines \in Seq(Line) /\ lines' = lines
      /\ done[t] \in Nat /\ map[t] \in Registry
  BY LinesType DEF StoreRow, fileVars, Lines, TypeOK
<1>2. /\ pc[t] = "store" /\ done[t] >= 1 /\ done[t] < Len(lines)
      /\ row \in FullRow
      /\ WellFormed(lines, done[t]) /\ StandsFor(lines, done[t], map[t])
  BY <1>1 DEF StoreRow, ScanInv, PopulateInv, AtEOF, NextLine
<1>3. row.mac \in Mac /\ row.ip \in IP
  BY <1>2 DEF FullRow
<1>4. /\ done' = [done EXCEPT ![t] = done[t] + 1]
      /\ map' = [map EXCEPT ![t] = [map[t] EXCEPT ![row.mac] = row.ip]]
      /\ pc' = [pc EXCEPT ![t] = "scan"]
      /\ fd' = fd
  BY DEF StoreRow, NextLine
<1>5. TypeOK'
  <2>1. pc' \in [Threads -> PopulatorPc \union CallbackPc]
    BY <1>4 DEF TypeOK, PopulatorPc
  <2>2. done' \in [Populators -> Nat]
    BY <1>1, <1>4 DEF TypeOK
  <2>3. [map[t] EXCEPT ![row.mac] = row.ip] \in Registry
    BY <1>1, <1>3 DEF Registry
  <2>4. map' \in [Populators -> Registry]
    BY <1>4, <2>3 DEF TypeOK
  <2>5. InventoryTypeOK'
    BY <1>3 DEF TypeOK, StoreRow, StoreMachine, NextLine, InventoryTypeOK, Status
  <2>6. live' \in SUBSET Callbacks
    BY DEF TypeOK, StoreRow
  <2> QED
    BY <1>4, <2>1, <2>2, <2>4, <2>5, <2>6
       DEF TypeOK, StoreRow, fileVars, postVars, historyVars
<1>6. Grow
  BY GrowUnchanged DEF StoreRow, fileVars
<1>7. Only(t)
  BY <1>4 DEF Only, TypeOK
<1>8. PopulateInv(t)'
  <2>1. /\ pc'[t] = "scan" /\ done'[t] = done[t] + 1
        /\ map'[t] = [map[t] EXCEPT ![row.mac] = row.ip]
    BY <1>4 DEF TypeOK
  <2>2. StandsFor(lines, done[t] + 1, map'[t])
    BY <1>1, <1>2, <2>1, StandsForNext
  <2>3. WellFormed(lines, done[t] + 1)
    BY <1>1, <1>2 DEF WellFormed
  <2>4. StandsFor(Lines(fd[t]), done[t], map[t])' /\ WellFormed(Lines(fd[t]), done[t])'
    BY <1>1, <2>1, <2>2, <2>3 DEF StandsFor, WellFormed, RowsOf
  <2>5. (done[t] <= Len(Lines(fd[t])))'
    BY <1>1, <1>2, <2>1
  <2> QED
    BY <1>1, <2>1, <2>4, <2>5 DEF PopulateInv
<1>9. \A u \in Populators : PopulateInv(u)'
  BY <1>5, <1>6, <1>7, <1>8, PopulateInvOnly DEF ScanInv
<1> QED
  BY <1>2, <1>4, <1>5, <1>7, <1>9, PopulateRest
     DEF ScanInv, StoreRow, fileVars, postVars, TypeOK

LEMMA DropLocalsType ==
    ASSUME TypeOK, NEW t \in Populators, DropLocals(t), used' = used
    PROVE  /\ fd' \in [Populators -> 0..used']
           /\ done' \in [Populators -> Nat]
           /\ map' \in [Populators -> Registry]
           /\ overlapped' \in SUBSET Populators
           /\ done'[t] = 0
           /\ map'[t] = NoRegistry
<1>1. NoRegistry \in Registry
  BY DEF NoRegistry, Registry
<1> QED
  BY <1>1 DEF DropLocals, TypeOK

\* A handler's Populate that panics: nothing of it is left but what it wrote.
LEMMA UnwindIInv ==
    ASSUME IInv, NEW t \in Posts, pc[t] = "scan",
           pc' = [pc EXCEPT ![t] = "done"], DropLocals(t),
           UNCHANGED <<fileVars, events, activePtr, postVars, callbackVars,
                       raced, source, spoilt, machines, installLog>>,
           failed' \in BOOLEAN, efiEntry' \in [Mac -> Entry]
    PROVE  IInv'
<1> USE DEF IInv
<1>1. TypeOK'
  <2>1. pc' \in [Threads -> PopulatorPc \union CallbackPc]
    BY DEF TypeOK, PopulatorPc
  <2> QED
    BY <2>1, DropLocalsType DEF TypeOK, fileVars, postVars, callbackVars,
       InventoryTypeOK
<1>2. Grow
  BY GrowUnchanged DEF fileVars
<1>3. Only(t)
  BY DEF Only, DropLocals, TypeOK
<1>4. PopulateInv(t)'
  BY DropLocalsType, PopulateInvRest DEF TypeOK, fileVars
<1>5. \A u \in Populators : PopulateInv(u)'
  BY <1>1, <1>2, <1>3, <1>4, PopulateInvOnly DEF ScanInv
<1> QED
  BY <1>1, <1>3, <1>5, PopulateRest
     DEF ScanInv, fileVars, postVars, callbackVars, TypeOK

LEMMA ScanShortRowIInv ==
    ASSUME IInv, NEW t \in Populators, ScanShortRow(t)
    PROVE  IInv'
<1>1. efiEntry' \in [Mac -> Entry] /\ failed \in BOOLEAN
  BY DEF ScanShortRow, inventoryVars, IInv, TypeOK, InventoryTypeOK
<1>2. CASE Crash
  BY <1>1, <1>2, CrashIInv
<1>3. CASE ~Crash
  BY <1>1, <1>3, UnwindIInv DEF ScanShortRow, inventoryVars
<1> QED
  BY <1>2, <1>3

LEMMA PartEntriesType ==
    ASSUME InventoryTypeOK, NEW m \in Mac, PartEntries(m)
    PROVE  efiEntry' \in [Mac -> Entry]
BY DEF PartEntries, InventoryTypeOK, Entry

LEMMA FailRowIInv ==
    ASSUME IInv, NEW t \in Populators, FailRow(t)
    PROVE  IInv'
<1>1. NextLine(t).mac \in Mac
  BY DEF FailRow, FullRow
<1>2. efiEntry' \in [Mac -> Entry]
  BY <1>1, PartEntriesType DEF FailRow, IInv, TypeOK
<1>3. CASE Crash
  BY <1>2, <1>3, CrashIInv
<1>4. CASE ~Crash
  BY <1>2, <1>4, UnwindIInv DEF FailRow
<1> QED
  BY <1>3, <1>4

LEMMA ScanEndIInv ==
    ASSUME IInv, NEW t \in Populators, ScanEnd(t)
    PROVE  IInv'
<1> USE DEF IInv
<1>1. TypeOK'
  <2>1. pc' \in [Threads -> PopulatorPc \union CallbackPc]
    BY DEF TypeOK, ScanEnd, PopulatorPc
  <2> QED
    BY <2>1 DEF TypeOK, ScanEnd, fileVars, scanVars, postVars, callbackVars,
       historyVars, inventoryVars, InventoryTypeOK
<1>2. Grow
  BY GrowUnchanged DEF ScanEnd, fileVars
<1>3. Only(t) /\ pc[t] = "scan" /\ pc'[t] = "publish"
  BY DEF Only, ScanEnd, TypeOK, scanVars
<1>4. PopulateInv(t)'
  <2>1. fd[t] # 0 => saved[fd[t]] <= done[t]
    <3>1. /\ fd[t] # 0 => fd[t] \in Inode /\ saved[fd[t]] \in Nat
          /\ done[t] \in Nat /\ fd[t] \in 0..used
      BY DEF TypeOK
    <3>2. \A i \in Inode : saved[i] <= Len(content[i])
      BY DEF ScanInv
    <3>3. AtEOF(t) /\ Lines(fd[t]) \in Seq(Line)
      BY <3>1, LinesType DEF ScanEnd
    <3> QED
      BY <3>1, <3>2, <3>3 DEF AtEOF, Lines
  <2> QED
    <3>1. UNCHANGED <<content, saved, fd, done, map>>
      BY DEF ScanEnd, fileVars, scanVars
    <3>2. PopulateInv(t)
      BY DEF ScanInv
    <3> QED
      BY <1>3, <2>1, <3>1, <3>2 DEF PopulateInv, Lines, StandsFor, WellFormed,
                                    RowsOf
<1>5. \A u \in Populators : PopulateInv(u)'
  BY <1>1, <1>2, <1>3, <1>4, PopulateInvOnly DEF ScanInv
<1> QED
  BY <1>1, <1>3, <1>5, PopulateRest
     DEF ScanInv, ScanEnd, fileVars, postVars, callbackVars

LEMMA PublishIInv ==
    ASSUME IInv, NEW t \in Populators, Publish(t)
    PROVE  IInv'
<1> USE DEF IInv
<1>1. TypeOK'
  <2>1. pc' \in [Threads -> PopulatorPc \union CallbackPc]
    BY DEF TypeOK, Publish, PcAfterPopulate, PopulatorPc
  <2>2. activePtr' \in Registry \union {Nil} /\ raced' \in BOOLEAN
    BY DEF TypeOK, Publish
  <2>3. source' \in [inode : 0..used', lines : Nat]
    BY DEF TypeOK, Publish, fileVars
  <2> QED
    BY <2>1, <2>2, <2>3, DropLocalsType
       DEF TypeOK, Publish, fileVars, postVars, callbackVars, inventoryVars,
           InventoryTypeOK
<1>2. Grow
  BY GrowUnchanged DEF Publish, fileVars
<1>3. /\ Only(t)
      /\ pc[t] = "publish" /\ pc'[t] \in {"serve", "idle", "done"}
  BY DEF Only, Publish, DropLocals, PcAfterPopulate, TypeOK
<1>4. PopulateInv(t)'
  BY <1>3, DropLocalsType, PopulateInvRest DEF Publish, fileVars
<1>5. \A u \in Populators : PopulateInv(u)'
  BY <1>1, <1>2, <1>3, <1>4, PopulateInvOnly DEF ScanInv
<1> QED
  BY <1>1, <1>3, <1>5, PopulateRest
     DEF ScanInv, Publish, fileVars, postVars, callbackVars

LEMMA TakeEventIInv == IInv /\ TakeEvent => IInv'
<1> SUFFICES ASSUME IInv, TakeEvent PROVE IInv'
  OBVIOUS
<1> USE DEF IInv
<1>1. TypeOK'
  <2>1. pc' \in [Threads -> PopulatorPc \union CallbackPc]
    BY DEF TypeOK, TakeEvent, PopulatorPc
  <2> QED
    BY <2>1 DEF TypeOK, TakeEvent, fileVars, scanVars, postVars, callbackVars,
       historyVars, inventoryVars, InventoryTypeOK
<1>2. Grow
  BY GrowUnchanged DEF TakeEvent, fileVars
<1>3. Only(Watcher) /\ pc[Watcher] = "idle" /\ pc'[Watcher] = "open"
  BY DEF Only, TakeEvent, TypeOK, scanVars
<1>4. PopulateInv(Watcher)'
  BY <1>3, PopulateInvRest DEF ScanInv, PopulateInv, TakeEvent, scanVars
<1>5. \A u \in Populators : PopulateInv(u)'
  BY <1>1, <1>2, <1>3, <1>4, PopulateInvOnly DEF ScanInv
<1> QED
  BY <1>1, <1>3, <1>5, PopulateRest
     DEF ScanInv, TakeEvent, fileVars, postVars, callbackVars

\* A handler's step that leaves the files and its descriptor alone.
LEMMA RequestIInv ==
    ASSUME IInv, TypeOK', NEW t \in Posts \union Callbacks, Only(t),
           UNCHANGED <<content, saved, fd, done, map>>,
           pc[t] \notin {"reset", "scan", "store", "publish"},
           pc'[t] \notin {"reset", "scan", "store", "publish", "write"},
           t \in Posts => PostInv(t)',
           t \in Callbacks => CallbackInv(t)',
           \A p \in Posts \ {t} : payload'[p] = payload[p],
           \A c \in Callbacks \ {t} : target'[c] = target[c]
    PROVE  IInv'
<1> USE DEF IInv
<1>1. Grow
  BY GrowUnchanged
<1>2. t \in Populators => PopulateInv(t)'
  BY PopulateInvRest DEF ScanInv, PopulateInv
<1>3. \A u \in Populators : PopulateInv(u)'
  BY <1>1, <1>2, PopulateInvOnly DEF ScanInv
<1>4. (\A i \in Inode : saved[i] <= Len(content[i]))'
  BY DEF ScanInv
<1>5. (pc[Main] = "off" <=> pc[Watcher] = "off")'
  BY DEF ScanInv, Only
<1>6. \A p \in Posts : PostInv(p)'
  BY DEF ScanInv, PostInv, Only
<1>7. \A c \in Callbacks : CallbackInv(c)'
  BY DEF ScanInv, CallbackInv, Only
<1> QED
  BY <1>3, <1>4, <1>5, <1>6, <1>7 DEF ScanInv

LEMMA PostGatherIInv ==
    ASSUME IInv, NEW p \in Posts, PostGather(p)
    PROVE  IInv'
<1>1. TypeOK'
  <2>1. pc' \in [Threads -> PopulatorPc \union CallbackPc]
    BY DEF IInv, TypeOK, PostGather, PostGoes, PopulatorPc
  <2> QED
    BY <2>1 DEF IInv, TypeOK, PostGather, fileVars, scanVars, callbackVars,
       historyVars, inventoryVars, InventoryTypeOK
<1>2. Only(p) /\ pc[p] = "new" /\ pc'[p] = "decode"
  BY DEF Only, PostGather, PostGoes, IInv, TypeOK, scanVars
<1> QED
  BY <1>1, <1>2, RequestIInv
     DEF PostGather, fileVars, scanVars, callbackVars, PostInv

LEMMA PostRejectIInv ==
    ASSUME IInv, NEW p \in Posts, PostReject(p)
    PROVE  IInv'
<1>1. TypeOK'
  <2>1. pc' \in [Threads -> PopulatorPc \union CallbackPc]
    BY DEF IInv, TypeOK, PostReject, PostGoes, PopulatorPc
  <2> QED
    BY <2>1 DEF IInv, TypeOK, PostReject, fileVars, scanVars, callbackVars,
       historyVars, inventoryVars, InventoryTypeOK
<1>2. Only(p) /\ pc[p] = "decode" /\ pc'[p] = "done"
  BY DEF Only, PostReject, PostGoes, IInv, TypeOK, scanVars
<1> QED
  BY <1>1, <1>2, RequestIInv
     DEF PostReject, fileVars, scanVars, callbackVars, PostInv

LEMMA PostAcceptIInv ==
    ASSUME IInv, NEW p \in Posts, PostAccept(p)
    PROVE  IInv'
<1>1. PICK row \in ShortRow : payload' = [payload EXCEPT ![p] = row]
  BY DEF PostAccept
<1>2. TypeOK'
  <2>1. pc' \in [Threads -> PopulatorPc \union CallbackPc]
    BY DEF IInv, TypeOK, PostAccept, PostGoes, PopulatorPc
  <2>2. payload' \in [Posts -> ShortRow \union {Nil}]
    BY <1>1 DEF IInv, TypeOK
  <2>3. snap' \in [Posts -> Registry \union {Nil}]
    BY DEF IInv, TypeOK, PostAccept
  <2> QED
    BY <2>1, <2>2, <2>3 DEF IInv, TypeOK, PostAccept, fileVars, scanVars,
       callbackVars, historyVars, inventoryVars, InventoryTypeOK
<1>3. Only(p) /\ pc[p] = "decode" /\ pc'[p] = "add"
  BY DEF Only, PostAccept, PostGoes, IInv, TypeOK, scanVars
<1>4. PostInv(p)' /\ \A q \in Posts \ {p} : payload'[q] = payload[q]
  BY <1>1, <1>3 DEF PostInv, IInv, TypeOK
<1> QED
  BY <1>2, <1>3, <1>4, RequestIInv DEF PostAccept, fileVars, scanVars, callbackVars

LEMMA AddItemIInv ==
    ASSUME IInv, NEW p \in Posts, AddItem(p)
    PROVE  IInv'
<1>1. TypeOK'
  <2>1. pc' \in [Threads -> PopulatorPc \union CallbackPc]
    BY DEF IInv, TypeOK, AddItem, PostGoes, PopulatorPc
  <2> QED
    BY <2>1 DEF IInv, TypeOK, AddItem, fileVars, scanVars, postVars,
       callbackVars, historyVars, inventoryVars, InventoryTypeOK
<1>2. Only(p) /\ pc[p] = "add" /\ pc'[p] \in {"done", "append"}
  BY DEF Only, AddItem, PostGoes, IInv, TypeOK, scanVars
<1>3. PostInv(p)'
  BY <1>2 DEF PostInv, IInv, ScanInv, AddItem, postVars
<1> QED
  BY <1>1, <1>2, <1>3, RequestIInv
     DEF AddItem, fileVars, scanVars, postVars, callbackVars

LEMMA NotifyType ==
    ASSUME events \in 0..MaxEvents, Notify
    PROVE  events' \in 0..MaxEvents
BY DEF Notify

LEMMA OpenAppendIInv ==
    ASSUME IInv, NEW p \in Posts, OpenAppend(p)
    PROVE  IInv'
<1> USE DEF IInv
<1>1. /\ Grow
      /\ content' \in [Inode -> Seq(Line)]
      /\ saved' \in [Inode -> Nat]
      /\ used' \in 0..MaxInode /\ used' >= used
      /\ cur' \in 0..used'
      /\ fd' \in [Populators -> 0..used']
      /\ fd'[p] # 0 /\ \A u \in Populators \ {p} : fd'[u] = fd[u]
      /\ events' \in 0..MaxEvents
      /\ (\A i \in Inode : saved[i] <= Len(content[i]))'
  <2>1. CASE cur # 0 /\ fd' = [fd EXCEPT ![p] = cur] /\ UNCHANGED <<fileVars, events>>
    <3>1. Grow
      BY <2>1, GrowUnchanged DEF fileVars
    <3>2. fd' \in [Populators -> 0..used']
      BY <2>1 DEF TypeOK, fileVars
    <3>3. fd'[p] # 0 /\ \A u \in Populators \ {p} : fd'[u] = fd[u]
      BY <2>1 DEF TypeOK
    <3>4. (\A i \in Inode : saved[i] <= Len(content[i]))'
      BY <2>1 DEF ScanInv, fileVars
    <3>5. /\ content \in [Inode -> Seq(Line)] /\ saved \in [Inode -> Nat]
          /\ used \in 0..MaxInode /\ cur \in 0..used /\ events \in 0..MaxEvents
      BY DEF TypeOK
    <3> QED
      BY <2>1, <3>1, <3>2, <3>3, <3>4, <3>5 DEF fileVars
  <2>2. CASE /\ cur = 0
             /\ PutFile(<< >>)
             /\ fd' = [fd EXCEPT ![p] = used + 1]
             /\ Notify
    <3>1. << >> \in Seq(Line)
      OBVIOUS
    <3>2. /\ Grow
          /\ content' \in [Inode -> Seq(Line)]
          /\ saved' \in [Inode -> Nat]
          /\ used' \in 0..MaxInode /\ used' > used
          /\ cur' \in 0..used'
          /\ (\A i \in Inode : saved[i] <= Len(content[i]))'
      BY <2>2, <3>1, GrowPutFile DEF ScanInv
    <3>3. used' = used + 1
      BY <2>2 DEF PutFile
    <3>4. events' \in 0..MaxEvents
      BY <2>2, NotifyType DEF TypeOK
    <3>5. fd' \in [Populators -> 0..used']
      BY <2>2, <3>3 DEF TypeOK
    <3>6. fd'[p] # 0 /\ \A u \in Populators \ {p} : fd'[u] = fd[u]
      BY <2>2 DEF TypeOK
    <3>7. used' >= used
      BY <3>3 DEF TypeOK
    <3> QED
      BY <3>2, <3>4, <3>5, <3>6, <3>7
  <2> QED
    BY <2>1, <2>2 DEF OpenAppend
<1>2. TypeOK'
  <2>1. pc' \in [Threads -> PopulatorPc \union CallbackPc]
    BY DEF TypeOK, OpenAppend, PostGoes, PopulatorPc
  <2>2. source' \in [inode : 0..used', lines : Nat]
    BY <1>1 DEF TypeOK, OpenAppend, historyVars
  <2> QED
    BY <1>1, <2>1, <2>2 DEF TypeOK, OpenAppend, postVars, callbackVars,
       historyVars, inventoryVars, InventoryTypeOK
<1>3. Only(p) /\ pc[p] = "append" /\ pc'[p] = "write"
  BY <1>1 DEF Only, OpenAppend, PostGoes, TypeOK
<1>4. PopulateInv(p)'
  BY <1>3, PopulateInvRest DEF ScanInv, PopulateInv, OpenAppend
<1>5. \A u \in Populators : PopulateInv(u)'
  BY <1>1, <1>2, <1>3, <1>4, PopulateInvOnly DEF ScanInv
<1>6. (pc[Main] = "off" <=> pc[Watcher] = "off")'
  BY <1>3 DEF ScanInv, Only
<1>7. ASSUME NEW q \in Posts PROVE PostInv(q)'
  BY <1>1, <1>3 DEF ScanInv, PostInv, Only, OpenAppend, postVars
<1>8. \A c \in Callbacks : CallbackInv(c)'
  BY <1>3 DEF ScanInv, CallbackInv, Only, OpenAppend, callbackVars
<1> QED
  BY <1>1, <1>2, <1>5, <1>6, <1>7, <1>8 DEF ScanInv

LEMMA WriteRowIInv ==
    ASSUME IInv, NEW p \in Posts, WriteRow(p)
    PROVE  IInv'
<1> USE DEF IInv
<1>1. fd[p] \in 1..used /\ payload[p] \in Line
  BY DEF ScanInv, PostInv, WriteRow, TypeOK, Line
<1>2. /\ Grow
      /\ content' \in [Inode -> Seq(Line)]
      /\ (\A i \in Inode : saved[i] <= Len(content[i]))'
  BY <1>1, GrowAppendLine DEF WriteRow, ScanInv
<1>3. events' \in 0..MaxEvents
  BY NotifyType DEF WriteRow, TypeOK
<1>4. TypeOK'
  <2>1. pc' \in [Threads -> PopulatorPc \union CallbackPc]
    BY DEF TypeOK, WriteRow, PostGoes, PopulatorPc
  <2> QED
    BY <1>2, <1>3, <2>1 DEF TypeOK, WriteRow, AppendLine, scanVars, postVars,
       callbackVars, historyVars, inventoryVars, InventoryTypeOK
<1>5. Only(p) /\ pc[p] = "write" /\ pc'[p] = "open"
  BY DEF Only, WriteRow, PostGoes, TypeOK, scanVars
<1>6. PopulateInv(p)'
  BY <1>5, PopulateInvRest DEF ScanInv, PopulateInv, WriteRow, scanVars
<1>7. \A u \in Populators : PopulateInv(u)'
  BY <1>2, <1>4, <1>5, <1>6, PopulateInvOnly DEF ScanInv
<1>8. (pc[Main] = "off" <=> pc[Watcher] = "off")'
  BY <1>5 DEF ScanInv, Only
<1>9. ASSUME NEW q \in Posts PROVE PostInv(q)'
  BY <1>5 DEF ScanInv, PostInv, Only, WriteRow, postVars, scanVars
<1>10. \A c \in Callbacks : CallbackInv(c)'
  BY <1>5 DEF ScanInv, CallbackInv, Only, WriteRow, callbackVars
<1> QED
  BY <1>2, <1>4, <1>7, <1>8, <1>9, <1>10 DEF ScanInv

LEMMA FailAppendIInv ==
    ASSUME IInv, NEW p \in Posts, FailAppend(p)
    PROVE  IInv'
<1>1. TypeOK'
  <2>1. pc' \in [Threads -> PopulatorPc \union CallbackPc]
    BY DEF IInv, TypeOK, FailAppend, PostGoes, PopulatorPc
  <2> QED
    BY <2>1 DEF IInv, TypeOK, FailAppend, fileVars, scanVars, postVars,
       callbackVars, historyVars, inventoryVars, InventoryTypeOK
<1>2. Only(p) /\ pc[p] = "append" /\ pc'[p] = "done"
  BY DEF Only, FailAppend, PostGoes, IInv, TypeOK, scanVars
<1> QED
  BY <1>1, <1>2, RequestIInv
     DEF FailAppend, fileVars, scanVars, postVars, callbackVars, PostInv

LEMMA FailWriteIInv ==
    ASSUME IInv, NEW p \in Posts, FailWrite(p)
    PROVE  IInv'
<1>1. TypeOK'
  <2>1. pc' \in [Threads -> PopulatorPc \union CallbackPc]
    BY DEF IInv, TypeOK, FailWrite, PostGoes, PopulatorPc
  <2> QED
    BY <2>1 DEF IInv, TypeOK, FailWrite, fileVars, scanVars, postVars,
       callbackVars, historyVars, inventoryVars, InventoryTypeOK
<1>2. Only(p) /\ pc[p] = "write" /\ pc'[p] = "open"
  BY DEF Only, FailWrite, PostGoes, IInv, TypeOK, scanVars
<1> QED
  BY <1>1, <1>2, RequestIInv
     DEF FailWrite, fileVars, scanVars, postVars, callbackVars, PostInv

LEMMA LookupMachineIInv ==
    ASSUME IInv, NEW c \in Callbacks, LookupMachine(c)
    PROVE  IInv'
<1>1. PICK m \in Mac :
        IF machines[m] = "absent"
        THEN /\ pc' = [pc EXCEPT ![c] = "done"]
             /\ UNCHANGED callbackVars
        ELSE /\ pc' = [pc EXCEPT ![c] = "log"]
             /\ target' = [target EXCEPT ![c] = m]
             /\ live' = live \union {c}
  BY DEF LookupMachine
<1>2. TypeOK'
  <2>1. pc' \in [Threads -> PopulatorPc \union CallbackPc]
    BY <1>1 DEF IInv, TypeOK, PopulatorPc, CallbackPc
  <2>2. target' \in [Callbacks -> Mac \union {Nil}] /\ live' \in SUBSET Callbacks
    <3>1. CASE machines[m] = "absent"
      <4>1. UNCHANGED callbackVars
        BY <1>1, <3>1
      <4> QED
        BY <4>1 DEF IInv, TypeOK, callbackVars
    <3>2. CASE machines[m] # "absent"
      <4>1. target' = [target EXCEPT ![c] = m] /\ live' = live \union {c}
        BY <1>1, <3>2
      <4> QED
        BY <4>1 DEF IInv, TypeOK
    <3> QED
      BY <3>1, <3>2
  <2> QED
    BY <2>1, <2>2 DEF IInv, TypeOK, LookupMachine, fileVars, scanVars, postVars,
       historyVars, inventoryVars, InventoryTypeOK
<1>3. Only(c) /\ pc[c] = "new" /\ pc'[c] \in {"done", "log"}
  BY <1>1 DEF Only, LookupMachine, IInv, TypeOK, scanVars
<1>4. CallbackInv(c)' /\ \A d \in Callbacks \ {c} : target'[d] = target[d]
  BY <1>1 DEF CallbackInv, IInv, TypeOK, callbackVars
<1> QED
  BY <1>2, <1>3, <1>4, RequestIInv DEF LookupMachine, fileVars, scanVars, postVars

LEMMA LogMachineIInv ==
    ASSUME IInv, NEW c \in Callbacks, LogMachine(c)
    PROVE  IInv'
<1>1. target[c] \in Mac
  BY DEF IInv, ScanInv, CallbackInv, LogMachine
<1>2. TypeOK'
  <2>1. pc' \in [Threads -> PopulatorPc \union CallbackPc]
    BY DEF IInv, TypeOK, LogMachine, CallbackPc
  <2>2. InventoryTypeOK'
    BY <1>1 DEF IInv, TypeOK, LogMachine, LogInstalled, InventoryTypeOK
  <2> QED
    BY <2>1, <2>2 DEF IInv, TypeOK, LogMachine, fileVars, scanVars, postVars,
       callbackVars, historyVars
<1>3. Only(c) /\ pc[c] = "log" /\ pc'[c] = "mark"
  BY DEF Only, LogMachine, IInv, TypeOK, scanVars
<1>4. CallbackInv(c)'
  BY <1>1 DEF CallbackInv, LogMachine, callbackVars
<1> QED
  BY <1>2, <1>3, <1>4, RequestIInv
     DEF LogMachine, fileVars, scanVars, postVars, callbackVars

LEMMA MarkMachineIInv ==
    ASSUME IInv, NEW c \in Callbacks, MarkMachine(c)
    PROVE  IInv'
<1>1. target[c] \in Mac
  BY DEF IInv, ScanInv, CallbackInv, MarkMachine
<1>2. TypeOK'
  <2>1. pc' \in [Threads -> PopulatorPc \union CallbackPc]
    BY DEF IInv, TypeOK, MarkMachine, CallbackPc
  <2>2. InventoryTypeOK'
    BY <1>1 DEF IInv, TypeOK, MarkMachine, MarkInstalled, InventoryTypeOK, Status
  <2> QED
    BY <2>1, <2>2 DEF IInv, TypeOK, MarkMachine, fileVars, scanVars, postVars,
       callbackVars, historyVars
<1>3. Only(c) /\ pc[c] = "mark" /\ pc'[c] = "entries"
  BY DEF Only, MarkMachine, IInv, TypeOK, scanVars
<1>4. CallbackInv(c)'
  BY <1>1 DEF CallbackInv, MarkMachine, callbackVars
<1> QED
  BY <1>2, <1>3, <1>4, RequestIInv
     DEF MarkMachine, fileVars, scanVars, postVars, callbackVars

\* The end of a callback, its entries written or not.
LEMMA CallbackDoneIInv ==
    ASSUME IInv, NEW c \in Callbacks, pc[c] = "entries", CallbackDone(c),
           UNCHANGED <<fileVars, events, scanVars, activePtr, postVars,
                       overlapped, raced, source, failed, machines,
                       installLog>>,
           spoilt' \in SUBSET Mac, efiEntry' \in [Mac -> Entry]
    PROVE  IInv'
<1>1. TypeOK'
  <2>1. pc' \in [Threads -> PopulatorPc \union CallbackPc]
    BY DEF IInv, TypeOK, CallbackDone, CallbackPc
  <2>2. target' \in [Callbacks -> Mac \union {Nil}] /\ live' \in SUBSET Callbacks
    BY DEF IInv, TypeOK, CallbackDone
  <2> QED
    BY <2>1, <2>2 DEF IInv, TypeOK, fileVars, scanVars, postVars,
       InventoryTypeOK
<1>2. Only(c) /\ pc'[c] = "done"
  BY DEF Only, CallbackDone, IInv, TypeOK, scanVars
<1>3. CallbackInv(c)' /\ \A d \in Callbacks \ {c} : target'[d] = target[d]
  BY <1>2 DEF CallbackInv, CallbackDone, IInv, TypeOK
<1> QED
  BY <1>1, <1>2, <1>3, RequestIInv DEF fileVars, scanVars, postVars

LEMMA WriteEntriesIInv ==
    ASSUME IInv, NEW c \in Callbacks, WriteEntries(c)
    PROVE  IInv'
<1>1. efiEntry' \in [Mac -> Entry] /\ spoilt' \in SUBSET Mac
  BY DEF IInv, TypeOK, WriteEntries, GenPXEEntries, RenderEfi, InventoryTypeOK,
         Entry
<1> QED
  BY <1>1, CallbackDoneIInv DEF WriteEntries

LEMMA FailEntriesIInv ==
    ASSUME IInv, NEW c \in Callbacks, FailEntries(c)
    PROVE  IInv'
<1>1. target[c] \in Mac
  BY DEF IInv, ScanInv, CallbackInv, FailEntries
<1>2. efiEntry' \in [Mac -> Entry]
  BY <1>1, PartEntriesType DEF FailEntries, IInv, TypeOK
<1>3. CASE Crash
  BY <1>2, <1>3, CrashIInv
<1>4. CASE ~Crash
  <2>1. spoilt' \in SUBSET Mac
    BY <1>1, <1>4 DEF FailEntries, IInv, TypeOK
  <2> QED
    BY <1>2, <1>4, <2>1, CallbackDoneIInv DEF FailEntries
<1> QED
  BY <1>3, <1>4

\* An operator's step moves no goroutine.
LEMMA OperatorIInv == IInv /\ Operator => IInv'
<1> SUFFICES ASSUME IInv, Operator PROVE IInv'
  OBVIOUS
<1> USE DEF IInv
<1>1. UNCHANGED <<pc, scanVars, activePtr, postVars, callbackVars, historyVars,
                  inventoryVars>> /\ Notify
  BY DEF Operator, OperatorSaves, OperatorRemoves, OperatorAppends
<1>2. /\ Grow
      /\ content' \in [Inode -> Seq(Line)]
      /\ saved' \in [Inode -> Nat]
      /\ used' \in 0..MaxInode /\ used' >= used
      /\ cur' \in 0..used'
      /\ (\A i \in Inode : saved[i] <= Len(content[i]))'
  <2>0. /\ content \in [Inode -> Seq(Line)] /\ saved \in [Inode -> Nat]
        /\ used \in 0..MaxInode /\ cur \in 0..used
    BY DEF TypeOK
  <2>1. CASE OperatorSaves
    <3>1. PICK lines \in Contents : PutFile(lines)
      BY <2>1 DEF OperatorSaves
    <3>2. lines \in Seq(Line)
      BY <3>1
    <3>3. used' = used + 1
      BY <3>1 DEF PutFile
    <3>4. /\ Grow
          /\ content' \in [Inode -> Seq(Line)]
          /\ saved' \in [Inode -> Nat]
          /\ used' \in 0..MaxInode /\ used' > used
          /\ cur' \in 0..used'
          /\ (\A i \in Inode : saved[i] <= Len(content[i]))'
      BY <3>1, <3>2, GrowPutFile DEF ScanInv
    <3> QED
      BY <2>0, <3>3, <3>4
  <2>2. CASE OperatorRemoves
    <3>1. UNCHANGED <<content, saved, used>> /\ cur' = 0
      BY <2>2 DEF OperatorRemoves
    <3>2. Grow /\ \A i \in Inode : saved[i] <= Len(content[i])
      BY <3>1, GrowUnchanged DEF ScanInv
    <3> QED
      BY <2>0, <3>1, <3>2
  <2>3. CASE OperatorAppends
    <3>1. PICK row \in FullRow : AppendLine(cur, row)
      BY <2>3 DEF OperatorAppends
    <3>2. cur \in 1..used /\ row \in Line
      BY <2>3, <3>1 DEF OperatorAppends, TypeOK, Line
    <3>3. UNCHANGED <<saved, used, cur>>
      BY <3>1 DEF AppendLine
    <3>4. /\ Grow
          /\ content' \in [Inode -> Seq(Line)]
          /\ (\A i \in Inode : saved[i] <= Len(content[i]))'
      BY <3>1, <3>2, GrowAppendLine DEF ScanInv
    <3> QED
      BY <2>0, <3>3, <3>4
  <2> QED
    BY <2>1, <2>2, <2>3 DEF Operator
<1>3. TypeOK'
  <2>1. events' \in 0..MaxEvents
    BY <1>1, NotifyType DEF TypeOK
  <2>0. used \in Nat /\ 0..used \subseteq 0..used'
    BY <1>2 DEF TypeOK
  <2>2. fd' \in [Populators -> 0..used']
    <3>1. fd \in [Populators -> 0..used] /\ fd' = fd
      BY <1>1 DEF TypeOK, scanVars
    <3> QED
      BY <2>0, <3>1
  <2>3. source' \in [inode : 0..used', lines : Nat]
    <3>1. source \in [inode : 0..used, lines : Nat] /\ source' = source
      BY <1>1 DEF TypeOK, historyVars
    <3> QED
      BY <2>0, <3>1
  <2> QED
    BY <1>1, <1>2, <2>1, <2>2, <2>3 DEF TypeOK, scanVars, postVars,
       callbackVars, historyVars, inventoryVars, InventoryTypeOK
<1>4. ASSUME NEW t \in Populators PROVE PopulateInv(t)'
  BY <1>1, <1>2, <1>3, PopulateInvFrame DEF ScanInv, scanVars
<1>5. (pc[Main] = "off" <=> pc[Watcher] = "off")'
  BY <1>1 DEF ScanInv
<1>6. ASSUME NEW p \in Posts PROVE PostInv(p)'
  BY <1>1 DEF ScanInv, PostInv, postVars, scanVars
<1>7. ASSUME NEW c \in Callbacks PROVE CallbackInv(c)'
  BY <1>1 DEF ScanInv, CallbackInv, callbackVars
<1> QED
  BY <1>2, <1>3, <1>4, <1>5, <1>6, <1>7 DEF ScanInv

LEMMA StutterIInv == IInv /\ UNCHANGED vars => IInv'
<1> SUFFICES ASSUME IInv, UNCHANGED vars PROVE IInv'
  OBVIOUS
<1> USE DEF IInv
<1>1. TypeOK'
  BY DEF TypeOK, vars, fileVars, scanVars, postVars, callbackVars, historyVars,
         inventoryVars, InventoryTypeOK
<1>2. Grow
  BY GrowUnchanged DEF vars, fileVars
<1>3. ASSUME NEW t \in Populators PROVE PopulateInv(t)'
  BY <1>1, <1>2, PopulateInvFrame DEF ScanInv, vars, scanVars
<1>4. (\A i \in Inode : saved[i] <= Len(content[i]))'
  BY DEF ScanInv, vars, fileVars
<1>5. (pc[Main] = "off" <=> pc[Watcher] = "off")'
  BY DEF ScanInv, vars
<1>6. ASSUME NEW p \in Posts PROVE PostInv(p)'
  BY DEF ScanInv, PostInv, vars, postVars, scanVars
<1>7. ASSUME NEW c \in Callbacks PROVE CallbackInv(c)'
  BY DEF ScanInv, CallbackInv, vars, callbackVars
<1> QED
  BY <1>1, <1>3, <1>4, <1>5, <1>6, <1>7 DEF ScanInv

\* The invariant is inductive: it holds in every state of every behaviour.
THEOREM Invariance == Spec => []IInv
<1>1. IInv /\ [Next]_vars => IInv'
  <2> SUFFICES ASSUME IInv, [Next]_vars PROVE IInv'
    OBVIOUS
  <2>1. CASE Start
    BY <2>1, StartIInv
  <2>2. CASE MapRace \/ Kill
    <3>1. efiEntry' \in [Mac -> Entry]
      BY <2>2 DEF MapRace, Kill, IInv, TypeOK, InventoryTypeOK
    <3> QED
      BY <2>2, <3>1, CrashIInv DEF MapRace, Kill
  <2>3. CASE Operator
    BY <2>3, OperatorIInv
  <2>4. CASE TakeEvent
    BY <2>4, TakeEventIInv
  <2>5. ASSUME NEW t \in Populators, PopulateStep(t) PROVE IInv'
    BY <2>5, OpenFileIInv, SkipHeaderIInv, EmptyLogIInv, ScanRowIInv,
       StoreRowIInv, ScanShortRowIInv, ScanEndIInv, PublishIInv DEF PopulateStep
  <2>6. ASSUME NEW p \in Posts, PostGather(p) \/ PostStep(p) PROVE IInv'
    BY <2>6, PostGatherIInv, PostRejectIInv, PostAcceptIInv, AddItemIInv,
       OpenAppendIInv, WriteRowIInv DEF PostStep
  <2>7. ASSUME NEW c \in Callbacks, LookupMachine(c) \/ CallbackStep(c) PROVE IInv'
    BY <2>7, LookupMachineIInv, LogMachineIInv, MarkMachineIInv, WriteEntriesIInv
       DEF CallbackStep
  <2>8. CASE Fault
    BY <2>8, FailRowIInv, FailAppendIInv, FailWriteIInv, FailEntriesIInv DEF Fault
  <2>9. CASE UNCHANGED vars
    BY <2>9, StutterIInv
  <2> QED
    BY <2>1, <2>2, <2>3, <2>4, <2>5, <2>6, <2>7, <2>8, <2>9 DEF Next, WorkerNext
<1> QED
  BY <1>1, InitIInv, PTL DEF Spec

\* Every variable keeps its type; in particular no map gets a key or a value
\* from a row that misses columns.
THEOREM TypeCorrect == Spec => []TypeOK
BY Invariance, PTL DEF IInv

\* A running Populate knows of its file what PopulateInv says.
THEOREM ScanCorrect == Spec => []ScanInv
BY Invariance, PTL DEF IInv

=============================================================================
