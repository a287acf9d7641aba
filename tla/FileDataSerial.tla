---------------------------- MODULE FileDataSerial ----------------------------
(***************************************************************************)
(* What the watcher keeps true of FileData, proved from the invariant of   *)
(* FileDataProofs: with no event unread and no Populate running, a         *)
(* registry published by a call that ran alone is the one the file stands  *)
(* for, and the inventory holds its clients and no others; such a call     *)
(* never takes the registry back; and only rows with all their columns     *)
(* register anybody.                                                       *)
(***************************************************************************)
EXTENDS FileDataSafety

USE NoIPAssumption, NilAssumption, HeaderAssumption, ThreadsAssumption,
    ContentsAssumption, BoundsAssumption
    DEF Inode, Populators, Threads, faultVars

-----------------------------------------------------------------------------
(* The strengthening.                                                      *)

\* The watcher will open the file again ...
Reopening == events > 0 \/ pc[Watcher] = "open"

\* ... or is reading it.
Rereading == events > 0 \/ pc[Watcher] # "idle"

\* The inventory holds the clients of this registry and no others.
Fits(registry) ==
    \A m \in Mac : machines[m] = "absent" <=> registry[m] = NoIP

\* Whoever is called installed, or is about to be, is in the log.
Logged ==
    /\ \A m \in Mac : machines[m] = "installed" => m \in installLog
    /\ \A c \in live : pc[c] \in {"mark", "entries"} => target[c] \in installLog

\* Main never leaves its serving loop, the watcher never leaves its own, and a
\* request is only in flight while the worker serves.
PlaceInv ==
    /\ pc[Main] \in {"off", "open", "init", "reset", "scan", "store",
                     "publish", "serve"}
    /\ pc[Watcher] \in {"off", "idle", "open", "init", "reset", "scan", "store",
                        "publish"}
    /\ \A p \in Posts : pc[p] \notin {"new", "done"} => Serving

\* Two running calls of Populate each know of a call beside them.
OverlapInv == \A t, u \in Populating : t # u => t \in overlapped

\* One that runs alone reads the file that has the name, all of it if it has
\* come to the end, unless the watcher will read the file again.
FreshInv ==
    \A t \in Populating \ overlapped :
        \/ Reopening
        \/ fd[t] = cur /\ (HasRead(t) => done[t] = Len(Lines(cur)))

\* The registry a call published alone is current, or will be read again.
CurrentInv == Serving /\ ~raced => Rereading \/ Current(cur)

\* A row that misses columns is about to stop the process, or the watcher will
\* come to it.
ShortRowInv ==
    Running =>
        \/ Reopening
        \/ WellFormed(Lines(cur), Len(Lines(cur)))
        \/ \E t \in {Main, Watcher} :
            pc[t] = "open" \/ (t \in Populating /\ ~HasRead(t) /\ fd[t] = cur)

\* Nobody reads a replaced file while the registry counts as current.
ReplacedInv ==
    Serving /\ ~raced => \A t \in Populating : Rereading \/ fd[t] = cur

\* A callback whose object is still in the inventory finds its machine there.
ObjectInv == \A c \in live : target[c] \in Mac /\ machines[target[c]] # "absent"

\* A call that runs alone keeps its map and the inventory in step.
TableInv ==
    \A t \in Populating \ overlapped :
        pc[t] # "init" => Fits(map[t]) /\ Logged

\* The inventory fits the registry a call published alone, or is being filled
\* again, unless a handler's call gave it up.
FitsInv ==
    Serving /\ ~raced /\ ~failed =>
        \/ Rereading
        \/ Posts \intersect Populating # {}
        \/ Fits(activePtr) /\ Logged

SerialInv ==
    /\ PlaceInv
    /\ OverlapInv
    /\ FreshInv
    /\ CurrentInv
    /\ ShortRowInv
    /\ ReplacedInv
    /\ ObjectInv
    /\ TableInv
    /\ FitsInv

-----------------------------------------------------------------------------
(* Each action keeps the strengthening.                                    *)

\* Where the calls of Populate and their callers stand, and the registry, do
\* not change; requests come only while the worker serves.
CallsStand ==
    /\ UNCHANGED <<activePtr, overlapped, raced, failed, pc[Main], pc[Watcher]>>
    /\ Populating' = Populating
    /\ \A t \in Populating :
        UNCHANGED <<pc[t], fd[t], done[t], map[t]>>
    /\ \A p \in Posts : pc[p] \in {"new", "done"} =>
        Serving \/ pc'[p] \in {"new", "done"}

\* What the watcher is told of, or a file it need not read again.
FileStands == UNCHANGED <<events, cur, Lines(cur)>>
Told == Running => events' > 0

\* The same machines are in the inventory, and the log keeps up with it.
MachinesStand ==
    /\ \A m \in Mac : machines'[m] = "absent" <=> machines[m] = "absent"
    /\ Logged => Logged'

\* A step beside the calls of Populate that the watcher is told of, or that
\* leaves the file alone.
LEMMA SerialFrame ==
    ASSUME IInv, SerialInv, CallsStand, FileStands \/ Told, MachinesStand,
           ObjectInv'
    PROVE  SerialInv'
<1> USE DEF IInv, SerialInv
<1>1. PlaceInv'
  BY DEF PlaceInv, CallsStand, Serving
<1>2. OverlapInv'
  BY DEF OverlapInv, CallsStand
<1>3. ASSUME FileStands
      PROVE  FreshInv' /\ CurrentInv' /\ ShortRowInv' /\ ReplacedInv'
  <2>1. FreshInv'
    BY <1>3 DEF FreshInv, CallsStand, FileStands, Reopening, HasRead
  <2>2. CurrentInv'
    BY <1>3 DEF CurrentInv, CallsStand, FileStands, Rereading, Current,
       StandsFor, RowsOf, Serving
  <2>3. ShortRowInv'
    <3>1. ASSUME NEW t \in {Main, Watcher}, t \in Populating
          PROVE  fd'[t] = fd[t] /\ HasRead(t)' = HasRead(t) /\ t \in Populating'
      BY <3>1 DEF CallsStand, HasRead
    <3> QED
      BY <1>3, <3>1 DEF ShortRowInv, CallsStand, FileStands, Reopening,
         WellFormed, Running
  <2>4. ReplacedInv'
    BY <1>3 DEF ReplacedInv, CallsStand, FileStands, Rereading, Serving
  <2> QED
    BY <2>1, <2>2, <2>3, <2>4
<1>4. ASSUME Told
      PROVE  FreshInv' /\ CurrentInv' /\ ShortRowInv' /\ ReplacedInv'
  <2>1. CASE Running
    <3>1. Reopening' /\ Rereading'
      BY <1>4, <2>1 DEF Told, Reopening, Rereading
    <3> QED
      BY <3>1 DEF FreshInv, CurrentInv, ShortRowInv, ReplacedInv
  <2>2. CASE ~Running
    <3>1. Populating = {}
      BY <2>2 DEF PlaceInv, ScanInv, Populating, Running, Serving
    <3>2. Populating' = {} /\ ~Running' /\ ~Serving'
      BY <2>2, <3>1 DEF CallsStand, Running, Serving
    <3> QED
      BY <3>2 DEF FreshInv, CurrentInv, ShortRowInv, ReplacedInv
  <2> QED
    BY <2>1, <2>2
<1>5. TableInv'
  <2> SUFFICES ASSUME NEW t \in Populating \ overlapped, pc[t] # "init"
               PROVE  Fits(map[t])' /\ Logged'
    BY DEF TableInv, CallsStand
  <2>1. Fits(map[t]) /\ Logged /\ map'[t] = map[t]
    BY DEF TableInv, CallsStand
  <2> QED
    BY <2>1 DEF Fits, MachinesStand
<1>6. FitsInv'
  <2> SUFFICES ASSUME Serving', ~raced', ~failed', ~Rereading',
                      ~(Posts \intersect Populating # {})'
               PROVE  Fits(activePtr)' /\ Logged'
    BY DEF FitsInv
  <2>1. ~Rereading
    BY <1>3, <1>4 DEF Rereading, CallsStand, FileStands, Told, Running, Serving
  <2>2. Fits(activePtr) /\ Logged
    BY <2>1 DEF FitsInv, CallsStand, Serving
  <2> QED
    BY <2>2 DEF Fits, MachinesStand, CallsStand
<1> QED
  BY <1>1, <1>2, <1>3, <1>4, <1>5, <1>6

LEMMA SerialInit == Init => SerialInv
<1> SUFFICES ASSUME Init PROVE SerialInv
  OBVIOUS
<1>1. Populating = {} /\ ~Running /\ ~Serving
  BY DEF Init, Populating, Running, Serving
<1>2. PlaceInv /\ ObjectInv
  BY DEF Init, PlaceInv, ObjectInv
<1> QED
  BY <1>1, <1>2 DEF SerialInv, OverlapInv, FreshInv, CurrentInv, ShortRowInv,
     ReplacedInv, TableInv, FitsInv

LEMMA SerialCrash == Crash => SerialInv'
<1> SUFFICES ASSUME Crash PROVE SerialInv'
  OBVIOUS
<1>1. \A t \in Threads : pc'[t] \in {"off", "new", "done"}
  BY DEF Crash, PcAfterCrash
<1>2. pc'[Main] = "off" /\ pc'[Watcher] = "off"
  BY DEF Crash, PcAfterCrash
<1>3. Populating' = {} /\ ~Running' /\ ~Serving'
  BY <1>1, <1>2 DEF Populating, Running, Serving
<1>4. \A p \in Posts : pc'[p] \in {"new", "done"}
  BY DEF Crash, PcAfterCrash
<1>5. PlaceInv' /\ ObjectInv'
  BY <1>2, <1>4 DEF Crash, PlaceInv, ObjectInv
<1> QED
  BY <1>3, <1>5 DEF SerialInv, OverlapInv, FreshInv, CurrentInv, ShortRowInv,
     ReplacedInv, TableInv, FitsInv

LEMMA SerialStart == IInv /\ SerialInv /\ Start => SerialInv'
<1> SUFFICES ASSUME IInv, SerialInv, Start PROVE SerialInv'
  OBVIOUS
<1> USE DEF IInv, SerialInv
<1>1. /\ pc'[Main] = "open" /\ pc'[Watcher] = "idle"
      /\ \A p \in Posts : pc'[p] \in {"new", "done"}
  BY DEF Start, Running, Serving, PlaceInv, TypeOK
<1>2. Populating' = {} /\ ~Serving'
  BY <1>1 DEF Populating, Serving
<1>3. ObjectInv'
  BY DEF Start, ObjectInv, callbackVars, inventoryVars
<1>4. PlaceInv' /\ ShortRowInv'
  BY <1>1 DEF PlaceInv, ShortRowInv
<1> QED
  BY <1>2, <1>3, <1>4 DEF OverlapInv, FreshInv, CurrentInv, ReplacedInv, TableInv,
     FitsInv

\* A save, a removal or an append is told the watcher of a running process.
LEMMA NotifyTells == TypeOK /\ ScanInv /\ Notify => Told
BY DEF TypeOK, ScanInv, Notify, Told, Running

\* A step of a request outside Populate.
LEMMA RequestStands ==
    ASSUME IInv, NEW t \in Posts \union Callbacks,
           NEW x, pc' = [pc EXCEPT ![t] = x],
           t \in Posts => Serving \/ pc[t] \notin {"new", "done"},
           PlaceInv,
           pc[t] \notin {"init", "reset", "scan", "store", "publish"},
           x \notin {"init", "reset", "scan", "store", "publish"},
           \A u \in Populators \ {t} : fd'[u] = fd[u],
           UNCHANGED <<done, map, activePtr, overlapped, raced, failed>>
    PROVE  CallsStand
<1>1. pc'[t] = x /\ \A u \in Threads \ {t} : pc'[u] = pc[u]
  BY DEF IInv, TypeOK
<1>2. Populating' = Populating /\ t \notin Populating
  BY <1>1 DEF Populating
<1>3. pc'[Main] = pc[Main] /\ pc'[Watcher] = pc[Watcher]
  BY <1>1
<1>4. \A u \in Populating : UNCHANGED <<pc[u], fd[u], done[u], map[u]>>
  BY <1>1, <1>2 DEF Populating
<1>5. \A p \in Posts : pc[p] \in {"new", "done"} =>
        Serving \/ pc'[p] \in {"new", "done"}
  BY <1>1
<1> QED
  BY <1>2, <1>3, <1>4, <1>5 DEF CallsStand

LEMMA SerialRequest ==
    ASSUME IInv, SerialInv, NEW p \in Posts,
           PostGather(p) \/ PostStep(p) \/ FailAppend(p) \/ FailWrite(p)
    PROVE  SerialInv'
<1> USE DEF IInv, SerialInv
<1>1. MachinesStand /\ ObjectInv'
  <2>1. UNCHANGED <<machines, installLog, target, live>>
    BY DEF PostGather, PostStep, PostReject, PostAccept, AddItem, OpenAppend,
       WriteRow, FailAppend, FailWrite, callbackVars, inventoryVars
  <2>2. \A c \in Callbacks : pc'[c] = pc[c]
    BY DEF PostGather, PostStep, PostReject, PostAccept, AddItem, OpenAppend,
       WriteRow, FailAppend, FailWrite, PostGoes, TypeOK
  <2>3. live \subseteq Callbacks
    BY DEF TypeOK
  <2> QED
    BY <2>1, <2>2, <2>3 DEF MachinesStand, ObjectInv, Logged
<1>2. CallsStand
  <2>1. CASE PostGather(p)
    BY <2>1, RequestStands DEF PostGather, PostGoes, scanVars, historyVars
  <2>2. CASE PostReject(p) \/ PostAccept(p) \/ AddItem(p)
    BY <2>2, RequestStands DEF PostReject, PostAccept, AddItem, PostGoes, scanVars,
       historyVars
  <2>3. CASE OpenAppend(p)
    <3>1. \A u \in Populators \ {p} : fd'[u] = fd[u]
      BY <2>3 DEF OpenAppend, TypeOK
    <3> QED
      BY <2>3, <3>1, RequestStands DEF OpenAppend, PostGoes, historyVars
  <2>4. CASE WriteRow(p)
    BY <2>4, RequestStands DEF WriteRow, PostGoes, scanVars, historyVars
  <2>5. CASE FailAppend(p) \/ FailWrite(p)
    BY <2>5, RequestStands DEF FailAppend, FailWrite, PostGoes, scanVars,
       historyVars
  <2> QED
    BY <2>1, <2>2, <2>3, <2>4, <2>5 DEF PostStep
<1>3. FileStands \/ Told
  <2>1. CASE \/ PostGather(p) \/ PostReject(p) \/ PostAccept(p) \/ AddItem(p)
             \/ FailAppend(p) \/ FailWrite(p)
    BY <2>1 DEF PostGather, PostReject, PostAccept, AddItem, FailAppend, FailWrite,
       fileVars, FileStands, Lines
  <2>2. CASE OpenAppend(p)
    BY <2>2, NotifyTells DEF OpenAppend, fileVars, FileStands, Lines
  <2>3. CASE WriteRow(p)
    <3>1. CASE fd[p] = cur
      BY <2>3, <3>1, NotifyTells DEF WriteRow
    <3>2. CASE fd[p] # cur
      <4>1. cur' = cur /\ events' = events
        BY <2>3, <3>2 DEF WriteRow, AppendLine
      <4>2. cur # 0 => content'[cur] = content[cur]
        BY <2>3, <3>2 DEF WriteRow, AppendLine, TypeOK
      <4> QED
        BY <4>1, <4>2 DEF FileStands, Lines
    <3> QED
      BY <3>1, <3>2
  <2> QED
    BY <2>1, <2>2, <2>3 DEF PostStep
<1> QED
  BY <1>1, <1>2, <1>3, SerialFrame

LEMMA SerialCallback ==
    ASSUME IInv, SerialInv, NEW c \in Callbacks,
           LookupMachine(c) \/ CallbackStep(c) \/ (FailEntries(c) /\ ~Crash)
    PROVE  SerialInv'
<1> USE DEF IInv, SerialInv
<1>1. FileStands
  BY DEF LookupMachine, CallbackStep, LogMachine, MarkMachine, WriteEntries,
     FailEntries, fileVars, FileStands, Lines
<1>2. CallsStand
  <2>1. UNCHANGED <<fd, done, map, activePtr, overlapped, raced, failed>>
    BY DEF LookupMachine, CallbackStep, LogMachine, MarkMachine, WriteEntries,
       FailEntries, scanVars, historyVars
  <2>2. /\ pc[c] \in {"new", "log", "mark", "entries"}
        /\ \E x \in CallbackPc : pc' = [pc EXCEPT ![c] = x]
    BY DEF LookupMachine, CallbackStep, LogMachine, MarkMachine, WriteEntries,
       FailEntries, CallbackDone, CallbackPc
  <2>3. c \notin Posts
    OBVIOUS
  <2> QED
    BY <2>1, <2>2, <2>3, RequestStands DEF CallbackPc
<1>3. live \subseteq Callbacks /\ \A d \in Threads \ {c} : pc'[d] = pc[d]
  BY DEF LookupMachine, CallbackStep, LogMachine, MarkMachine, WriteEntries,
     FailEntries, CallbackDone, TypeOK
<1>4. MachinesStand /\ ObjectInv'
  <2>1. CASE LookupMachine(c)
    <3>1. UNCHANGED <<machines, installLog>>
      BY <2>1 DEF LookupMachine, inventoryVars
    <3>2. \/ UNCHANGED callbackVars /\ pc'[c] = "done"
          \/ \E m \in Mac : /\ machines[m] # "absent"
                            /\ target' = [target EXCEPT ![c] = m]
                            /\ live' = live \union {c}
                            /\ pc'[c] = "log"
      BY <2>1 DEF LookupMachine, TypeOK
    <3>3. ASSUME NEW m \in Mac, machines[m] # "absent", pc'[c] = "log",
                 target' = [target EXCEPT ![c] = m], live' = live \union {c}
          PROVE  ObjectInv' /\ MachinesStand
      <4>1. target'[c] = m /\ \A d \in Callbacks \ {c} : target'[d] = target[d]
        BY <3>3 DEF TypeOK
      <4> QED
        BY <1>3, <3>1, <3>3, <4>1 DEF ObjectInv, MachinesStand, Logged
    <3> QED
      BY <1>3, <3>1, <3>2, <3>3 DEF MachinesStand, ObjectInv, Logged, callbackVars
  <2>2. CASE LogMachine(c)
    <3>1. /\ UNCHANGED <<machines, target, live>>
          /\ installLog' = installLog \union {target[c]}
      BY <2>2 DEF LogMachine, LogInstalled, callbackVars
    <3> QED
      BY <1>3, <3>1 DEF MachinesStand, ObjectInv, Logged
  <2>3. CASE MarkMachine(c)
    <3>1. /\ UNCHANGED <<installLog, target, live>>
          /\ machines' = IF c \in live
                         THEN [machines EXCEPT ![target[c]] = "installed"]
                         ELSE machines
          /\ pc[c] = "mark"
      BY <2>3 DEF MarkMachine, MarkInstalled, callbackVars
    <3>2. c \in live => /\ target[c] \in Mac /\ machines[target[c]] # "absent"
                       /\ (Logged => target[c] \in installLog)
      BY <3>1 DEF ObjectInv, Logged
    <3>3. \A m \in Mac : machines'[m] = "absent" <=> machines[m] = "absent"
      BY <3>1, <3>2 DEF TypeOK, InventoryTypeOK
    <3>4. ObjectInv'
      BY <3>1, <3>3 DEF ObjectInv
    <3>5. ASSUME Logged PROVE Logged'
      <4>1. \A m \in Mac : machines'[m] = "installed" => m \in installLog
        BY <3>1, <3>2, <3>5 DEF Logged, TypeOK, InventoryTypeOK
      <4>2. \A d \in live : pc'[d] \in {"mark", "entries"} => target[d] \in installLog
        BY <1>3, <3>1, <3>5 DEF Logged
      <4> QED
        BY <3>1, <4>1, <4>2 DEF Logged
    <3> QED
      BY <3>3, <3>4, <3>5 DEF MachinesStand
  <2>4. CASE WriteEntries(c) \/ (FailEntries(c) /\ ~Crash)
    <3>1. /\ UNCHANGED <<machines, installLog>>
          /\ target' = [target EXCEPT ![c] = Nil]
          /\ live' = live \ {c}
      BY <2>4 DEF WriteEntries, FailEntries, CallbackDone
    <3>2. \A d \in live' : target'[d] = target[d] /\ pc'[d] = pc[d] /\ d \in live
      BY <1>3, <3>1 DEF TypeOK
    <3> QED
      BY <3>1, <3>2 DEF MachinesStand, ObjectInv, Logged
  <2> QED
    BY <2>1, <2>2, <2>3, <2>4 DEF CallbackStep
<1> QED
  BY <1>1, <1>2, <1>4, SerialFrame

LEMMA SerialOperator == IInv /\ SerialInv /\ Operator => SerialInv'
<1> SUFFICES ASSUME IInv, SerialInv, Operator PROVE SerialInv'
  OBVIOUS
<1> USE DEF IInv, SerialInv
<1>1. /\ Notify
      /\ UNCHANGED <<pc, scanVars, activePtr, callbackVars, historyVars, machines,
                     installLog>>
  BY DEF Operator, OperatorSaves, OperatorRemoves, OperatorAppends, inventoryVars
<1>2. CallsStand
  BY <1>1 DEF CallsStand, Populating, scanVars, historyVars
<1>3. MachinesStand /\ ObjectInv'
  BY <1>1 DEF MachinesStand, ObjectInv, Logged, callbackVars
<1> QED
  BY <1>1, <1>2, <1>3, NotifyTells, SerialFrame

LEMMA SerialTakeEvent == IInv /\ SerialInv /\ TakeEvent => SerialInv'
<1> SUFFICES ASSUME IInv, SerialInv, TakeEvent PROVE SerialInv'
  OBVIOUS
<1> USE DEF IInv, SerialInv
<1>1. /\ pc'[Watcher] = "open" /\ pc[Watcher] = "idle"
      /\ \A t \in Threads \ {Watcher} : pc'[t] = pc[t]
  BY DEF TakeEvent, TypeOK
<1>2. Reopening' /\ Rereading'
  BY <1>1 DEF Reopening, Rereading
<1>3. PlaceInv'
  BY <1>1 DEF PlaceInv, Serving
<1>4. Populating' = Populating
  BY <1>1 DEF Populating
<1>5. OverlapInv' /\ ObjectInv'
  BY <1>4 DEF OverlapInv, ObjectInv, TakeEvent, historyVars, callbackVars,
     inventoryVars
<1>6. TableInv'
  <2>1. /\ UNCHANGED <<machines, installLog, live, target, overlapped, map>>
        /\ live \subseteq Callbacks
    BY DEF TakeEvent, historyVars, scanVars, inventoryVars, callbackVars, TypeOK
  <2>2. \A t \in Threads \ {Watcher} : pc'[t] = pc[t]
    BY <1>1
  <2> QED
    BY <1>1, <1>4, <2>1, <2>2 DEF TableInv, Fits, Logged, Populating
<1> QED
  BY <1>2, <1>3, <1>5, <1>6 DEF FreshInv, CurrentInv, ShortRowInv, ReplacedInv,
     FitsInv

LEMMA SerialOpenFile ==
    ASSUME IInv, SerialInv, NEW t \in Populators, OpenFile(t)
    PROVE  SerialInv'
<1> USE DEF IInv, SerialInv
<1>1. /\ pc[t] = "open" /\ pc'[t] = "init" /\ fd'[t] = cur
      /\ Only(t)
      /\ UNCHANGED <<content, cur, events, activePtr, raced, failed, machines,
                     installLog, target, live>>
  BY DEF OpenFile, Only, TypeOK, fileVars, callbackVars, inventoryVars
<1>2. /\ Populating' = Populating \union {t} /\ t \notin Populating
      /\ \A u \in Populating : UNCHANGED <<pc[u], fd[u], done[u], map[u]>>
  BY <1>1 DEF Populating, Only
<1>3. Serving' = Serving /\ Running' = Running
  BY <1>1 DEF Serving, Running, Only
<1>4. PlaceInv'
  BY <1>1, <1>3 DEF PlaceInv, Only
<1>5. Lines(cur)' = Lines(cur) /\ (Current(cur) => Current(cur)')
  BY <1>1 DEF Lines, Current, StandsFor, RowsOf
<1>6. (Rereading => Rereading')
  BY <1>1 DEF Rereading, Only
<1>7. CurrentInv' /\ ReplacedInv'
  BY <1>1, <1>2, <1>3, <1>5, <1>6 DEF CurrentInv, ReplacedInv
<1>8. ShortRowInv'
  <2>1. CASE t \in {Main, Watcher}
    <3>1. ~HasRead(t)' /\ t \in Populating'
      BY <1>1, <1>2 DEF HasRead
    <3> QED
      BY <1>1, <2>1, <3>1 DEF ShortRowInv
  <2>2. CASE t \notin {Main, Watcher}
    <3>1. \A u \in {Main, Watcher} :
            /\ UNCHANGED <<pc[u], fd[u]>> /\ HasRead(u)' = HasRead(u)
            /\ u \in Populating => u \in Populating'
      BY <1>1, <1>2, <2>2 DEF Only, HasRead
    <3> QED
      BY <1>1, <1>3, <1>5, <2>2, <3>1 DEF ShortRowInv, Reopening, WellFormed, Only
  <2> QED
    BY <2>1, <2>2
<1>9. ObjectInv'
  BY <1>1 DEF ObjectInv
<1>10. FitsInv'
  <2>1. Logged => Logged'
    BY <1>1 DEF Logged, Only, TypeOK
  <2> QED
    BY <1>1, <1>2, <1>3, <1>6, <2>1 DEF FitsInv, Fits
<1>11. CASE Populating = {}
  <2>1. Populating' = {t}
    BY <1>2, <1>11
  <2>2. OverlapInv' /\ FreshInv' /\ TableInv'
    BY <1>1, <2>1 DEF OverlapInv, FreshInv, TableInv, HasRead
  <2> QED
    BY <1>4, <1>7, <1>8, <1>9, <1>10, <2>2
<1>12. CASE Populating # {}
  <2>1. Populating' \subseteq overlapped'
    BY <1>2, <1>12 DEF OpenFile
  <2>2. OverlapInv' /\ FreshInv' /\ TableInv'
    BY <2>1 DEF OverlapInv, FreshInv, TableInv
  <2> QED
    BY <1>4, <1>7, <1>8, <1>9, <1>10, <2>2
<1> QED
  BY <1>11, <1>12

\* A step of a running Populate that does not end it.
LEMMA SerialScan ==
    ASSUME IInv, SerialInv, NEW t \in Populators, Only(t),
           t \in Populating, pc[t] # "publish",
           pc'[t] \in {"reset", "scan", "store", "publish"},
           HasRead(t) => HasRead(t)' /\ done'[t] = done[t],
           HasRead(t)' /\ ~HasRead(t) =>
                /\ done'[t] = Len(Lines(fd[t]))
                /\ WellFormed(Lines(fd[t]), Len(Lines(fd[t]))),
           UNCHANGED <<fileVars, events, fd, activePtr, overlapped, raced>>,
           ObjectInv',
           t \notin overlapped => Fits(map[t])' /\ Logged'
    PROVE  SerialInv'
<1> USE DEF IInv, SerialInv
<1>1. /\ Populating' = Populating
      /\ \A u \in Populating \ {t} :
            UNCHANGED <<pc[u], fd[u], done[u], map[u]>> /\ HasRead(u)' = HasRead(u)
  BY DEF Populating, Only, HasRead
<1>2. Serving' = Serving /\ Running' = Running /\ Rereading' = Rereading
      /\ Reopening' = Reopening
  BY DEF Serving, Running, Rereading, Reopening, Only, Populating
<1>3. PlaceInv'
  BY <1>2 DEF PlaceInv, Only, Serving, Populating
<1>4. /\ cur' = cur /\ Lines(cur)' = Lines(cur)
      /\ Current(cur) => Current(cur)'
  BY DEF Lines, Current, StandsFor, RowsOf, fileVars
<1>5. OverlapInv' /\ CurrentInv' /\ ReplacedInv'
  BY <1>1, <1>2, <1>4 DEF OverlapInv, CurrentInv, ReplacedInv
<1>6. FreshInv'
  BY <1>1, <1>2, <1>4 DEF FreshInv
<1>7. ShortRowInv'
  <2> SUFFICES ASSUME Running', ~Reopening',
                      ~WellFormed(Lines(cur), Len(Lines(cur)))'
               PROVE  \E u \in {Main, Watcher} :
                        \/ pc'[u] = "open"
                        \/ (u \in Populating /\ ~HasRead(u) /\ fd[u] = cur)'
    BY DEF ShortRowInv
  <2>1. Running /\ ~Reopening /\ ~WellFormed(Lines(cur), Len(Lines(cur)))
    BY <1>2, <1>4 DEF WellFormed
  <2>2. PICK u \in {Main, Watcher} :
            pc[u] = "open" \/ (u \in Populating /\ ~HasRead(u) /\ fd[u] = cur)
    BY <2>1 DEF ShortRowInv
  <2>3. CASE u = t
    BY <1>1, <1>4, <2>1, <2>2, <2>3 DEF Populating
  <2>4. CASE u # t
    BY <1>1, <1>4, <2>2, <2>4 DEF Only
  <2> QED
    BY <2>3, <2>4
<1>8. TableInv'
  <2> SUFFICES ASSUME NEW u \in Populating \ overlapped
               PROVE  Fits(map[u])' /\ Logged'
    BY <1>1 DEF TableInv
  <2>1. u = t
    BY <1>1 DEF OverlapInv
  <2> QED
    BY <2>1
<1>9. FitsInv'
  <2>1. CASE t = Main
    BY <1>2, <2>1 DEF FitsInv, Serving, Populating
  <2>2. CASE t = Watcher
    BY <2>2 DEF FitsInv, Rereading, Populating
  <2>3. CASE t \in Posts
    BY <1>1, <2>3 DEF FitsInv
  <2> QED
    BY <2>1, <2>2, <2>3
<1> QED
  BY <1>3, <1>5, <1>6, <1>7, <1>8, <1>9

LEMMA SerialSkipHeader ==
    ASSUME IInv, SerialInv, NEW t \in Populators, SkipHeader(t)
    PROVE  SerialInv'
<1> USE DEF IInv
<1>1. /\ pc[t] = "init" /\ pc'[t] = "reset"
      /\ Only(t) /\ t \in Populating /\ ~HasRead(t)
      /\ UNCHANGED <<fileVars, events, fd, activePtr, overlapped, raced>>
  BY DEF SkipHeader, Only, TypeOK, Populating, HasRead
<1>2. done[t] = 0 /\ map'[t] = NoRegistry
  BY <1>1 DEF ScanInv, PopulateInv, SkipHeader
<1>3. Lines(fd[t]) \in Seq(Line)
  BY LinesType DEF TypeOK
<1>4. HasRead(t)' => AtEOF(t) /\ done'[t] = done[t]
  BY <1>1 DEF SkipHeader, TypeOK, HasRead
<1>5. HasRead(t)' =>
        /\ done'[t] = Len(Lines(fd[t]))
        /\ WellFormed(Lines(fd[t]), Len(Lines(fd[t])))
  BY <1>2, <1>3, <1>4 DEF AtEOF, WellFormed
<1>6. ObjectInv' /\ Fits(map[t])' /\ Logged'
  BY <1>2 DEF SkipHeader, ResetMachines, ObjectInv, Fits, Logged, NoMachines,
     NoRegistry
<1> QED
  BY <1>1, <1>5, <1>6, SerialScan

\* The machines were just dropped and, beside a call that runs alone, nobody
\* has filled them, so nobody is on the log's account.
LEMMA SerialEmptyLog ==
    ASSUME IInv, SerialInv, NEW t \in Populators, EmptyLog(t)
    PROVE  SerialInv'
<1> USE DEF IInv, SerialInv
<1>1. /\ pc[t] = "reset" /\ pc'[t] = IF done[t] = 0 THEN "publish" ELSE "scan"
      /\ Only(t) /\ t \in Populating
      /\ UNCHANGED <<fileVars, events, fd, done, map, activePtr, overlapped, raced,
                     machines, target, live>>
  BY DEF EmptyLog, Only, TypeOK, Populating, scanVars, historyVars, callbackVars
<1>2. HasRead(t)' = HasRead(t) /\ done'[t] = done[t]
  BY <1>1 DEF HasRead
<1>3. ObjectInv'
  BY <1>1 DEF ObjectInv
<1>4. ASSUME t \notin overlapped PROVE Fits(map[t])' /\ Logged'
  <2>1. Fits(map[t]) /\ map[t] = NoRegistry
    BY <1>1, <1>4 DEF TableInv, ScanInv, PopulateInv
  <2>2. \A m \in Mac : machines[m] = "absent"
    BY <2>1 DEF Fits, NoRegistry
  <2>3. live = {}
    BY <2>2 DEF ObjectInv
  <2> QED
    BY <1>1, <2>1, <2>2, <2>3 DEF Fits, Logged
<1> QED
  BY <1>1, <1>2, <1>3, <1>4, SerialScan

LEMMA SerialScanRow ==
    ASSUME IInv, SerialInv, NEW t \in Populators, ScanRow(t)
    PROVE  SerialInv'
<1> USE DEF IInv, SerialInv
<1>1. /\ pc[t] = "scan" /\ pc'[t] = "store"
      /\ Only(t) /\ t \in Populating /\ ~HasRead(t) /\ ~HasRead(t)'
      /\ UNCHANGED <<fileVars, events, scanVars, activePtr, overlapped, raced,
                     machines, installLog, target, live>>
  BY DEF ScanRow, Only, TypeOK, callbackVars, scanVars, Populating, HasRead
<1>2. ObjectInv' /\ (Logged => Logged')
  BY <1>1 DEF ObjectInv, Logged, Only, TypeOK
<1>3. t \notin overlapped => Fits(map[t])' /\ Logged'
  BY <1>1, <1>2 DEF TableInv, Fits, scanVars
<1> QED
  BY <1>1, <1>2, <1>3, SerialScan DEF scanVars

LEMMA SerialStoreRow ==
    ASSUME IInv, SerialInv, NEW t \in Populators, StoreRow(t)
    PROVE  SerialInv'
<1> USE DEF IInv, SerialInv
<1> DEFINE row == NextLine(t)
<1>1. /\ pc[t] = "store" /\ pc'[t] = "scan"
      /\ Only(t) /\ t \in Populating /\ ~HasRead(t) /\ ~HasRead(t)'
      /\ UNCHANGED <<fileVars, events, fd, activePtr, overlapped, raced, target,
                     installLog>>
      /\ machines' = [machines EXCEPT ![row.mac] = "pending"]
      /\ live' = {c \in live : target[c] # row.mac}
      /\ map' = [map EXCEPT ![t][row.mac] = row.ip]
  BY DEF StoreRow, StoreMachine, Only, TypeOK, historyVars, Populating, HasRead
<1>2. row.mac \in Mac /\ row.ip \in IP
  BY <1>1 DEF ScanInv, PopulateInv, FullRow
<1> HIDE DEF row
<1>3. ObjectInv'
  BY <1>1, <1>2 DEF ObjectInv, TypeOK, InventoryTypeOK
<1>4. ASSUME t \notin overlapped PROVE Fits(map[t])' /\ Logged'
  <2>1. Fits(map[t]) /\ Logged
    BY <1>1, <1>4 DEF TableInv
  <2>2. map'[t] = [map[t] EXCEPT ![row.mac] = row.ip] /\ map[t] \in Registry
    BY <1>1 DEF TypeOK
  <2>3. Fits(map[t])'
    BY <1>1, <1>2, <2>1, <2>2 DEF Fits, Registry, TypeOK, InventoryTypeOK
  <2>4. Logged'
    <3>1. \A m \in Mac : machines'[m] = "installed" => machines[m] = "installed"
      BY <1>1, <1>2 DEF TypeOK, InventoryTypeOK
    <3>2. \A c \in live' : c \in live /\ pc'[c] = pc[c]
      BY <1>1 DEF Only, TypeOK
    <3> QED
      BY <1>1, <2>1, <3>1, <3>2 DEF Logged
  <2> QED
    BY <2>3, <2>4
<1> QED
  BY <1>1, <1>3, <1>4, SerialScan

LEMMA SerialScanEnd ==
    ASSUME IInv, SerialInv, NEW t \in Populators, ScanEnd(t)
    PROVE  SerialInv'
<1> USE DEF IInv, SerialInv
<1>1. /\ pc[t] = "scan" /\ pc'[t] = "publish" /\ AtEOF(t)
      /\ Only(t) /\ t \in Populating /\ ~HasRead(t)
      /\ UNCHANGED <<fileVars, events, scanVars, activePtr, overlapped, raced,
                     machines, installLog, target, live>>
  BY DEF ScanEnd, Only, TypeOK, historyVars, callbackVars, scanVars, inventoryVars,
     Populating, HasRead
<1>2. /\ done[t] \in Nat /\ Lines(fd[t]) \in Seq(Line)
      /\ done[t] <= Len(Lines(fd[t]))
      /\ WellFormed(Lines(fd[t]), done[t])
  BY <1>1, LinesType DEF ScanInv, PopulateInv, TypeOK
<1>3. done[t] = Len(Lines(fd[t])) /\ done'[t] = done[t]
  BY <1>1, <1>2 DEF AtEOF, scanVars
<1>4. ObjectInv' /\ (Logged => Logged')
  BY <1>1 DEF ObjectInv, Logged, Only, TypeOK
<1>5. t \notin overlapped => Fits(map[t])' /\ Logged'
  BY <1>1, <1>4 DEF TableInv, Fits, scanVars
<1> QED
  BY <1>1, <1>2, <1>3, <1>4, <1>5, SerialScan DEF scanVars

\* A Populate that ends leaves the rest as it was: the parts that do not speak
\* of the published registry.
LEMMA SerialLeave ==
    ASSUME IInv, SerialInv, NEW t \in Populators, Only(t),
           t \in Posts \/ pc[t] = "publish", t \in Populating,
           pc'[t] = PcAfterPopulate(t), DropLocals(t),
           UNCHANGED <<fileVars, events, machines, installLog, target, live>>
    PROVE  /\ PlaceInv' /\ OverlapInv' /\ FreshInv' /\ ShortRowInv'
           /\ ObjectInv' /\ TableInv'
           /\ Populating' = Populating \ {t}
           /\ t # Watcher => Rereading' = Rereading
           /\ t # Main => Serving' = Serving
           /\ Logged => Logged'
<1> USE DEF IInv, SerialInv
<1>1. /\ Populating' = Populating \ {t}
      /\ overlapped' = overlapped \ {t}
      /\ \A u \in Populating \ {t} :
            UNCHANGED <<pc[u], fd[u], done[u], map[u]>> /\ HasRead(u)' = HasRead(u)
  BY DEF Populating, Only, PcAfterPopulate, DropLocals, HasRead
<1>2. Running' = Running /\ Reopening' = Reopening
  BY DEF Running, Reopening, Only, PcAfterPopulate, Populating
<1>3. /\ t # Watcher => Rereading' = Rereading
      /\ t # Main => Serving' = Serving
  BY DEF Rereading, Serving, Only
<1>4. PlaceInv'
  BY DEF PlaceInv, Only, PcAfterPopulate, Serving
<1>5. cur' = cur /\ Lines(cur)' = Lines(cur)
  BY DEF Lines, fileVars
<1>6. OverlapInv'
  BY <1>1 DEF OverlapInv
<1>7. FreshInv'
  BY <1>1, <1>2, <1>5 DEF FreshInv
<1>8. ObjectInv' /\ (Logged => Logged')
  BY DEF ObjectInv, Logged, Only, TypeOK
<1>9. TableInv'
  BY <1>1, <1>8 DEF TableInv, Fits
<1>10. ShortRowInv'
  <2> SUFFICES ASSUME Running', ~Reopening',
                      ~WellFormed(Lines(cur), Len(Lines(cur)))'
               PROVE  \E u \in {Main, Watcher} :
                        \/ pc'[u] = "open"
                        \/ (u \in Populating /\ ~HasRead(u) /\ fd[u] = cur)'
    BY DEF ShortRowInv
  <2>1. Running /\ ~Reopening /\ ~WellFormed(Lines(cur), Len(Lines(cur)))
    BY <1>2, <1>5 DEF WellFormed
  <2>2. PICK u \in {Main, Watcher} :
            pc[u] = "open" \/ (u \in Populating /\ ~HasRead(u) /\ fd[u] = cur)
    BY <2>1 DEF ShortRowInv
  <2>3. u # t
    BY <2>2 DEF HasRead, Populating
  <2> QED
    BY <1>1, <1>5, <2>2, <2>3 DEF Only
<1> QED
  BY <1>1, <1>3, <1>4, <1>6, <1>7, <1>8, <1>9, <1>10

\* A POST whose Populate panics half way leaves an inventory the watcher will
\* fill again: the row it panicked on is in the file the watcher was told of.
LEMMA SerialShortRow ==
    ASSUME IInv, SerialInv, NEW t \in Populators, ScanShortRow(t), ~Crash
    PROVE  SerialInv'
<1> USE DEF IInv, SerialInv
<1>1. /\ t \in Posts /\ pc[t] = "scan" /\ pc'[t] = "done"
      /\ Only(t) /\ DropLocals(t)
      /\ UNCHANGED <<fileVars, events, activePtr, raced, failed, machines,
                     installLog, target, live>>
      /\ ~AtEOF(t) /\ NextLine(t) \notin FullRow
  BY DEF ScanShortRow, DropLocals, Only, TypeOK, callbackVars, inventoryVars
<1>2. t \in Populating /\ pc'[t] = PcAfterPopulate(t)
  BY <1>1 DEF Populating, PcAfterPopulate
<1>3. /\ PlaceInv' /\ OverlapInv' /\ FreshInv' /\ ShortRowInv'
      /\ ObjectInv' /\ TableInv'
      /\ Populating' = Populating \ {t}
      /\ Rereading' = Rereading /\ Serving' = Serving
  BY <1>1, <1>2, SerialLeave
<1>4. CurrentInv'
  BY <1>1, <1>3 DEF CurrentInv, Current, StandsFor, RowsOf, Lines, fileVars
<1>5. ReplacedInv'
  BY <1>1, <1>3 DEF ReplacedInv, Only, Populating, fileVars
<1>6. ASSUME Serving, ~raced PROVE Rereading
  <2>1. CASE fd[t] # cur
    BY <1>2, <1>6, <2>1 DEF ReplacedInv
  <2>2. CASE fd[t] = cur
    <3>1. /\ done[t] \in Nat \ {0} /\ Lines(fd[t]) \in Seq(Line)
          /\ done[t] < Len(Lines(fd[t]))
      <4>1. done[t] \in Nat /\ Lines(fd[t]) \in Seq(Line)
        BY LinesType DEF TypeOK
      <4>2. done[t] >= 1
        BY <1>1 DEF ScanInv, PopulateInv
      <4> QED
        BY <1>1, <4>1, <4>2 DEF AtEOF
    <3>2. ~WellFormed(Lines(cur), Len(Lines(cur)))
      BY <1>1, <2>2, <3>1 DEF WellFormed, NextLine
    <3>3. CASE Reopening
      BY <3>3 DEF Reopening, Rereading
    <3>4. CASE ~Reopening
      BY <1>6, <3>2, <3>4 DEF ShortRowInv, Rereading, Serving, Running, Populating
    <3> QED
      BY <3>3, <3>4
  <2> QED
    BY <2>1, <2>2
<1>7. FitsInv'
  BY <1>1, <1>3, <1>6 DEF FitsInv
<1> QED
  BY <1>3, <1>4, <1>5, <1>7

\* A POST whose Populate cannot write an entry leaves the registry, and an
\* inventory nobody vouches for.
LEMMA SerialFailRow ==
    ASSUME IInv, SerialInv, NEW t \in Populators, FailRow(t), ~Crash
    PROVE  SerialInv'
<1> USE DEF IInv, SerialInv
<1>1. /\ t \in Posts /\ pc[t] = "scan" /\ pc'[t] = "done"
      /\ Only(t) /\ DropLocals(t) /\ failed'
      /\ UNCHANGED <<fileVars, events, activePtr, raced, machines, installLog,
                     target, live>>
  BY DEF FailRow, DropLocals, Only, TypeOK, callbackVars
<1>2. t \in Populating /\ pc'[t] = PcAfterPopulate(t)
  BY <1>1 DEF Populating, PcAfterPopulate
<1>3. /\ PlaceInv' /\ OverlapInv' /\ FreshInv' /\ ShortRowInv'
      /\ ObjectInv' /\ TableInv'
      /\ Populating' = Populating \ {t}
      /\ Rereading' = Rereading /\ Serving' = Serving
  BY <1>1, <1>2, SerialLeave
<1>4. CurrentInv'
  BY <1>1, <1>3 DEF CurrentInv, Current, StandsFor, RowsOf, Lines, fileVars
<1>5. ReplacedInv'
  BY <1>1, <1>3 DEF ReplacedInv, Only, Populating, fileVars
<1>6. FitsInv'
  BY <1>1 DEF FitsInv
<1> QED
  BY <1>3, <1>4, <1>5, <1>6

\* A call that ran alone publishes what the file stands for and what the
\* inventory holds.
LEMMA SerialPublish ==
    ASSUME IInv, SerialInv, NEW t \in Populators, Publish(t)
    PROVE  SerialInv'
<1> USE DEF IInv, SerialInv
<1>1. /\ pc[t] = "publish" /\ pc'[t] = PcAfterPopulate(t)
      /\ Only(t) /\ DropLocals(t)
      /\ activePtr' = map[t] /\ raced' = (t \in overlapped)
      /\ UNCHANGED <<fileVars, events, failed, machines, installLog, target, live>>
  BY DEF Publish, DropLocals, Only, TypeOK, callbackVars, inventoryVars
<1>2. t \in Populating
  BY <1>1 DEF Populating
<1>3. /\ PlaceInv' /\ OverlapInv' /\ FreshInv' /\ ShortRowInv'
      /\ ObjectInv' /\ TableInv'
      /\ Populating' = Populating \ {t}
      /\ Logged => Logged'
  BY <1>1, <1>2, SerialLeave
<1> SUFFICES ASSUME ~raced' PROVE CurrentInv' /\ ReplacedInv' /\ FitsInv'
  BY <1>3 DEF CurrentInv, ReplacedInv, FitsInv
<1>4. t \in Populating \ overlapped
  BY <1>1, <1>2
<1>5. Populating' = {}
  BY <1>3, <1>4 DEF OverlapInv
<1>6. ReplacedInv'
  BY <1>5 DEF ReplacedInv
<1>7. Fits(activePtr)' /\ Logged'
  BY <1>1, <1>3, <1>4 DEF TableInv, Fits
<1>8. Rereading' \/ Current(cur)'
  <2>1. CASE Reopening
    BY <1>1, <2>1 DEF Reopening, Rereading, Only
  <2>2. CASE ~Reopening
    <3>1. fd[t] = cur /\ done[t] = Len(Lines(cur))
      BY <1>1, <1>4, <2>2 DEF FreshInv, HasRead
    <3>2. StandsFor(Lines(cur), Len(Lines(cur)), map[t]) /\ map[t] # Nil
      BY <1>1, <3>1 DEF ScanInv, PopulateInv, TypeOK
    <3> QED
      BY <1>1, <3>2 DEF Current, StandsFor, RowsOf, Lines, fileVars
  <2> QED
    BY <2>1, <2>2
<1> QED
  BY <1>6, <1>7, <1>8 DEF CurrentInv, FitsInv

LEMMA SerialStutter == IInv /\ SerialInv /\ UNCHANGED vars => SerialInv'
<1> SUFFICES ASSUME IInv, SerialInv, UNCHANGED vars PROVE SerialInv'
  OBVIOUS
<1>1. FileStands /\ CallsStand
  BY DEF vars, fileVars, scanVars, historyVars, FileStands, CallsStand, Lines,
         Populating
<1>2. MachinesStand /\ ObjectInv'
  BY DEF SerialInv, vars, callbackVars, inventoryVars, MachinesStand, ObjectInv,
     Logged
<1> QED
  BY <1>1, <1>2, SerialFrame

LEMMA SerialNext == IInv /\ SerialInv /\ [Next]_vars => SerialInv'
<1> SUFFICES ASSUME IInv, SerialInv, [Next]_vars PROVE SerialInv'
  OBVIOUS
<1>1. CASE Crash
  BY <1>1, SerialCrash
<1>2. ASSUME NEW t \in Populators, PopulateStep(t), ~Crash PROVE SerialInv'
  BY <1>2, SerialOpenFile, SerialSkipHeader, SerialEmptyLog, SerialScanRow,
     SerialStoreRow, SerialShortRow, SerialScanEnd, SerialPublish DEF PopulateStep
<1>3. ASSUME NEW p \in Posts,
             PostGather(p) \/ PostStep(p) \/ FailAppend(p) \/ FailWrite(p)
      PROVE  SerialInv'
  BY <1>3, SerialRequest
<1>4. ASSUME NEW c \in Callbacks,
             LookupMachine(c) \/ CallbackStep(c) \/ (FailEntries(c) /\ ~Crash)
      PROVE  SerialInv'
  BY <1>4, SerialCallback
<1>5. ASSUME NEW t \in Populators, FailRow(t), ~Crash PROVE SerialInv'
  BY <1>5, SerialFailRow
<1>6. CASE Start \/ Operator \/ TakeEvent \/ UNCHANGED vars
  BY <1>6, SerialStart, SerialOperator, SerialTakeEvent, SerialStutter
<1> QED
  BY <1>1, <1>2, <1>3, <1>4, <1>5, <1>6 DEF Next, WorkerNext, Fault, MapRace, Kill

LEMMA SerialInvariance == Spec => []SerialInv
BY SerialInit, SerialNext, Invariance, PTL DEF Spec

-----------------------------------------------------------------------------
(* The two properties.                                                     *)

\* Settled leaves no goroutine in Populate and no event to come.
LEMMA SettledMeans ==
    IInv /\ SerialInv /\ Settled => Serving /\ ~Rereading /\ Populating = {}
<1> SUFFICES ASSUME IInv, SerialInv, Settled
             PROVE  Serving /\ ~Rereading /\ Populating = {}
  OBVIOUS
<1>1. Serving /\ Populating = {} /\ events = 0 /\ pc[Watcher] # "open"
  BY DEF Settled, Populating
<1>2. pc[Watcher] \notin {"off", "init", "reset", "scan", "store", "publish"}
  BY <1>1 DEF IInv, ScanInv, Serving, Populating
<1>3. pc[Watcher] = "idle"
  BY <1>1, <1>2 DEF SerialInv, PlaceInv
<1> QED
  BY <1>1, <1>3 DEF Rereading

\* Once every event is read and no Populate runs, a registry published by a
\* call that ran alone is the one the file stands for: an edit, an append or a
\* removal that falls anywhere in a scan is never lost.
THEOREM RegistryFollowsFile == Spec => []SerialRegistryIsCurrent
<1>1. IInv /\ SerialInv => SerialRegistryIsCurrent
  BY SettledMeans DEF SerialInv, CurrentInv, SerialRegistryIsCurrent
<1> QED
  BY <1>1, Invariance, SerialInvariance, PTL

\* In the same states the inventory holds the clients of the registry and no
\* others, and calls nobody installed who is not in the log, although a POST's
\* Populate may have panicked on a row in the middle of it: unless one could not
\* write an entry and nobody has filled the inventory since.
THEOREM InventoryFollowsRegistry == Spec => []SerialInventoryAgrees
<1>1. IInv /\ SerialInv => SerialInventoryAgrees
  BY SettledMeans DEF SerialInv, FitsInv, Fits, Logged, SerialInventoryAgrees
<1> QED
  BY <1>1, Invariance, SerialInvariance, PTL

-----------------------------------------------------------------------------
(* The registry does not go back.                                          *)

\* The name is on the last file that was given it, or on none; what is
\* published is in its file; and a call that runs alone reads no earlier file
\* than the published one and ends no earlier in it.
ForwardInv ==
    /\ cur \in {0, used}
    /\ source.lines <= Len(Lines(source.inode))
    /\ \A t \in Populating \ overlapped : fd[t] # 0 =>
        /\ source.inode <= fd[t]
        /\ HasRead(t) /\ fd[t] = source.inode => source.lines <= done[t]

LEMMA NameIsOnLastFile ==
    ASSUME IInv, cur \in {0, used}, [Next]_vars
    PROVE  cur' \in {0, used'}
<1>1. CASE UNCHANGED <<used, cur>>
  BY <1>1
<1>2. CASE \E lines \in Seq(Line) : PutFile(lines)
  BY <1>2 DEF PutFile
<1>3. CASE Operator
  <2>1. CASE OperatorSaves
    BY <1>2, <2>1 DEF OperatorSaves
  <2>2. CASE OperatorRemoves \/ OperatorAppends
    BY <2>2 DEF OperatorRemoves, OperatorAppends, AppendLine
  <2> QED
    BY <1>3, <2>1, <2>2 DEF Operator
<1>4. CASE Crash \/ Start \/ TakeEvent \/ UNCHANGED vars
  BY <1>1, <1>4 DEF Crash, Start, TakeEvent, vars, fileVars
<1>5. ASSUME NEW t \in Populators, PopulateStep(t), ~Crash
      PROVE  UNCHANGED <<used, cur>>
  BY <1>5 DEF PopulateStep, OpenFile, SkipHeader, EmptyLog, ScanRow, StoreRow,
     ScanShortRow, ScanEnd, Publish, fileVars
<1>6. ASSUME NEW p \in Posts,
             PostGather(p) \/ PostStep(p) \/ FailAppend(p) \/ FailWrite(p)
      PROVE  cur' \in {0, used'}
  <2>1. CASE OpenAppend(p)
    <3>1. << >> \in Seq(Line)
      OBVIOUS
    <3> QED
      BY <1>1, <1>2, <2>1, <3>1 DEF OpenAppend, fileVars
  <2>2. CASE WriteRow(p)
    BY <1>1, <2>2 DEF WriteRow, AppendLine
  <2>3. CASE \/ PostGather(p) \/ PostReject(p) \/ PostAccept(p) \/ AddItem(p)
             \/ FailAppend(p) \/ FailWrite(p)
    BY <1>1, <2>3 DEF PostGather, PostReject, PostAccept, AddItem, FailAppend,
       FailWrite, fileVars
  <2> QED
    BY <1>6, <2>1, <2>2, <2>3 DEF PostStep
<1>7. ASSUME NEW c \in Callbacks,
             LookupMachine(c) \/ CallbackStep(c) \/ (FailEntries(c) /\ ~Crash)
      PROVE  UNCHANGED <<used, cur>>
  BY <1>7 DEF LookupMachine, CallbackStep, LogMachine, MarkMachine, WriteEntries,
     FailEntries, fileVars
<1>8. ASSUME NEW t \in Populators, FailRow(t), ~Crash PROVE UNCHANGED <<used, cur>>
  BY <1>8 DEF FailRow, fileVars
<1> QED
  BY <1>1, <1>3, <1>4, <1>5, <1>6, <1>7, <1>8
     DEF Next, WorkerNext, Fault, MapRace, Kill

\* A call of Populate that runs alone goes on with the file it has, and is done
\* with it at its end, or has just opened the file that has the name.
Onward(u) ==
    \/ /\ u \in Populating \ overlapped
       /\ fd'[u] = fd[u]
       /\ HasRead(u)' => done'[u] = done[u] /\ (HasRead(u) \/ AtEOF(u))
    \/ fd'[u] = cur /\ pc'[u] = "init"

LEMMA OnwardPopulate ==
    ASSUME IInv, NEW t \in Populators, PopulateStep(t) \/ FailRow(t), ~Crash,
           NEW u \in (Populating \ overlapped)'
    PROVE  Onward(u)
<1> USE DEF IInv
<1>1. Only(t) /\ overlapped \subseteq overlapped' \union {t}
  <2>1. CASE OpenFile(t) \/ SkipHeader(t)
    BY <2>1 DEF OpenFile, SkipHeader, Only, TypeOK, historyVars
  <2>2. CASE EmptyLog(t) \/ ScanRow(t) \/ ScanEnd(t)
    BY <2>2 DEF EmptyLog, ScanRow, ScanEnd, Only, TypeOK, scanVars, historyVars
  <2>3. CASE StoreRow(t)
    BY <2>3 DEF StoreRow, Only, TypeOK, historyVars
  <2>4. CASE ScanShortRow(t) \/ FailRow(t) \/ Publish(t)
    BY <2>4 DEF ScanShortRow, FailRow, Publish, DropLocals, Only, TypeOK
  <2> QED
    BY <2>1, <2>2, <2>3, <2>4 DEF PopulateStep
<1>2. CASE u # t
  BY <1>1, <1>2 DEF Onward, Only, Populating, HasRead
<1>3. CASE u = t
  <2>1. CASE OpenFile(t)
    BY <1>3, <2>1 DEF OpenFile, Onward, TypeOK
  <2>2. CASE SkipHeader(t)
    BY <1>3, <2>2 DEF SkipHeader, Onward, TypeOK, Populating, HasRead
  <2>3. CASE EmptyLog(t) \/ ScanRow(t) \/ ScanEnd(t)
    BY <1>3, <2>3 DEF EmptyLog, ScanRow, ScanEnd, Onward, TypeOK, Populating,
       HasRead, scanVars, historyVars
  <2>4. CASE StoreRow(t)
    BY <1>3, <2>4 DEF StoreRow, Onward, TypeOK, Populating, HasRead, historyVars
  <2>5. CASE ScanShortRow(t) \/ FailRow(t)
    BY <1>3, <2>5 DEF ScanShortRow, FailRow, TypeOK, Populating
  <2>6. CASE Publish(t)
    BY <1>3, <2>6 DEF Publish, PcAfterPopulate, TypeOK, Populating
  <2> QED
    BY <2>1, <2>2, <2>3, <2>4, <2>5, <2>6 DEF PopulateStep
<1> QED
  BY <1>2, <1>3

LEMMA OnwardNext ==
    ASSUME IInv, [Next]_vars, ~Crash, NEW u \in (Populating \ overlapped)'
    PROVE  Onward(u)
<1> USE DEF IInv
<1>1. ASSUME NEW t \in Populators, PopulateStep(t) \/ FailRow(t) PROVE Onward(u)
  BY <1>1, OnwardPopulate
<1>2. ASSUME NEW t \in Threads, NEW x, pc' = [pc EXCEPT ![t] = x],
             x \notin {"init", "reset", "scan", "store", "publish"},
             \A v \in Populators \ {t} : fd'[v] = fd[v],
             UNCHANGED <<done, overlapped>>
      PROVE  Onward(u)
  BY <1>2 DEF Onward, Populating, TypeOK, HasRead
<1>3. ASSUME NEW p \in Posts,
             PostGather(p) \/ PostStep(p) \/ FailAppend(p) \/ FailWrite(p)
      PROVE  Onward(u)
  <2>1. CASE OpenAppend(p)
    <3>1. \A v \in Populators \ {p} : fd'[v] = fd[v]
      BY <2>1 DEF OpenAppend, TypeOK
    <3> QED
      BY <1>2, <2>1, <3>1 DEF OpenAppend, PostGoes, historyVars
  <2>2. CASE AddItem(p)
    BY <1>2, <2>2 DEF AddItem, PostGoes, scanVars, historyVars
  <2>3. CASE \/ PostGather(p) \/ PostReject(p) \/ PostAccept(p) \/ WriteRow(p)
             \/ FailAppend(p) \/ FailWrite(p)
    BY <1>2, <2>3 DEF PostGather, PostReject, PostAccept, WriteRow, FailAppend,
       FailWrite, PostGoes, scanVars, historyVars
  <2> QED
    BY <1>3, <2>1, <2>2, <2>3 DEF PostStep
<1>4. ASSUME NEW c \in Callbacks,
             LookupMachine(c) \/ CallbackStep(c) \/ (FailEntries(c) /\ ~Crash)
      PROVE  Onward(u)
  <2>1. /\ UNCHANGED <<fd, done, overlapped>>
        /\ \E x \in CallbackPc : pc' = [pc EXCEPT ![c] = x]
    BY <1>4 DEF LookupMachine, CallbackStep, LogMachine, MarkMachine, WriteEntries,
       FailEntries, CallbackDone, CallbackPc, scanVars, historyVars
  <2>2. \A v \in Populators \ {c} : fd'[v] = fd[v]
    BY <2>1
  <2> QED
    BY <1>2, <2>1, <2>2 DEF CallbackPc
<1>5. CASE Operator \/ UNCHANGED vars
  BY <1>5 DEF Operator, OperatorSaves, OperatorRemoves, OperatorAppends, vars,
     scanVars, historyVars, Onward, Populating, HasRead
<1>6. CASE Start \/ TakeEvent
  BY <1>6 DEF Start, TakeEvent, scanVars, historyVars, Onward, Populating, TypeOK,
     HasRead
<1> QED
  BY <1>1, <1>3, <1>4, <1>5, <1>6 DEF Next, WorkerNext, Fault, MapRace, Kill

LEMMA ForwardInit == Init => ForwardInv
BY DEF Init, ForwardInv, NoSource, Lines, Populating

\* A step that publishes nothing.
LEMMA ForwardFrame ==
    ASSUME IInv, TypeOK', ForwardInv, [Next]_vars, ~Crash, UNCHANGED source
    PROVE  ForwardInv'
<1> USE DEF IInv
<1>1. cur' \in {0, used'}
  BY NameIsOnLastFile DEF ForwardInv
<1>2. source.inode \in 0..used /\ source.lines \in Nat
  BY DEF TypeOK
<1>3. Len(Lines(source.inode)) <= Len(Lines(source.inode)')
  BY <1>2, AppendGrows DEF Grow, Extends, Lines
<1>4. (source.lines <= Len(Lines(source.inode)))'
  <2>1. Len(Lines(source.inode)) \in Nat
    BY <1>2, LinesType
  <2>2. source.lines <= Len(Lines(source.inode))
    BY DEF ForwardInv
  <2>3. Len(Lines(source.inode)') \in Nat
    <3>1. Lines(source.inode)' \in Seq(Line)
      BY DEF TypeOK, Lines
    <3> QED
      BY <3>1
  <2> QED
    BY <1>2, <1>3, <2>1, <2>2, <2>3
<1>5. ASSUME NEW t \in (Populating \ overlapped)', fd'[t] # 0
      PROVE  /\ source.inode <= fd'[t]
             /\ HasRead(t)' /\ fd'[t] = source.inode
                    => source.lines <= done'[t]
  <2>0. t \in Populators
    BY DEF Populating
  <2>1. Onward(t)
    BY <1>5, OnwardNext
  <2>2. CASE fd'[t] = cur /\ pc'[t] = "init"
    BY <1>2, <1>5, <2>2 DEF ForwardInv, TypeOK, HasRead
  <2>3. CASE /\ t \in Populating \ overlapped
             /\ fd'[t] = fd[t]
             /\ HasRead(t)' => done'[t] = done[t] /\ (HasRead(t) \/ AtEOF(t))
    <3>1. /\ source.inode <= fd[t]
          /\ HasRead(t) /\ fd[t] = source.inode => source.lines <= done[t]
      BY <1>5, <2>3 DEF ForwardInv
    <3>2. ASSUME AtEOF(t), fd[t] = source.inode PROVE source.lines <= done[t]
      <4>1. Len(Lines(fd[t])) \in Nat /\ done[t] \in Nat
        BY <1>2, <2>0, <3>2, LinesType DEF TypeOK
      <4> QED
        BY <1>2, <3>2, <4>1 DEF ForwardInv, AtEOF
    <3> QED
      BY <2>3, <3>1, <3>2
  <2> QED
    BY <2>1, <2>2, <2>3 DEF Onward
<1> QED
  BY <1>1, <1>4, <1>5 DEF ForwardInv

\* What a call publishes is in the file it has read; no other call that runs
\* beside it runs alone.
LEMMA ForwardPublish ==
    ASSUME IInv, SerialInv, ForwardInv, NEW t \in Populators, Publish(t)
    PROVE  ForwardInv'
<1> USE DEF IInv
<1>1. /\ source' = [inode |-> fd[t], lines |-> done[t]]
      /\ overlapped' = overlapped \ {t}
      /\ pc[t] = "publish"
      /\ UNCHANGED <<content, used, cur>>
  BY DEF Publish, DropLocals, fileVars
<1>2. pc'[t] \in {"serve", "idle", "done"} /\ \A u \in Threads \ {t} : pc'[u] = pc[u]
  BY DEF Publish, PcAfterPopulate, TypeOK
<1>3. t \in Populating /\ Populating' = Populating \ {t}
  BY <1>1, <1>2 DEF Populating
<1>4. (Populating \ overlapped)' = {}
  BY <1>1, <1>3 DEF SerialInv, OverlapInv
<1>5. done[t] <= Len(Lines(fd[t]))
  BY <1>1 DEF ScanInv, PopulateInv
<1>6. (source.lines <= Len(Lines(source.inode)))'
  BY <1>1, <1>5 DEF Lines
<1> QED
  BY <1>1, <1>4, <1>6 DEF ForwardInv

LEMMA ForwardCrash == ForwardInv /\ Crash => ForwardInv'
<1> SUFFICES ASSUME ForwardInv, Crash PROVE ForwardInv'
  OBVIOUS
<1>1. \A t \in Threads : pc'[t] \in {"off", "new", "done"}
  BY DEF Crash, PcAfterCrash
<1>2. Populating' = {}
  BY <1>1 DEF Populating
<1>3. source' = NoSource /\ UNCHANGED <<used, cur>>
  BY DEF Crash, fileVars
<1>4. (source.lines <= Len(Lines(source.inode)))'
  BY <1>3 DEF NoSource, Lines
<1> QED
  BY <1>2, <1>3, <1>4 DEF ForwardInv

LEMMA ForwardInvariance == Spec => []ForwardInv
<1>1. IInv /\ IInv' /\ SerialInv /\ ForwardInv /\ [Next]_vars => ForwardInv'
  BY OnlyPublish, ForwardFrame, ForwardPublish, ForwardCrash DEF IInv
<1> QED
  BY <1>1, ForwardInit, Invariance, SerialInvariance, PTL DEF Spec

\* A call of Populate that ran alone never takes the registry back to an
\* earlier file, nor to an earlier part of the same one: neither a save nor an
\* append that falls in its scan, nor a handler's own row in a replaced file.
THEOREM RegistryNeverGoesBack == Spec => RegistryMovesForward
<1> DEFINE Forward == \/ raced'
                      \/ source'.inode = 0
                      \/ source.inode < source'.inode
                      \/ /\ source.inode = source'.inode
                         /\ source.lines <= source'.lines
<1>1. ASSUME IInv, ForwardInv, [Next]_vars, source' # source
      PROVE  Forward
  <2>1. CASE Crash
    BY <2>1 DEF Crash, NoSource
  <2>2. ASSUME NEW t \in Populators, Publish(t), ~raced', fd[t] # 0
        PROVE  Forward
    <3>1. /\ source' = [inode |-> fd[t], lines |-> done[t]]
          /\ pc[t] = "publish" /\ t \notin overlapped
      BY <2>2 DEF Publish
    <3>2. t \in Populating \ overlapped
      BY <3>1 DEF Populating
    <3>3. source.inode \in Int /\ fd[t] \in Int
      <4>1. source.inode \in 0..used /\ fd[t] \in 0..used
        BY <1>1 DEF IInv, TypeOK
      <4> QED
        BY <4>1
    <3>4. /\ source.inode <= fd[t]
          /\ fd[t] = source.inode => source.lines <= done[t]
      BY <1>1, <2>2, <3>1, <3>2 DEF ForwardInv, HasRead
    <3>5. source'.inode = fd[t] /\ source'.lines = done[t]
      BY <3>1
    <3> QED
      BY <3>3, <3>4, <3>5
  <2>3. ASSUME NEW t \in Populators, Publish(t), fd[t] = 0 PROVE Forward
    BY <2>3 DEF Publish
  <2> QED
    BY <1>1, <2>1, <2>2, <2>3, OnlyPublish
<1>2. IInv /\ ForwardInv /\ [Next]_vars =>
        [source' # source => Forward]_vars
  BY <1>1
<1> QED
  BY <1>2, Invariance, ForwardInvariance, PTL DEF Spec, RegistryMovesForward

-----------------------------------------------------------------------------
(* Who can be registered.                                                  *)

\* A row with all seven columns gives m the address published for it.
HasWholeRow(m) ==
    \E i \in 1..used : \E k \in 2..Len(content[i]) :
        /\ content[i][k] \in FullRow
        /\ content[i][k].mac = m
        /\ content[i][k].ip = activePtr[m]

WholeRowsOnly ==
    activePtr # Nil => \A m \in Mac : activePtr[m] # NoIP => HasWholeRow(m)

\* Every client in the published registry has a row with all its columns.
\* AddItemToFile writes rows of four, so POST /pipeline never registers anybody:
\* not in its own Populate, not in the watcher's, not after a restart.
THEOREM OnlyWholeRowsRegister == Spec => []WholeRowsOnly
<1>1. ASSUME IInv, ForwardInv, RegistryFromFile, activePtr # Nil,
             NEW m \in Mac, activePtr[m] # NoIP
      PROVE  HasWholeRow(m)
  <2> DEFINE i == source.inode
             n == source.lines
  <2>1. i \in 0..used /\ n \in Nat /\ n <= Len(Lines(i))
    BY <1>1 DEF IInv, TypeOK, ForwardInv
  <2>2. PICK k \in RowsOf(Lines(i), n, m) : activePtr[m] = Lines(i)[k].ip
    BY <1>1 DEF RegistryFromFile, StandsFor
  <2>3. k \in 2..n /\ Lines(i)[k].mac = m
    BY <2>2 DEF RowsOf
  <2>4. i # 0
    BY <2>1, <2>3 DEF Lines
  <2>5. i \in 1..used /\ Lines(i) = content[i]
    <3>1. used \in Nat
      BY <1>1 DEF IInv, TypeOK
    <3> QED
      BY <2>1, <2>4, <3>1 DEF Lines
  <2>6. content[i][k] \in FullRow
    BY <1>1, <2>3, <2>4 DEF RegistryFromFile, Version, WellFormed
  <2>7. k \in 2..Len(content[i])
    <3>1. content[i] \in Seq(Line)
      BY <1>1, <2>5 DEF IInv, TypeOK
    <3> QED
      BY <2>1, <2>3, <2>5, <3>1
  <2> QED
    BY <2>2, <2>3, <2>5, <2>6, <2>7 DEF HasWholeRow
<1>2. IInv /\ ForwardInv /\ RegistryFromFile => WholeRowsOnly
  BY <1>1 DEF WholeRowsOnly
<1> QED
  BY <1>2, Invariance, ForwardInvariance, RegistryIsAVersion, PTL

===============================================================================
