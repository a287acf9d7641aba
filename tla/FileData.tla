------------------------------- MODULE FileData -------------------------------
(***************************************************************************)
(* The registry of PXE clients (package internal/db) and everything that   *)
(* drives it in one worker process:                                        *)
(*                                                                         *)
(*   - inputs/clients.csv, edited by an operator and appended to by POST   *)
(*     /pipeline, and the fsnotify events of its directory;                *)
(*   - Populate, run by main at start, by the watcher for each event and   *)
(*     by a POST handler after its append, one step per shared access,     *)
(*     without any lock between the three;                                 *)
(*   - the POST /pipeline handler with AddItemToFile;                      *)
(*   - the GET /callback handler with LogInstalledMachine;                 *)
(*   - the process: start, panic, fatal map race, kill.                    *)
(*                                                                         *)
(* A file is a sequence of lines in an inode.  Saving a file puts a new    *)
(* inode under the name, appending extends an inode, so a reader that      *)
(* opened an inode before it was replaced goes on reading the old one.     *)
(***************************************************************************)
EXTENDS Inventory, Naturals, Sequences

CONSTANTS
    IP,                 \* the addresses that may be offered
    NoIP,               \* no entry for a MAC in a registry
    Nil,                \* a pointer or variable without a value
    Header,             \* the line IP,MAC,BOOTFILE,TYPE,CLUSTER,TEMPLATE,ROLE
    Main, Watcher,      \* the two goroutines of main.go that call Populate
    Posts,              \* POST /pipeline requests, each sent at most once
    Callbacks,          \* GET /callback requests, each sent at most once
    Contents,           \* the files an operator may save
    MaxInode,           \* bound: inodes that ever carry the name clients.csv
    MaxLines,           \* bound: lines an operator's append may reach
    MaxEvents           \* bound: unread events kept, further ones coalesce

\* A line with all seven columns, as an operator writes it, and a line with
\* the four columns AddItemToFile writes.
FullRow  == [mac : Mac, ip : IP, columns : {7}]
ShortRow == [mac : Mac, ip : IP, columns : {4}]
Line     == FullRow \union ShortRow \union {Header}

Registry   == [Mac -> IP \union {NoIP}]
Populators == {Main, Watcher} \union Posts
Threads    == Populators \union Callbacks
Inode      == 1..MaxInode

ASSUME NoIPAssumption == NoIP \notin IP
ASSUME NilAssumption ==
    Nil \notin Registry \union FullRow \union ShortRow \union Mac \union Nat
ASSUME HeaderAssumption == Header \notin FullRow \union ShortRow
ASSUME ThreadsAssumption ==
    /\ Main # Watcher
    /\ {Main, Watcher} \intersect Posts = {}
    /\ Populators \intersect Callbacks = {}
ASSUME ContentsAssumption == Contents \subseteq Seq(Line)
ASSUME BoundsAssumption ==
    /\ MaxInode \in Nat \ {0}
    /\ MaxLines \in Nat
    /\ MaxEvents \in Nat \ {0}

VARIABLES
    content,            \* lines of each inode
    saved,              \* how many lines each inode had when it got the name
    used,               \* inodes 1..used exist
    cur,                \* the inode named inputs/clients.csv, 0 if none
    events,             \* unread fsnotify events about that name
    pc,                 \* where each goroutine is
    fd,                 \* the inode a goroutine has open, 0 if none
    done,               \* lines of it a Populate has consumed
    map,                \* the local map m of a Populate
    activePtr,          \* the published registry
    snap,               \* the registry a POST handler gathered at its entry
    payload,            \* the row a POST handler is to write
    target,             \* the machine a callback has looked up
    live,               \* callbacks whose object is still the one in machines
    overlapped,         \* history: running Populates another one ran beside
    raced,              \* history: the last Populate to publish was one of them
    source,             \* history: the inode it read, and how many lines of it
    failed,             \* history: a handler's Populate that could not write an
                        \*   entry panicked since the inventory was last emptied
    spoilt              \* history: machines whose callback could not create
                        \*   the entry, which nobody has written since

fileVars     == <<content, saved, used, cur>>
scanVars     == <<fd, done, map>>
postVars     == <<snap, payload>>
callbackVars == <<target, live>>
faultVars    == <<failed, spoilt>>
historyVars  == <<overlapped, raced, source, faultVars>>
vars == <<fileVars, events, pc, scanVars, activePtr, postVars, callbackVars,
          historyVars, inventoryVars>>

NoRegistry == [m \in Mac |-> NoIP]
NoSource == [inode |-> 0, lines |-> 0]

-----------------------------------------------------------------------------
(* The file, what it parses to, and its events.                            *)

\* What a descriptor reads: a nil *os.File reads as an empty file.
Lines(i) == IF i = 0 THEN << >> ELSE content[i]

\* The rows of a MAC in the first n lines; the first line is never read as one.
RowsOf(lines, n, m) == {k \in 2..n : lines[k].mac = m}

\* The first n lines stand for this registry: each MAC has the address of its
\* last row.
StandsFor(lines, n, registry) ==
    \A m \in Mac :
        \/ registry[m] = NoIP /\ RowsOf(lines, n, m) = {}
        \/ \E k \in RowsOf(lines, n, m) :
            /\ registry[m] = lines[k].ip
            /\ \A j \in RowsOf(lines, n, m) : j <= k

\* No row Populate would panic on.
WellFormed(lines, n) == \A k \in 2..n : lines[k] \in FullRow

\* Mutant of Notify: the directory is not watched.
NotifyNobody == events' = events

\* The directory is watched as long as the process runs.
Notify ==
    events' = IF pc[Watcher] = "off" THEN 0
              ELSE IF events < MaxEvents THEN events + 1 ELSE events

\* A new inode with these lines gets the name.
PutFile(lines) ==
    /\ used < MaxInode
    /\ content' = [content EXCEPT ![used + 1] = lines]
    /\ saved' = [saved EXCEPT ![used + 1] = Len(lines)]
    /\ used' = used + 1
    /\ cur' = used + 1

AppendLine(i, line) ==
    /\ content' = [content EXCEPT ![i] = Append(@, line)]
    /\ UNCHANGED <<saved, used, cur>>

-----------------------------------------------------------------------------
(* The process.                                                            *)

Running == pc[Main] # "off"
Serving == pc[Main] = "serve"

\* Where goroutine t is after the process died: a request in flight loses its
\* connection; sent again, it is another request.
PcAfterCrash(t) ==
    IF t \in {Main, Watcher} THEN "off"
    ELSE IF pc[t] = "new" THEN "new" ELSE "done"

\* Everything in memory is lost; what is left of the boot entries is up to
\* what the process was doing.
Crash ==
    /\ pc' = [t \in Threads |-> PcAfterCrash(t)]
    /\ fd' = [t \in Populators |-> 0]
    /\ done' = [t \in Populators |-> 0]
    /\ map' = [t \in Populators |-> NoRegistry]
    /\ activePtr' = Nil
    /\ snap' = [p \in Posts |-> Nil]
    /\ payload' = [p \in Posts |-> Nil]
    /\ target' = [c \in Callbacks |-> Nil]
    /\ live' = {}
    /\ events' = 0
    /\ overlapped' = {}
    /\ raced' = FALSE
    /\ source' = NoSource
    /\ failed' = FALSE
    /\ spoilt' = {}
    /\ ResetMachines
    /\ ResetLog
    /\ UNCHANGED fileVars

\* main: the watcher goroutine is started and the directory watched, then main
\* calls Populate itself.
Start ==
    /\ ~Running
    /\ pc' = [pc EXCEPT ![Main] = "open", ![Watcher] = "idle"]
    /\ UNCHANGED <<fileVars, events, scanVars, activePtr, postVars,
                   callbackVars, historyVars, inventoryVars>>

\* A signal, or a log.Fatalf of a part the model leaves out.
Kill ==
    /\ Running
    /\ Crash
    /\ efiEntry' = efiEntry

-----------------------------------------------------------------------------
(* Populate.                                                               *)

Populating == {t \in Populators : pc[t] \in {"init", "reset", "scan", "store", "publish"}}

\* Mutant of AtEOF: the last line is left out.
AtLastLine(t) == done[t] + 1 >= Len(Lines(fd[t]))

AtEOF(t) == done[t] >= Len(Lines(fd[t]))
NextLine(t) == Lines(fd[t])[done[t] + 1]

\* Mutant of PcAfterPopulate: the watcher loop returns instead of continuing.
PcWatcherReturns(t) == IF t = Main THEN "serve" ELSE "done"

\* What the caller of Populate does once it is over.
PcAfterPopulate(t) ==
    IF t = Main THEN "serve" ELSE IF t = Watcher THEN "idle" ELSE "done"

\* Mutant of DropLocals: the map of clients is kept for the next call.
KeepMap(t) ==
    /\ fd' = [fd EXCEPT ![t] = 0]
    /\ done' = [done EXCEPT ![t] = 0]
    /\ map' = map
    /\ overlapped' = overlapped \ {t}

\* The locals of a call of Populate that returns or unwinds.
DropLocals(t) ==
    /\ fd' = [fd EXCEPT ![t] = 0]
    /\ done' = [done EXCEPT ![t] = 0]
    /\ map' = [map EXCEPT ![t] = NoRegistry]
    /\ overlapped' = overlapped \ {t}

\* Mutant of OpenFile: a handler reads the descriptor it has appended to.
OpenOwnFile(t) ==
    /\ pc[t] = "open"
    /\ pc' = [pc EXCEPT ![t] = "init"]
    /\ fd' = [fd EXCEPT ![t] = IF @ # 0 THEN @ ELSE cur]
    /\ overlapped' = IF Populating = {} THEN overlapped
                     ELSE overlapped \union Populating \union {t}
    /\ UNCHANGED <<fileVars, events, done, map, activePtr, postVars,
                   callbackVars, raced, source, faultVars, inventoryVars>>

\* os.Open; its error is only logged.
OpenFile(t) ==
    /\ pc[t] = "open"
    /\ pc' = [pc EXCEPT ![t] = "init"]
    /\ fd' = [fd EXCEPT ![t] = cur]
    /\ overlapped' = IF Populating = {} THEN overlapped
                     ELSE overlapped \union Populating \union {t}
    /\ UNCHANGED <<fileVars, events, done, map, activePtr, postVars,
                   callbackVars, raced, source, faultVars, inventoryVars>>

\* The first line is skipped and the map of machines replaced ...
SkipHeader(t) ==
    /\ pc[t] = "init"
    /\ done' = IF AtEOF(t) THEN done ELSE [done EXCEPT ![t] = 1]
    /\ pc' = [pc EXCEPT ![t] = "reset"]
    /\ ResetMachines
    /\ live' = {}
    /\ failed' = FALSE
    /\ UNCHANGED <<fileVars, events, fd, map, activePtr, postVars, target,
                   overlapped, raced, source, spoilt, installLog, efiEntry>>

\* ... and then the log.  A scanner that met the end of the file at the first
\* line never reads again.
EmptyLog(t) ==
    /\ pc[t] = "reset"
    /\ pc' = [pc EXCEPT ![t] = IF done[t] = 0 THEN "publish" ELSE "scan"]
    /\ ResetLog
    /\ UNCHANGED <<fileVars, events, scanVars, activePtr, postVars,
                   callbackVars, historyVars, machines, efiEntry>>

\* A row with all its columns: Generate writes the boot entries first ...
ScanRow(t) ==
    /\ pc[t] = "scan"
    /\ ~AtEOF(t)
    /\ NextLine(t) \in FullRow
    /\ GenPXEEntries(NextLine(t).mac, FALSE)
    /\ spoilt' = spoilt \ {NextLine(t).mac}
    /\ pc' = [pc EXCEPT ![t] = "store"]
    /\ UNCHANGED <<fileVars, events, scanVars, activePtr, postVars,
                   callbackVars, overlapped, raced, source, failed, machines,
                   installLog>>

\* ... which panics when a file cannot be created or written.  The inventory
\* stays as far as it got; net/http recovers the panic of a handler, and the
\* old registry stays, too.  A stop half way leaves the same files.
FailRow(t) ==
    LET row == NextLine(t) IN
    /\ pc[t] = "scan"
    /\ ~AtEOF(t)
    /\ row \in FullRow
    /\ PartEntries(row.mac)
    /\ \/ Crash
       \/ /\ t \in Posts
          /\ pc' = [pc EXCEPT ![t] = "done"]
          /\ DropLocals(t)
          /\ failed' = TRUE
          /\ UNCHANGED <<fileVars, events, activePtr, postVars, callbackVars,
                         raced, source, spoilt, machines, installLog>>

\* ... and stores the object; Populate then adds the client to its own map.
StoreRow(t) ==
    LET row == NextLine(t) IN
    /\ pc[t] = "store"
    /\ StoreMachine(row.mac)
    /\ live' = {c \in live : target[c] # row.mac}
    /\ map' = [map EXCEPT ![t][row.mac] = row.ip]
    /\ done' = [done EXCEPT ![t] = @ + 1]
    /\ pc' = [pc EXCEPT ![t] = "scan"]
    /\ UNCHANGED <<fileVars, events, fd, activePtr, postVars, target,
                   historyVars, installLog, efiEntry>>

\* A row with fewer columns: index out of range.  net/http recovers the panic
\* of a handler, nothing recovers that of main or of the watcher.
ScanShortRow(t) ==
    /\ pc[t] = "scan"
    /\ ~AtEOF(t)
    /\ NextLine(t) \notin FullRow
    /\ \/ /\ t \in {Main, Watcher}
          /\ Crash
          /\ efiEntry' = efiEntry
       \/ /\ t \in Posts
          /\ pc' = [pc EXCEPT ![t] = "done"]
          /\ DropLocals(t)
          /\ UNCHANGED <<fileVars, events, activePtr, postVars, callbackVars,
                         raced, source, faultVars, inventoryVars>>

ScanEnd(t) ==
    /\ pc[t] = "scan"
    /\ AtEOF(t)
    /\ pc' = [pc EXCEPT ![t] = "publish"]
    /\ UNCHANGED <<fileVars, events, scanVars, activePtr, postVars,
                   callbackVars, historyVars, inventoryVars>>

\* The new registry replaces the old one in one assignment, and the caller
\* goes on.
Publish(t) ==
    /\ pc[t] = "publish"
    /\ activePtr' = map[t]
    /\ raced' = (t \in overlapped)
    /\ source' = [inode |-> fd[t], lines |-> done[t]]
    /\ DropLocals(t)
    /\ pc' = [pc EXCEPT ![t] = PcAfterPopulate(t)]
    /\ UNCHANGED <<fileVars, events, postVars, callbackVars, faultVars,
                   inventoryVars>>

PopulateStep(t) ==
    \/ OpenFile(t)
    \/ SkipHeader(t)
    \/ EmptyLog(t)
    \/ ScanRow(t)
    \/ StoreRow(t)
    \/ ScanShortRow(t)
    \/ ScanEnd(t)
    \/ Publish(t)

\* The watcher goroutine receives an event and calls Populate.
TakeEvent ==
    /\ pc[Watcher] = "idle"
    /\ events > 0
    /\ events' = events - 1
    /\ pc' = [pc EXCEPT ![Watcher] = "open"]
    /\ UNCHANGED <<fileVars, scanVars, activePtr, postVars, callbackVars,
                   historyVars, inventoryVars>>

-----------------------------------------------------------------------------
(* POST /pipeline.                                                         *)

\* The two duplicate checks, by MAC and by address.
Known(registry, mac, ip) ==
    \/ registry[mac] # NoIP
    \/ \E m \in Mac : registry[m] = ip

PostGoes(p, place) == pc' = [pc EXCEPT ![p] = place]

\* Gather is called before the body is read.
PostGather(p) ==
    /\ pc[p] = "new"
    /\ Serving
    /\ snap' = [snap EXCEPT ![p] = activePtr]
    /\ PostGoes(p, "decode")
    /\ UNCHANGED <<fileVars, events, scanVars, activePtr, payload,
                   callbackVars, historyVars, inventoryVars>>

\* The body is malformed, names an unknown OS type or a known client.
PostReject(p) ==
    /\ pc[p] = "decode"
    /\ snap' = [snap EXCEPT ![p] = Nil]
    /\ PostGoes(p, "done")
    /\ UNCHANGED <<fileVars, events, scanVars, activePtr, payload,
                   callbackVars, historyVars, inventoryVars>>

PostAccept(p) ==
    /\ pc[p] = "decode"
    /\ \E row \in ShortRow :
        /\ ~Known(snap[p], row.mac, row.ip)
        /\ payload' = [payload EXCEPT ![p] = row]
    /\ snap' = [snap EXCEPT ![p] = Nil]
    /\ PostGoes(p, "add")
    /\ UNCHANGED <<fileVars, events, scanVars, activePtr, callbackVars,
                   historyVars, inventoryVars>>

\* AddItemToFile checks again, against the registry of this moment, and
\* returns without an error if the client is known.
AddItem(p) ==
    /\ pc[p] = "add"
    /\ PostGoes(p, IF Known(activePtr, payload[p].mac, payload[p].ip)
                   THEN "done" ELSE "append")
    /\ UNCHANGED <<fileVars, events, scanVars, activePtr, postVars,
                   callbackVars, historyVars, inventoryVars>>

\* O_APPEND | O_CREATE: a missing file is created, empty.
OpenAppend(p) ==
    /\ pc[p] = "append"
    /\ \/ /\ cur # 0
          /\ fd' = [fd EXCEPT ![p] = cur]
          /\ UNCHANGED <<fileVars, events>>
       \/ /\ cur = 0
          /\ PutFile(<< >>)
          /\ fd' = [fd EXCEPT ![p] = used + 1]
          /\ Notify
    /\ PostGoes(p, "write")
    /\ UNCHANGED <<done, map, activePtr, postVars, callbackVars, historyVars,
                   inventoryVars>>

\* The row goes to the inode opened before, whoever has the name by now; then
\* the handler calls Populate.
WriteRow(p) ==
    /\ pc[p] = "write"
    /\ AppendLine(fd[p], payload[p])
    /\ IF fd[p] = cur THEN Notify ELSE events' = events
    /\ PostGoes(p, "open")
    /\ UNCHANGED <<scanVars, activePtr, postVars, callbackVars, historyVars,
                   inventoryVars>>

\* The file cannot be opened: AddItemToFile returns, and the handler answers
\* as if the client were registered.
FailAppend(p) ==
    /\ pc[p] = "append"
    /\ PostGoes(p, "done")
    /\ UNCHANGED <<fileVars, events, scanVars, activePtr, postVars,
                   callbackVars, historyVars, inventoryVars>>

\* A Flush that fails is only logged: Populate is called without the row and
\* without an event.  (A row of which a part was written is a row with too few
\* columns, which is what WriteRow appends.)
FailWrite(p) ==
    /\ pc[p] = "write"
    /\ PostGoes(p, "open")
    /\ UNCHANGED <<fileVars, events, scanVars, activePtr, postVars,
                   callbackVars, historyVars, inventoryVars>>

PostStep(p) ==
    \/ PostReject(p)
    \/ PostAccept(p)
    \/ AddItem(p)
    \/ OpenAppend(p)
    \/ WriteRow(p)

-----------------------------------------------------------------------------
(* GET /callback: LogInstalledMachine.                                     *)

\* The machine is looked up; an unknown one is answered with an error, which
\* the installer does not look at.
LookupMachine(c) ==
    /\ pc[c] = "new"
    /\ Serving
    /\ \E m \in Mac :
        IF machines[m] = "absent"
        THEN /\ pc' = [pc EXCEPT ![c] = "done"]
             /\ UNCHANGED callbackVars
        ELSE /\ pc' = [pc EXCEPT ![c] = "log"]
             /\ target' = [target EXCEPT ![c] = m]
             /\ live' = live \union {c}
    /\ UNCHANGED <<fileVars, events, scanVars, activePtr, postVars,
                   historyVars, inventoryVars>>

LogMachine(c) ==
    /\ pc[c] = "log"
    /\ LogInstalled(target[c])
    /\ pc' = [pc EXCEPT ![c] = "mark"]
    /\ UNCHANGED <<fileVars, events, scanVars, activePtr, postVars,
                   callbackVars, historyVars, machines, efiEntry>>

MarkMachine(c) ==
    /\ pc[c] = "mark"
    /\ MarkInstalled(target[c], c \in live)
    /\ pc' = [pc EXCEPT ![c] = "entries"]
    /\ UNCHANGED <<fileVars, events, scanVars, activePtr, postVars,
                   callbackVars, historyVars, installLog, efiEntry>>

\* The end of LogInstalledMachine, and of its object.
CallbackDone(c) ==
    /\ pc' = [pc EXCEPT ![c] = "done"]
    /\ target' = [target EXCEPT ![c] = Nil]
    /\ live' = live \ {c}

\* The entries are written from the object found, which is marked by now.
WriteEntries(c) ==
    /\ pc[c] = "entries"
    /\ GenPXEEntries(target[c], TRUE)
    /\ spoilt' = spoilt \ {target[c]}
    /\ CallbackDone(c)
    /\ UNCHANGED <<fileVars, events, scanVars, activePtr, postVars,
                   overlapped, raced, source, failed, machines, installLog>>

\* genPXEEntry panics, which net/http recovers: the machine stays marked, its
\* entries are what they were or torn.  A stop half way leaves the same files.
FailEntries(c) ==
    /\ pc[c] = "entries"
    /\ PartEntries(target[c])
    /\ \/ Crash
       \/ /\ CallbackDone(c)
          /\ spoilt' = IF efiEntry' = efiEntry THEN spoilt \union {target[c]}
                       ELSE spoilt
          /\ UNCHANGED <<fileVars, events, scanVars, activePtr, postVars,
                         overlapped, raced, source, failed, machines,
                         installLog>>

CallbackStep(c) == LogMachine(c) \/ MarkMachine(c) \/ WriteEntries(c)

\* A disk that is full or a directory that is missing, where the worker does
\* not expect it.
Fault ==
    \/ \E t \in Populators : FailRow(t)
    \/ \E p \in Posts : FailAppend(p) \/ FailWrite(p)
    \/ \E c \in Callbacks : FailEntries(c)

\* A write to a Go map beside another access to it: the runtime may stop the
\* process.  Any request may read machines (GET /callback, GET /inventories)
\* while the worker serves; a callback prints the log at its end.
MapRace ==
    /\ \/ /\ Serving
          /\ \E t \in Populators : pc[t] = "store"
       \/ \E t, u \in Populators : t # u /\ pc[t] = "store" /\ pc[u] = "store"
       \/ \E c, d \in Callbacks :
            c # d /\ pc[c] = "log" /\ pc[d] \in {"log", "entries"}
    /\ Crash
    /\ efiEntry' = efiEntry

-----------------------------------------------------------------------------
(* The operator.                                                           *)

\* A save by rename, as editors and deployment tools do it.
OperatorSaves ==
    /\ \E lines \in Contents : PutFile(lines)
    /\ Notify
    /\ UNCHANGED <<pc, scanVars, activePtr, postVars, callbackVars,
                   historyVars, inventoryVars>>

OperatorRemoves ==
    /\ cur # 0
    /\ cur' = 0
    /\ Notify
    /\ UNCHANGED <<content, saved, used, pc, scanVars, activePtr, postVars,
                   callbackVars, historyVars, inventoryVars>>

OperatorAppends ==
    /\ cur # 0
    /\ Len(content[cur]) < MaxLines
    /\ \E row \in FullRow : AppendLine(cur, row)
    /\ Notify
    /\ UNCHANGED <<pc, scanVars, activePtr, postVars, callbackVars,
                   historyVars, inventoryVars>>

Operator == OperatorSaves \/ OperatorRemoves \/ OperatorAppends

-----------------------------------------------------------------------------
Init ==
    /\ content = [i \in Inode |-> << >>]
    /\ saved = [i \in Inode |-> 0]
    /\ used = 0
    /\ cur = 0
    /\ events = 0
    /\ pc = [t \in Threads |-> IF t \in {Main, Watcher} THEN "off" ELSE "new"]
    /\ fd = [t \in Populators |-> 0]
    /\ done = [t \in Populators |-> 0]
    /\ map = [t \in Populators |-> NoRegistry]
    /\ activePtr = Nil
    /\ snap = [p \in Posts |-> Nil]
    /\ payload = [p \in Posts |-> Nil]
    /\ target = [c \in Callbacks |-> Nil]
    /\ live = {}
    /\ overlapped = {}
    /\ raced = FALSE
    /\ source = NoSource
    /\ failed = FALSE
    /\ spoilt = {}
    /\ InventoryInit

\* Everything but the kill from outside and the files that cannot be written.
WorkerNext ==
    \/ Start
    \/ MapRace
    \/ Operator
    \/ TakeEvent
    \/ \E t \in Populators : PopulateStep(t)
    \/ \E p \in Posts : PostGather(p) \/ PostStep(p)
    \/ \E c \in Callbacks : LookupMachine(c) \/ CallbackStep(c)

Next == WorkerNext \/ Fault \/ Kill

Spec == Init /\ [][Next]_vars

\* A goroutine that can run is run.  Nothing is assumed of clients, of the
\* operator, or of what ends the process.
Fairness ==
    /\ WF_vars(TakeEvent)
    /\ \A t \in Populators : WF_vars(PopulateStep(t))
    /\ \A p \in Posts : WF_vars(PostStep(p))
    /\ \A c \in Callbacks : WF_vars(CallbackStep(c))

FairSpec == Spec /\ Fairness

\* Nobody kills the worker, its disk takes what it writes, and a worker that
\* stops is started again.
SupervisedSpec == Init /\ [][WorkerNext]_vars /\ Fairness /\ WF_vars(Start)

-----------------------------------------------------------------------------
(* Properties.                                                             *)

PopulatorPc == {"off", "idle", "open", "init", "reset", "scan", "store", "publish",
                "serve", "new", "decode", "add", "append", "write", "done"}
CallbackPc  == {"new", "log", "mark", "entries", "done"}

\* Every variable has its type (all of internal/db and internal/inventory).
TypeOK ==
    /\ content \in [Inode -> Seq(Line)]
    /\ saved \in [Inode -> Nat]
    /\ used \in 0..MaxInode
    /\ cur \in 0..used
    /\ events \in 0..MaxEvents
    /\ pc \in [Threads -> PopulatorPc \union CallbackPc]
    /\ fd \in [Populators -> 0..used]
    /\ done \in [Populators -> Nat]
    /\ map \in [Populators -> Registry]
    /\ activePtr \in Registry \union {Nil}
    /\ snap \in [Posts -> Registry \union {Nil}]
    /\ payload \in [Posts -> ShortRow \union {Nil}]
    /\ target \in [Callbacks -> Mac \union {Nil}]
    /\ live \in SUBSET Callbacks
    /\ overlapped \in SUBSET Populators
    /\ raced \in BOOLEAN
    /\ source \in [inode : 0..used, lines : Nat]
    /\ failed \in BOOLEAN
    /\ spoilt \in SUBSET Mac
    /\ InventoryTypeOK

\* What a Populate knows of the file while it runs, and that it starts from
\* nothing: its map stands for the lines it has consumed, all of them rows with
\* their columns, and at the end for no fewer than the operator saved.
PopulateInv(t) ==
    /\ pc[t] \notin {"reset", "scan", "store", "publish"} =>
        done[t] = 0 /\ map[t] = NoRegistry
    /\ pc[t] \in {"reset", "scan", "store", "publish"} =>
        /\ done[t] <= Len(Lines(fd[t]))
        /\ WellFormed(Lines(fd[t]), done[t])
        /\ StandsFor(Lines(fd[t]), done[t], map[t])
    /\ pc[t] = "reset" => done[t] <= 1 /\ map[t] = NoRegistry
    /\ pc[t] = "reset" /\ done[t] = 0 /\ fd[t] # 0 => saved[fd[t]] = 0
    /\ pc[t] \in {"scan", "store"} => done[t] >= 1
    /\ pc[t] = "store" => ~AtEOF(t) /\ NextLine(t) \in FullRow
    /\ pc[t] = "publish" /\ fd[t] # 0 => saved[fd[t]] <= done[t]

\* A request in flight has what its next step uses.
PostInv(p) ==
    /\ pc[p] \in {"add", "append", "write"} => payload[p] \in ShortRow
    /\ pc[p] = "write" => fd[p] # 0
CallbackInv(c) == pc[c] \in {"log", "mark", "entries"} => target[c] \in Mac

\* The strengthening the proofs need; the parts hold together only.
ScanInv ==
    /\ \A i \in Inode : saved[i] <= Len(content[i])
    /\ pc[Main] = "off" <=> pc[Watcher] = "off"
    /\ \A t \in Populators : PopulateInv(t)
    /\ \A p \in Posts : PostInv(p)
    /\ \A c \in Callbacks : CallbackInv(c)

\* The first n lines of inode i are what clients.csv held at some moment: no
\* fewer than when it was saved, and nothing Populate would have panicked on.
Version(i, n) ==
    /\ n \in saved[i]..Len(content[i])
    /\ WellFormed(content[i], n)

\* DHCP answers and the HTTP handlers read a registry that stands for one
\* whole version of the file, never for a part of one, a mix of two or one with
\* a row that misses columns, however the calls of Populate overlap and
\* wherever a save, an append or a crash falls (activePtr is assigned last).
RegistryFromFile ==
    activePtr # Nil =>
        /\ source.inode # 0 => Version(source.inode, source.lines)
        /\ StandsFor(Lines(source.inode), source.lines, activePtr)

\* A Populate that ran alone does not take the registry back: what it publishes
\* is a later file than the one published before, or no fewer lines of the same
\* (a handler's Populate opens the name again, not what it appended to).
RegistryMovesForward ==
    [][source' # source =>
        \/ raced'
        \/ source'.inode = 0
        \/ source.inode < source'.inode
        \/ source.inode = source'.inode /\ source.lines <= source'.lines]_vars

\* The files and the calls of Populate as AtomicRegistry sees them.
Value(lines) ==
    IF WellFormed(lines, Len(lines))
    THEN CHOOSE r \in Registry : StandsFor(lines, Len(lines), r)
    ELSE Nil

value  == [i \in 0..MaxInode |-> Value(Lines(i))]
handle == [t \in Populators |-> IF t \in Populating THEN fd[t] ELSE Nil]
HasRead(t) == pc[t] = "publish" \/ (pc[t] = "reset" /\ done[t] = 0)
got    == [t \in Populators |-> IF HasRead(t) THEN map[t] ELSE Nil]

R == INSTANCE AtomicRegistry
        WITH Reader <- Populators, Closed <- Nil, registry <- activePtr

\* Populate is an atomic read of the file it opened, followed by one
\* assignment, however saves, appends, crashes and other calls of Populate fall
\* between the lines of its scan.
PopulateIsAtomic == R!Spec

Settled ==
    /\ Serving
    /\ events = 0
    /\ \A t \in Populators : pc[t] # "open" /\ t \notin Populating

Current(i) ==
    activePtr # Nil /\ StandsFor(Lines(i), Len(Lines(i)), activePtr)

\* With no event unread and no Populate running, the registry is the one the
\* file stands for, if the last Populate to publish ran alone.
SerialRegistryIsCurrent == Settled /\ ~raced => Current(cur)

\* The same without the condition: what "changes trigger automatic
\* repopulation" promises.
RegistryIsCurrent == Settled => Current(cur)

\* In the same states the inventory holds the clients of the registry and no
\* others, and whoever it calls installed is in the log, also after a POST whose
\* Populate panicked on a row (index out of range).  Not so after one that could
\* not write an entry: no event need follow it.
SerialInventoryAgrees ==
    Settled /\ ~raced /\ ~failed =>
        \A m \in Mac :
            /\ machines[m] = "absent" <=> activePtr[m] = NoIP
            /\ machines[m] = "installed" => m \in installLog

\* Someone is between writing the entries of m and telling the inventory, or
\* the other way round.
EntryInHand(m) ==
    \/ \E t \in Populators : pc[t] = "store" /\ NextLine(t).mac = m
    \/ \E c \in Callbacks : pc[c] = "entries" /\ target[c] = m

\* A machine the inventory calls installed boots from its disk, although
\* Populate, of other goroutines too, rewrites the entry as an installation and
\* callbacks may hold an object the inventory has dropped: unless someone is at
\* its entry, or its callback could not create it.  (Torn is what a panic half
\* way leaves.)
InstalledBootsLocal ==
    \A m \in Mac : machines[m] = "installed" =>
        EntryInHand(m) \/ efiEntry[m] \in {"local", "torn"} \/ m \in spoilt

\* An edit the watcher was told of reaches the registry, unless the worker
\* stops or the file changes again first (the watcher loop calls Populate for
\* every event).
EditTakesEffect ==
    \A i \in Inode :
        Serving /\ events > 0 /\ cur = i ~> ~Running \/ cur # i \/ Current(i)

\* Readme: a client registered by POST gets into the inventory automatically:
\* its row, written to the file that has the name, reaches the registry unless
\* the operator takes that file away.
RegistrationTakesEffect ==
    \A p \in Posts, row \in ShortRow, i \in Inode :
        pc[p] = "write" /\ payload[p] = row /\ fd[p] = i /\ cur = i
            ~> cur # i \/ (activePtr # Nil /\ activePtr[row.mac] = row.ip)

\* Readme: after the callback a machine boots from its disk; its entry does
\* not go back to the installer.
LocalEntryIsFinal ==
    [][\A m \in Mac : efiEntry[m] = "local" => efiEntry'[m] = "local"]_vars

=============================================================================
