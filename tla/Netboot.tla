------------------------------- MODULE Netboot --------------------------------
(***************************************************************************)
(* The life of a machine that boots over the network, and what the worker  *)
(* does for it: DISCOVER and REQUEST answered from the published registry  *)
(* (internal/dhcp), the boot entry read over TFTP (internal/tftp), the     *)
(* seed of the unattended installation (internal/inventory/debian.go), the *)
(* callback at its end, the next boot.  Meanwhile Populate writes seeds,   *)
(* entries and inventory anew, one file operation per step, and the worker *)
(* may stop and start.                                                     *)
(*                                                                         *)
(* Main, the watcher and POST handlers run Populate side by side over one  *)
(* inventory.  How it reads a file line by line is FileData's subject:     *)
(* here it reads one version when it opens it.  A handler gets so far only *)
(* if the row it appended, which misses columns, is not in that version;   *)
(* what becomes of a worker that reads such a row is told there, too.  The *)
(* entry of a machine is the one its own firmware reads.                   *)
(***************************************************************************)
EXTENDS Naturals

CONSTANTS
    Mac, IP, NoIP, Nil,
    Bios,               \* the machines with BIOS firmware; the others have UEFI
    Booting,            \* the machines somebody switches on
    Main, Watcher,      \* the two goroutines of main.go that call Populate
    Posts,              \* POST /pipeline requests, each sent at most once
    Versions,           \* the registries clients.csv may stand for
    Env,                \* the environment variables of the worker
    Off,                \* the servers switched off by a flag (-no-dhcp, ...)
    MaxEdits,           \* bound: edits of the file
    MaxFaults           \* bound: stops, lost packets, early timeouts, files
                        \*   that cannot be written

Registry == [Mac -> IP \union {NoIP}]
Server   == {"dhcp", "tftp", "http"}
Populators == {Main, Watcher} \union Posts

ASSUME NilAssumption == NoIP \notin IP /\ Nil \notin Registry /\ Nil \notin Mac
ASSUME MachinesAssumption == Bios \subseteq Mac /\ Booting \subseteq Mac
ASSUME PopulatorsAssumption ==
    Main # Watcher /\ {Main, Watcher} \intersect Posts = {}
ASSUME VersionsAssumption == Versions \subseteq Registry
ASSUME OffAssumption == Off \subseteq Server
ASSUME BoundsAssumption == MaxEdits \in Nat /\ MaxFaults \in Nat

VARIABLES
    file, unread,       \* what clients.csv stands for; is there an unread event
    edits, faults,      \* how many so far
    servers,            \* the servers that listen
    place, rows,        \* where a goroutine is in Populate, the file it reads
    todo, row,          \* the rows it has not come to, the row in hand
    activePtr,          \* the published registry
    machines,           \* activeMachines.Machines with its Installed flag
    live,               \* callbacks whose object is the one in machines
    seed, entry,        \* the files of each machine
    at,                 \* where each machine is, or its callback's handler
    wire,               \* the packet under way to or from it
    address,            \* the address it was offered and then acknowledged
    head,               \* what it has read of its entry so far
    disk,               \* the machines with an OS on their disk
    offered,            \* history: machines for which nothing was published
                        \* since their OFFER
    spoilt,             \* history: machines whose entry a handler could not
                        \* write, and nobody has written whole since
    tangled             \* history: the inventory was filled by calls of
                        \* Populate side by side, or by one that panicked

fileVars     == <<file, unread, edits>>
populateVars == <<place, rows, todo, row>>
memory       == <<machines, live>>
bootVars     == <<at, wire, address, head, disk>>
history      == <<offered, spoilt, tangled>>
outside      == <<fileVars, faults, servers, bootVars, history>>
vars == <<fileVars, faults, servers, populateVars, activePtr, memory, seed,
          entry, bootVars, history>>

\* Nobody reads the log of installed machines; it is left out.
I == INSTANCE Inventory WITH efiEntry <- entry, installLog <- {}

\* "empty" is a file truncated and not yet written, "mixed" one that two
\* writers, or a writer and a reader, had in hand together.
Entry == {"none", "empty", "install", "local", "mixed"}
Packet == [type : {"none", "DISCOVER", "REQUEST"}, ip : {NoIP}]
              \union [type : {"OFFER", "ACK"}, ip : IP]
NoPacket == [type |-> "none", ip |-> NoIP]

-----------------------------------------------------------------------------
(* Settings.                                                               *)

Switch   == {"TFTP_ENABLE", "DHCP_ENABLE"}
Number   == {"TFTP_BIND_PORT", "TFTP_BLOCKSIZE", "DHCP_BIND_PORT",
             "DHCP_TFTP_PORT"}
Text     == {"TFTP_BIND_ADDR", "DHCP_MODE", "DHCP_BIND_INTERFACE",
             "DHCP_BIND_ADDRESS", "DHCP_TFTP_IP", "DHCP_NEXT_SERVER_IP",
             "DHCP_BOOT_FILE"}

\* Gather: a variable that is set counts, unless it has to be a number or a
\* truth value and is none.
Gather(env) ==
    [v \in Switch \union Number \union Text |->
        IF env[v] = "unset" \/ (env[v] = "junk" /\ v \notin Text)
        THEN "default" ELSE env[v]]

\* Both servers have such a setting, on by default.
Enabled(s) ==
    /\ s = "dhcp" => Gather(Env)["DHCP_ENABLE"] # "false"
    /\ s = "tftp" => Gather(Env)["TFTP_ENABLE"] # "false"

-----------------------------------------------------------------------------
(* The worker process.                                                     *)

Handling == {"mark", "create", "write"}

\* A goroutine between opening the file and the end of Populate.
Running(t) == place[t] \in {"init", "scan", "seed", "entry", "fill", "store"}

PlaceAfterCrash(t) ==
    IF t \in {Main, Watcher} THEN "off"
    ELSE IF place[t] = "new" THEN "new" ELSE "done"

\* Memory is lost; a callback's connection breaks, and the machine goes on.
Crash ==
    /\ faults < MaxFaults
    /\ faults' = faults + 1
    /\ servers' = {}
    /\ place' = [t \in Populators |-> PlaceAfterCrash(t)]
    /\ rows' = [t \in Populators |-> Nil]
    /\ todo' = [t \in Populators |-> {}]
    /\ row' = [t \in Populators |-> Nil]
    /\ activePtr' = Nil
    /\ I!ResetMachines
    /\ live' = {}
    /\ unread' = FALSE
    /\ \E direct \in SUBSET {m \in Mac \ Bios : at[m] \in Handling} :
        at' = [m \in Mac |-> IF m \in direct THEN "disk"
                            ELSE IF at[m] \in Handling THEN "off" ELSE at[m]]
    /\ offered' = {}
    /\ tangled' = FALSE
    /\ UNCHANGED <<file, edits, seed, entry, wire, address, head, disk, spoilt>>

Kill == place[Main] # "off" /\ Crash

\* main: the watcher goroutine is started, then main calls Populate itself.
Start ==
    /\ place[Main] = "off"
    /\ place' = [place EXCEPT ![Main] = "open", ![Watcher] = "idle"]
    /\ UNCHANGED <<outside, rows, todo, row, activePtr, memory, seed, entry>>

\* main starts its servers, each in a goroutine, once its Populate is over.
\* None looks at its Enabled setting, and one that cannot listen ends the process.
Listen(s) ==
    /\ place[Main] = "idle"
    /\ s \notin servers \union Off
    /\ \/ /\ servers' = servers \union {s}
          /\ UNCHANGED <<fileVars, faults, populateVars, activePtr, memory,
                         seed, entry, bootVars, history>>
       \/ Crash

StartDHCP == Listen("dhcp")
StartTFTP == Listen("tftp")
StartHTTP == Listen("http")

-----------------------------------------------------------------------------
(* Populate.                                                               *)

TakeEvent ==
    /\ place[Watcher] = "idle"
    /\ unread
    /\ unread' = FALSE
    /\ place' = [place EXCEPT ![Watcher] = "open"]
    /\ UNCHANGED <<file, edits, faults, servers, rows, todo, row, activePtr,
                   memory, seed, entry, bootVars, history>>

\* A client was posted, and its row is not in the file that has the name.
Post(p) ==
    /\ "http" \in servers
    /\ place[p] = "new"
    /\ place' = [place EXCEPT ![p] = "open"]
    /\ UNCHANGED <<outside, rows, todo, row, activePtr, memory, seed, entry>>

\* The file is opened ...
OpenFile(t) ==
    /\ place[t] = "open"
    /\ place' = [place EXCEPT ![t] = "init"]
    /\ rows' = [rows EXCEPT ![t] = file]
    /\ todo' = [todo EXCEPT ![t] = {m \in Mac : file[m] # NoIP}]
    /\ tangled' = \E u \in Populators : Running(u)
    /\ UNCHANGED <<fileVars, faults, servers, row, activePtr, memory, seed,
                   entry, bootVars, offered, spoilt>>

\* Mutant of EmptyInventory: activePtr is assigned first, not last.
PublishFirst(t) ==
    /\ place[t] = "init"
    /\ place' = [place EXCEPT ![t] = "scan"]
    /\ activePtr' = rows[t]
    /\ I!ResetMachines
    /\ live' = {}
    /\ UNCHANGED <<outside, rows, todo, row, seed, entry>>

\* ... and the inventory emptied.
EmptyInventory(t) ==
    /\ place[t] = "init"
    /\ place' = [place EXCEPT ![t] = "scan"]
    /\ I!ResetMachines
    /\ live' = {}
    /\ UNCHANGED <<outside, rows, todo, row, activePtr, seed, entry>>

\* A seed and an entry are each created, which truncates what was there, and
\* then filled from a template, the seed first.
CreateSeed(t) ==
    /\ place[t] = "scan"
    /\ \E m \in todo[t] :
        /\ row' = [row EXCEPT ![t] = m]
        /\ seed' = [seed EXCEPT ![m] = "empty"]
    /\ place' = [place EXCEPT ![t] = "seed"]
    /\ UNCHANGED <<outside, rows, todo, activePtr, memory, entry>>

WriteSeed(t) ==
    /\ place[t] = "seed"
    /\ seed' = [seed EXCEPT ![row[t]] = "whole"]
    /\ place' = [place EXCEPT ![t] = "entry"]
    /\ UNCHANGED <<outside, rows, todo, row, activePtr, memory, entry>>

Truncate(m) == entry' = [entry EXCEPT ![m] = "empty"]

Render(m, installed) ==
    IF m \in Bios THEN I!RenderBios(installed) ELSE I!RenderEfi(installed)

\* A writer starts at the head of the file.  What another one has written since
\* the truncation is overwritten as far as the new text reaches.
Fill(m, text) ==
    /\ \E result \in {text} \union (IF entry[m] \in {"empty", text} THEN {}
                                    ELSE {"mixed"}) :
            entry' = [entry EXCEPT ![m] = result]
    /\ spoilt' = IF entry'[m] = "mixed" THEN spoilt ELSE spoilt \ {m}

\* A writer that fails leaves the file as it is, or a part of its text in it.
PartFill(m) == entry' \in {entry, [entry EXCEPT ![m] = "mixed"]}

CreateEntry(t) ==
    /\ place[t] = "entry"
    /\ Truncate(row[t])
    /\ place' = [place EXCEPT ![t] = "fill"]
    /\ UNCHANGED <<outside, rows, todo, row, activePtr, memory, seed>>

WriteEntry(t) ==
    /\ place[t] = "fill"
    /\ Fill(row[t], Render(row[t], FALSE))
    /\ place' = [place EXCEPT ![t] = "store"]
    /\ UNCHANGED <<fileVars, faults, servers, bootVars, offered, tangled, rows,
                   todo, row, activePtr, memory, seed>>

Leave(t) ==
    /\ place' = [place EXCEPT ![t] = IF t \in Posts THEN "done" ELSE "idle"]
    /\ rows' = [rows EXCEPT ![t] = Nil]

\* The handler of a POST panics: net/http recovers that, and the worker goes on
\* with the old registry and the rows stored so far.
Recovered(t) ==
    /\ t \in Posts
    /\ faults < MaxFaults
    /\ faults' = faults + 1
    /\ \/ place[t] = "entry" /\ entry' = entry
       \/ place[t] = "fill" /\ PartFill(row[t])
    /\ spoilt' = spoilt \union {row[t]}
    /\ tangled' = TRUE
    /\ Leave(t)
    /\ todo' = [todo EXCEPT ![t] = {}]
    /\ row' = [row EXCEPT ![t] = Nil]
    /\ UNCHANGED <<fileVars, servers, activePtr, memory, seed, bootVars, offered>>

\* A seed Populate cannot write is a log.Fatalf, an entry a panic of its
\* goroutine: the process ends, unless the panic is recovered.
FailFile(t) ==
    \/ place[t] \in {"seed", "entry", "fill"} /\ Crash
    \/ Recovered(t)

\* Mutant of Stored: Generate makes the map anew.
StoredAlone(m) == machines' = [I!NoMachines EXCEPT ![m] = "pending"]

Stored(m) == I!StoreMachine(m)

StoreRow(t) ==
    /\ place[t] = "store"
    /\ Stored(row[t])
    /\ live' = live \ {row[t]}
    /\ todo' = [todo EXCEPT ![t] = @ \ {row[t]}]
    /\ row' = [row EXCEPT ![t] = Nil]
    /\ place' = [place EXCEPT ![t] = "scan"]
    /\ UNCHANGED <<outside, rows, activePtr, seed, entry>>

Publish(t) ==
    /\ place[t] = "scan"
    /\ todo[t] = {}
    /\ activePtr' = rows[t]
    /\ Leave(t)
    /\ offered' = {}
    /\ UNCHANGED <<fileVars, faults, servers, todo, row, memory, seed, entry,
                   bootVars, spoilt, tangled>>

PopulateStep(t) ==
    \/ OpenFile(t)
    \/ EmptyInventory(t)
    \/ CreateSeed(t)
    \/ WriteSeed(t)
    \/ CreateEntry(t)
    \/ WriteEntry(t)
    \/ StoreRow(t)
    \/ Publish(t)

-----------------------------------------------------------------------------
(* DHCP.                                                                   *)

\* Mutant of Answers: the registry is the one Populate is about to publish.
AnswersEarly(m) ==
    LET known == IF rows[Watcher] = Nil THEN activePtr ELSE rows[Watcher]
        reply == IF wire[m].type = "DISCOVER" THEN "OFFER" ELSE "ACK" IN
    IF known[m] = NoIP THEN NoPacket ELSE [type |-> reply, ip |-> known[m]]

\* Mutant of Answers: only a DISCOVER is answered.
AnswersDiscover(m) ==
    IF activePtr[m] = NoIP \/ wire[m].type = "REQUEST" THEN NoPacket
    ELSE [type |-> "OFFER", ip |-> activePtr[m]]

\* The handler looks the MAC up in the registry of this moment, whatever was
\* offered before and whatever address is requested; a stranger gets no reply.
Answers(m) ==
    LET reply == IF wire[m].type = "DISCOVER" THEN "OFFER" ELSE "ACK" IN
    IF activePtr[m] = NoIP THEN NoPacket
    ELSE [type |-> reply, ip |-> activePtr[m]]

Answer(m) ==
    /\ "dhcp" \in servers
    /\ wire[m].type \in {"DISCOVER", "REQUEST"}
    /\ wire' = [wire EXCEPT ![m] = Answers(m)]
    /\ offered' = IF wire[m].type = "DISCOVER" THEN offered \union {m}
                    ELSE offered
    /\ UNCHANGED <<fileVars, faults, servers, populateVars, activePtr, memory,
                   seed, entry, at, address, head, disk, spoilt, tangled>>

-----------------------------------------------------------------------------
(* The machine: firmware, loader, installer.                               *)

\* What no step of the firmware and the loader touches.
Worker == <<fileVars, servers, populateVars, activePtr, memory, seed, entry,
            history>>

Goes(m, place2) == at' = [at EXCEPT ![m] = place2]

\* DISCOVER, and a REQUEST once there is an offer; sent again if no answer came.
Send(m) ==
    wire' = [wire EXCEPT ![m] =
        [type |-> IF address'[m] = NoIP THEN "DISCOVER" ELSE "REQUEST",
         ip |-> NoIP]]

PowerOn(m) ==
    /\ m \in Booting
    /\ at[m] = "off"
    /\ Goes(m, "dhcp")
    /\ address' = [address EXCEPT ![m] = NoIP]
    /\ Send(m)
    /\ UNCHANGED <<Worker, faults, head, disk>>

TakeOffer(m) ==
    /\ wire[m].type = "OFFER"
    /\ address' = [address EXCEPT ![m] = wire[m].ip]
    /\ Send(m)
    /\ UNCHANGED <<Worker, faults, at, head, disk>>

\* The address of the ACK is the one used; the loader goes on to its entry.
TakeAck(m) ==
    /\ wire[m].type = "ACK"
    /\ address' = [address EXCEPT ![m] = wire[m].ip]
    /\ wire' = [wire EXCEPT ![m] = NoPacket]
    /\ Goes(m, "load")
    /\ UNCHANGED <<Worker, faults, head, disk>>

Resend(m) ==
    /\ at[m] = "dhcp"
    /\ wire[m] = NoPacket
    /\ address' = address
    /\ Send(m)
    /\ UNCHANGED <<Worker, faults, at, head, disk>>

Lose(m) ==
    /\ faults < MaxFaults
    /\ faults' = faults + 1
    /\ wire[m] # NoPacket
    /\ wire' = [wire EXCEPT ![m] = NoPacket]
    /\ UNCHANGED <<Worker, at, address, head, disk>>

\* The firmware goes to the next boot device, which is the disk; one without an
\* OS is left for somebody to switch on again.
NextDevice(m) == IF m \in disk THEN "disk" ELSE "off"

\* A timeout.  It is a fault if the answer was still to come.
Hopeless(m) ==
    IF at[m] # "dhcp" THEN "tftp" \notin servers
    ELSE IF "dhcp" \in servers THEN activePtr[m] = NoIP ELSE TRUE

GiveUp(m) ==
    /\ \/ at[m] = "dhcp" /\ wire[m] = NoPacket
       \/ at[m] \in {"load", "read"}
    /\ \/ Hopeless(m) /\ faults' = faults
       \/ faults < MaxFaults /\ faults' = faults + 1
    /\ Goes(m, NextDevice(m))
    /\ wire' = [wire EXCEPT ![m] = NoPacket]
    /\ head' = [head EXCEPT ![m] = "none"]
    /\ UNCHANGED <<Worker, address, disk>>

\* readHandler opens the entry and sends it block by block; a missing one is an
\* error.
ReadHead(m) ==
    /\ at[m] = "load"
    /\ "tftp" \in servers
    /\ Goes(m, IF entry[m] = "none" THEN NextDevice(m) ELSE "read")
    /\ head' = [head EXCEPT ![m] = entry[m]]
    /\ UNCHANGED <<Worker, faults, wire, address, disk>>

\* The end of the entry; the loader does what the whole says, which is anything
\* if the two ends are not of one text.
ReadTail(m) ==
    LET text == IF entry[m] = head[m] THEN head[m] ELSE "mixed" IN
    /\ at[m] = "read"
    /\ "tftp" \in servers
    /\ \/ text \in {"install", "mixed"} /\ Goes(m, "install")
       \/ text \in {"local", "mixed"} /\ Goes(m, NextDevice(m))
       \/ text \in {"empty", "mixed"} /\ Goes(m, "off")
    /\ head' = [head EXCEPT ![m] = "none"]
    /\ UNCHANGED <<Worker, faults, wire, address, disk>>

\* Unattended with its seed; without it the installer stops at a question.
Install(m) ==
    /\ at[m] = "install"
    /\ IF "http" \in servers /\ seed[m] = "whole"
       THEN Goes(m, "call") /\ disk' = disk \union {m}
       ELSE Goes(m, "off") /\ disk' = disk
    /\ UNCHANGED <<Worker, faults, wire, address, head>>

Reboot(m) ==
    /\ at[m] = "disk"
    /\ Goes(m, "off")
    /\ UNCHANGED <<Worker, faults, wire, address, head, disk>>

-----------------------------------------------------------------------------
(* GET /callback.                                                          *)

\* Then the machine boots: from its disk if the installer could tell the
\* firmware so (efibootmgr --bootnext, UEFI only), else from the network.
Leaves(m) == Goes(m, "off") \/ (m \notin Bios /\ Goes(m, "disk"))

\* An unknown machine is refused, and a worker that is down does not answer.
\* The installer does not look at the answer; it sends its request once.
Call(m) ==
    /\ at[m] = "call"
    /\ IF "http" \in servers /\ machines[m] # "absent"
       THEN Goes(m, "mark") /\ live' = live \union {m}
       ELSE Leaves(m) /\ live' = live
    /\ UNCHANGED <<fileVars, faults, servers, populateVars, activePtr, machines,
                   seed, entry, wire, address, head, disk, history>>

Mark(m) ==
    /\ at[m] = "mark"
    /\ I!MarkInstalled(m, m \in live)
    /\ Goes(m, "create")
    /\ UNCHANGED <<fileVars, faults, servers, populateVars, activePtr, live,
                   seed, entry, wire, address, head, disk, history>>

CreateLocal(m) ==
    /\ at[m] = "create"
    /\ Truncate(m)
    /\ Goes(m, "write")
    /\ UNCHANGED <<fileVars, faults, servers, populateVars, activePtr, memory,
                   seed, wire, address, head, disk, history>>

WriteLocal(m) ==
    /\ at[m] = "write"
    /\ Fill(m, Render(m, TRUE))
    /\ Leaves(m)
    /\ live' = live \ {m}
    /\ UNCHANGED <<fileVars, faults, servers, populateVars, activePtr, machines,
                   seed, wire, address, head, disk, offered, tangled>>

\* genPXEEntry panics if it cannot create or write the file.  net/http recovers
\* that: the worker goes on, with the machine marked and its entry as it is.
FailLocal(m) ==
    /\ faults < MaxFaults
    /\ faults' = faults + 1
    /\ \/ at[m] = "create" /\ entry' = entry
       \/ at[m] = "write" /\ PartFill(m)
    /\ spoilt' = spoilt \union {m}
    /\ Leaves(m)
    /\ live' = live \ {m}
    /\ UNCHANGED <<fileVars, servers, populateVars, activePtr, machines, seed,
                   wire, address, head, disk, offered, tangled>>

-----------------------------------------------------------------------------
Edit ==
    /\ edits < MaxEdits
    /\ edits' = edits + 1
    /\ file' \in Versions \ {file}
    /\ unread' = (place[Watcher] # "off")
    /\ UNCHANGED <<faults, servers, populateVars, activePtr, memory, seed,
                   entry, bootVars, history>>

Init ==
    /\ file \in Versions
    /\ unread = FALSE
    /\ edits = 0 /\ faults = 0
    /\ servers = {}
    /\ place = [t \in Populators |-> IF t \in Posts THEN "new" ELSE "off"]
    /\ rows = [t \in Populators |-> Nil]
    /\ todo = [t \in Populators |-> {}]
    /\ row = [t \in Populators |-> Nil]
    /\ activePtr = Nil
    /\ machines = I!NoMachines /\ live = {}
    /\ seed = [m \in Mac |-> "none"]
    /\ entry = [m \in Mac |-> "none"]
    /\ at = [m \in Mac |-> "off"]
    /\ wire = [m \in Mac |-> NoPacket]
    /\ address = [m \in Mac |-> NoIP]
    /\ head = [m \in Mac |-> "none"]
    /\ disk = {}
    /\ offered = {} /\ spoilt = {} /\ tangled = FALSE

MachineStep(m) ==
    \/ PowerOn(m)
    \/ TakeOffer(m)
    \/ TakeAck(m)
    \/ Resend(m)
    \/ GiveUp(m)
    \/ ReadHead(m)
    \/ ReadTail(m)
    \/ Install(m)
    \/ Call(m)

HandlerStep(m) == Mark(m) \/ CreateLocal(m) \/ WriteLocal(m)

ServerStart == StartDHCP \/ StartTFTP \/ StartHTTP

Next ==
    \/ Start
    \/ ServerStart
    \/ TakeEvent
    \/ \E t \in Populators : PopulateStep(t) \/ FailFile(t)
    \/ \E p \in Posts : Post(p)
    \/ Kill
    \/ Edit
    \/ \E m \in Mac : \/ Answer(m)
                      \/ MachineStep(m)
                      \/ HandlerStep(m)
                      \/ FailLocal(m)
                      \/ Reboot(m)
                      \/ Lose(m)

Spec == Init /\ [][Next]_vars

\* The worker is started again when it stops, and its goroutines run; a machine
\* that is on goes on, and one that is off is switched on again.
Fairness ==
    /\ WF_vars(Start)
    /\ WF_vars(StartDHCP)
    /\ WF_vars(StartTFTP)
    /\ WF_vars(StartHTTP)
    /\ WF_vars(TakeEvent)
    /\ \A t \in Populators : WF_vars(PopulateStep(t))
    /\ \A m \in Mac :
        /\ WF_vars(Answer(m))
        /\ WF_vars(MachineStep(m))
        /\ WF_vars(HandlerStep(m))

FairSpec == Spec /\ Fairness

-----------------------------------------------------------------------------
(* Properties.                                                             *)

TypeOK ==
    /\ file \in Versions
    /\ unread \in BOOLEAN
    /\ edits \in 0..MaxEdits
    /\ faults \in 0..MaxFaults
    /\ servers \in SUBSET Server
    /\ place \in [Populators -> {"off", "idle", "new", "done", "open", "init",
                                "scan", "seed", "entry", "fill", "store"}]
    /\ rows \in [Populators -> Versions \union {Nil}]
    /\ todo \in [Populators -> SUBSET Mac]
    /\ row \in [Populators -> Mac \union {Nil}]
    /\ activePtr \in Versions \union {Nil}
    /\ machines \in [Mac -> I!Status]
    /\ live \in SUBSET Mac
    /\ seed \in [Mac -> {"none", "empty", "whole"}]
    /\ entry \in [Mac -> Entry]
    /\ at \in [Mac -> {"off", "dhcp", "load", "read", "install", "call", "disk"}
                          \union Handling]
    /\ wire \in [Mac -> Packet]
    /\ address \in [Mac -> IP \union {NoIP}]
    /\ head \in [Mac -> Entry]
    /\ disk \in SUBSET Mac
    /\ offered \in SUBSET Mac
    /\ spoilt \in SUBSET Mac
    /\ tangled \in BOOLEAN

\* A Populate has the row of m in its hands, or somebody a file of m.
RowInHand(m) == \E t \in Populators : row[t] = m
InHand(m) == RowInHand(m) \/ at[m] = "write"

\* Whom DHCP answers finds an entry that was written to its end, and an
\* installation finds its seed, unless a goroutine is writing them at this
\* moment: also after a stop between a truncation and the writing, after a row
\* was taken out of the file and put back, and under several calls of Populate,
\* each on its own version (Populate publishes last, and the servers start after
\* main's).  An entry a handler failed to write stays as it is until somebody
\* else writes it, and two that write one together may mix their texts.
FilesWhole ==
    \A m \in Mac :
        activePtr # Nil /\ activePtr[m] # NoIP /\ ~InHand(m) =>
            /\ entry[m] \in {"install", "local", "mixed"} \/ m \in spoilt
            /\ seed[m] = "whole"

\* A machine that the inventory calls installed is not given the installer:
\* LogInstalledMachine writes its entry anew, if it can, and nothing but a
\* Populate with its row in hand, which is about to forget the machine, puts the
\* old one back, however many of them run.
InstalledNotReinstalled ==
    \A m \in Mac \ spoilt :
        machines[m] = "installed" /\ ~RowInHand(m) => at[m] # "install"

\* An ACK has the address of the OFFER before it, if nothing was published
\* since; DHCP keeps no lease and reads the registry for each.
AckIsTheOffer ==
    \A m \in offered :
        wire[m].type = "ACK" => wire[m].ip = address[m]

\* A listed machine is refused its callback only while a Populate fills the
\* inventory again or before HTTP is served, or after calls of Populate that ran
\* side by side, or one that panicked, left the inventory of one file and the
\* registry of another.
RefusedOnlyMeanwhile ==
    [][\A m \in Mac :
        at[m] = "call" /\ at'[m] \in {"off", "disk"} =>
            \/ "http" \notin servers
            \/ \E t \in Populators : Running(t)
            \/ tangled
            \/ activePtr[m] = NoIP]_vars

\* Once edits and faults are over, a listed machine is installed for the last
\* time and comes to boot from its disk, although a callback that was refused is
\* never repeated.  What may prevent it for good: calls of Populate side by side
\* that nobody follows, an entry a handler failed to write, or one that two
\* writers had in hand together.
InstallationsEnd ==
    \A m \in Booting :
        /\ <>[](at[m] # "install") \/ <>[]tangled
        /\ []<>(\/ at[m] = "disk"
                \/ file[m] = NoIP
                \/ tangled
                \/ m \in spoilt \/ entry[m] = "mixed")

\* Readme: DHCP_ENABLE and TFTP_ENABLE disable a server.
DisabledStaysOff == \A s \in servers : Enabled(s)

=============================================================================
