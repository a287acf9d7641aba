---------------------------- MODULE NetbootProofs ----------------------------
(***************************************************************************)
(* Proofs about Netboot, for every set of machines, addresses, files,      *)
(* requests and settings, and whatever the bounds.                         *)
(***************************************************************************)
EXTENDS Netboot, TLAPS

USE NilAssumption, MachinesAssumption, PopulatorsAssumption, VersionsAssumption,
    OffAssumption, BoundsAssumption
    DEF fileVars, populateVars, memory, bootVars, history, outside, Worker

-----------------------------------------------------------------------------
(* The inductive invariant.                                                *)

\* What a Populate holds at each of its places, and that it is alone if the
\* history says so; what the process has come to once its servers listen.
Rows ==
    /\ servers # {} \/ place[Main] = "idle"
            => activePtr # Nil /\ place[Main] # "off"
    /\ place[Main] = "off" => place[Watcher] = "off"
    /\ \A t \in Populators :
        /\ rows[t] # Nil <=> Running(t)
        /\ row[t] # Nil <=> place[t] \in {"seed", "entry", "fill", "store"}
        /\ row[t] # Nil => row[t] \in todo[t]
        /\ place[t] = "init" => \A m \in Mac : rows[t][m] # NoIP => m \in todo[t]
    /\ \A m \in live : machines[m] # "absent"
    /\ ~tangled =>
        \A t, u \in Populators : Running(t) /\ Running(u) => t = u

\* m is a row that a Populate has dealt with.
Done(m) == \E t \in Populators : Running(t) /\ rows[t][m] # NoIP /\ m \notin todo[t]

Published(m) == activePtr # Nil /\ activePtr[m] # NoIP

\* m is in the hands of a Populate that is at one of these places.
Holds(m, places) == \E t \in Populators : row[t] = m /\ place[t] \in places

\* The files of a machine that is published or dealt with are whole unless
\* somebody is between the truncation and the writing, and so is the part of
\* them that a Populate has written of the row in its hands.
SeedReady(m) == seed[m] = "whole" \/ Holds(m, {"seed"})

EntryReady(m) ==
    \/ entry[m] \in {"install", "local", "mixed"}
    \/ m \in spoilt \/ at[m] = "write" \/ Holds(m, {"fill"})

Files(m) ==
    /\ Published(m) \/ Done(m) \/ Holds(m, {"entry", "fill", "store"})
            => SeedReady(m)
    /\ Published(m) \/ Done(m) \/ Holds(m, {"store"}) => EntryReady(m)

\* A packet belongs to a machine that is still asking; what a machine was told
\* since the last publication is what is published.
Dialogue(m) ==
    /\ wire[m].type # "none" => at[m] = "dhcp"
    /\ wire[m].type = "DISCOVER" => address[m] = NoIP
    /\ wire[m].type = "REQUEST" => address[m] # NoIP
    /\ m \in offered =>
        /\ activePtr # Nil
        /\ address[m] \in {NoIP, activePtr[m]}
        /\ wire[m].type \in {"OFFER", "ACK"} => wire[m].ip = activePtr[m]
        /\ wire[m].type = "ACK" => address[m] = activePtr[m]

\* A machine that the inventory calls installed, whose row nobody has in hand,
\* has an entry for its disk, or its callback is about to write one to a file
\* nobody else has touched since.
Installed(m) ==
    machines[m] = "installed" /\ m \notin Bios \union spoilt /\ ~RowInHand(m) =>
        /\ at[m] \notin {"install", "call", "mark"}
        /\ at[m] = "write" => entry[m] = "empty"
        /\ at[m] \notin {"create", "write"} => entry[m] = "local"
        /\ head[m] \in {"none", "local"}

Heads == \A m \in Mac : at[m] = "read" <=> head[m] # "none"

\* A Populate that is alone puts every row into the inventory before it
\* publishes.
Stocked ==
    \A m \in Mac :
        ~tangled /\ (Done(m) \/ (Published(m) /\ \A t \in Populators : ~Running(t)))
            => machines[m] # "absent"

IInv ==
    /\ TypeOK
    /\ Rows
    /\ Stocked
    /\ \A m \in Mac : Files(m)
    /\ \A m \in Mac : Dialogue(m)
    /\ Heads
    /\ \A m \in Mac : Installed(m)

\* A goroutine is told to run Populate.
Begins == Start \/ TakeEvent \/ \E p \in Posts : Post(p)

\* The cases of Next.
LEMMA Steps ==
    ASSUME [Next]_vars
    PROVE  \/ Crash
           \/ Begins \/ Edit \/ UNCHANGED vars
           \/ \E s \in Server : Listen(s)
           \/ \E t \in Populators :
                \/ OpenFile(t) \/ EmptyInventory(t) \/ CreateSeed(t)
                \/ WriteSeed(t) \/ CreateEntry(t) \/ WriteEntry(t)
                \/ StoreRow(t) \/ Publish(t) \/ Recovered(t)
           \/ \E m \in Mac :
                \/ Answer(m) \/ PowerOn(m) \/ TakeOffer(m) \/ TakeAck(m)
                \/ Resend(m) \/ Lose(m) \/ GiveUp(m) \/ ReadHead(m)
                \/ ReadTail(m) \/ Install(m) \/ Reboot(m) \/ Call(m) \/ Mark(m)
                \/ CreateLocal(m) \/ WriteLocal(m) \/ FailLocal(m)
BY DEF Next, ServerStart, StartDHCP, StartTFTP, StartHTTP, Server, PopulateStep,
   FailFile, Kill, MachineStep, HandlerStep, Begins

-----------------------------------------------------------------------------
(* Types.                                                                  *)

LEMMA InitType == Init => TypeOK
<1> SUFFICES ASSUME Init PROVE TypeOK
  OBVIOUS
<1>1. wire \in [Mac -> Packet]
  BY DEF Init, Packet, NoPacket
<1>2. machines \in [Mac -> I!Status] /\ live \in SUBSET Mac
  BY DEF Init, I!NoMachines, I!Status
<1>3. /\ seed \in [Mac -> {"none", "empty", "whole"}]
      /\ entry \in [Mac -> Entry] /\ head \in [Mac -> Entry]
      /\ address \in [Mac -> IP \union {NoIP}]
      /\ at \in [Mac -> {"off", "dhcp", "load", "read", "install", "call",
                         "disk"} \union Handling]
  BY DEF Init, Entry
<1>4. edits \in 0..MaxEdits /\ faults \in 0..MaxFaults
  BY DEF Init
<1>5. /\ place \in [Populators -> {"off", "idle", "new", "done", "open", "init",
                                   "scan", "seed", "entry", "fill", "store"}]
      /\ rows \in [Populators -> Versions \union {Nil}]
      /\ todo \in [Populators -> SUBSET Mac]
      /\ row \in [Populators -> Mac \union {Nil}]
  BY DEF Init
<1> QED
  BY <1>1, <1>2, <1>3, <1>4, <1>5 DEF Init, TypeOK

LEMMA CrashType ==
    ASSUME TypeOK, Crash
    PROVE  TypeOK'
<1>1. machines' \in [Mac -> I!Status]
  BY DEF Crash, I!ResetMachines, I!NoMachines, I!Status
<1>2. at' \in [Mac -> {"off", "dhcp", "load", "read", "install", "call", "disk"}
                          \union Handling]
  BY DEF TypeOK, Crash, Handling
<1>3. unread' \in BOOLEAN
  BY Zenon DEF Crash
<1>4. /\ file' \in Versions /\ edits' \in 0..MaxEdits
      /\ seed' \in [Mac -> {"none", "empty", "whole"}]
      /\ entry' \in [Mac -> Entry] /\ head' \in [Mac -> Entry]
      /\ wire' \in [Mac -> Packet] /\ address' \in [Mac -> IP \union {NoIP}]
      /\ disk' \in SUBSET Mac
  BY DEF TypeOK, Crash
<1>5. /\ servers' \in SUBSET Server /\ activePtr' = Nil
      /\ offered' = {} /\ spoilt' = spoilt
  BY DEF Crash
<1>6. faults' \in 0..MaxFaults /\ live' \in SUBSET Mac
  BY DEF TypeOK, Crash
<1>7. /\ place' \in [Populators -> {"off", "idle", "new", "done", "open", "init",
                                    "scan", "seed", "entry", "fill", "store"}]
      /\ rows' \in [Populators -> Versions \union {Nil}]
      /\ todo' \in [Populators -> SUBSET Mac]
      /\ row' \in [Populators -> Mac \union {Nil}]
  BY DEF Crash, PlaceAfterCrash
<1>8. tangled' \in BOOLEAN
  BY Zenon DEF Crash
<1> QED
  BY <1>1, <1>2, <1>3, <1>4, <1>5, <1>6, <1>7, <1>8 DEF TypeOK

LEMMA BeginsType ==
    ASSUME TypeOK, Begins
    PROVE  TypeOK'
<1>1. CASE Start
  BY <1>1 DEF TypeOK, Start, Populators
<1>2. CASE TakeEvent
  BY <1>2 DEF TypeOK, TakeEvent, Populators
<1>3. ASSUME NEW p \in Posts, Post(p) PROVE TypeOK'
  BY <1>3 DEF TypeOK, Post, Populators
<1> QED
  BY <1>1, <1>2, <1>3 DEF Begins

\* A Populate never has a row in hand that is none.
LEMMA RowOf ==
    ASSUME TypeOK, Rows, NEW t \in Populators,
           place[t] \in {"seed", "entry", "fill", "store"}
    PROVE  row[t] \in Mac /\ rows[t] \in Versions /\ row[t] \in todo[t]
BY DEF TypeOK, Rows, Running

LEMMA PopulateType ==
    ASSUME TypeOK, Rows, NEW t \in Populators,
           \/ OpenFile(t) \/ EmptyInventory(t) \/ CreateSeed(t) \/ WriteSeed(t)
           \/ CreateEntry(t) \/ WriteEntry(t) \/ StoreRow(t) \/ Publish(t)
           \/ Recovered(t)
    PROVE  TypeOK'
<1>1. CASE OpenFile(t)
  <2>1. tangled' \in BOOLEAN
    BY <1>1, Zenon DEF OpenFile
  <2> QED
    BY <1>1, <2>1 DEF TypeOK, OpenFile
<1>2. CASE EmptyInventory(t)
  BY <1>2 DEF TypeOK, EmptyInventory, I!ResetMachines, I!NoMachines, I!Status
<1>3. CASE CreateSeed(t)
  BY <1>3 DEF TypeOK, CreateSeed
<1>4. CASE WriteSeed(t)
  BY <1>4, RowOf DEF TypeOK, WriteSeed
<1>5. CASE CreateEntry(t)
  BY <1>5, RowOf DEF TypeOK, CreateEntry, Truncate, Entry
<1>6. CASE WriteEntry(t)
  BY <1>6, RowOf DEF TypeOK, WriteEntry, Fill, Render, I!RenderBios, I!RenderEfi,
     Entry
<1>7. CASE StoreRow(t)
  BY <1>7, RowOf DEF TypeOK, StoreRow, Stored, I!StoreMachine, I!Status
<1>8. CASE Publish(t)
  <2>1. rows[t] \in Versions
    BY <1>8 DEF TypeOK, Rows, Publish, Running
  <2> QED
    BY <1>8, <2>1 DEF TypeOK, Publish, Leave
<1>9. CASE Recovered(t)
  <2>1. row[t] \in Mac /\ entry' \in [Mac -> Entry]
    BY <1>9, RowOf DEF TypeOK, Recovered, PartFill, Entry
  <2>2. tangled' \in BOOLEAN
    BY <1>9, Zenon DEF Recovered
  <2>3. faults' \in 0..MaxFaults
    BY <1>9 DEF TypeOK, Recovered
  <2> QED
    BY <1>9, <2>1, <2>2, <2>3 DEF TypeOK, Recovered, Leave
<1> QED
  BY <1>1, <1>2, <1>3, <1>4, <1>5, <1>6, <1>7, <1>8, <1>9

LEMMA AnswerType ==
    ASSUME TypeOK, Rows, NEW m \in Mac, Answer(m)
    PROVE  TypeOK'
<1>1. activePtr \in Registry
  BY DEF Answer, TypeOK, Rows
<1>2. activePtr[m] \in IP \union {NoIP}
  BY <1>1 DEF Registry
<1>3. Answers(m) \in Packet
  BY <1>2 DEF Answers, Packet, NoPacket
<1> QED
  BY <1>3 DEF Answer, TypeOK

LEMMA FirmwareType ==
    ASSUME TypeOK, NEW m \in Mac,
           \/ PowerOn(m) \/ TakeOffer(m) \/ TakeAck(m) \/ Resend(m) \/ Lose(m)
           \/ GiveUp(m) \/ ReadHead(m) \/ ReadTail(m) \/ Install(m) \/ Reboot(m)
    PROVE  TypeOK'
<1>1. NoPacket \in Packet
  BY DEF NoPacket, Packet
<1>2. NextDevice(m) \in {"disk", "off"}
  BY DEF NextDevice
<1>3. CASE PowerOn(m) \/ TakeOffer(m) \/ Resend(m)
  <2>1. [type |-> IF address'[m] = NoIP THEN "DISCOVER" ELSE "REQUEST",
         ip |-> NoIP] \in Packet
    BY DEF Packet
  <2>2. wire' \in [Mac -> Packet]
    BY <1>3, <2>1 DEF TypeOK, PowerOn, TakeOffer, Resend, Send
  <2>3. wire[m].type = "OFFER" => wire[m].ip \in IP
    BY DEF TypeOK, Packet
  <2>4. address' \in [Mac -> IP \union {NoIP}]
    BY <1>3, <2>3 DEF TypeOK, PowerOn, TakeOffer, Resend
  <2>5. /\ at' \in [Mac -> {"off", "dhcp", "load", "read", "install", "call",
                            "disk"} \union Handling]
        /\ UNCHANGED <<Worker, faults, head, disk>>
    BY <1>3 DEF TypeOK, PowerOn, TakeOffer, Resend, Goes
  <2> QED
    BY <2>2, <2>4, <2>5 DEF TypeOK
<1>4. CASE TakeAck(m)
  <2>1. wire[m].ip \in IP
    BY <1>4 DEF TypeOK, TakeAck, Packet
  <2> QED
    BY <1>1, <1>4, <2>1 DEF TypeOK, TakeAck, Goes
<1>5. CASE Lose(m)
  BY <1>1, <1>5 DEF TypeOK, Lose
<1>6. CASE GiveUp(m)
  BY <1>1, <1>2, <1>6 DEF TypeOK, GiveUp, Goes, Entry
<1>7. CASE ReadHead(m)
  BY <1>2, <1>7 DEF TypeOK, ReadHead, Goes
<1>8. CASE ReadTail(m)
  BY <1>2, <1>8 DEF TypeOK, ReadTail, Goes, Entry
<1>9. CASE Install(m) \/ Reboot(m)
  BY <1>9 DEF TypeOK, Install, Reboot, Goes
<1> QED
  BY <1>3, <1>4, <1>5, <1>6, <1>7, <1>8, <1>9

LEMMA CallbackType ==
    ASSUME TypeOK, NEW m \in Mac,
           Call(m) \/ Mark(m) \/ CreateLocal(m) \/ WriteLocal(m) \/ FailLocal(m)
    PROVE  TypeOK'
<1>1. CASE Call(m)
  BY <1>1 DEF TypeOK, Call, Goes, Leaves, Handling
<1>2. CASE Mark(m)
  <2>1. machines' \in [Mac -> I!Status]
    BY <1>2 DEF TypeOK, Mark, I!MarkInstalled, I!Status
  <2> QED
    BY <1>2, <2>1 DEF TypeOK, Mark, Goes, Handling
<1>3. CASE CreateLocal(m)
  BY <1>3 DEF TypeOK, CreateLocal, Goes, Handling, Truncate, Entry
<1>4. CASE WriteLocal(m)
  BY <1>4 DEF TypeOK, WriteLocal, Leaves, Goes, Fill, Render, I!RenderBios,
     I!RenderEfi, Entry
<1>5. CASE FailLocal(m)
  BY <1>5 DEF TypeOK, FailLocal, PartFill, Leaves, Goes, Entry
<1> QED
  BY <1>1, <1>2, <1>3, <1>4, <1>5

LEMMA NextType ==
    ASSUME TypeOK, Rows, [Next]_vars
    PROVE  TypeOK'
<1>1. CASE Edit
  <2>1. unread' \in BOOLEAN
    BY <1>1, Zenon DEF Edit
  <2>2. file' \in Versions /\ edits' \in 0..MaxEdits
    BY <1>1 DEF TypeOK, Edit
  <2> QED
    BY <1>1, <2>1, <2>2 DEF TypeOK, Edit
<1>3. CASE UNCHANGED vars
  BY <1>3 DEF TypeOK, vars
<1>2. ASSUME NEW s \in Server, Listen(s), ~Crash PROVE TypeOK'
  BY <1>2 DEF TypeOK, Listen
<1> QED
  BY <1>1, <1>2, <1>3, CrashType, BeginsType, PopulateType, AnswerType,
     FirmwareType, CallbackType, Steps

-----------------------------------------------------------------------------
(* Populate and the inventory.                                             *)

\* Running is a matter of the place alone.
LEMMA RunningFrame ==
    ASSUME NEW t \in Populators, place'[t] = place[t]
    PROVE  Running(t)' <=> Running(t)
BY DEF Running

\* A step that begins or ends no Populate, puts none elsewhere and takes nobody
\* out of the inventory.
LEMMA RowsFrame ==
    ASSUME Rows, UNCHANGED <<populateVars, activePtr, tangled>>,
           servers' \subseteq servers \/ place[Main] = "idle",
           \A m \in live' : machines'[m] # "absent"
    PROVE  Rows'
BY DEF Rows, Running

LEMMA BeginsRows ==
    ASSUME TypeOK, Rows, Begins
    PROVE  /\ UNCHANGED <<rows, todo, row, activePtr, machines, live, servers,
                          seed, entry, at, wire, address, head, offered, spoilt,
                          tangled>>
           /\ \A t \in Populators :
                /\ Running(t)' <=> Running(t)
                /\ place'[t] = place[t] \/ place'[t] \in {"open", "idle"}
                /\ place'[t] # place[t] => ~Running(t) /\ ~Running(t)'
           /\ place'[Main] = "idle" => place[Main] = "idle"
           /\ place'[Main] # "off"
<1>0. Main \in Populators /\ Watcher \in Populators
  BY DEF Populators
<1>1. CASE Start
  <2>1. place[Main] = "off" /\ place[Watcher] = "off"
    BY <1>1 DEF Rows, Start
  <2>2. place' = [place EXCEPT ![Main] = "open", ![Watcher] = "idle"]
    BY <1>1 DEF Start
  <2>3. /\ place'[Main] = "open" /\ place'[Watcher] = "idle"
        /\ \A t \in Populators \ {Main, Watcher} : place'[t] = place[t]
    BY <1>0, <2>2 DEF TypeOK
  <2> QED
    BY <1>1, <2>1, <2>3 DEF Start, Running
<1>2. CASE TakeEvent
  <2>1. place[Main] # "off"
    BY <1>2 DEF Rows, TakeEvent
  <2> QED
    BY <1>0, <1>2, <2>1 DEF TypeOK, TakeEvent, Running
<1>3. ASSUME NEW p \in Posts, Post(p)
      PROVE  /\ UNCHANGED <<rows, todo, row, activePtr, machines, live, servers,
                            seed, entry, at, wire, address, head, offered, spoilt,
                            tangled>>
             /\ \A t \in Populators :
                  /\ Running(t)' <=> Running(t)
                  /\ place'[t] = place[t] \/ place'[t] \in {"open", "idle"}
                  /\ place'[t] # place[t] => ~Running(t) /\ ~Running(t)'
             /\ place'[Main] = "idle" => place[Main] = "idle"
             /\ place'[Main] # "off"
  <2>1. servers # {} /\ p # Main
    BY <1>3 DEF Post
  <2> QED
    BY <1>0, <1>3, <2>1 DEF TypeOK, Rows, Post, Running
<1> QED
  BY <1>1, <1>2, <1>3 DEF Begins

LEMMA RowsPopulate ==
    ASSUME TypeOK, Rows, NEW t \in Populators,
           \/ OpenFile(t) \/ EmptyInventory(t) \/ CreateSeed(t) \/ WriteSeed(t)
           \/ CreateEntry(t) \/ WriteEntry(t) \/ StoreRow(t) \/ Publish(t)
           \/ Recovered(t)
    PROVE  Rows'
<1>1. CASE OpenFile(t)
  <2>1. file \in Registry /\ file # Nil
    BY DEF TypeOK
  <2>2. ~Running(t) /\ Running(t)'
    BY <1>1 DEF TypeOK, OpenFile, Running
  <2>3. \A u \in Populators \ {t} :
            /\ place'[u] = place[u] /\ rows'[u] = rows[u] /\ todo'[u] = todo[u]
            /\ row'[u] = row[u] /\ (Running(u)' <=> Running(u))
    BY <1>1 DEF TypeOK, OpenFile, Running
  <2>4. /\ place'[t] = "init" /\ rows'[t] = file /\ row'[t] = row[t]
        /\ todo'[t] = {m \in Mac : file[m] # NoIP}
        /\ UNCHANGED <<servers, activePtr, machines, live>>
        /\ place[t] = "open"
    BY <1>1 DEF TypeOK, OpenFile
  <2>5. ~tangled' => \A u \in Populators \ {t} : ~Running(u)
    BY <1>1 DEF OpenFile
  <2>6. /\ place'[Main] = "idle" => place[Main] = "idle"
        /\ place'[Main] = "off" => place[Main] = "off" /\ t # Watcher
        /\ place'[Watcher] = place[Watcher] \/ t = Watcher
    BY <2>3, <2>4 DEF Rows, Populators
  <2> QED
    BY <2>1, <2>2, <2>3, <2>4, <2>5, <2>6 DEF Rows
<1>2. CASE EmptyInventory(t)
  BY <1>2 DEF TypeOK, Rows, Running, EmptyInventory, Populators
<1>3. CASE CreateSeed(t)
  BY <1>3 DEF TypeOK, Rows, Running, CreateSeed, Populators
<1>4. CASE WriteSeed(t) \/ CreateEntry(t) \/ WriteEntry(t)
  <2>1. /\ UNCHANGED <<rows, todo, row, activePtr, memory, servers, tangled>>
        /\ place[t] \in {"seed", "entry", "fill"}
        /\ place'[t] \in {"entry", "fill", "store"}
        /\ \A u \in Populators \ {t} : place'[u] = place[u]
    BY <1>4 DEF TypeOK, WriteSeed, CreateEntry, WriteEntry
  <2> QED
    BY <2>1 DEF Rows, Running, Populators
<1>5. CASE StoreRow(t)
  <2>1. \A m \in live' : machines'[m] # "absent"
    BY <1>5 DEF TypeOK, Rows, StoreRow, Stored, I!StoreMachine
  <2> QED
    BY <1>5, <2>1 DEF TypeOK, Rows, Running, StoreRow, Populators
<1>6. CASE Publish(t)
  <2>1. rows[t] # Nil
    BY <1>6 DEF Rows, Running, Publish
  <2> QED
    BY <1>6, <2>1 DEF TypeOK, Rows, Running, Publish, Leave, Populators
<1>7. CASE Recovered(t)
  BY <1>7 DEF TypeOK, Rows, Running, Recovered, Leave, Populators
<1> QED
  BY <1>1, <1>2, <1>3, <1>4, <1>5, <1>6, <1>7

LEMMA RowsNext ==
    ASSUME TypeOK, Rows, [Next]_vars
    PROVE  Rows'
<1>1. CASE Crash
  BY <1>1 DEF Crash, PlaceAfterCrash, Rows, Running, Populators
<1>2. CASE Begins
  <2>1. \A t \in Populators :
            /\ place'[t] = "init" <=> place[t] = "init"
            /\ place'[t] \in {"seed", "entry", "fill", "store"}
                    <=> place[t] \in {"seed", "entry", "fill", "store"}
    BY <1>2, BeginsRows DEF Running
  <2> QED
    BY <1>2, <2>1, BeginsRows DEF Rows
<1>3. ASSUME NEW s \in Server, Listen(s), ~Crash PROVE Rows'
  BY <1>3, RowsFrame DEF Rows, Listen
<1>4. ASSUME NEW m \in Mac, Call(m) PROVE Rows'
  BY <1>4, RowsFrame DEF Rows, Call
<1>5. ASSUME NEW m \in Mac, Mark(m) PROVE Rows'
  <2>1. \A k \in Mac : machines[k] = "absent" <=> machines'[k] = "absent"
    BY <1>5 DEF TypeOK, Rows, Mark, I!MarkInstalled
  <2> QED
    BY <1>5, <2>1, RowsFrame DEF TypeOK, Rows, Mark
<1>6. ASSUME NEW m \in Mac, CreateLocal(m) \/ WriteLocal(m) \/ FailLocal(m)
      PROVE  Rows'
  BY <1>6, RowsFrame DEF Rows, CreateLocal, WriteLocal, FailLocal
<1>7. CASE Edit \/ UNCHANGED vars
  BY <1>7, RowsFrame DEF Rows, Edit, vars
<1>8. ASSUME NEW m \in Mac,
             \/ Answer(m) \/ PowerOn(m) \/ TakeOffer(m) \/ TakeAck(m)
             \/ Resend(m) \/ Lose(m) \/ GiveUp(m) \/ ReadHead(m) \/ ReadTail(m)
             \/ Install(m) \/ Reboot(m)
      PROVE  Rows'
  BY <1>8, RowsFrame DEF Rows, Answer, PowerOn, TakeOffer, TakeAck, Resend, Lose,
     GiveUp, ReadHead, ReadTail, Install, Reboot
<1> QED
  BY <1>1, <1>2, <1>3, <1>4, <1>5, <1>6, <1>7, <1>8, RowsPopulate, Steps

\* Nobody is taken out of the inventory, and no Populate does anything.
LEMMA StockedFrame ==
    ASSUME Stocked, UNCHANGED <<populateVars, activePtr, tangled>>,
           \A m \in Mac : machines[m] # "absent" => machines'[m] # "absent"
    PROVE  Stocked'
BY DEF Stocked, Done, Published, Running

\* If a Populate that is alone goes on, nobody else has dealt with any row.
LEMMA StockedPopulate ==
    ASSUME TypeOK, Rows, Stocked, NEW t \in Populators,
           \/ OpenFile(t) \/ EmptyInventory(t) \/ CreateSeed(t) \/ WriteSeed(t)
           \/ CreateEntry(t) \/ WriteEntry(t) \/ StoreRow(t) \/ Publish(t)
           \/ Recovered(t)
    PROVE  Stocked'
<1>1. CASE OpenFile(t)
  <2>1. Running(t)' /\ (\A m \in Mac : rows'[t][m] # NoIP => m \in todo'[t])
    BY <1>1 DEF TypeOK, OpenFile, Running
  <2>2. ~tangled' => \A u \in Populators \ {t} : ~Running(u)'
    BY <1>1 DEF TypeOK, OpenFile, Running
  <2> QED
    BY <2>1, <2>2 DEF Stocked, Done
<1>2. CASE EmptyInventory(t)
  <2>1. /\ Running(t) /\ Running(t)' /\ UNCHANGED <<rows, todo, tangled>>
        /\ \A u \in Populators \ {t} : Running(u)' <=> Running(u)
        /\ \A m \in Mac : rows[t][m] # NoIP => m \in todo[t]
    BY <1>2 DEF TypeOK, Rows, EmptyInventory, Running
  <2> QED
    BY <2>1 DEF Rows, Stocked, Done
<1>3. CASE CreateSeed(t) \/ WriteSeed(t) \/ CreateEntry(t) \/ WriteEntry(t)
  <2>1. /\ \A u \in Populators : Running(u)' <=> Running(u)
        /\ UNCHANGED <<rows, todo, activePtr, tangled, machines>>
    BY <1>3 DEF TypeOK, CreateSeed, WriteSeed, CreateEntry, WriteEntry, Running
  <2> QED
    BY <2>1 DEF Stocked, Done, Published
<1>4. CASE StoreRow(t)
  <2>1. /\ \A u \in Populators : Running(u)' <=> Running(u)
        /\ Running(t) /\ row[t] \in Mac
        /\ UNCHANGED <<rows, activePtr, tangled>>
        /\ todo'[t] = todo[t] \ {row[t]}
        /\ \A u \in Populators \ {t} : todo'[u] = todo[u]
        /\ machines' = [machines EXCEPT ![row[t]] = "pending"]
    BY <1>4, RowOf DEF TypeOK, StoreRow, Stored, I!StoreMachine, Running
  <2>2. /\ machines'[row[t]] = "pending"
        /\ \A m \in Mac \ {row[t]} : machines'[m] = machines[m]
    BY <2>1 DEF TypeOK
  <2>3. ASSUME NEW m \in Mac \ {row[t]}, Done(m)' PROVE Done(m)
    BY <2>1, <2>3 DEF Done
  <2> QED
    BY <2>1, <2>2, <2>3 DEF Stocked, Published
<1>5. CASE Publish(t)
  <2>1. /\ Running(t) /\ rows[t] # Nil /\ todo[t] = {} /\ activePtr' = rows[t]
        /\ UNCHANGED <<machines, tangled, todo>>
        /\ \A u \in Populators \ {t} :
              /\ Running(u)' <=> Running(u)
              /\ rows'[u] = rows[u]
        /\ ~Running(t)'
    BY <1>5 DEF TypeOK, Rows, Publish, Leave, Running
  <2>2. ASSUME NEW m \in Mac, Done(m)' PROVE Done(m)
    BY <2>1, <2>2 DEF Done
  <2>3. ASSUME NEW m \in Mac, Published(m)' PROVE Done(m)
    BY <2>1, <2>3 DEF Done, Published
  <2> QED
    BY <2>1, <2>2, <2>3 DEF Stocked
<1>6. CASE Recovered(t)
  BY <1>6 DEF Recovered, Stocked
<1> QED
  BY <1>1, <1>2, <1>3, <1>4, <1>5, <1>6

LEMMA StockedNext ==
    ASSUME TypeOK, Rows, Stocked, [Next]_vars
    PROVE  Stocked'
<1>1. CASE Crash
  BY <1>1 DEF Crash, PlaceAfterCrash, Stocked, Done, Published, Running
<1>2. CASE Begins
  BY <1>2, BeginsRows DEF Stocked, Done, Published
<1>3. ASSUME NEW m \in Mac, Mark(m) PROVE Stocked'
  <2>1. \A k \in Mac : machines[k] # "absent" => machines'[k] # "absent"
    BY <1>3 DEF TypeOK, Mark, I!MarkInstalled
  <2> QED
    BY <1>3, <2>1, StockedFrame DEF Mark
<1>4. CASE Edit \/ UNCHANGED vars
  BY <1>4, StockedFrame DEF Edit, vars
<1>5. ASSUME NEW s \in Server, Listen(s), ~Crash PROVE Stocked'
  BY <1>5, StockedFrame DEF Listen
<1>6. ASSUME NEW m \in Mac,
             \/ Answer(m) \/ PowerOn(m) \/ TakeOffer(m) \/ TakeAck(m)
             \/ Resend(m) \/ Lose(m) \/ GiveUp(m) \/ ReadHead(m) \/ ReadTail(m)
             \/ Install(m) \/ Reboot(m) \/ Call(m) \/ CreateLocal(m)
             \/ WriteLocal(m) \/ FailLocal(m)
      PROVE  Stocked'
  BY <1>6, StockedFrame DEF Answer, PowerOn, TakeOffer, TakeAck, Resend, Lose,
     GiveUp, ReadHead, ReadTail, Install, Reboot, Call, CreateLocal, WriteLocal,
     FailLocal
<1> QED
  BY <1>1, <1>2, <1>3, <1>4, <1>5, <1>6, StockedPopulate, Steps

-----------------------------------------------------------------------------
(* Seeds and entries.                                                      *)

\* Someone writes an entry to its end, by itself or over another text.
LEMMA Filled ==
    ASSUME TypeOK, NEW m \in Mac, NEW text \in {"install", "local"}, Fill(m, text)
    PROVE  /\ entry'[m] \in {text, "mixed"}
           /\ entry[m] = "empty" => entry'[m] = text
           /\ \A k \in Mac \ {m} :
                entry'[k] = entry[k] /\ (k \in spoilt' <=> k \in spoilt)
BY DEF TypeOK, Fill

\* A step that leaves every Populate, what is published and the files alone, and
\* nobody's handler with an entry in its hands.
LEMMA FilesFrame ==
    ASSUME UNCHANGED <<populateVars, activePtr, seed, entry>>,
           spoilt \subseteq spoilt', NEW m \in Mac, Files(m),
           at[m] = "write" => at'[m] = "write"
    PROVE  Files(m)'
BY DEF Files, SeedReady, EntryReady, Published, Done, Holds, Running

\* Less is published, dealt with and in hand, and the files are as they were.
LEMMA FilesLess ==
    ASSUME NEW m \in Mac, Files(m),
           Published(m)' \/ Done(m)' => Published(m) \/ Done(m),
           Holds(m, {"entry", "fill", "store"})'
                => Holds(m, {"entry", "fill", "store"}),
           Holds(m, {"store"})' => Holds(m, {"store"}),
           SeedReady(m) => SeedReady(m)', EntryReady(m) => EntryReady(m)'
    PROVE  Files(m)'
BY DEF Files

\* A Populate moves with its row, which stays in its hands.
LEMMA FilesMove ==
    ASSUME TypeOK, NEW t \in Populators, NEW from, NEW to,
           place[t] = from, place' = [place EXCEPT ![t] = to],
           Running(t), Running(t)',
           UNCHANGED <<rows, todo, row, activePtr>>
    PROVE  \A m \in Mac :
              /\ Published(m)' <=> Published(m)
              /\ Done(m)' <=> Done(m)
              /\ \A places : from \notin places /\ to \notin places
                    => (Holds(m, places)' <=> Holds(m, places))
              /\ m # row[t] => \A places : Holds(m, places)' <=> Holds(m, places)
<1>1. /\ place'[t] = to
      /\ \A u \in Populators \ {t} :
            place'[u] = place[u] /\ (Running(u)' <=> Running(u))
  BY DEF TypeOK, Running
<1> QED
  BY <1>1 DEF Published, Done, Holds

LEMMA FilesPopulate ==
    ASSUME TypeOK, Rows, NEW t \in Populators, NEW m \in Mac, Files(m),
           \/ OpenFile(t) \/ EmptyInventory(t) \/ CreateSeed(t) \/ WriteSeed(t)
           \/ CreateEntry(t) \/ WriteEntry(t) \/ StoreRow(t) \/ Publish(t)
           \/ Recovered(t)
    PROVE  Files(m)'
<1>1. CASE OpenFile(t)
  <2>1. /\ ~Running(t) /\ row[t] = Nil
        /\ \A k \in Mac : rows'[t][k] # NoIP => k \in todo'[t]
        /\ \A u \in Populators \ {t} :
              /\ place'[u] = place[u] /\ (Running(u)' <=> Running(u))
              /\ rows'[u] = rows[u] /\ todo'[u] = todo[u]
        /\ UNCHANGED <<row, activePtr, seed, entry, at, spoilt>>
    BY <1>1 DEF TypeOK, Rows, OpenFile, Running
  <2>2. /\ Published(m)' => Published(m)
        /\ Done(m)' => Done(m)
        /\ \A places : Holds(m, places)' <=> Holds(m, places)
    BY <2>1 DEF Published, Done, Holds
  <2> QED
    BY <2>1, <2>2 DEF Files, SeedReady, EntryReady
<1>2. CASE EmptyInventory(t)
  <2>1. /\ \A u \in Populators : Running(u)' <=> Running(u)
        /\ row[t] = Nil
        /\ \A u \in Populators \ {t} : place'[u] = place[u]
        /\ UNCHANGED <<rows, todo, row, activePtr, seed, entry, at, spoilt>>
    BY <1>2 DEF TypeOK, Rows, EmptyInventory, Running
  <2>2. /\ Published(m)' => Published(m)
        /\ Done(m)' => Done(m)
        /\ \A places : Holds(m, places)' <=> Holds(m, places)
    BY <2>1 DEF Published, Done, Holds
  <2> QED
    BY <2>1, <2>2 DEF Files, SeedReady, EntryReady
<1>3. CASE CreateSeed(t)
  <2>1. /\ \A u \in Populators : Running(u)' <=> Running(u)
        /\ row[t] = Nil /\ row'[t] \in Mac /\ place'[t] = "seed"
        /\ \A u \in Populators \ {t} : place'[u] = place[u] /\ row'[u] = row[u]
        /\ UNCHANGED <<rows, todo, activePtr, entry, at, spoilt>>
        /\ m # row'[t] => seed'[m] = seed[m]
    BY <1>3 DEF TypeOK, Rows, CreateSeed, Running
  <2>2. /\ Published(m)' => Published(m)
        /\ Done(m)' => Done(m)
        /\ \A places : "seed" \notin places
              => (Holds(m, places)' <=> Holds(m, places))
        /\ m # row'[t] => \A places : Holds(m, places)' <=> Holds(m, places)
        /\ m = row'[t] => Holds(m, {"seed"})'
    BY <2>1 DEF Published, Done, Holds
  <2>3. SeedReady(m) => SeedReady(m)'
    BY <2>1, <2>2 DEF SeedReady
  <2> QED
    BY <2>1, <2>2, <2>3, FilesLess DEF EntryReady
<1>4. CASE WriteSeed(t)
  <2>1. /\ row[t] \in Mac /\ Running(t) /\ Running(t)'
        /\ UNCHANGED <<entry, at, spoilt>>
    BY <1>4, RowOf DEF TypeOK, WriteSeed, Running
  <2>2. seed'[row[t]] = "whole" /\ (m # row[t] => seed'[m] = seed[m])
    BY <1>4, <2>1 DEF TypeOK, WriteSeed
  <2>3. /\ Published(m)' <=> Published(m)
        /\ Done(m)' <=> Done(m)
        /\ Holds(m, {"store"})' <=> Holds(m, {"store"})
        /\ Holds(m, {"fill"})' <=> Holds(m, {"fill"})
        /\ m # row[t] => \A places : Holds(m, places)' <=> Holds(m, places)
    <3>1. /\ Published(m)' <=> Published(m)
          /\ Done(m)' <=> Done(m)
          /\ \A places : "seed" \notin places /\ "entry" \notin places
                => (Holds(m, places)' <=> Holds(m, places))
          /\ m # row[t] => \A places : Holds(m, places)' <=> Holds(m, places)
      <4>1. /\ place[t] = "seed" /\ place' = [place EXCEPT ![t] = "entry"]
            /\ UNCHANGED <<rows, todo, row, activePtr>>
        BY <1>4 DEF WriteSeed
      <4> QED
        BY <2>1, <4>1, FilesMove
    <3> QED
      BY <3>1
  <2>4. SeedReady(m) \/ m = row[t] => SeedReady(m)'
    BY <2>2, <2>3 DEF SeedReady
  <2> QED
    BY <2>1, <2>3, <2>4 DEF Files, EntryReady
<1>5. CASE CreateEntry(t)
  <2>1. /\ row[t] \in Mac /\ Running(t) /\ Running(t)'
        /\ UNCHANGED <<seed, at, spoilt>>
    BY <1>5, RowOf DEF TypeOK, CreateEntry, Running
  <2>2. m # row[t] => entry'[m] = entry[m]
    BY <1>5, <2>1 DEF TypeOK, CreateEntry, Truncate
  <2>3. /\ Published(m)' <=> Published(m)
        /\ Done(m)' <=> Done(m)
        /\ Holds(m, {"store"})' <=> Holds(m, {"store"})
        /\ Holds(m, {"seed"})' <=> Holds(m, {"seed"})
        /\ m # row[t] => \A places : Holds(m, places)' <=> Holds(m, places)
    <3>1. /\ Published(m)' <=> Published(m)
          /\ Done(m)' <=> Done(m)
          /\ \A places : "entry" \notin places /\ "fill" \notin places
                => (Holds(m, places)' <=> Holds(m, places))
          /\ m # row[t] => \A places : Holds(m, places)' <=> Holds(m, places)
      <4>1. /\ place[t] = "entry" /\ place' = [place EXCEPT ![t] = "fill"]
            /\ UNCHANGED <<rows, todo, row, activePtr>>
        BY <1>5 DEF CreateEntry
      <4> QED
        BY <2>1, <4>1, FilesMove
    <3> QED
      BY <3>1
  <2>4. m = row[t] => Holds(m, {"entry", "fill", "store"}) /\ Holds(m, {"fill"})'
    BY <1>5 DEF TypeOK, CreateEntry, Holds
  <2> QED
    BY <2>1, <2>2, <2>3, <2>4 DEF Files, SeedReady, EntryReady
<1>6. CASE WriteEntry(t)
  <2>1. /\ row[t] \in Mac /\ Running(t) /\ Running(t)'
        /\ UNCHANGED <<seed, at>>
    BY <1>6, RowOf DEF TypeOK, WriteEntry, Running
  <2>2. Fill(row[t], "install")
    BY <1>6 DEF WriteEntry, Render, I!RenderBios, I!RenderEfi
  <2>3. /\ entry'[row[t]] \in {"install", "mixed"}
        /\ m # row[t] => entry'[m] = entry[m] /\ (m \in spoilt' <=> m \in spoilt)
    BY <2>1, <2>2, Filled
  <2>4. /\ Published(m)' <=> Published(m)
        /\ Done(m)' <=> Done(m)
        /\ Holds(m, {"seed"})' <=> Holds(m, {"seed"})
        /\ m # row[t] => \A places : Holds(m, places)' <=> Holds(m, places)
    <3>1. /\ Published(m)' <=> Published(m)
          /\ Done(m)' <=> Done(m)
          /\ \A places : "fill" \notin places /\ "store" \notin places
                => (Holds(m, places)' <=> Holds(m, places))
          /\ m # row[t] => \A places : Holds(m, places)' <=> Holds(m, places)
      <4>1. /\ place[t] = "fill" /\ place' = [place EXCEPT ![t] = "store"]
            /\ UNCHANGED <<rows, todo, row, activePtr>>
        BY <1>6 DEF WriteEntry
      <4> QED
        BY <2>1, <4>1, FilesMove
    <3> QED
      BY <3>1
  <2>5. m = row[t] => Holds(m, {"entry", "fill", "store"})
    BY <1>6 DEF WriteEntry, Holds
  <2> QED
    BY <2>1, <2>3, <2>4, <2>5 DEF Files, SeedReady, EntryReady
<1>7. CASE StoreRow(t)
  <2>1. /\ row[t] \in Mac /\ row'[t] = Nil /\ place[t] = "store"
        /\ place'[t] = "scan"
        /\ todo'[t] = todo[t] \ {row[t]}
        /\ \A u \in Populators : Running(u)' <=> Running(u)
        /\ \A u \in Populators \ {t} :
              place'[u] = place[u] /\ row'[u] = row[u] /\ todo'[u] = todo[u]
        /\ UNCHANGED <<rows, activePtr, seed, entry, at, spoilt>>
    BY <1>7, RowOf DEF TypeOK, StoreRow, Running
  <2>2. /\ Published(m)' => Published(m)
        /\ Done(m)' => Done(m) \/ Holds(m, {"store"})
        /\ \A places : Holds(m, places)' => Holds(m, places)
        /\ \A places : "store" \notin places
              => (Holds(m, places)' <=> Holds(m, places))
        /\ Holds(m, {"store"}) => Holds(m, {"entry", "fill", "store"})
    BY <2>1 DEF Published, Done, Holds
  <2>3. (SeedReady(m) => SeedReady(m)') /\ (EntryReady(m) => EntryReady(m)')
    BY <2>1, <2>2 DEF SeedReady, EntryReady
  <2> QED
    BY <2>2, <2>3 DEF Files
<1>8. CASE Publish(t)
  <2>1. /\ Running(t) /\ rows[t] # Nil /\ todo[t] = {} /\ activePtr' = rows[t]
        /\ row[t] = Nil /\ ~Running(t)'
        /\ \A u \in Populators \ {t} :
              /\ place'[u] = place[u] /\ (Running(u)' <=> Running(u))
              /\ rows'[u] = rows[u]
        /\ UNCHANGED <<row, todo, seed, entry, at, spoilt>>
    BY <1>8 DEF TypeOK, Rows, Publish, Leave, Running
  <2>2. /\ Published(m)' \/ Done(m)' => Done(m)
        /\ \A places : Holds(m, places)' <=> Holds(m, places)
    BY <2>1 DEF Published, Done, Holds
  <2> QED
    BY <2>1, <2>2, FilesLess DEF SeedReady, EntryReady
<1>9. CASE Recovered(t)
  <2>1. /\ row[t] \in Mac /\ row'[t] = Nil /\ ~Running(t)'
        /\ place[t] \in {"entry", "fill"}
        /\ \A u \in Populators \ {t} :
              /\ place'[u] = place[u] /\ row'[u] = row[u]
              /\ rows'[u] = rows[u] /\ todo'[u] = todo[u]
              /\ Running(u)' <=> Running(u)
        /\ UNCHANGED <<activePtr, seed, at>> /\ spoilt' = spoilt \union {row[t]}
    BY <1>9, RowOf DEF TypeOK, Recovered, Leave, Running
  <2>2. m # row[t] => entry'[m] = entry[m]
    BY <1>9, <2>1 DEF TypeOK, Recovered, PartFill
  <2>3. /\ Published(m)' => Published(m)
        /\ Done(m)' => Done(m)
        /\ \A places : Holds(m, places)' => Holds(m, places)
        /\ Holds(m, {"seed"})' <=> Holds(m, {"seed"})
        /\ m # row[t] => (Holds(m, {"fill"})' <=> Holds(m, {"fill"}))
    BY <2>1 DEF Published, Done, Holds
  <2>4. (SeedReady(m) => SeedReady(m)') /\ (EntryReady(m) => EntryReady(m)')
    BY <2>1, <2>2, <2>3 DEF SeedReady, EntryReady
  <2> QED
    BY <2>3, <2>4, FilesLess
<1> QED
  BY <1>1, <1>2, <1>3, <1>4, <1>5, <1>6, <1>7, <1>8, <1>9

LEMMA FilesNext ==
    ASSUME IInv, [Next]_vars, NEW k \in Mac
    PROVE  Files(k)'
<1> USE DEF IInv
<1>1. CASE Crash
  <2>1. ~Published(k)' /\ ~Done(k)' /\ \A places : ~Holds(k, places)'
    BY <1>1 DEF Crash, PlaceAfterCrash, Published, Done, Holds, Running
  <2> QED
    BY <2>1 DEF Files
<1>2. CASE Begins
  <2>1. /\ Published(k)' <=> Published(k)
        /\ Done(k)' <=> Done(k)
    BY <1>2, BeginsRows DEF Published, Done
  <2>2. \A t \in Populators : row'[t] = k => place'[t] = place[t]
    BY <1>2, BeginsRows DEF Rows, Running
  <2>3. \A t \in Populators : row[t] = k => place'[t] = place[t]
    BY <1>2, BeginsRows DEF Rows, Running
  <2>4. \A places : Holds(k, places)' <=> Holds(k, places)
    BY <1>2, <2>2, <2>3, BeginsRows DEF Holds
  <2> QED
    BY <1>2, <2>1, <2>4, BeginsRows DEF Files, SeedReady, EntryReady
<1>3. ASSUME NEW s \in Server, Listen(s), ~Crash PROVE Files(k)'
  BY <1>3, FilesFrame DEF Listen
<1>4. CASE Edit \/ UNCHANGED vars
  BY <1>4, FilesFrame DEF Edit, vars
<1>5. ASSUME NEW m \in Mac,
             \/ Answer(m) \/ PowerOn(m) \/ TakeOffer(m) \/ TakeAck(m)
             \/ Resend(m) \/ Lose(m) \/ GiveUp(m) \/ ReadHead(m) \/ ReadTail(m)
             \/ Install(m) \/ Reboot(m) \/ Call(m) \/ Mark(m)
      PROVE  Files(k)'
  <2>1. \/ UNCHANGED at
        \/ at[m] # "write" /\ (k # m => at'[k] = at[k])
    BY <1>5 DEF TypeOK, Dialogue, Answer, PowerOn, TakeOffer, TakeAck, Resend,
       Lose, GiveUp, ReadHead, ReadTail, Install, Reboot, Call, Mark,
       Leaves, Goes
  <2>2. UNCHANGED <<populateVars, activePtr, seed, entry, spoilt>>
    BY <1>5 DEF Answer, PowerOn, TakeOffer, TakeAck, Resend, Lose, GiveUp,
       ReadHead, ReadTail, Install, Reboot, Call, Mark
  <2> QED
    BY <2>1, <2>2, FilesFrame
<1>6. ASSUME NEW m \in Mac, CreateLocal(m) \/ WriteLocal(m) \/ FailLocal(m)
      PROVE  Files(k)'
  <2>1. UNCHANGED <<populateVars, activePtr, seed>>
    BY <1>6 DEF CreateLocal, WriteLocal, FailLocal
  <2>2. EntryReady(m)'
    <3>1. CASE CreateLocal(m)
      BY <3>1 DEF TypeOK, CreateLocal, Goes, EntryReady
    <3>2. CASE WriteLocal(m)
      <4>1. PICK text \in {"install", "local"} : Fill(m, text)
        BY <3>2 DEF WriteLocal, Render, I!RenderBios, I!RenderEfi
      <4> QED
        BY <4>1, Filled DEF EntryReady
    <3>3. CASE FailLocal(m)
      BY <3>3 DEF FailLocal, EntryReady
    <3> QED
      BY <1>6, <3>1, <3>2, <3>3
  <2>3. k # m => /\ entry'[k] = entry[k] /\ at'[k] = at[k]
                 /\ k \in spoilt => k \in spoilt'
    <3>1. CASE CreateLocal(m)
      BY <3>1 DEF TypeOK, CreateLocal, Truncate, Goes
    <3>2. CASE WriteLocal(m)
      BY <3>2 DEF TypeOK, WriteLocal, Fill, Leaves, Goes
    <3>3. CASE FailLocal(m)
      BY <3>3 DEF TypeOK, FailLocal, PartFill, Leaves, Goes
    <3> QED
      BY <1>6, <3>1, <3>2, <3>3
  <2>4. /\ Published(k)' <=> Published(k)
        /\ Done(k)' <=> Done(k)
        /\ \A places : Holds(k, places)' <=> Holds(k, places)
    BY <2>1 DEF Published, Done, Holds, Running
  <2>5. (SeedReady(k) => SeedReady(k)') /\ (EntryReady(k) => EntryReady(k)')
    BY <2>1, <2>2, <2>3, <2>4 DEF SeedReady, EntryReady
  <2> QED
    BY <2>4, <2>5, FilesLess
<1> QED
  BY <1>1, <1>2, <1>3, <1>4, <1>5, <1>6, FilesPopulate, Steps

\* Whom DHCP answers finds an entry and a seed written to their ends, unless
\* somebody is writing them at this moment.
LEMMA FilesImply == IInv => FilesWhole
BY DEF IInv, Files, FilesWhole, InHand, RowInHand, Published, Holds, SeedReady,
   EntryReady

-----------------------------------------------------------------------------
(* DHCP.                                                                   *)

\* Nothing that concerns the dialogue with m.
LEMMA DialogueFrame ==
    ASSUME NEW m \in Mac, Dialogue(m),
           wire'[m] = wire[m], address'[m] = address[m], activePtr' = activePtr,
           at[m] = "dhcp" => at'[m] = "dhcp",
           m \in offered' => m \in offered
    PROVE  Dialogue(m)'
BY DEF Dialogue

\* A machine sends.
LEMMA DialogueSend ==
    ASSUME TypeOK, NEW m \in Mac, Dialogue(m), Send(m), at'[m] = "dhcp",
           m \in offered => address'[m] \in {NoIP, activePtr[m]},
           UNCHANGED <<activePtr, offered>>
    PROVE  Dialogue(m)'
<1>1. wire'[m] = [type |-> IF address'[m] = NoIP THEN "DISCOVER" ELSE "REQUEST",
                  ip |-> NoIP]
  BY DEF TypeOK, Send
<1> QED
  BY <1>1 DEF Dialogue

\* Nothing is under way to or from m any more.
LEMMA DialogueSilent ==
    ASSUME TypeOK, NEW m \in Mac, Dialogue(m),
           wire' = [wire EXCEPT ![m] = NoPacket],
           m \in offered => address'[m] \in {NoIP, activePtr[m]},
           UNCHANGED <<activePtr, offered>>
    PROVE  Dialogue(m)'
<1>1. wire'[m] = NoPacket
  BY DEF TypeOK
<1> QED
  BY <1>1 DEF Dialogue, NoPacket

LEMMA DialogueAnswer ==
    ASSUME IInv, NEW m \in Mac, Answer(m)
    PROVE  Dialogue(m)'
<1> USE DEF IInv
<1>1. /\ activePtr # Nil /\ activePtr' = activePtr
      /\ wire[m].type \in {"DISCOVER", "REQUEST"} /\ wire'[m] = Answers(m)
      /\ at' = at /\ address' = address
      /\ m \in offered' => wire[m].type = "DISCOVER" \/ m \in offered
  BY DEF Answer, TypeOK, Rows
<1>2. CASE activePtr[m] = NoIP
  <2>1. wire'[m].type = "none"
    BY <1>1, <1>2 DEF Answers, NoPacket
  <2> QED
    BY <1>1, <2>1 DEF Dialogue
<1>3. CASE activePtr[m] # NoIP
  <2>1. /\ wire'[m].ip = activePtr[m]
        /\ wire'[m].type = IF wire[m].type = "DISCOVER" THEN "OFFER" ELSE "ACK"
    BY <1>1, <1>3 DEF Answers
  <2> QED
    BY <1>1, <2>1 DEF Dialogue
<1> QED
  BY <1>2, <1>3

\* The machine's own steps.
LEMMA DialogueOwn ==
    ASSUME IInv, NEW m \in Mac,
           \/ Answer(m) \/ PowerOn(m) \/ TakeOffer(m) \/ TakeAck(m)
           \/ Resend(m) \/ Lose(m) \/ GiveUp(m) \/ ReadHead(m) \/ ReadTail(m)
           \/ Install(m) \/ Reboot(m) \/ Call(m) \/ Mark(m) \/ CreateLocal(m)
           \/ WriteLocal(m) \/ FailLocal(m)
    PROVE  Dialogue(m)'
<1> USE DEF IInv
<1>1. Dialogue(m)
  OBVIOUS
<1>2. CASE PowerOn(m)
  BY <1>1, <1>2, DialogueSend DEF PowerOn, Goes, TypeOK
<1>3. CASE TakeOffer(m)
  <2>1. at'[m] = "dhcp" /\ (m \in offered => address'[m] = activePtr[m])
    BY <1>3 DEF TakeOffer, Dialogue, TypeOK
  <2> QED
    BY <1>1, <1>3, <2>1, DialogueSend DEF TakeOffer
<1>4. CASE TakeAck(m)
  <2>1. m \in offered => address'[m] = activePtr[m]
    BY <1>4 DEF TakeAck, Dialogue, TypeOK
  <2> QED
    BY <1>1, <1>4, <2>1, DialogueSilent DEF TakeAck
<1>5. CASE Resend(m)
  BY <1>1, <1>5, DialogueSend DEF Resend, Dialogue
<1>6. CASE Lose(m) \/ GiveUp(m)
  BY <1>1, <1>6, DialogueSilent DEF Lose, GiveUp, Dialogue
<1>7. CASE \/ ReadHead(m) \/ ReadTail(m) \/ Install(m) \/ Reboot(m) \/ Call(m)
           \/ Mark(m) \/ CreateLocal(m) \/ WriteLocal(m) \/ FailLocal(m)
  <2>1. at[m] # "dhcp" /\ UNCHANGED <<wire, address, activePtr, offered>>
    BY <1>7 DEF ReadHead, ReadTail, Install, Reboot, Call, Mark, CreateLocal,
       WriteLocal, FailLocal
  <2> QED
    BY <1>1, <2>1, DialogueFrame
<1> QED
  BY <1>2, <1>3, <1>4, <1>5, <1>6, <1>7, DialogueAnswer

\* The firmware's own steps move one machine, which does not wait for a callback
\* and leaves "off" only when somebody switches it on.
LEMMA FirmwareMoves ==
    ASSUME IInv, NEW m \in Mac,
           \/ PowerOn(m) \/ TakeAck(m) \/ GiveUp(m) \/ ReadHead(m) \/ ReadTail(m)
           \/ Install(m) \/ Reboot(m)
    PROVE  /\ at[m] # "call" /\ (m \in Booting \/ at[m] # "off")
           /\ \A k \in Mac \ {m} : at'[k] = at[k]
<1> USE DEF IInv, TypeOK, Goes
<1>1. CASE PowerOn(m) \/ Install(m) \/ Reboot(m)
  BY <1>1 DEF PowerOn, Install, Reboot
<1>2. CASE TakeAck(m)
  BY <1>2 DEF TakeAck, Dialogue
<1>3. CASE GiveUp(m)
  BY <1>3 DEF GiveUp, Dialogue
<1>4. CASE ReadHead(m) \/ ReadTail(m)
  BY <1>4 DEF ReadHead, ReadTail
<1> QED
  BY <1>1, <1>2, <1>3, <1>4

\* The steps of a callback move one machine, which is neither off nor booting;
\* only the call itself answers one that waits.
LEMMA CallbackMoves ==
    ASSUME IInv, NEW m \in Mac,
           Call(m) \/ Mark(m) \/ CreateLocal(m) \/ WriteLocal(m) \/ FailLocal(m)
    PROVE  /\ at[m] \notin {"off", "dhcp", "read"}
           /\ at[m] = "call" => Call(m)
           /\ \A k \in Mac \ {m} : at'[k] = at[k]
<1> USE DEF IInv, TypeOK, Goes, Leaves
<1>1. CASE Call(m)
  BY <1>1 DEF Call
<1>2. CASE Mark(m)
  BY <1>2 DEF Mark
<1>3. CASE CreateLocal(m)
  BY <1>3 DEF CreateLocal
<1>4. CASE WriteLocal(m)
  BY <1>4 DEF WriteLocal
<1>5. CASE FailLocal(m)
  BY <1>5 DEF FailLocal
<1> QED
  BY <1>1, <1>2, <1>3, <1>4, <1>5

\* A step of one machine touches the dialogue of no other.
LEMMA DialogueOther ==
    ASSUME IInv, NEW m \in Mac, NEW k \in Mac \ {m},
           \/ Answer(m) \/ PowerOn(m) \/ TakeOffer(m) \/ TakeAck(m)
           \/ Resend(m) \/ Lose(m) \/ GiveUp(m) \/ ReadHead(m) \/ ReadTail(m)
           \/ Install(m) \/ Reboot(m) \/ Call(m) \/ Mark(m) \/ CreateLocal(m)
           \/ WriteLocal(m) \/ FailLocal(m)
    PROVE  Dialogue(k)'
<1>1. /\ wire'[k] = wire[k] /\ address'[k] = address[k] /\ at'[k] = at[k]
      /\ activePtr' = activePtr /\ (k \in offered' => k \in offered)
  <2>1. CASE Answer(m) \/ TakeOffer(m) \/ Resend(m) \/ Lose(m)
    BY <2>1 DEF IInv, TypeOK, Answer, TakeOffer, Resend, Lose, Send
  <2>2. CASE PowerOn(m) \/ TakeAck(m) \/ GiveUp(m)
    BY <2>2, FirmwareMoves
       DEF IInv, TypeOK, PowerOn, TakeAck, GiveUp, Send
  <2>3. CASE ReadHead(m) \/ ReadTail(m) \/ Install(m) \/ Reboot(m)
    BY <2>3, FirmwareMoves DEF ReadHead, ReadTail, Install, Reboot
  <2>4. CASE \/ Call(m) \/ Mark(m) \/ CreateLocal(m) \/ WriteLocal(m)
             \/ FailLocal(m)
    BY <2>4, CallbackMoves DEF Call, Mark, CreateLocal, WriteLocal, FailLocal
  <2> QED
    BY <2>1, <2>2, <2>3, <2>4
<1> QED
  BY <1>1, DialogueFrame DEF IInv

LEMMA DialogueNext ==
    ASSUME IInv, [Next]_vars
    PROVE  \A m \in Mac : Dialogue(m)'
<1> USE DEF IInv
<1>1. CASE Crash
  BY <1>1 DEF Crash, Dialogue, TypeOK, Handling
<1>2. ASSUME NEW t \in Populators, Publish(t)
      PROVE  \A m \in Mac : Dialogue(m)'
  BY <1>2 DEF Publish, Dialogue
<1>3. CASE UNCHANGED <<activePtr, at, wire, address, offered>>
  BY <1>3, DialogueFrame
<1>4. CASE Begins \/ Edit \/ UNCHANGED vars
  BY <1>3, <1>4, BeginsRows DEF Edit, vars
<1>6. ASSUME NEW t \in Populators,
             \/ OpenFile(t) \/ EmptyInventory(t) \/ CreateSeed(t)
             \/ WriteSeed(t) \/ CreateEntry(t) \/ WriteEntry(t)
             \/ StoreRow(t) \/ Recovered(t)
      PROVE  \A m \in Mac : Dialogue(m)'
  BY <1>3, <1>6 DEF OpenFile, EmptyInventory, CreateSeed, WriteSeed, CreateEntry,
     WriteEntry, StoreRow, Recovered
<1>5. ASSUME NEW s \in Server, Listen(s), ~Crash
      PROVE  \A m \in Mac : Dialogue(m)'
  BY <1>3, <1>5 DEF Listen
<1> QED
  BY <1>1, <1>2, <1>4, <1>5, <1>6, DialogueOwn, DialogueOther, Steps

\* No ACK differs from the OFFER before it unless a publication came between.
LEMMA DialogueImplies == IInv => AckIsTheOffer
BY DEF IInv, Dialogue, AckIsTheOffer, TypeOK

-----------------------------------------------------------------------------
(* Installed machines.                                                     *)

PopulateActs(t) ==
    \/ OpenFile(t) \/ EmptyInventory(t) \/ CreateSeed(t) \/ WriteSeed(t)
    \/ CreateEntry(t) \/ WriteEntry(t) \/ StoreRow(t) \/ Publish(t)
    \/ Recovered(t)

\* No step of a Populate moves a machine.
LEMMA PopulateFrame ==
    ASSUME NEW t \in Populators, PopulateActs(t)
    PROVE  UNCHANGED <<servers, at, wire, address, head>>
BY DEF PopulateActs, OpenFile, EmptyInventory, CreateSeed, WriteSeed, CreateEntry,
   WriteEntry, StoreRow, Publish, Recovered

LEMMA HeadsNext ==
    ASSUME IInv, [Next]_vars
    PROVE  Heads'
<1> USE DEF IInv
<1>1. CASE Crash
  BY <1>1 DEF Crash, Heads, Handling, TypeOK
<1>2. CASE UNCHANGED <<at, head>>
  BY <1>2 DEF Heads
<1>3. CASE Begins \/ Edit \/ UNCHANGED vars
  BY <1>2, <1>3, BeginsRows DEF Edit, vars
<1>8. ASSUME NEW t \in Populators, PopulateActs(t) PROVE Heads'
  BY <1>2, <1>8, PopulateFrame
<1>4. ASSUME NEW s \in Server, Listen(s), ~Crash PROVE Heads'
  BY <1>2, <1>4 DEF Listen
<1>5. ASSUME NEW m \in Mac,
             Answer(m) \/ TakeOffer(m) \/ Resend(m) \/ Lose(m)
      PROVE  Heads'
  BY <1>2, <1>5 DEF Answer, TakeOffer, Resend, Lose
<1>6. ASSUME NEW m \in Mac,
             \/ PowerOn(m) \/ TakeAck(m) \/ Install(m) \/ Reboot(m) \/ Call(m)
             \/ Mark(m) \/ CreateLocal(m) \/ WriteLocal(m) \/ FailLocal(m)
      PROVE  Heads'
  <2>1. CASE PowerOn(m) \/ TakeAck(m) \/ Install(m) \/ Reboot(m)
    <3>1. at[m] # "read" /\ at'[m] # "read" /\ UNCHANGED head
          /\ \A k \in Mac \ {m} : at'[k] = at[k]
      BY <2>1 DEF TypeOK, Dialogue, PowerOn, TakeAck, Install, Reboot, Goes
    <3> QED
      BY <3>1 DEF Heads
  <2>2. CASE Call(m) \/ Mark(m) \/ CreateLocal(m) \/ WriteLocal(m) \/ FailLocal(m)
    <3>1. at[m] # "read" /\ at'[m] # "read" /\ UNCHANGED head
          /\ \A k \in Mac \ {m} : at'[k] = at[k]
      <4>1. UNCHANGED head
        BY <2>2 DEF Call, Mark, CreateLocal, WriteLocal, FailLocal
      <4>2. at'[m] # "read"
        BY <2>2 DEF TypeOK, Call, Mark, CreateLocal, WriteLocal, FailLocal,
           Leaves, Goes
      <4> QED
        BY <2>2, <4>1, <4>2, CallbackMoves
    <3> QED
      BY <3>1 DEF Heads
  <2> QED
    BY <1>6, <2>1, <2>2
<1>7. ASSUME NEW m \in Mac, ReadHead(m) \/ ReadTail(m) \/ GiveUp(m) PROVE Heads'
  BY <1>7 DEF TypeOK, Heads, ReadHead, ReadTail, GiveUp, Goes, NextDevice
<1> QED
  BY <1>1, <1>3, <1>4, <1>5, <1>6, <1>7, <1>8, Steps DEF PopulateActs

\* A step that leaves m, its entry and its place in the inventory alone, or
\* takes it out of the installed ones, or takes its row into somebody's hands.
LEMMA InstalledFrame ==
    ASSUME NEW m \in Mac, Installed(m),
           \/ machines'[m] # "installed" \/ RowInHand(m)' \/ m \in spoilt'
           \/ /\ machines'[m] = machines[m] /\ entry'[m] = entry[m]
              /\ at'[m] = at[m] /\ head'[m] = head[m]
              /\ m \in spoilt => m \in spoilt'
              /\ RowInHand(m) => RowInHand(m)'
    PROVE  Installed(m)'
BY DEF Installed

LEMMA InstalledPopulate ==
    ASSUME IInv, NEW m \in Mac, NEW t \in Populators, PopulateActs(t)
    PROVE  Installed(m)'
<1> USE DEF IInv
<1>0. UNCHANGED <<at, head>>
  BY PopulateFrame
<1>1. CASE EmptyInventory(t)
  BY <1>1, InstalledFrame DEF EmptyInventory, I!ResetMachines, I!NoMachines
<1>2. CASE CreateSeed(t)
  <2>1. /\ UNCHANGED <<machines, entry, spoilt>>
        /\ row[t] = Nil /\ \A u \in Populators \ {t} : row'[u] = row[u]
    BY <1>2 DEF TypeOK, Rows, CreateSeed
  <2>2. RowInHand(m) => RowInHand(m)'
    BY <2>1 DEF RowInHand
  <2> QED
    BY <1>0, <2>1, <2>2, InstalledFrame
<1>3. CASE CreateEntry(t) \/ WriteEntry(t)
  <2>1. row[t] \in Mac /\ UNCHANGED <<machines, row>>
    BY <1>3, RowOf DEF CreateEntry, WriteEntry
  <2>2. m # row[t] => entry'[m] = entry[m] /\ (m \in spoilt => m \in spoilt')
    BY <1>3, <2>1 DEF CreateEntry, WriteEntry, Truncate, Fill, TypeOK
  <2>3. /\ RowInHand(m)' <=> RowInHand(m)
        /\ m = row[t] => RowInHand(m)
    BY <2>1 DEF RowInHand
  <2> QED
    BY <1>0, <2>1, <2>2, <2>3, InstalledFrame
<1>4. CASE StoreRow(t)
  <2>1. /\ row[t] \in Mac
        /\ machines'[row[t]] = "pending"
        /\ m # row[t] => machines'[m] = machines[m]
        /\ \A u \in Populators \ {t} : row'[u] = row[u]
        /\ UNCHANGED <<entry, spoilt>>
    BY <1>4, RowOf DEF TypeOK, StoreRow, Stored, I!StoreMachine
  <2>2. m # row[t] /\ RowInHand(m) => RowInHand(m)'
    BY <2>1 DEF RowInHand
  <2> QED
    BY <1>0, <2>1, <2>2, InstalledFrame
<1>5. CASE Recovered(t)
  <2>1. /\ row[t] \in Mac /\ spoilt' = spoilt \union {row[t]}
        /\ m # row[t] => entry'[m] = entry[m]
        /\ \A u \in Populators \ {t} : row'[u] = row[u]
        /\ UNCHANGED machines
    BY <1>5, RowOf DEF TypeOK, Recovered, PartFill
  <2>2. m # row[t] /\ RowInHand(m) => RowInHand(m)'
    BY <2>1 DEF RowInHand
  <2> QED
    BY <1>0, <2>1, <2>2, InstalledFrame
<1>6. CASE OpenFile(t) \/ WriteSeed(t) \/ Publish(t)
  <2>1. UNCHANGED <<machines, entry, spoilt, row>>
    BY <1>6 DEF OpenFile, WriteSeed, Publish
  <2> QED
    BY <1>0, <2>1, InstalledFrame DEF RowInHand
<1> QED
  BY <1>1, <1>2, <1>3, <1>4, <1>5, <1>6 DEF PopulateActs

\* The firmware and the loader of an installed machine.
LEMMA InstalledFirmware ==
    ASSUME IInv, NEW m \in Mac,
           \/ Answer(m) \/ PowerOn(m) \/ TakeOffer(m) \/ TakeAck(m)
           \/ Resend(m) \/ Lose(m) \/ GiveUp(m) \/ ReadHead(m) \/ ReadTail(m)
           \/ Install(m) \/ Reboot(m)
    PROVE  Installed(m)'
<1> USE DEF IInv
<1>1. UNCHANGED <<machines, entry, spoilt>> /\ (RowInHand(m)' <=> RowInHand(m))
  BY DEF Answer, PowerOn, TakeOffer, TakeAck, Resend, Lose, GiveUp, ReadHead,
     ReadTail, Install, Reboot, RowInHand
<1> SUFFICES ASSUME machines[m] = "installed", m \notin Bios \union spoilt,
                    ~RowInHand(m)
             PROVE  Installed(m)'
  BY <1>1 DEF Installed
<1>2. /\ at[m] \notin {"install", "call", "mark"}
      /\ at[m] = "write" => entry[m] = "empty"
      /\ at[m] \notin {"create", "write"} => entry[m] = "local"
      /\ head[m] \in {"none", "local"}
  BY DEF Installed
<1>3. CASE Answer(m) \/ TakeOffer(m) \/ Resend(m) \/ Lose(m)
  BY <1>1, <1>2, <1>3 DEF Answer, TakeOffer, Resend, Lose, Installed
<1>4. CASE PowerOn(m) \/ TakeAck(m) \/ Install(m) \/ Reboot(m)
  <2>1. /\ at[m] \notin {"create", "write"} /\ UNCHANGED head
        /\ at'[m] \in {"dhcp", "load", "off"}
    BY <1>2, <1>4 DEF TypeOK, Dialogue, PowerOn, TakeAck, Install, Reboot, Goes
  <2> QED
    BY <1>1, <1>2, <2>1 DEF Installed
<1>5. CASE ReadHead(m) \/ GiveUp(m)
  <2>1. /\ at[m] \notin {"create", "write"}
        /\ at'[m] \in {"read", "disk", "off"}
        /\ head'[m] \in {"none", entry[m]}
    BY <1>5 DEF TypeOK, ReadHead, GiveUp, Goes, NextDevice
  <2> QED
    BY <1>1, <1>2, <2>1 DEF Installed
<1>6. CASE ReadTail(m)
  <2>1. at[m] = "read" /\ entry[m] = "local" /\ head[m] = "local"
    BY <1>2, <1>6 DEF ReadTail, Heads
  <2>2. at'[m] \in {"disk", "off"} /\ head'[m] = "none"
    BY <1>6, <2>1 DEF TypeOK, ReadTail, Goes, NextDevice
  <2> QED
    BY <1>1, <2>1, <2>2 DEF Installed
<1> QED
  BY <1>3, <1>4, <1>5, <1>6

\* Its callback.
LEMMA InstalledCallback ==
    ASSUME IInv, NEW m \in Mac,
           Call(m) \/ Mark(m) \/ CreateLocal(m) \/ WriteLocal(m) \/ FailLocal(m)
    PROVE  Installed(m)'
<1> USE DEF IInv
<1>0. RowInHand(m)' <=> RowInHand(m)
  BY DEF Call, Mark, CreateLocal, WriteLocal, FailLocal, RowInHand
<1>1. CASE Call(m)
  <2>1. /\ at[m] = "call" /\ at'[m] \in {"mark", "off", "disk"}
        /\ UNCHANGED <<machines, entry, head, spoilt>>
    BY <1>1 DEF TypeOK, Call, Leaves, Goes
  <2> QED
    BY <1>0, <2>1 DEF Installed
<1>2. CASE Mark(m)
  <2>1. at'[m] = "create" /\ head'[m] = "none"
    BY <1>2 DEF TypeOK, Mark, Goes, Heads
  <2> QED
    BY <2>1 DEF Installed
<1>3. CASE CreateLocal(m)
  <2>1. at'[m] = "write" /\ entry'[m] = "empty" /\ head'[m] = "none"
    BY <1>3 DEF TypeOK, CreateLocal, Truncate, Goes, Heads
  <2> QED
    BY <2>1 DEF Installed
<1>4. CASE WriteLocal(m)
  <2>1. /\ at[m] = "write" /\ UNCHANGED <<machines, head>>
        /\ at'[m] \in {"off", "disk"} /\ head'[m] = "none"
    BY <1>4 DEF TypeOK, WriteLocal, Leaves, Goes, Heads
  <2>2. ASSUME machines[m] = "installed", m \notin Bios \union spoilt',
               ~RowInHand(m)
        PROVE  entry'[m] = "local"
    <3>1. Fill(m, "local")
      BY <1>4, <2>2 DEF WriteLocal, Render, I!RenderEfi
    <3>2. CASE m \in spoilt
      BY <2>2, <3>1, <3>2, Filled DEF Fill
    <3>3. CASE m \notin spoilt
      <4>1. entry[m] = "empty"
        BY <2>1, <2>2, <3>3 DEF Installed
      <4> QED
        BY <3>1, <4>1, Filled
    <3> QED
      BY <3>2, <3>3
  <2> QED
    BY <1>0, <2>1, <2>2 DEF Installed
<1>5. CASE FailLocal(m)
  BY <1>5 DEF FailLocal, Installed
<1> QED
  BY <1>1, <1>2, <1>3, <1>4, <1>5

\* A step of one machine touches no other one's files and marks.
LEMMA InstalledOther ==
    ASSUME IInv, NEW m \in Mac, NEW k \in Mac \ {m},
           \/ Answer(m) \/ PowerOn(m) \/ TakeOffer(m) \/ TakeAck(m)
           \/ Resend(m) \/ Lose(m) \/ GiveUp(m) \/ ReadHead(m) \/ ReadTail(m)
           \/ Install(m) \/ Reboot(m) \/ Call(m) \/ Mark(m) \/ CreateLocal(m)
           \/ WriteLocal(m) \/ FailLocal(m)
    PROVE  Installed(k)'
<1>1. /\ machines'[k] = machines[k] /\ entry'[k] = entry[k]
      /\ at'[k] = at[k] /\ head'[k] = head[k]
      /\ k \in spoilt => k \in spoilt'
      /\ UNCHANGED row
  <2>1. CASE Answer(m) \/ TakeOffer(m) \/ Resend(m) \/ Lose(m)
    BY <2>1 DEF Answer, TakeOffer, Resend, Lose
  <2>2. CASE PowerOn(m) \/ TakeAck(m) \/ Install(m) \/ Reboot(m)
    BY <2>2, FirmwareMoves DEF PowerOn, TakeAck, Install, Reboot
  <2>3. CASE GiveUp(m) \/ ReadHead(m) \/ ReadTail(m)
    BY <2>3, FirmwareMoves DEF IInv, TypeOK, GiveUp, ReadHead, ReadTail
  <2>4. CASE Call(m) \/ Mark(m)
    <3>1. CASE Call(m)
      BY <3>1, CallbackMoves DEF Call
    <3>2. CASE Mark(m)
      BY <3>2, CallbackMoves DEF IInv, TypeOK, Mark, I!MarkInstalled
    <3> QED
      BY <2>4, <3>1, <3>2
  <2>5. CASE CreateLocal(m) \/ WriteLocal(m)
    BY <2>5, CallbackMoves
       DEF IInv, TypeOK, CreateLocal, WriteLocal, Truncate, Fill
  <2>6. CASE FailLocal(m)
    BY <2>6, CallbackMoves DEF IInv, TypeOK, FailLocal, PartFill
  <2> QED
    BY <2>1, <2>2, <2>3, <2>4, <2>5, <2>6
<1> QED
  BY <1>1, InstalledFrame DEF IInv, RowInHand

LEMMA InstalledNext ==
    ASSUME IInv, [Next]_vars
    PROVE  \A m \in Mac : Installed(m)'
<1>1. CASE Crash
  BY <1>1, InstalledFrame DEF IInv, Crash, I!ResetMachines, I!NoMachines
<1>2. CASE Begins
  BY <1>2, BeginsRows, InstalledFrame DEF IInv, RowInHand
<1>3. CASE Edit \/ UNCHANGED vars
  BY <1>3, InstalledFrame DEF IInv, Edit, vars, RowInHand
<1>4. ASSUME NEW s \in Server, Listen(s), ~Crash
      PROVE  \A m \in Mac : Installed(m)'
  BY <1>4, InstalledFrame DEF IInv, Listen, RowInHand
<1>5. ASSUME NEW t \in Populators, PopulateActs(t)
      PROVE  \A m \in Mac : Installed(m)'
  BY <1>5, InstalledPopulate
<1> QED
  BY <1>1, <1>2, <1>3, <1>4, <1>5, InstalledFirmware, InstalledCallback,
     InstalledOther, Steps DEF PopulateActs

-----------------------------------------------------------------------------
(* Theorems.                                                               *)

LEMMA InitIInv == Init => IInv
<1> SUFFICES ASSUME Init PROVE IInv
  OBVIOUS
<1>1. TypeOK
  BY InitType
<1>2. /\ \A t \in Populators : ~Running(t) /\ row[t] = Nil /\ rows[t] = Nil
      /\ place[Main] = "off" /\ place[Watcher] = "off"
  BY DEF Init, Running, Populators
<1>5. Rows /\ Stocked /\ \A m \in Mac : Files(m)
  BY <1>2 DEF Init, Rows, Running, Stocked, Files, Published, Done, Holds
<1>3. \A m \in Mac : Dialogue(m) /\ Installed(m)
  BY DEF Init, Dialogue, Installed, NoPacket, I!NoMachines
<1>4. Heads
  BY DEF Init, Heads
<1> QED
  BY <1>1, <1>3, <1>4, <1>5 DEF IInv

LEMMA Invariance == Spec => []IInv
<1>1. IInv /\ [Next]_vars => IInv'
  BY NextType, RowsNext, StockedNext, FilesNext, DialogueNext, HeadsNext,
     InstalledNext DEF IInv
<1> QED
  BY <1>1, InitIInv, PTL DEF Spec

\* Every variable keeps its type.
THEOREM TypeCorrect == Spec => []TypeOK
BY Invariance, PTL DEF IInv

\* Whom DHCP answers finds its entry and its seed whole unless somebody is
\* writing them or a handler failed to, whatever is edited, stopped, restarted,
\* posted and called back, and however many calls of Populate run side by side.
THEOREM ListedFilesWhole == Spec => []FilesWhole
BY Invariance, FilesImply, PTL

\* An ACK repeats the OFFER if nothing was published in between, whatever is
\* lost, sent again and restarted.
THEOREM OfferHonoured == Spec => []AckIsTheOffer
BY Invariance, DialogueImplies, PTL

\* A machine with UEFI that the inventory calls installed is not given the
\* installer again, unless a Populate has its row in hand or a handler failed to
\* write its entry: however many calls of Populate overlap its callback.
THEOREM NoSecondUefiInstallation ==
    Spec => [](\A m \in Mac \ (Bios \union spoilt) :
                    machines[m] = "installed" /\ ~RowInHand(m)
                        => at[m] # "install")
<1>1. IInv => \A m \in Mac \ (Bios \union spoilt) :
                machines[m] = "installed" /\ ~RowInHand(m) => at[m] # "install"
  BY DEF IInv, Installed
<1> QED
  BY <1>1, Invariance, PTL

\* A machine nobody switches on stays off.
Idle == \A m \in Mac \ Booting : at[m] = "off"

LEMMA IdleNext ==
    ASSUME IInv, Idle, [Next]_vars
    PROVE  Idle'
<1> USE DEF IInv
<1>1. CASE UNCHANGED at
  BY <1>1 DEF Idle
<1>2. CASE Crash
  BY <1>2 DEF Crash, Handling, Idle
<1>3. CASE Begins \/ Edit \/ UNCHANGED vars
  BY <1>1, <1>3, BeginsRows DEF Edit, vars
<1>8. ASSUME NEW t \in Populators, PopulateActs(t) PROVE UNCHANGED at
  BY <1>8, PopulateFrame
<1>4. ASSUME NEW s \in Server, Listen(s), ~Crash PROVE Idle'
  BY <1>1, <1>4 DEF Listen
<1>5. ASSUME NEW k \in Mac,
             Answer(k) \/ TakeOffer(k) \/ Resend(k) \/ Lose(k)
      PROVE  Idle'
  BY <1>1, <1>5 DEF Answer, TakeOffer, Resend, Lose
<1>6. ASSUME NEW k \in Mac,
             \/ PowerOn(k) \/ TakeAck(k) \/ GiveUp(k) \/ ReadHead(k) \/ ReadTail(k)
             \/ Install(k) \/ Reboot(k) \/ Call(k) \/ Mark(k) \/ CreateLocal(k)
             \/ WriteLocal(k) \/ FailLocal(k)
      PROVE  Idle'
  <2>1. /\ k \in Booting \/ at[k] # "off"
        /\ \A l \in Mac \ {k} : at'[l] = at[l]
    BY <1>6, FirmwareMoves, CallbackMoves
  <2> QED
    BY <2>1 DEF Idle
<1> QED
  BY <1>1, <1>2, <1>3, <1>4, <1>5, <1>6, <1>8, Steps DEF PopulateActs

\* If all the machines somebody switches on have UEFI, none that the inventory
\* calls installed is ever given the installer again.
THEOREM NoSecondInstallation ==
    ASSUME Booting \intersect Bios = {}
    PROVE  Spec => []InstalledNotReinstalled
<1>1. Init => Idle
  BY DEF Init, Idle
<1>2. Idle /\ (\A m \in Mac \ (Bios \union spoilt) :
                    machines[m] = "installed" /\ ~RowInHand(m)
                        => at[m] # "install")
        => InstalledNotReinstalled
  BY DEF Idle, InstalledNotReinstalled
<1> QED
  BY <1>1, <1>2, IdleNext, Invariance, NoSecondUefiInstallation, PTL DEF Spec

\* A machine that waits for its callback to be answered is sent away by nothing
\* but the refusal itself.
LEMMA Refusal ==
    ASSUME IInv, [Next]_vars, NEW m \in Mac, at[m] = "call",
           at'[m] \in {"off", "disk"}
    PROVE  Call(m)
<1> USE DEF IInv
<1>1. CASE UNCHANGED at
  BY <1>1
<1>2. CASE Crash
  BY <1>2 DEF Crash, Handling, TypeOK
<1>3. CASE Begins \/ Edit \/ UNCHANGED vars
  BY <1>1, <1>3, BeginsRows DEF Edit, vars
<1>8. ASSUME NEW t \in Populators, PopulateActs(t) PROVE UNCHANGED at
  BY <1>8, PopulateFrame
<1>4. ASSUME NEW s \in Server, Listen(s), ~Crash PROVE FALSE
  BY <1>1, <1>4 DEF Listen
<1>5. ASSUME NEW k \in Mac,
             Answer(k) \/ TakeOffer(k) \/ Resend(k) \/ Lose(k)
      PROVE  FALSE
  BY <1>1, <1>5 DEF Answer, TakeOffer, Resend, Lose
<1>6. ASSUME NEW k \in Mac,
             \/ PowerOn(k) \/ TakeAck(k) \/ GiveUp(k) \/ ReadHead(k) \/ ReadTail(k)
             \/ Install(k) \/ Reboot(k) \/ Mark(k) \/ CreateLocal(k)
             \/ WriteLocal(k) \/ FailLocal(k)
      PROVE  FALSE
  <2>1. at[k] # "call" /\ \A l \in Mac \ {k} : at'[l] = at[l]
    <3>1. CASE \/ PowerOn(k) \/ TakeAck(k) \/ GiveUp(k) \/ ReadHead(k)
               \/ ReadTail(k) \/ Install(k) \/ Reboot(k)
      BY <3>1, FirmwareMoves
    <3>2. CASE Mark(k) \/ CreateLocal(k) \/ WriteLocal(k) \/ FailLocal(k)
      BY <3>2, CallbackMoves DEF Mark, CreateLocal, WriteLocal, FailLocal
    <3> QED
      BY <1>6, <3>1, <3>2
  <2> QED
    BY <2>1
<1>7. ASSUME NEW k \in Mac, k # m, Call(k) PROVE FALSE
  BY <1>7 DEF TypeOK, Call, Leaves, Goes
<1> QED
  BY <1>1, <1>2, <1>3, <1>4, <1>5, <1>6, <1>7, <1>8, Steps DEF PopulateActs

\* A listed machine is refused its callback only while a Populate runs or HTTP
\* is not served, or after calls of Populate that ran side by side or one that
\* panicked: the first Populate that runs alone puts that right.
THEOREM RefusalsAreBrief == Spec => RefusedOnlyMeanwhile
<1> DEFINE Brief(m) == at[m] = "call" /\ at'[m] \in {"off", "disk"} =>
                          \/ "http" \notin servers
                          \/ \E t \in Populators : Running(t)
                          \/ tangled
                          \/ activePtr[m] = NoIP
<1>1. IInv /\ [Next]_vars => [\A m \in Mac : Brief(m)]_vars
  <2> SUFFICES ASSUME IInv, [Next]_vars, NEW m \in Mac,
                      at[m] = "call", at'[m] \in {"off", "disk"},
                      "http" \in servers, ~tangled,
                      \A t \in Populators : ~Running(t)
               PROVE  activePtr[m] = NoIP
    OBVIOUS
  <2>1. Call(m)
    BY Refusal
  <2>2. machines[m] = "absent"
    BY <2>1 DEF Call, Goes, IInv, TypeOK
  <2> QED
    BY <2>2 DEF IInv, Rows, Stocked, Published
<1> QED
  BY <1>1, Invariance, PTL DEF Spec, RefusedOnlyMeanwhile

=============================================================================
