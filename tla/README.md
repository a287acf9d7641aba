# A TLA+ model of the o2-ims worker (netboot provisioner)

The worker is one Go process. It boots bare-metal machines over PXE, installs
an operating system unattended, and afterwards runs Ansible to make Kubernetes
nodes of them. Its only durable input is `inputs/clients.csv`; everything it
knows about a machine is rebuilt from that file each time the file changes.

This directory models the program in `src/` with TLA+, checks it with TLC on
small instances and proves its central safety properties with TLAPS.

## 1. Inventory of the system

| part | source | state it keeps | operations |
| --- | --- | --- | --- |
| registry of clients (`filedata`) | `internal/db/file.go` | `activePtr`, the published map MAC -> client; the file `inputs/clients.csv` | `Populate`, `AddItemToFile`, `Gather` (`AddItem` has no caller) |
| machine inventory | `internal/inventory/inventory.go` | `activeMachines`, `activeInstalledMachines`; one PXELINUX and one GRUB entry file per machine | `Init`, `Generate`, `LogInstalledMachine`, `genPXEEntry` |
| watcher, start, stop | `cmd/worker/main.go` | the fsnotify queue; two goroutines that call `Populate` | start, event loop, signal |
| HTTP server | `internal/http/server.go` | none of its own | `/pipeline`, `/callback`, `/inventories`, `/ansible`, `/ansible-token`, `/kubernetes` |
| cluster table (`kubeclient`) | `internal/kubernetes/kubernetes.go` | `PtrClusterMap`, kubeconfig files | `InitCluster`, `GetClusters` |
| Ansible runs | `internal/ansible/ansible.go` | kubeconfig and token it writes | `FetchToken`, `Populate` |
| DHCP server | `internal/dhcp/server.go` | none: reads the registry per packet | handler for DISCOVER and REQUEST |
| TFTP server | `internal/tftp/server.go` | none: reads files | read handler |
| installer seeds | `internal/inventory/debian.go` | preseed, kickstart and user-data files | `genDebianSeed`, `genUbuntuSeed`, `genCentOSSeed` |
| configuration | `internal/config/config.go`, `cmd/worker/client*.go` | settings, read once | `Gather` |

How they interact:

- `main` starts the watcher goroutine and *then* calls `Populate` itself, so the
  two may run side by side. The POST handler calls `Populate` too, after its
  append, which also wakes the watcher. There is no lock anywhere.
- `Populate` opens the file by name, empties the inventory, calls `Generate` for
  every row, and assigns `activePtr` in its very last statement. It also starts
  a goroutine that fills the cluster table and asks each machine for its token.
- DHCP packets and HTTP requests read `activePtr` at any moment; TFTP reads a
  machine's boot entry, the installer its seed, both files that `Populate` truncates
  and writes anew for every row. A machine that finished its installation calls
  `/callback` from the installer, whatever the answer; `LogInstalledMachine` marks it and rewrites its boot entries. At its
  first boot from disk it calls `/ansible`, once (`first-boot.sh`).
- Operators and tools edit `clients.csv` at any moment.

What is hard here, and so what the properties are about:

- three callers of one unlocked `Populate`, over one shared inventory;
- a file that is replaced, removed or extended while someone reads it, or
  between the `open` and the `write` of someone who appends to it;
- an in-memory inventory thrown away and rebuilt while callbacks hold objects of
  the old one;
- panics that are recovered in a request handler and fatal elsewhere, so that a write
  that fails has one end in main and in the watcher and another in a POST or a callback;
- playbooks and API calls without a deadline (`context.Background()` throughout);
- boot entries and seeds truncated and filled while a loader or a second writer has
  them open, or when the worker stops or a write fails;
- OFFER and ACK answered from whatever registry is published at each of them, over
  a network that loses packets, and a callback that is sent once;
- a restart that forgets everything but the files.

What makes each part correct:

- *Registry*: what is published stands for one whole version of the file; an
  edit gets there; when nothing is left to do it is the current file.
- *Machine inventory*: it has the registry's machines; a machine it calls
  installed boots from its disk; that is not undone later.
- *Process*: whatever is in the file, the worker keeps serving.
- *Cluster table*: it has the file's clusters with the file's nodes; a token is one
  of the cluster's own; an agent joins its own cluster's server; a new cluster can
  be brought up; a validation ends.
- *DHCP, TFTP, seeds*: a machine is acknowledged the address it was offered;
  whom DHCP answers finds its entry and seed whole; an installed machine is not
  installed again, and every machine that is listed comes to boot from its disk.
- *Configuration*: a setting does what the documentation says it does.

`PROJECT.json` lists the hazards one by one, each at its line, with the
properties that watch it or the reason none does yet.

## 2. Modules

| module | what it is |
| --- | --- |
| `Inventory` | `internal/inventory`: the two maps and the GRUB entry of each machine, with the state changes callers make of them (what the PXELINUX entry says is `RenderBios`); no actions of its own |
| `FileData` | everything that drives the registry: the file and its events, `Populate` by three kinds of callers, POST `/pipeline`, GET `/callback`, process start, panic, crash; EXTENDS `Inventory`; the properties |
| `MCFileData` | values for its constants |
| `Clusters` | the table of clusters and what fills and uses it: the goroutine each `Populate` starts, `FetchToken`, `/ansible`, `/ansible-token`, `/kubernetes`; `Populate` itself is one step here, with a whole file |
| `MCClusters` | values for its constants |
| `Netboot` | the life of a machine that boots over the network: DHCP, TFTP, installer, callback, disk, while the `Populate`s of main, the watcher and POST handlers write seeds, entries and inventory side by side, file by file, and the worker stops and starts; uses `Inventory` by INSTANCE; settings |
| `MCNetboot` | values for its constants |
| `AtomicRegistry` | the abstract specification of the registry: a `Populate` reads a file in one step and publishes what it read in another |
| `Deployment` | the abstract specification of what the worker makes of the machines: installs and joins follow files it has read, next to a control plane whose kubeconfig it has, and nothing is undone |
| `FileDataProofs` | TLAPS: the inductive invariant `TypeOK /\ ScanInv` |
| `FileDataSafety` | TLAPS: `RegistryFromFile` and `InstalledBootsLocal`, on top of it |
| `FileDataSerial` | TLAPS: `SerialRegistryIsCurrent`, `SerialInventoryAgrees`, `RegistryMovesForward` and who can be registered, on top of the invariant of `FileDataProofs` |
| `ClustersProofs` | TLAPS: an inductive invariant of `Clusters`: `TypeOK` and what each place of a call holds |
| `ClustersSafety` | TLAPS: `TokenOfOwnNode`, `SerialTableAgrees` and `ProbesFindTheirCluster`, on top of it |
| `ClustersAgents` | TLAPS: `Clusters` implements `Deployment`; `JoinedItsCluster`, `FirstClusterNeedsHelp` |
| `FileDataRefines` | TLAPS: a file stands for one registry; `FileData` implements `AtomicRegistry` |
| `NetbootProofs` | TLAPS: an inductive invariant of `Netboot` and its safety properties |

`FileData` and `Netboot` both use `Inventory`, and both have the `Populate`s of main, of
the watcher and of handlers side by side: the first line by line over a file that
changes, with an entry written in one step; the second with a version of the file
read when it is opened, and each seed and entry truncated and then filled.
`Clusters` has a `Populate` as one step. `AtomicRegistry` is what allows the coarser two:
whatever overlaps, a `Populate` publishes one version of the file as if it had read
it at one moment. It says nothing of the inventory, which both modules therefore
fill row by row.

### State and code

| variable | code |
| --- | --- |
| `content`, `saved`, `used`, `cur` | the inodes that ever had the name `inputs/clients.csv`; `cur` has it now, 0 means no such file; `saved[i]` is the number of lines `i` had when it got the name |
| `events` | fsnotify events about that name, not yet received |
| `pc` | where each goroutine is: main, the watcher, each POST, each callback |
| `fd`, `done`, `map` | the open file, the scanner's position and the local `m` of one call of `Populate` (`fd` is also the file `AddItemToFile` has open) |
| `activePtr` | the variable of that name; `Nil` is the nil pointer |
| `snap`, `payload` | `responseBody` and `pipe` of `handlePipeline` |
| `target`, `live` | `targetMachine` of `LogInstalledMachine`; a callback is in `live` while its object is the one the active map holds |
| `machines`, `installLog` | `activeMachines.Machines` with each object's `Installed`, `activeInstalledMachines.Machines` |
| `efiEntry` | what the default of the GRUB entry boots, or `torn`: emptied, and not filled since |
| `overlapped`, `raced`, `source` | history variables, read by no guard: calls of `Populate` that ran beside another, whether the last to publish was one, what it had read |
| `failed`, `spoilt` | history: a handler's `Populate` panicked over an entry and the inventory was not emptied since; machines whose callback could not create the entry and nobody has written it since |

A file is a sequence of lines in an inode. A line is the header, a row with all
seven columns or a row with the four columns `AddItemToFile` writes; of a row the
model keeps the MAC, the address and how many columns there are. Saving (by
rename, as editors and deployment tools do) puts a new inode under the name,
appending extends an inode, and whoever has an inode open keeps it.

Of `Clusters`:

| variable | code |
| --- | --- |
| `rows` | the published registry, as the file it came from |
| `ptr`, `maps` | `PtrClusterMap`: which of the maps made so far it points to (each is named by the validation that made it), and their contents |
| `vpc`, `vrows`, `vtodo`, `vcur` | the goroutine a `Populate` starts (a *validation*): its place, `clustersMap`, the keys its `range` has not come to, the key in hand |
| `unpublished` | the `Populate`s that have started their goroutine and not yet assigned `activePtr` |
| `pc`, `job` | each `FetchToken` goroutine and request: its place; what it is, its MAC, and the `clients` that `handleAnsible` gathered |
| `target`, `creds` | the machine `FetchToken` is run on, the token it brought |
| `at`, `todo`, `asked` | inside `GetClusters`: the map it ranges over, the keys left, the key and kubeconfig of the call in flight |
| `server`, `kubeconfig`, `joined` | outside the process: machines with a k3s server, kubeconfigs under `assets/ansible`, the server each k3s agent has joined |
| `seen`, `mixed` | history, read by no guard: the files read so far; whether the fillings of two validations have overlapped since the start |

Of `Netboot`:

| variable | code |
| --- | --- |
| `file`, `unread` | the registry `clients.csv` stands for; an event not yet received |
| `servers` | the servers that listen: DHCP, TFTP, HTTP |
| `place`, `rows`, `todo`, `row` | of main, the watcher and each POST: its place in `Populate`, the file it reads, the rows it has not come to, the row in hand |
| `activePtr`, `machines`, `live` | as in `FileData`; the log of installed machines, which nobody reads, is left out |
| `seed`, `entry` | per machine, the state of its seed file, and of the entry its firmware reads: missing, truncated, whole (and what it says), or of two writers |
| `at` | where the machine is: off, DHCP, loader, installer, callback, disk; while its callback is handled, the place of the handler |
| `wire`, `address`, `head` | the packet between it and the server, the address it took, what it has read of its entry |
| `disk` | the machines with an operating system on disk |
| `offered`, `spoilt`, `tangled` | history, read by no guard: machines for which nothing was published since their OFFER; whose entry a handler failed to write; whether the inventory was filled by `Populate`s side by side, or by one that panicked |

A token stands for the machine that issued it, a machine for its own address, and
of a cluster's `Info` its control plane node is kept.

### Actions and code

One action is one access to shared state, with the local work that follows it.

- `Populate` (`file.go:113-253`) is `OpenFile`, `SkipHeader` and `EmptyLog` (the two
  assignments of `inventory.Init`), then per row `ScanRow` (up to the entry files) and
  `StoreRow` (the map insert of `Generate` and the local `m[currMAC]`), `ScanShortRow` for
  a row with too few columns, `ScanEnd`, `Publish`. `Scan` returning false once is
  final: a scanner that met the end of the file in `SkipHeader` publishes at once.
- Two panics can end it. `ScanShortRow` is `index out of range` at `file.go:172`. `FailRow`
  is `genPXEEntry` with a file it cannot create or write (`inventory.go:191, 198`), which
  leaves the entry as it was or torn. In a handler `net/http` recovers both: the
  request ends, the inventory stays half filled, `activePtr` is untouched. In main or
  the watcher each is a `Crash`.
- POST `/pipeline` is `PostGather` (before the body is decoded), `PostReject` or
  `PostAccept`, `AddItem` (the second check, against a newer registry),
  `OpenAppend`, `WriteRow`, and then `Populate`. `FailAppend` is an open that fails; then
  nothing follows. `FailWrite` is a `Flush` that fails, which is only logged: `Populate` is
  called although there is neither a new row nor an event.
- GET `/callback` is `LookupMachine`, `LogMachine`, `MarkMachine`, and `WriteEntries` or
  `FailEntries`, the panic of `genPXEEntry` that `net/http` recovers: the machine stays
  marked with its old entry, or with a torn one.
- `TakeEvent` is the watcher's receive; the watcher goes back to `idle` when its
  `Populate` is over.
- `MapRace` is the Go runtime ending the process on a concurrent map write. The
  maps are unsynchronised, so this is one possible outcome, not a certain one.
- `Start`, `Kill`, `Crash`: a crash loses all memory and keeps the files;
  requests in flight are lost.
- `OperatorSaves`, `OperatorRemoves`, `OperatorAppends` are the environment.

In `Clusters` one action ends at each network call, playbook or access to the
shared table:

- The validation (`file.go:218-245`) is `InitCluster` (the nil check), `CreateMap`,
  `WriteCluster` (the fresh object, then the goroutines of that cluster's nodes),
  per key, then `AwaitFetches` and `EndValidation`. `Publish` is `Populate`'s last
  statement, which the goroutine does not wait for.
- `GetClusters` (`kubernetes.go:102-124`) is `StartGet`, `ProbeCluster` per key in
  any order, and `AnswerProbe` or `FailProbe`. It ranges over one map and writes
  through `PtrClusterMap`, which may point to another by then; a key inserted
  while it ranges may come up or not (`late` in `WriteCluster`).
- `ansible.FetchToken` is `FetchToken`, `NoToken` or `FailToken`, then
  `GetClusters`, then `StoreToken`. Its three callers differ in `job` only.
- `handleAnsible` is `AskAnsible`, `GetClusters`, `PickNode`, and by the template
  `InstallMaster`, or `FetchToken` and `JoinWorker`, or nothing; `FailPlaybook` is
  a playbook that fails, perhaps after the server was installed.
- `Panic` ends a request, but the process (`Crash`) if it happens in a goroutine
  of a validation, which nobody recovers. `MapRace` is as in `FileData`.

In `Netboot` one action is one access to memory that others see, one operation on
a file, or one packet:

- `Start`, `TakeEvent` and `Post` let main, the watcher and a handler run `Populate`; none
  waits for another. It is `OpenFile` (which reads one version), `EmptyInventory`, and
  per row `CreateSeed`, `WriteSeed`, `CreateEntry`, `WriteEntry`, `StoreRow`, then `Publish`.
  Writing starts at the head of the file, so that over the text of another writer the
  result may be `mixed`, of which a loader may make anything. A `Post` that comes to
  read rows of seven columns only is one whose own row is not in the file of that
  name any more; what becomes of the others is in `FileData`.
- `FailFile` is a write that fails. For a seed it is `log.Fatalf`, for an entry a panic: the
  process ends, but in a handler the panic is `Recovered`, and the worker goes on with
  the old registry, a part of the inventory and an entry empty or in part.
- `Listen` is a server's start once main's `Populate` is over; one that cannot listen
  ends the process. `Enabled` and `Gather` are `config.Gather`; nothing reads `Enabled`, as in
  the code.
- `Answer` is the DHCP handler: an OFFER or ACK with the address in the registry of
  this moment, or silence.
- `ReadHead`, `ReadTail` are a TFTP transfer, during which the file may change.
- `Call`, `Mark`, `CreateLocal`, `WriteLocal` are GET `/callback`; `FailLocal` is the panic of
  `genPXEEntry` in it, which `net/http` recovers.
- `PowerOn`, `TakeOffer`, `TakeAck`, `Resend`, `Lose`, `GiveUp`, `Install`, `Reboot` are the machine,
  its firmware and the network: the environment. A timeout is free if nobody is
  going to answer, and a fault if the answer was still to come.

## 3. What TLC checks

`Spec` is the system with kills and restarts. `FairSpec` adds weak fairness of
each goroutine's steps. `SupervisedSpec` has no kill from outside and restarts a
worker that stopped, for the one question about what happens if nobody
interferes.

Runs that pass:

| run | instance | properties |
| --- | --- | --- |
| `posts` | 2 MACs, 1 address, 1 POST, saves of one file, 2 inodes, appends up to 2 lines | `TypeOK`, `ScanInv`, `RegistryFromFile`, `SerialRegistryIsCurrent`, `SerialInventoryAgrees`, `RegistryMovesForward`, `PopulateIsAtomic` |
| `callbacks` | 2 MACs, 2 addresses, 2 callbacks, saves of two files, 2 inodes | the same but the last two, and `InstalledBootsLocal`, `EditTakesEffect` |
| `agents` | 2 machines, 2 clusters, 2 `Populate`s of either of two files, 1 request, one machine with k3s | `TypeOK`, `TokenOfOwnNode`, `JoinedItsCluster`, `SerialTableAgrees`, `ProbesFindTheirCluster`, `DeploymentFollowsFiles` of `Clusters` |
| `requests` | the same machines, 1 `Populate` of any of five files, 2 requests, one machine with k3s or none | `JoinedItsCluster`, `ValidationEnds`, `FirstClusterNeedsHelp`, `DeploymentFollowsFiles` |
| `life` | 2 machines, of which one with UEFI boots, 2 files, with and without it, 2 edits, 1 fault | `FilesWhole`, `RefusedOnlyMeanwhile`, `InstallationsEnd` of `Netboot` |
| `handler` | the same machines, 3 files, the first of which lists both, 1 edit, 1 POST, 1 fault | `TypeOK`, `FilesWhole`, `InstalledNotReinstalled`, `AckIsTheOffer`, `RefusedOnlyMeanwhile` |

- `RegistryFromFile`: however calls of `Populate` overlap, and wherever a save, an
  append or a crash falls, the registry a DHCP packet or a request reads stands
  for one whole version of the file: all lines of the save, perhaps some appended
  since, none with missing columns. Not a part, and not a mix of two versions.
- `SerialRegistryIsCurrent`: when no event is unread and no `Populate` runs, the
  registry is that of the file, provided the last `Populate` to publish ran
  alone. This fails if an event may be lost, if a panic in a handler can leave
  the registry behind, or if a descriptor of a replaced file can win.
- `SerialInventoryAgrees`: in those states the inventory has the machines of the
  registry and no others, and whoever it calls installed is in the log, also after a
  POST whose `Populate` panicked on its own short row half way: the event of that row
  puts it right or ends the worker. A POST whose `Populate` could not write an entry
  is excepted until the inventory is emptied again, because no event need follow it
  (its `Flush` may have failed, too) and the two then do disagree.
- `RegistryMovesForward`: what a `Populate` that ran alone publishes is a later file
  than the one published before it, or no fewer lines of the same. (One that ran
  beside another may take the registry back: that is the run `startup`.) A handler
  that read the descriptor it has appended to would violate it.
- `InstalledBootsLocal`: the GRUB entry of a machine the inventory calls installed is
  not the installer's, unless a goroutine is between writing that entry and telling
  the inventory, or the callback could not create the file. At worst it is torn.
  `Populate` rewrites entries as installations and callbacks hold objects of
  inventories already dropped, so the order of the two writes in `Generate` and in
  `LogInstalledMachine` matters. That such a machine is in the log, too, is not so:
  `Init` replaces the two maps one after the other, and a callback and another
  `Populate` in between leave a machine that is marked and not logged.
- `EditTakesEffect`: an edit the watcher was told of reaches the registry, unless
  the worker stops or the file changes once more.
- `TokenOfOwnNode`: a playbook takes minutes, and the table may have been refilled
  when it ends. The token it brought is stored only with a cluster that lists the
  machine now, and never for the unclaimed machines.
- `JoinedItsCluster`: `/ansible` reads the registry, then makes calls over the
  network, then reads the table, then runs two playbooks. The server the agent
  joins was nevertheless a master of its cluster in a version of the file.
- `SerialTableAgrees`: if validations did not overlap, the filled table has the
  registry's clusters with the registry's nodes, although `GetClusters` and
  `FetchToken` write to the same objects. (Overlapping ones may leave the nodes
  of the older file, or lose a map: hence the precondition.)
- `ProbesFindTheirCluster`: the goroutines of a validation find a table, without which
  they would end the process; and if no two `Populate`s overlapped, whoever ranges over
  the table and writes to it after each network call is still on the same table, with
  every key it has left. (Pointers that nobody sets before they are used, such as the
  `Info` at `server.go:217`, `PtrClusterMap` at `kubernetes.go:103` in a request that comes
  too early, or the nil result at `ansible.go:152`, are `Panic` steps.)
- `DeploymentFollowsFiles`: `Clusters` implements `Deployment`, whose variables it shares.
  Whatever a handler knew of the control plane when it decided, a master is installed
  and an agent is joined only next to a server whose kubeconfig is there and which some
  file made master of the cluster another, or the same, put the machine into; no
  server, kubeconfig or agent is ever taken away.
- `ValidationEnds`: if every playbook and API call that the goroutines of a validation
  make ends, well or badly, its wait group comes to zero or the process ends. The
  condition is needed, because none of them has a deadline and one that hangs keeps
  the validation for ever; it is enough, because nothing a request does, or never comes
  to do, is waited for, and a goroutine that fails still counts down.
- `PopulateIsAtomic`: `FileData` implements `AtomicRegistry` under the mapping of the
  files to the registries they stand for, of each running `Populate` to the file it
  opened, and of its local map to what it has read, from the step on that finds
  the end of the file. An atomic Populate could not publish a mix of two
  versions, nor rows that were never in one file together, nor a file with a
  broken row.
- `FilesWhole`: whom DHCP answers finds its entry and its seed written to their ends,
  unless a goroutine is writing them at this moment. Servers start after main's
  `Populate`, and each `Populate` publishes last; that is also why a file torn by a
  stop, or stale since a row was removed and put back, is never offered, whichever of
  several `Populate`s publishes. What a handler failed to write stays as it is
  (`spoilt`), and two that write one entry together may leave it `mixed`.
- `InstalledNotReinstalled`: what the inventory calls installed is not in the
  installer, unless a `Populate` has its row in hand, although flag and entry are two
  objects that several goroutines write.
- `AckIsTheOffer`: DHCP keeps no lease. An ACK may carry another address than
  the OFFER before it, but only if something was published between the two.
- `RefusedOnlyMeanwhile`: a callback is sent once. A listed machine's is refused only
  while a `Populate` runs, or before HTTP is served, or if the inventory is not the
  work of one `Populate` that ran alone to its end. The last is real: after the race of
  the run `startup` inventory and registry may be of two files, with nobody at work.
- `InstallationsEnd`: such a refusal, a restart, a repopulation after the callback
  each send a machine to the installer once more. Once edits and faults are over this
  ends, and the machine boots from its disk again and again. What can prevent it
  for good is named in the property: calls of `Populate` side by side that no further
  one follows, two writers that had its entry in hand together, a handler that failed
  to write it.
- `FirstClusterNeedsHelp`: without a kubeconfig that came from elsewhere no server
  is ever installed, no agent joins, and no kubeconfig is made. It explains the
  run `bringup`, and says that what fails there once fails always.
- `ScanInv` is what the proofs need: each running `Populate`'s local map stands for
  the lines it has consumed.

Runs that find a violation, each of something the documentation says:

- `startup` (`RegistryIsCurrent`). `Readme.md:35` promises "changes trigger
  automatic repopulation". Main opens the file; it is saved anew; the watcher
  reads the new file and publishes; main publishes the old one. No event is
  left, so the old registry stays until somebody edits the file again. The same
  race exists between a POST's own `Populate` and the watcher.
- `registration` (`RegistrationTakesEffect`). `Readme.md:36` promises that a
  registered client is "appended to inventory automatically". `AddItemToFile`
  writes four columns, `Populate` indexes seven: the handler panics (recovered),
  the watcher, woken by the same append, panics and the process ends, and so
  does every start after it, in main's `Populate`.
- `reinstall` (`LocalEntryIsFinal`). `Readme.md:40` promises that after the
  callback "the machine boots to local disk afterward". The next `Populate`, for
  whatever edit, starts from an empty inventory and writes every GRUB entry
  again as an installation.
- `bringup` (`ClusterComesUp`). `Readme.md:19` promises that the provisioner
  "triggers an Ansible playbook to install k3s". `handleAnsible` reads
  `Info.Nodes` of the machine's cluster first (`server.go:217`). `Info` is nil until a
  `GetClusters` finds the cluster's kubeconfig, which only that playbook fetches. So
  the handler panics, for ever. The run has no faults and no kills.

- `bios` (`InstalledNotReinstalled`). `Readme.md:38` and `:40` promise that a BIOS machine,
  too, boots to its local disk after the callback. `main.tmpl` has `default install`,
  whatever `.Installed` is, so the entry written by the callback is the installation
  again. (A BIOS machine has no `efibootmgr` either.) No fault and no edit is needed.
- `settings` (`DisabledStaysOff`). `Readme.md:175` says that `DHCP_ENABLE` enables or disables
  the DHCP server, `:166` the same of TFTP. `main` reads neither but to log them; only
  `-no-dhcp`, `-no-tftp` and `-no-http` count. (Nor do `TFTP_BLOCKSIZE`,
  `DHCP_TFTP_IP`, `DHCP_NEXT_SERVER_IP` and `DHCP_BOOT_FILE` have an effect.)

Each property of a passing run has a mutant in `PROJECT.json`: a definition
changed the way a plausible bug would change the code (the last line is not
read, the map is kept between calls, the watcher loop returns, the directory is
not watched, the inventory is not emptied, the template forgets `.Installed`, a
wrong status is stored; for `Clusters`: old nodes are kept, a token is stored
everywhere, a playbook is retried for ever, a node of another cluster is taken;
the map is made again for each validation, any machine is its own control plane;
for `Netboot`: the registry is published first, the map is made anew for each row,
DHCP answers from the registry to come, or only a DISCOVER).
The run finds each of them.

### Bounds

- Two MACs and, in `callbacks`, two addresses, so that one MAC can have two rows with
  different addresses. `posts` has one address, for which a row and a registration, or two
  rows, compete; the failures and the second step of `Init` make it too large with two.
  `EditTakesEffect` is checked without a POST, where a panic of `Populate` always ends the
  process.
- `MaxInode = 2`: the file is saved, or removed and re-created, while a reader
  or an appender has the old one open. A third version adds no new kind of
  overlap: a reader has one inode, the name another.
- `MaxLines = 2` bounds the operator's appends only; a POST can still append to a
  file that has two lines.
- `MaxEvents = 1`: further events are merged with an unread one. The real queue is
  longer, and a longer one only adds calls of `Populate` that read a file no
  newer than the last does. The proofs hold for every bound.
- One POST or two callbacks per run, each sent at most once; both together, and
  more of them, are in the state spaces of the proofs.
- `Clusters`: two machines are a master and a worker, and exchange roles in
  `Swapped`; two clusters, one of them the unclaimed machines. Two `Populate`s are the
  overlap; each is made once, and so is a request, but a kill may come between
  any two steps. `agents` has two `Populate`s and two files because of its size, `requests`
  one and all five files. The two `Populate`s of `agents` are symmetric: nothing
  tells them apart.
- In `FileData` and `Clusters`, `Kill` and `Start` are unbounded: the worker may be
  restarted any number of times.
- `Netboot`: one machine boots, as often as it is switched on; the other only is a
  row, so that `Populate` has a second row to come to before it publishes and the
  two exchange addresses in `Moved`. In `Gone` the first is not listed. `life` has two edits
  between `Two` and `Gone`, which is a row taken out and put back, and `Populate`s of main and
  of the watcher that overlap, each with its own version. `handler` has a POST's `Populate`
  as a third and all three files, but one edit, of the file that lists both (`FromTwo`).
  `MaxFaults` = 1 bounds kills, failing writes, lost packets and early timeouts
  together: a fault among the overlaps is what the runs are about, and a second one
  makes them too large. The safety properties are proved for every number of
  machines, requests, edits and faults; `InstallationsEnd`, which is not proved, is
  checked with these edits, one fault and no POST only.

### Fairness

A goroutine that can run does run: the Go scheduler is preemptive and nothing
blocks in the modelled steps. So `FairSpec` has weak fairness of the steps of
each goroutine, and of the watcher's receive. Nothing is assumed of clients
(`PostGather`, `LookupMachine`), of the operator, of files that cannot be
written, of `MapRace` or of `Kill`. Weak
fairness of `Start` is part of `SupervisedSpec` only. A worker that is down and is
never restarted is a legal end, and so is one with no requests left, which is why
`registration` is checked without the deadlock check; in the other runs `Kill` and
`Start` are always possible.

`FairSpec` of `Clusters` has weak fairness of each validation and of what a call does by
itself (`OwnStep`). The end of a playbook or of an API call is not among it: they run
with `context.Background()` (`ansible.go:137, 151, 264`, `kubernetes.go`) and no timeout,
so the code guarantees no end of them. `ValidationEnds` has the ends it needs as its
condition (`AllEnd`), for the goroutines of its own validation only. `SmoothSpec` is no
claim about the code but a hypothetical world, one without faults, kills and map races
in which everything asked answers: there the documentation's promise should hold if
it ever does. Requests all sent and validations ended, or all hanging, is a legal end,
so these runs have no deadlock check.

`FairSpec` of `Netboot` has weak fairness of the worker's goroutines and of its
`Start` (a supervisor: without it a stopped worker is a legal end, and nothing of
the kind of `InstallationsEnd` holds), and of each machine's steps. A machine that is
off is switched on again; that is fairness of people, and the property is about
what the worker makes of it. Nothing is assumed of `Reboot`, of edits or of faults.
The system never has to stop here, as a machine that is off may be switched on and
one on its disk booted again, so these runs have the deadlock check.

## 4. What is proved

The theorems hold for all sets of machines, addresses, requests and files and
all bounds, under the ASSUMEs of `FileData`, `Clusters` and `Netboot` (the special values are
distinct, the files consist of lines or rows, requests are not validations).

- `FileDataProofs!TypeCorrect`: `Spec => []TypeOK`.
- `FileDataProofs!ScanCorrect`: `Spec => []ScanInv`.
- `FileDataSafety!RegistryIsAVersion`: `Spec => []RegistryFromFile`.
- `FileDataSafety!InstalledMachinesBootLocal`: `Spec => []InstalledBootsLocal`.
- `FileDataSerial!RegistryFollowsFile`: `Spec => []SerialRegistryIsCurrent`.
- `FileDataSerial!InventoryFollowsRegistry`: `Spec => []SerialInventoryAgrees`.
- `FileDataSerial!RegistryNeverGoesBack`: `Spec => RegistryMovesForward`.
- `FileDataSerial!OnlyWholeRowsRegister`: `Spec => []WholeRowsOnly`: whoever is published has
  a row with seven columns. A POST writes four, so it registers nobody by itself: what the
  run `registration` shows once is so always.
- `ClustersProofs!TypeCorrect`: `Spec => []TypeOK`.
- `ClustersSafety!TokensStayHome`: `Spec => []TokenOfOwnNode`.
- `ClustersSafety!TableFollowsRegistry`: `Spec => []SerialTableAgrees`.
- `ClustersSafety!ProbesFind`: `Spec => []ProbesFindTheirCluster`.
- `ClustersAgents!DeploymentRefinement`: `Spec => DeploymentFollowsFiles`, that is
  `Spec => Deployment!Spec`.
- `ClustersAgents!AgentsKeepServers`: an agent keeps the server it has joined, which runs k3s
  and whose kubeconfig is there; from the refinement and `Deployment` alone.
- `ClustersAgents!AgentsJoinTheirCluster`: `Spec => []JoinedItsCluster`.
- `ClustersAgents!NoClusterFromNothing`: `Spec => FirstClusterNeedsHelp`, a corollary.
- `FileDataRefines!FileHasOneRegistry`: lines without a short row stand for exactly one
  registry, so the value the mapping below gives a file is defined.
- `FileDataRefines!RegistryRefinement`: `Spec => PopulateIsAtomic`, that is
  `Spec => AtomicRegistry!Spec` under the refinement mapping.
- `NetbootProofs!TypeCorrect`, `ListedFilesWhole`, `OfferHonoured`: `Spec => []TypeOK`,
  `[]FilesWhole`, `[]AckIsTheOffer`.
- `NetbootProofs!NoSecondInstallation`: `Spec => []InstalledNotReinstalled`, assuming
  that the machines somebody switches on have UEFI, as in the run `handler`; with a BIOS
  machine among them it is false, which is the run `bios`. `NoSecondUefiInstallation` is
  what holds of each UEFI machine without that assumption.
- `NetbootProofs!RefusalsAreBrief`: `Spec => RefusedOnlyMeanwhile`.

The argument. `TypeOK` alone is not inductive: reading a line needs the scanner's
position to be within the file, a write needs an open file. `ScanInv` adds, per
running `Populate`, that its map stands for the first `done` lines, that all of
these are rows with their columns, and that at the end there are at least as
many as were saved. "Stands for" (`StandsFor`) relates a registry to a prefix of
lines directly, by the last row of each MAC, so no recursion over the file is
needed, and each step is first-order. Two lemmas carry most steps. Files only
grow: a save or an append leaves the first lines of every inode as they
were, so what stood for a prefix still does. And an action that moves one
goroutine leaves the facts about all others alone. `RegistryFromFile` then
follows at `Publish`, from the local map of the goroutine that publishes.
`InstalledBootsLocal` is inductive beside `ScanInv`: `StoreRow` stores a machine as
not installed, `MarkMachine` moves to the point where the callback has the entry in
hand, `WriteEntries` writes `local` because the object it holds is marked, and
`FailEntries` tears the entry or is on record in `spoilt`.

The two serial properties speak of states at rest and so need to know what every
state before promises (`SerialInv`): a call that has met no other reads the file
that has the name and has read all of it at the end, unless an event is unread or the
watcher about to open the file (`FreshInv`); the same for the registry such a call
has published, until the watcher is back in its loop (`CurrentInv`). What makes this
inductive is the `overlapped` set: two calls at a time are both in it
(`OverlapInv`), so whoever publishes without being marked has nobody beside it. The
inventory fits the map of a lone call all the time it is filled, and the log whoever is
marked (`TableInv`, `FitsInv`: while a lone call is between the two assignments of `Init`
no object is live, so no callback can mark one). The
delicate case is a POST whose `Populate` panics on its own row of four columns and
leaves the inventory half empty: the row it met is in the file that has the name, so
the event is unread or the watcher is on its way to the same row, which ends the
process (`ShortRowInv`); or it is in a file replaced meanwhile, and then the watcher
has been told (`ReplacedInv`).

`RegistryMovesForward` adds `ForwardInv` to these. The name is on the last inode or on
none, so a call that opens the file gets no earlier one than was published; a call
that runs alone keeps it, and at its end has read at least as many lines as are
published of the same inode, because the published lines are in the file and files
only grow. At `Publish` every other running call is marked, so nothing has to be shown
of it.

In `Clusters`, `TypeOK` is not inductive either: the type of an object's Info comes
from a call that must have asked with a kubeconfig, a call ranges over a map
that must be one. `PlacesOK`, in `ClustersProofs`, types what each place holds (it is no
claim that a pointer is set where the code does not test it); two lemmas carry it:
objects are replaced but never removed (`Grow`), and an action moves one call only.
`TokenOfOwnNode` needs `TokenPlace` beside it: the token a call carries is that
of the machine `FetchToken` was told, or the call carries no MAC to store it under.
`SerialTableAgrees` needs `Fill`: a validation that fills the table alone has every
cluster of its file with a master in the table or still in hand, and if it is about to
make the map nobody else has made one; all other writers keep nodes and masters.
`JoinedItsCluster` needs `Mastered`: every master and Info in the table, every
question in flight and every target comes from a file that was read, and files
stay read. It also says that what the table, a question or a target has of a control
plane comes with a kubeconfig of that machine; with `TokenPlace`, the same holds of the
token an agent joins with (`TokenOfControlPlane`). That is what `Deployment` asks of an install or a join, so each
of its steps is one action of `Clusters`: `Learn` is the `Populate` that reads a file,
`Install` is `InstallMaster` or the `FailPlaybook` that comes after it, `Join` is
`JoinWorker`, and every other action leaves its four variables alone.
`FirstClusterNeedsHelp` follows in the abstract specification alone: without a kubeconfig
`ControlPlane` is empty, so `Install` and `Join` are never possible.
`ProbesFindTheirCluster` needs that a table, once made, is replaced only by a validation
that saw none, and that no key of a map is ever removed.

The refinement rests on `ScanInv` again: at the end of the file the local map
stands for all of its lines, and lines stand for one registry only
(`FileHasOneRegistry`), so it is the file's value, the one the abstract `Read` takes. That
there is one at all for any file, whatever rows a MAC has, needs the last of a set of
rows (`LastRow`), which the library's theorem on strict subsets gives without an
induction of its own.
Every other step of a scan leaves the abstract variables alone; a save, an append
or a removal is the abstract `Edit`, because an inode somebody has open is never
reused.

The invariant of `Netboot` has one part per question. `Rows`: what each goroutine holds
at each place of `Populate`, and that at most one of them is under way unless `tangled`
says so. `Stocked`: the rows a lone `Populate` has dealt with, and afterwards the
published ones, are in the inventory; it gives `RefusedOnlyMeanwhile`. `Files`: what is
published, or dealt with by any `Populate`, has its files, except for what somebody has
truncated and not yet filled; each truncation is followed by its writing, by a stop,
after which nothing is published, or by a panic, which is in `spoilt`. It is not needed
that a `Populate` is alone, so it gives `FilesWhole` at every `Publish`. `Dialogue`, per
machine: what packets its state allows, and that what it was told since the last
publication is what is published. `Installed`, per machine: a marked machine whose row
nobody has in hand has a local entry, or its callback writes it to a file that nobody
else has in hand, because a `Populate` has the row in hand from the truncation of the
entry until it has stored the machine as not installed. `Heads` ties what a loader has
read to its place, so that a transfer begun before the callback cannot still hold the
installation. A machine nobody switches on stays off (`Idle`), which is why BIOS
machines do no harm as long as none of them boots.

Every safety property of every passing run is proved, the invariants, the action
properties and both refinements. Only model-checked is what is
temporal under fairness (`EditTakesEffect`, `ValidationEnds`, `InstallationsEnd`),
which is out of the prover's reach, and what the runs that expect a violation refute.

## 5. What is not modelled

- Saves that truncate the file in place. A scanner can then join the head of one
  version to the tail of another; the model's operator saves by rename.
- Reads that fail and lines longer than the scanner's buffer: `Scan` then stops, `Err` is
  asked only before the first read (`file.go:145`), and the part read so far is
  published. So `RegistryFromFile` and `PopulateIsAtomic` hold of files that are read
  without an error. A file that cannot be opened for a moment is modelled only where
  it is missing (and `FailAppend`).
- A `Flush` of which a part is written and joined with the row a later POST appends. A part
  alone is a row with too few columns, which is what `WriteRow` appends.
- The early return of `InitCluster` when `os.Getwd` fails (`kubernetes.go:71-74`): the
  table stays as it is, or nil, for that cluster.
- In `Netboot`: a row that is in the file twice, the short row of a POST that is still in
  the file, and the log of installed machines; all three are in `FileData`, which in turn
  has no PXELINUX entry and writes an entry in one step. A loader that fails on a part
  of a text is one that reads `mixed`.
- Rows with an unknown OS type (`Generate` then writes an entry without a kernel and
  no seed), and a missing SSH key (the seed is written without one).
- Whether a DHCP reply is broadcast or unicast (`isLegacyPXEClient`), its constant
  options, leases that run out, and a client that asks twice before it is answered.
- Loaders, kernels, initrds and mirrors: files that nobody changes at run time.
- Which address and port a server binds, the interface, and the flags `--kubeconfig`
  and `--insecure` (`config.Gather` defines them after `main` has parsed its flags, so
  giving one ends the process with a usage message; their values are only printed).
- What playbooks do besides installing a server, joining an agent, reading a token
  and fetching a kubeconfig; templates that are missing on disk; the answers of
  `/ansible` and `/kubernetes`; `Ready`; pods, events and services of a cluster.
- A cluster's control plane of several nodes, and an address that moves from one
  machine to another: in `Clusters` a machine is its address.
- Build scripts and playbooks: outside the running program.

## 6. Plan

Done, in this order: `Inventory` and `FileData`, which everything else reads;
`Clusters`; `Netboot`; the abstract `AtomicRegistry` and `Deployment` and
their refinements. What is left:

1. Variants of `FileData`: in-place saves (files that shrink, which `ScanInv` excludes),
   two registrations with one address, once a row of four columns can be read.
2. `Netboot` with two rows for a machine, and with rows of four columns.
3. Pure operators against reference definitions, where one exists: `extractCreds`,
   `parseNode`.
