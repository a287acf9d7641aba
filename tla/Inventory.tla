------------------------------ MODULE Inventory ------------------------------
(***************************************************************************)
(* The package internal/inventory: the table of machines the worker serves *)
(* under GET /inventories, the log of the machines that reported the end   *)
(* of their installation, and the GRUB entry of each machine it writes     *)
(* below assets/tftp.  The PXELINUX entry beside it always boots the       *)
(* installer (RenderBios); what becomes of it is told in Netboot, for the  *)
(* machines whose firmware reads it.                                       *)
(*                                                                         *)
(* The module only has state and state changes; who calls them, and in     *)
(* which order, is FileData.  Every machine has one of the three OS types  *)
(* Generate knows; seeds (preseed, kickstart, user-data) are left out.     *)
(* An entry that os.Create emptied and nobody filled since is "torn".      *)
(***************************************************************************)

CONSTANT Mac            \* the MAC addresses that may appear in the inventory

VARIABLES
    machines,           \* activeMachines.Machines with its Installed flag
    installLog,         \* activeInstalledMachines.Machines
    efiEntry            \* grub.cfg-01-<mac>: what its default entry boots

inventoryVars == <<machines, installLog, efiEntry>>

Status == {"absent", "pending", "installed"}
Entry  == {"none", "install", "local", "torn"}

InventoryTypeOK ==
    /\ machines \in [Mac -> Status]
    /\ installLog \in SUBSET Mac
    /\ efiEntry \in [Mac -> Entry]

\* The maps after Init, which are also the maps of a process that just started.
NoMachines == [m \in Mac |-> "absent"]

\* The files survive the process; a first start finds none.
InventoryInit ==
    /\ machines = NoMachines
    /\ installLog = {}
    /\ efiEntry = [m \in Mac |-> "none"]

-----------------------------------------------------------------------------
\* Mutant of RenderEfi: a template that forgets .Installed, as main.tmpl does.
RenderEfiInstall(installed) == "install"

\* grub.tmpl puts the local disk first once .Installed is set.
RenderEfi(installed) == IF installed THEN "local" ELSE "install"

\* main.tmpl never looks at .Installed: its default label is "install".
RenderBios(installed) == "install"

\* genPXEEntry for "bios" and then for "efi".
GenPXEEntries(m, installed) ==
    efiEntry' = [efiEntry EXCEPT ![m] = RenderEfi(installed)]

\* The same two calls, one of which panics or is cut short: before os.Create of
\* the GRUB entry, or between that and its end.
PartEntries(m) == efiEntry' \in {efiEntry, [efiEntry EXCEPT ![m] = "torn"]}

\* Mutant of ResetMachines: the map of machines is kept.
KeepMachines == machines' = machines

\* Init is two assignments: an empty map of machines replaces the old one ...
ResetMachines == machines' = NoMachines

\* ... and then an empty log the old log; the files stay.
ResetLog == installLog' = {}

\* Mutant of StoreMachine: the entry's word is stored as the status.
StoreEntryWord(m) == machines' = [machines EXCEPT ![m] = "install"]

\* The last lines of Generate: a fresh object, Installed = false, is stored in
\* the map that is active now.
StoreMachine(m) == machines' = [machines EXCEPT ![m] = "pending"]

\* The middle of LogInstalledMachine: the machine goes into the log that is
\* active now ...
LogInstalled(m) == installLog' = installLog \union {m}

\* Mutant of MarkInstalled: the entry's word is stored as the status.
MarkEntryWord(m, live) ==
    machines' = IF live THEN [machines EXCEPT ![m] = "local"] ELSE machines

\* ... and the flag is set in the object found earlier, which the active map
\* holds only if nobody replaced it since (live).
MarkInstalled(m, live) ==
    machines' = IF live THEN [machines EXCEPT ![m] = "installed"] ELSE machines

=============================================================================
