---------------------------- MODULE AtomicRegistry ----------------------------
(***************************************************************************)
(* What internal/db promises of Populate, whose scan takes many steps      *)
(* while files are saved, appended to and replaced, and of which several   *)
(* calls may overlap: it reads the file it opened at one moment, whole,    *)
(* and then publishes what it read in one assignment.                      *)
(***************************************************************************)
CONSTANTS
    Reader,             \* the goroutines that call Populate
    Closed,             \* in place of a file: no call is running
    Nil                 \* in place of a registry: none

VARIABLES
    value,              \* the registry each file stands for, Nil for a broken one
    cur,                \* the file that has the name clients.csv
    handle,             \* the file a call has opened
    got,                \* what it has read
    registry            \* what DHCP and HTTP answer from

vars == <<value, cur, handle, got, registry>>

Init ==
    /\ handle = [t \in Reader |-> Closed]
    /\ got = [t \in Reader |-> Nil]
    /\ registry = Nil

\* The files belong to others, who may do anything with them.
Edit == UNCHANGED <<handle, got, registry>>

Open(t) ==
    /\ handle[t] = Closed
    /\ handle' = [handle EXCEPT ![t] = cur]
    /\ UNCHANGED <<value, cur, got, registry>>

Read(t) ==
    /\ handle[t] # Closed
    /\ value[handle[t]] # Nil
    /\ got' = [got EXCEPT ![t] = value[handle[t]]]
    /\ UNCHANGED <<value, cur, handle, registry>>

Close(t) ==
    /\ handle' = [handle EXCEPT ![t] = Closed]
    /\ got' = [got EXCEPT ![t] = Nil]
    /\ UNCHANGED <<value, cur>>

Publish(t) ==
    /\ got[t] # Nil
    /\ registry' = got[t]
    /\ Close(t)

\* A call that panics on a broken file has read nothing and publishes nothing.
GiveUp(t) ==
    /\ got[t] = Nil
    /\ registry' = registry
    /\ Close(t)

\* The process ends.
Stop ==
    /\ handle' = [t \in Reader |-> Closed]
    /\ got' = [t \in Reader |-> Nil]
    /\ registry' = Nil
    /\ UNCHANGED <<value, cur>>

Next ==
    \/ Edit
    \/ Stop
    \/ \E t \in Reader : Open(t) \/ Read(t) \/ Publish(t) \/ GiveUp(t)

Spec == Init /\ [][Next]_vars

=============================================================================
