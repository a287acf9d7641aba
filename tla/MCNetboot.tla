------------------------------ MODULE MCNetboot ------------------------------
(***************************************************************************)
(* Values for the constants of Netboot: two machines, two addresses, and   *)
(* files in which the first machine has one address or the other, which is *)
(* then the second machine's, or is not listed.                            *)
(***************************************************************************)
EXTENDS Netboot, TLC

CONSTANTS m1, m2, i1, i2

MCMac == {m1, m2}
MCIP  == {i1, i2}

Two   == (m1 :> i1) @@ (m2 :> i2)
Moved == (m1 :> i2) @@ (m2 :> i1)
Gone  == (m1 :> NoIP) @@ (m2 :> i1)
MCVersions == {Two, Moved, Gone}
Listings   == {Two, Gone}

\* The first file lists both machines.
InitTwo == Init /\ file = Two
FromTwo == InitTwo /\ [][Next]_vars

Defaults == [v \in Switch \union Number \union Text |-> "unset"]
WithoutDHCP == [Defaults EXCEPT !["DHCP_ENABLE"] = "false"]

=============================================================================
