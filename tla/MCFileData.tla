----------------------------- MODULE MCFileData -----------------------------
(***************************************************************************)
(* Values for the constants of FileData: two machines, one or two          *)
(* addresses, and the files an operator saves: one client, or the other    *)
(* one with two rows, the first of which has the address of the first.     *)
(***************************************************************************)
EXTENDS FileData

CONSTANTS m1, m2, i1, i2

Row(mac, ip) == [mac |-> mac, ip |-> ip, columns |-> 7]

MCMac == {m1, m2}
MCIP  == {i1, i2}
OneIP == {i1}

OneFile  == {<<Header, Row(m1, i1)>>}
TwoFiles == OneFile \union {<<Header, Row(m2, i1), Row(m2, i2)>>}

=============================================================================
