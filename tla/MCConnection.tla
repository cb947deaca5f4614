---------------------------- MODULE MCConnection ----------------------------
(***************************************************************************)
(* A connection of the IMAP server or one of the ManageSieve server: they  *)
(* share no state, so a behaviour is of one of them.                       *)
(***************************************************************************)
EXTENDS Connection, ManageSieve, TLC

CONSTANTS u, v, m, n

VARIABLE server

MCUser == {u, v}
MCMailbox == {m, n}
Perms == Permutations(MCUser) \cup Permutations(MCMailbox)

MCInit == Init /\ SieveInit /\ server \in {"imap", "managesieve"}

MCNext ==
    \/ server = "imap" /\ Next /\ UNCHANGED <<server, sieveVars>>
    \/ server = "managesieve" /\ SieveNext /\ UNCHANGED <<server, vars>>

MCSpec == MCInit /\ [][MCNext]_<<server, vars, sieveVars>>

=============================================================================
