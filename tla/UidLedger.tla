------------------------------ MODULE UidLedger ------------------------------
(***************************************************************************)
(* What every backend promises of the UIDs of a mailbox: they are given    *)
(* out in ascending order, and a UID that was given to a message belongs   *)
(* to it for as long as the mailbox exists, whatever becomes of the        *)
(* message.  Several messages may be given UIDs, and several forgotten, in *)
(* one step.                                                               *)
(***************************************************************************)
EXTENDS Naturals, Functions

VARIABLES
    records,      \* the messages by UID
    nextUid       \* the next UID to be given out

vars == <<records, nextUid>>

Init == DOMAIN records = {} /\ nextUid = 1

\* New messages get UIDs that were never given before.
Give ==
    /\ nextUid' > nextUid
    /\ DOMAIN records' \ DOMAIN records \subseteq nextUid..(nextUid' - 1)
    /\ \A u \in DOMAIN records \cap DOMAIN records' : records'[u] = records[u]

\* A message is forgotten, and its UID with it.
Forget ==
    /\ nextUid' = nextUid
    /\ DOMAIN records' \subseteq DOMAIN records
    /\ records' = Restrict(records, DOMAIN records')

Next == Give \/ Forget

Spec == Init /\ [][Next]_vars

=============================================================================
