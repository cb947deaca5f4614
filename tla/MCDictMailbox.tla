--------------------------- MODULE MCDictMailbox ---------------------------
(***************************************************************************)
(* Instances of DictMailbox for TLC.                                       *)
(***************************************************************************)
EXTENDS DictMailbox

CONSTANTS a, b

MCSession == {a, b}

SessionSymmetry == Permutations(MCSession)

SeenAndDeleted == {"Seen", "Deleted"}

\* One flag or the other, or both.
EveryOperand == (SUBSET SeenAndDeleted) \ {{}}

OnlyDeleted == {{"Deleted"}}

ReadWrite == {"rw"}
AnyMode == {"rw", "ro"}

BySequence == {FALSE}
OnlyUid == {TRUE}
ByUidToo == BOOLEAN

=============================================================================
