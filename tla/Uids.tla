-------------------------------- MODULE Uids --------------------------------
(***************************************************************************)
(* Message UIDs, and the sequence numbers that count them.                 *)
(***************************************************************************)
EXTENDS Naturals, FiniteSets

CONSTANT MaxUid    \* bound: UIDs are 1..MaxUid (the code counts on from 101)

ASSUME UidAssumption == MaxUid \in Nat

Uid == 1..MaxUid

\* The place of u in the ascending enumeration of S, counted from 1.
Rank(S, u) == Cardinality({v \in S : v <= u})

=============================================================================
