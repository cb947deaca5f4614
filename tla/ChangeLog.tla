----------------------------- MODULE ChangeLog -----------------------------
(***************************************************************************)
(* What a mailbox remembers of its changes, as the sessions rely on it:    *)
(* the number of the latest change, and for every UID the last change made *)
(* to it.  A UID has one last change: recording an update of it forgets an *)
(* expunge, and the reverse.                                               *)
(*                                                                         *)
(* Module ModSequence shows that the dict backend's _ModSequenceMapping    *)
(* implements this; DictMailbox uses the operators below.                  *)
(***************************************************************************)
EXTENDS Uids

CONSTANT MaxModSeq    \* bound on the number of changes recorded

ASSUME LogAssumption == MaxModSeq \in Nat

Kind == {"none", "update", "expunge"}

-----------------------------------------------------------------------------
\* A log is [highest |-> n, last |-> [Uid -> [seq, kind]]].
LogType == [highest : Nat, last : [Uid -> [seq : Nat, kind : Kind]]]

EmptyLog == [highest |-> 0, last |-> [u \in Uid |-> [seq |-> 0, kind |-> "none"]]]

\* One call of update() or expunge() for all of S: one new number, which is
\* used up even when S is empty.
Record(lg, S, kind) ==
    [highest |-> lg.highest + 1,
     last    |-> [u \in Uid |-> IF u \in S
                                THEN [seq |-> lg.highest + 1, kind |-> kind]
                                ELSE lg.last[u]]]

\* One call of update() for each of S in ascending order: as many new numbers.
RecordEach(lg, S) ==
    [highest |-> lg.highest + Cardinality(S),
     last    |-> [u \in Uid |-> IF u \in S
                                THEN [seq |-> lg.highest + Rank(S, u), kind |-> "update"]
                                ELSE lg.last[u]]]

\* The UIDs whose last change is of this kind and has number n or a later one.
Since(lg, kind, n) == {u \in Uid : lg.last[u].kind = kind /\ lg.last[u].seq >= n}

=============================================================================
