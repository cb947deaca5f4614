---------------------------- MODULE ModSequence ----------------------------
(***************************************************************************)
(* _ModSequenceMapping of the dict backend (pymap/backend/dict/mailbox.py):*)
(* which UIDs were updated and which were expunged since a modification    *)
(* sequence number.  It keeps two dictionaries from number to UIDs, the    *)
(* list of the numbers in use for the binary search of find_updated, and   *)
(* the latest number of every UID.  A number whose UIDs have all changed   *)
(* again is dropped from its dictionary and from the list.                 *)
(***************************************************************************)
EXTENDS ChangeLog, Sequences, Functions

VARIABLES
    highest,         \* _highest
    uids,            \* _uids: the latest number of each UID, 0 where it has none
    updates,         \* _updates: a dictionary from numbers to sets of UIDs
    expunges,        \* _expunges: likewise
    modSeqsOrder     \* _mod_seqs_order

vars == <<highest, uids, updates, expunges, modSeqsOrder>>

TypeOK ==
    /\ highest \in 0..MaxModSeq
    /\ uids \in [Uid -> 0..MaxModSeq]
    /\ DOMAIN updates \subseteq 1..MaxModSeq
    /\ \A n \in DOMAIN updates : updates[n] \subseteq Uid
    /\ DOMAIN expunges \subseteq 1..MaxModSeq
    /\ \A n \in DOMAIN expunges : expunges[n] \subseteq Uid
    /\ modSeqsOrder \in Seq(1..MaxModSeq)

Init ==
    /\ highest = 0
    /\ uids = [u \in Uid |-> 0]
    /\ updates = <<>>
    /\ expunges = <<>>
    /\ modSeqsOrder = <<>>

-----------------------------------------------------------------------------
\* _remove_prev for every UID of S: the numbers of data that lose their last UID.
Emptied(S, data) ==
    {n \in DOMAIN data : \E u \in S : uids[u] = n /\ data[n] \subseteq {v \in S : uids[v] = n}}

\* What _remove_prev leaves of data, for every UID of S.
WithoutPrev(S, data) ==
    [n \in DOMAIN data \ Emptied(S, data) |-> {u \in data[n] : ~(u \in S /\ uids[u] = n)}]

\* The entry n |-> S added to a dictionary that has no n.
WithEntry(data, n, S) == [m \in DOMAIN data \cup {n} |-> IF m = n THEN S ELSE data[m]]

\* list.remove() of every number of gone: the others keep their order.
Removed(list, gone) ==
    LET kept == {i \in DOMAIN list : list[i] \notin gone}
    IN [k \in 1..Cardinality(kept) |-> list[CHOOSE i \in kept : Rank(kept, i) = k]]

\* Mistakes: a UID that has a number keeps it; only updates are looked through
\* for emptied numbers.
RenumberOnce(S) ==
    LET n == highest + 1
        gone == Emptied(S, updates) \cup Emptied(S, expunges)
    IN  /\ highest < MaxModSeq
        /\ highest' = n
        /\ uids' = [u \in Uid |-> IF u \in S /\ uids[u] = 0 THEN n ELSE uids[u]]
        /\ modSeqsOrder' = Removed(Append(modSeqsOrder, n), gone)

RenumberUpdates(S) ==
    LET n == highest + 1
    IN  /\ highest < MaxModSeq
        /\ highest' = n
        /\ uids' = [u \in Uid |-> IF u \in S THEN n ELSE uids[u]]
        /\ modSeqsOrder' = Removed(Append(modSeqsOrder, n), Emptied(S, updates))

\* What _set does whatever the dictionary: the number, the UIDs and the list.
Renumber(S) ==
    LET n == highest + 1
        gone == Emptied(S, updates) \cup Emptied(S, expunges)
    IN  /\ highest < MaxModSeq
        /\ highest' = n
        /\ uids' = [u \in Uid |-> IF u \in S THEN n ELSE uids[u]]
        /\ modSeqsOrder' = Removed(Append(modSeqsOrder, n), gone)

\* update()
Update(S) ==
    /\ Renumber(S)
    /\ updates' = WithEntry(WithoutPrev(S, updates), highest + 1, S)
    /\ expunges' = WithoutPrev(S, expunges)

\* expunge()
Expunge(S) ==
    /\ Renumber(S)
    /\ expunges' = WithEntry(WithoutPrev(S, expunges), highest + 1, S)
    /\ updates' = WithoutPrev(S, updates)

Next == \E S \in SUBSET Uid : Update(S) \/ Expunge(S)

Spec == Init /\ [][Next]_vars

-----------------------------------------------------------------------------
\* A mistake: bisect_right, past the elements equal to n.
BisectRight(s, n) == 1 + Cardinality({i \in DOMAIN s : s[i] <= n})

\* bisect_left: the first position (from 1) whose element is not below n.
BisectLeft(s, n) == 1 + Cardinality({i \in DOMAIN s : s[i] < n})

\* find_updated: what the listed numbers from n on name, in one dictionary.
FindIn(data, n) ==
    UNION {data[modSeqsOrder[i]] :
           i \in {j \in BisectLeft(modSeqsOrder, n)..Len(modSeqsOrder) :
                  modSeqsOrder[j] \in DOMAIN data}}

-----------------------------------------------------------------------------
(* The binary search of find_updated is only right on an ascending list,   *)
(* and _mod_seqs_order is only complete if a number is taken off the list  *)
(* exactly when its last UID has moved on, in either dictionary.           *)
OrderListsTheNumbers ==
    /\ \A i, j \in DOMAIN modSeqsOrder : i < j => modSeqsOrder[i] < modSeqsOrder[j]
    /\ Range(modSeqsOrder) = DOMAIN updates \cup DOMAIN expunges
    /\ DOMAIN updates \cap DOMAIN expunges = {}

(* find_updated(n), for every n a session can hold, returns exactly the    *)
(* UIDs whose last change is an update, or an expunge, numbered n or later:*)
(* no UID is reported twice, under an old number or in both sets.          *)
KindOf(u) == IF uids[u] = 0 THEN "none"
             ELSE IF uids[u] \in DOMAIN expunges THEN "expunge" ELSE "update"

Abstract == INSTANCE ChangeLogSpec
    WITH log <- [highest |-> highest,
                 last |-> [u \in Uid |-> [seq |-> uids[u], kind |-> KindOf(u)]]]

FindUpdatedIsSince ==
    \A n \in 0..highest :
        /\ FindIn(updates, n) = {u \in Uid : uids[u] >= n /\ KindOf(u) = "update"}
        /\ FindIn(expunges, n) = {u \in Uid : uids[u] >= n /\ KindOf(u) = "expunge"}

(* The mapping implements the change log the mailbox is specified with.    *)
ImplementsChangeLog == Abstract!Spec

-----------------------------------------------------------------------------
(* What they rest on, for the proofs: a dictionary has under a number just *)
(* the UIDs whose latest number it is, and the latest number of a UID is   *)
(* in one of the dictionaries.                                             *)
Holds(data) ==
    /\ DOMAIN data \subseteq 1..highest
    /\ \A n \in DOMAIN data : data[n] = {u \in Uid : uids[u] = n}

MappingInv ==
    /\ TypeOK /\ OrderListsTheNumbers /\ Holds(updates) /\ Holds(expunges)
    /\ \A u \in Uid : uids[u] # 0 => uids[u] \in DOMAIN updates \cup DOMAIN expunges

=============================================================================
