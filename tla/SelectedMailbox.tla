-------------------------- MODULE SelectedMailbox --------------------------
(***************************************************************************)
(* One session's view of the mailbox it has selected (pymap/selected.py):  *)
(* SynchronizedMessages, SessionFlags and SelectedMailbox, as a record and *)
(* operators on it.  fork() compares the view with what the client was     *)
(* last told and answers the untagged responses of the difference; the     *)
(* client's side of that conversation is the last section.                 *)
(***************************************************************************)
EXTENDS Flags, Uids, Sequences, SequencesExt

NoKeys == [u \in Uid |-> {}]

\* The UIDs of S in the order of their sequence numbers.
Ascending(S) == [i \in 1..Cardinality(S) |-> CHOOSE u \in S : Rank(S, u) = i]

-----------------------------------------------------------------------------
\* _Frozen: what the client has been told.
FrozenType == [uids : SUBSET Uid, keys : [Uid -> SUBSET Flag], recent : SUBSET Uid]

\* A SelectedMailbox.  "keys" is _flags_key_map ({} for a UID not in view),
\* "recent" the \Recent UIDs of the session flags, "modseq" 0 before the first
\* synchronisation.  Mode "none" stands for no selected mailbox at all.
SelectedType ==
    [mode : {"none", "rw", "ro"}, modseq : Nat,
     uids : SUBSET Uid, keys : [Uid -> SUBSET Flag], pending : SUBSET Uid,
     recent : SUBSET Uid, hide : BOOLEAN, silenced : SUBSET (Uid \X SUBSET Flag),
     prev : FrozenType]

NewSelected(mode) ==
    [mode |-> mode, modseq |-> 0, uids |-> {}, keys |-> NoKeys, pending |-> {},
     recent |-> {}, hide |-> FALSE, silenced |-> {},
     prev |-> [uids |-> {}, keys |-> NoKeys, recent |-> {}]]

-----------------------------------------------------------------------------
\* SynchronizedMessages._update, for the UIDs of S with their current flags.
UpdateMessages(sel, S, flags) ==
    [sel EXCEPT !.uids = @ \cup S,
                !.keys = [u \in Uid |-> IF u \in S THEN flags[u] ELSE sel.keys[u]]]

\* A mistake: what was hidden is forgotten once expunges are no longer hidden.
RemoveOnlyNew(sel, expunged) ==
    IF sel.hide
    THEN [sel EXCEPT !.pending = @ \cup expunged]
    ELSE [sel EXCEPT !.uids = @ \ expunged,
                     !.keys = [u \in Uid |-> IF u \in expunged THEN {} ELSE sel.keys[u]],
                     !.pending = {},
                     !.recent = @ \ expunged]

\* SynchronizedMessages._remove, and the session flags that go with it: while
\* expunges are hidden they pile up, otherwise all of them leave the view, but
\* only those of this call leave the session flags.
RemoveMessages(sel, expunged) ==
    LET gone == expunged \cup sel.pending
    IN  IF sel.hide
        THEN [sel EXCEPT !.pending = gone]
        ELSE [sel EXCEPT !.uids = @ \ gone,
                         !.keys = [u \in Uid |-> IF u \in gone THEN {} ELSE sel.keys[u]],
                         !.pending = {},
                         !.recent = @ \ expunged]

AddUpdates(sel, S, flags, expunged) == RemoveMessages(UpdateMessages(sel, S, flags), expunged)

\* silence(): the flags each message of S would have after the operation, going
\* by the flags of the cached message objects.
Silence(sel, S, op, operand, cached) ==
    [sel EXCEPT !.silenced = @ \cup
        {<<u, Apply(op, cached[u], operand)>> :
            u \in {v \in S : Apply(op, cached[v], operand) # cached[v]}}]

Freeze(sel) == [uids |-> sel.uids, keys |-> sel.keys, recent |-> sel.recent \cap sel.uids]

\* A mistake: a command that hides expunges does not note what it told.
ForkUnlessHiding(sel) ==
    [sel EXCEPT !.prev = IF sel.hide THEN @ ELSE Freeze(sel), !.hide = FALSE, !.silenced = {}]

\* The copy fork() returns for the next command.
Fork(sel) == [sel EXCEPT !.prev = Freeze(sel), !.hide = FALSE, !.silenced = {}]

-----------------------------------------------------------------------------
\* Untagged responses.  A FETCH without flags carries NoData; an EXISTS also
\* carries the view it counts, which lets a client entry know its message.
NoData == {"no data"}

ASSUME NoDataAssumption == NoData \cap Flag = {}

ExpungeResponse(seq)      == [type |-> "EXPUNGE", seq |-> seq]
ExistsResponse(S)         == [type |-> "EXISTS", view |-> Ascending(S)]
RecentResponse(n)         == [type |-> "RECENT", num |-> n]
FetchResponse(seq, flags) == [type |-> "FETCH", seq |-> seq, flags |-> flags]

\* get_flags of a message: its own flags and the session's.
ShownFlags(sel, u, cached) == cached[u] \cup (IF u \in sel.recent THEN {Recent} ELSE {})

FlagsKeys(frozen) == {<<u, frozen.keys[u]>> : u \in frozen.uids}

\* A mistake: the lowest number first.
ExpungesUp(before, after) ==
    LET gone == Ascending(before.uids \ after.uids)
    IN  [i \in DOMAIN gone |-> ExpungeResponse(Rank(before.uids, gone[i]))]

\* EXPUNGE by the old sequence numbers, the highest first: each one leaves the
\* numbers below it as they were.
Expunges(before, after) ==
    LET gone == Reverse(Ascending(before.uids \ after.uids))
    IN  [i \in DOMAIN gone |-> ExpungeResponse(Rank(before.uids, gone[i]))]

Exists(before, after) ==
    IF after.uids \subseteq before.uids THEN <<>> ELSE <<ExistsResponse(after.uids)>>

\* A mistake: RECENT only for new ones.
RecentsIfNew(before, after) ==
    IF after.recent \subseteq before.recent THEN <<>>
    ELSE <<RecentResponse(Cardinality(after.recent))>>

Recents(before, after) ==
    IF Cardinality(after.recent) = Cardinality(before.recent) THEN <<>>
    ELSE <<RecentResponse(Cardinality(after.recent))>>

\* _compare: EXPUNGE, EXISTS, RECENT and then the FETCH of every message whose
\* flags changed, by the new sequence numbers.
Compare(sel, cached) ==
    LET before == sel.prev
        after  == Freeze(sel)
        fetch  == (after.recent \ before.recent)
                  \cup {k[1] : k \in FlagsKeys(after) \ (FlagsKeys(before) \cup sel.silenced)}
        changed == Ascending(fetch)
    IN  (IF sel.hide THEN <<>> ELSE Expunges(before, after))
        \o Exists(before, after)
        \o Recents(before, after)
        \o [i \in DOMAIN changed |->
               FetchResponse(Rank(after.uids, changed[i]), ShownFlags(sel, changed[i], cached))]

\* FetchResponse.merge: the later data wins.
MergeFetch(earlier, later) ==
    [earlier EXCEPT !.flags = IF later.flags = NoData THEN @ ELSE later.flags]

\* CommandResponse.add_untagged: a FETCH is merged into an earlier one of the
\* same sequence number, wherever that stands.
AddUntagged(resps, resp) ==
    LET same == {i \in DOMAIN resps : /\ resp.type = "FETCH" /\ resps[i].type = "FETCH"
                                      /\ resps[i].seq = resp.seq}
    IN  IF same = {}
        THEN Append(resps, resp)
        ELSE [i \in DOMAIN resps |->
                 IF i \in same THEN MergeFetch(resps[i], resp) ELSE resps[i]]

\* The untagged responses of a command: its own, then those of fork().
Response(own, untagged) ==
    LET all == own \o untagged
        added[i \in 0..Len(all)] == IF i = 0 THEN <<>> ELSE AddUntagged(added[i - 1], all[i])
    IN  added[Len(all)]

-----------------------------------------------------------------------------
(* The client.  It keeps one entry for each message it was told of, in the *)
(* order of the sequence numbers: the flags it last heard, and whether it  *)
(* has itself changed them with .SILENT since.  "uid" is the message the   *)
(* server meant when it announced the entry.                               *)
NotHeard == {"not heard"}

NoClient == [msgs |-> <<>>, recent |-> 0]

NewEntry(uid) == [uid |-> uid, flags |-> NotHeard, silent |-> FALSE]

EntryType ==
    [uid : Uid, flags : {NotHeard} \cup SUBSET (Flag \cup {Recent}), silent : BOOLEAN]

ClientType == [msgs : Seq(EntryType), recent : Nat]

Announced(view) == [i \in DOMAIN view |-> NewEntry(view[i])]

Hear(client, resp) ==
    CASE resp.type = "EXPUNGE" ->
            [client EXCEPT !.msgs = RemoveAt(@, resp.seq)]
      [] resp.type = "EXISTS" ->
            [client EXCEPT !.msgs =
                @ \o Announced(SubSeq(resp.view, Len(@) + 1, Len(resp.view)))]
      [] resp.type = "RECENT" ->
            [client EXCEPT !.recent = resp.num]
      [] resp.type = "FETCH" /\ (resp.flags = NoData \/ resp.seq \notin DOMAIN client.msgs) ->
            client
      [] OTHER ->
            [client EXCEPT !.msgs[resp.seq].flags = resp.flags,
                           !.msgs[resp.seq].silent = FALSE]

HearAll(client, resps) ==
    LET heard[i \in 0..Len(resps)] == IF i = 0 THEN client ELSE Hear(heard[i - 1], resps[i])
    IN  heard[Len(resps)]

\* After a successful STORE .SILENT the client works the new flags out itself.
StoredEntry(e, op, operand) ==
    [e EXCEPT !.silent = TRUE,
              !.flags = IF @ = NotHeard THEN @
                        ELSE Apply(op, @ \ {Recent}, operand) \cup (@ \cap {Recent})]

Assume(client, S, op, operand) ==
    [client EXCEPT !.msgs = [i \in DOMAIN client.msgs |->
        LET e == client.msgs[i]
        IN  IF e.uid \in S THEN StoredEntry(e, op, operand) ELSE e]]

=============================================================================
