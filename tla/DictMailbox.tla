---------------------------- MODULE DictMailbox ----------------------------
(***************************************************************************)
(* One mailbox of the dict backend (pymap/backend/dict/mailbox.py) and the *)
(* IMAP sessions that have it selected (pymap/backend/session.py, the      *)
(* handlers of pymap/imap/state.py).  Sessions run in one event loop and   *)
(* none of the awaits of a command suspends in this backend, so a command, *)
(* from its handler to the fork() of its selected mailbox, is one action.  *)
(*                                                                         *)
(* The sessions share the Message objects: the flags a session has cached  *)
(* for a message are those of the mailbox's own object, which lives on in  *)
(* the caches after the message is expunged.                               *)
(***************************************************************************)
EXTENDS ChangeLog, SelectedMailbox

CONSTANTS
    Session,     \* the connections
    Mode,        \* how they select: a subset of {"rw", "ro"} (SELECT, EXAMINE)
    UidCommand,  \* subset of BOOLEAN: TRUE for UID FETCH / UID STORE / UID SEARCH
    Operand      \* the flag sets a STORE or an APPEND names

ASSUME SessionAssumption ==
    /\ Mode \subseteq {"rw", "ro"}
    /\ UidCommand \subseteq BOOLEAN
    /\ Operand \subseteq SUBSET Flag

VARIABLES
    messages,    \* _messages: the UIDs in the mailbox
    flags,       \* the permanent flags of the Message object of each UID
    recent,      \* the UIDs whose Message has the recent mark
    maxUid,      \* _max_uid
    log,         \* _mod_sequences
    sess,        \* the SelectedMailbox of each session
    client       \* what the client of each session was told

vars == <<messages, flags, recent, maxUid, log, sess, client>>
store == <<messages, flags, recent, maxUid, log>>

NotSelected == NewSelected("none")

TypeOK ==
    /\ messages \subseteq Uid
    /\ flags \in [Uid -> SUBSET Flag]
    /\ recent \subseteq Uid
    /\ maxUid \in 0..MaxUid
    /\ log \in LogType
    /\ sess \in [Session -> SelectedType]

Init ==
    /\ messages = {}
    /\ flags = NoKeys
    /\ recent = {}
    /\ maxUid = 0
    /\ log = EmptyLog
    /\ sess = [s \in Session |-> NotSelected]
    /\ client = [s \in Session |-> NoClient]

-----------------------------------------------------------------------------
Selecting(s) == sess[s].mode # "none"
Writing(s)   == sess[s].mode = "rw"

\* _pick_selected: a session's own selected mailbox, else that of any session
\* that has it selected read-write; {} if there is none.
Recipients(s) ==
    IF Selecting(s) THEN {s} ELSE {t \in Session : Writing(t)}

\* A mistake: the session's number is overwritten before it is used.
UpdateSelectedLate(sel, lg, msgs, fl) ==
    AddUpdates([sel EXCEPT !.modseq = lg.highest],
               Since(lg, "update", lg.highest) \cap msgs, fl,
               Since(lg, "expunge", lg.highest))

\* MailboxData.update_selected, against the mailbox as the command leaves it.
UpdateSelected(sel, lg, msgs, fl) ==
    AddUpdates([sel EXCEPT !.modseq = lg.highest],
               Since(lg, "update", sel.modseq) \cap msgs, fl,
               Since(lg, "expunge", sel.modseq))

\* The end of every command that answers OK: "given" is what the handler made
\* of the selected mailboxes and "told" what the client of s knows by itself.
\* The selected mailbox of s is synchronised and forked, and the client hears
\* the command's own responses and the untagged ones.
Complete(s, given, own, told) ==
    LET sel == UpdateSelected(given[s], log', messages', flags')
    IN  IF Selecting(s)
        THEN /\ sess' = [given EXCEPT ![s] = Fork(sel)]
             /\ client' = [client EXCEPT ![s] =
                              HearAll(told, Response(own, Compare(sel, flags')))]
        ELSE sess' = given /\ UNCHANGED client

\* A mistake: no command hides expunges.
HidingNone(s, uid) == sess

\* hide_expunged, set by the commands that name sequence numbers.
Hiding(s, uid) == IF uid THEN sess ELSE [sess EXCEPT ![s].hide = TRUE]

-----------------------------------------------------------------------------
\* do_select, select_mailbox: a new SelectedMailbox takes the recent marks
\* unless it is read-only, and holds the whole mailbox.  Its first fork() has
\* nothing to compare with.
Select(s, mode) ==
    LET claimed == IF mode = "rw" THEN recent ELSE {}
        sel == UpdateMessages([NewSelected(mode) EXCEPT !.recent = claimed,
                                                !.modseq = log'.highest],
                      messages, flags)
    IN  /\ log.highest < MaxModSeq
        /\ log' = IF mode = "rw" THEN Record(log, claimed, "update") ELSE log
        /\ recent' = recent \ claimed
        /\ sess' = [sess EXCEPT ![s] = Fork(sel)]
        /\ client' = [client EXCEPT ![s] =
                        [msgs |-> Announced(Ascending(messages)),
                         recent |-> Cardinality(recent)]]
        /\ UNCHANGED <<messages, flags, maxUid>>

\* The session goes away: LOGOUT, a lost connection, or a SELECT that fails.
Deselect(s) ==
    /\ Selecting(s)
    /\ sess' = [sess EXCEPT ![s] = NotSelected]
    /\ client' = [client EXCEPT ![s] = NoClient]
    /\ UNCHANGED store

-----------------------------------------------------------------------------
\* A mistake: the message is marked recent whether or not a session got it.
AddMarked(msgs, newFlags, to) ==
    /\ maxUid < MaxUid
    /\ maxUid' = maxUid + 1
    /\ messages' = msgs \cup {maxUid + 1}
    /\ flags' = [flags EXCEPT ![maxUid + 1] = newFlags]
    /\ recent' = (recent \cap msgs) \cup {maxUid + 1}

\* MailboxData.append, and the half of copy and move that adds to a mailbox:
\* a new Message with these flags, with the recent mark if there is no session
\* to be given \Recent instead (add_recent).
Add(msgs, newFlags, to) ==
    /\ maxUid < MaxUid
    /\ maxUid' = maxUid + 1
    /\ messages' = msgs \cup {maxUid + 1}
    /\ flags' = [flags EXCEPT ![maxUid + 1] = newFlags]
    /\ recent' = (recent \cap msgs) \cup (IF to = {} THEN {maxUid + 1} ELSE {})

AddRecent(to) ==
    [t \in Session |->
        IF t \in to THEN [sess[t] EXCEPT !.recent = @ \cup {maxUid + 1}] ELSE sess[t]]

\* append_messages, from a session that may have another mailbox selected.
\* _pick_selected gives \Recent to one of the recipients, if there is one.
AppendMessage(s, newFlags) ==
    \E to \in IF Recipients(s) = {} THEN {{}} ELSE {{t} : t \in Recipients(s)} :
        /\ log.highest < MaxModSeq
        /\ Add(messages, newFlags, to)
        /\ log' = Record(log, {maxUid + 1}, "update")
        /\ Complete(s, AddRecent(to), <<>>, client[s])

\* copy_messages into the selected mailbox itself, of one message; a message
\* that is gone is skipped, which leaves a Noop.
CopyMessage(s, u) ==
    /\ u \in sess[s].uids \cap messages
    /\ log.highest < MaxModSeq
    /\ Add(messages, flags[u], {s})
    /\ log' = Record(log, {maxUid + 1}, "update")
    /\ Complete(s, AddRecent({s}), <<>>, client[s])

\* move_messages into the selected mailbox itself, of one message.
MoveWithin(s, u) ==
    /\ u \in sess[s].uids \cap messages
    /\ log.highest + 1 < MaxModSeq
    /\ Add(messages \ {u}, flags[u], {s})
    /\ log' = Record(Record(log, {u}, "expunge"), {maxUid + 1}, "update")
    /\ Complete(s, AddRecent({s}), <<>>, client[s])

\* move_messages to another mailbox, of one message; read-only sessions may.
MoveOut(s, u) ==
    /\ u \in sess[s].uids \cap messages
    /\ log.highest < MaxModSeq
    /\ messages' = messages \ {u}
    /\ recent' = recent \ {u}
    /\ log' = Record(log, {u}, "expunge")
    /\ UNCHANGED <<flags, maxUid>>
    /\ Complete(s, sess, <<>>, client[s])

-----------------------------------------------------------------------------
\* NOOP, CHECK, UID SEARCH, LIST and every other command that only synchronises;
\* also one round of IDLE (receive_updates).
Noop(s) ==
    /\ Selecting(s)
    /\ UNCHANGED store
    /\ Complete(s, sess, <<>>, client[s])

\* SEARCH, and a FETCH of nothing but immutable data.
Search(s) ==
    /\ Selecting(s)
    /\ UNCHANGED store
    /\ Complete(s, Hiding(s, FALSE), <<>>, client[s])

\* One FETCH response for each UID of S, with these flags and the session's as
\* they are once the selected mailbox is synchronised.
FetchEach(s, uid, S, fl) ==
    LET sel == UpdateSelected(Hiding(s, uid)[s], log', messages', flags')
    IN  [i \in DOMAIN Ascending(S) |->
            LET u == Ascending(S)[i]
            IN  FetchResponse(Rank(sess[s].uids, u), ShownFlags(sel, u, fl))]

\* MailboxData.update for every UID of S: only the messages still there keep
\* the flags, but every UID is recorded as updated.
UpdateFlags(S, op, operand) ==
    /\ log.highest + Cardinality(S) <= MaxModSeq
    /\ flags' = [u \in Uid |-> IF u \in S \cap messages THEN Apply(op, flags[u], operand)
                               ELSE flags[u]]
    /\ log' = RecordEach(log, S)
    /\ UNCHANGED <<messages, recent, maxUid>>

\* do_fetch of FLAGS.
FetchFlags(s, uid, S) ==
    /\ Selecting(s)
    /\ UNCHANGED store
    /\ Complete(s, Hiding(s, uid), FetchEach(s, uid, S, flags), client[s])

\* do_fetch of a BODY section, which sets \Seen unless the session is read-only.
FetchBody(s, uid, S) ==
    /\ Writing(s)
    /\ UpdateFlags(S, "ADD", {"Seen"})
    /\ Complete(s, Hiding(s, uid),
                [i \in DOMAIN Ascending(S) |->
                    FetchResponse(Rank(sess[s].uids, Ascending(S)[i]), NoData)],
                client[s])

\* The selected mailbox when do_store calls update_flags: hide_expunged is set
\* and silence() has worked out the new flags from the cached ones.
StoreHandled(s, uid, silent, S, op, operand) ==
    IF silent THEN Silence(Hiding(s, uid)[s], S, op, operand, flags)
              ELSE Hiding(s, uid)[s]

\* do_store: a message that is gone answers with the flags it would have had,
\* even if silent.
StoreFlags(s, uid, silent, S, op, operand) ==
    LET answers == IF silent THEN S \ messages ELSE S
        shown   == [u \in Uid |-> Apply(op, flags[u], operand)]
    IN  /\ Writing(s)
        /\ UpdateFlags(S, op, operand)
        /\ Complete(s, [sess EXCEPT ![s] = StoreHandled(s, uid, silent, S, op, operand)],
                    FetchEach(s, uid, answers, shown),
                    IF silent THEN Assume(client[s], S, op, operand) ELSE client[s])

\* do_store of a read-only session: update_flags raises MailboxReadOnly, and
\* the selected mailbox is kept as it is, not forked.
StoreRefused(s, uid, silent, S, op, operand) ==
    /\ sess[s].mode = "ro"
    /\ sess' = [sess EXCEPT ![s] = StoreHandled(s, uid, silent, S, op, operand)]
    /\ UNCHANGED <<store, client>>

\* find_deleted and MailboxData.delete: get() also finds a message that is gone
\* but still in view, by its cached flags.
Delete(s, S) ==
    LET deleted == {u \in S \cap sess[s].uids : "Deleted" \in flags[u]}
    IN  /\ log.highest < MaxModSeq
        /\ messages' = messages \ deleted
        /\ recent' = recent \ deleted
        /\ log' = Record(log, deleted, "expunge")
        /\ UNCHANGED <<flags, maxUid>>

\* do_expunge: EXPUNGE for all UIDs, UID EXPUNGE for some.
Expunge(s, S) ==
    /\ Writing(s)
    /\ Delete(s, S)
    /\ Complete(s, sess, <<>>, client[s])

\* do_close.
Close(s) ==
    /\ Writing(s)
    /\ Delete(s, sess[s].uids)
    /\ sess' = [sess EXCEPT ![s] = NotSelected]
    /\ client' = [client EXCEPT ![s] = NoClient]

-----------------------------------------------------------------------------
\* A STORE or FETCH of a nonempty set of messages in view.
FlagCommand(s) ==
    \E uid \in UidCommand, S \in (SUBSET sess[s].uids) \ {{}} :
        \/ FetchFlags(s, uid, S)
        \/ FetchBody(s, uid, S)
        \/ \E silent \in BOOLEAN, op \in FlagOp, operand \in Operand :
               \/ StoreFlags(s, uid, silent, S, op, operand)
               \/ StoreRefused(s, uid, silent, S, op, operand)

Next ==
    \E s \in Session :
        \/ \E mode \in Mode : Select(s, mode)
        \/ Deselect(s)
        \/ Close(s)
        \/ \E newFlags \in Operand \cup {{}} : AppendMessage(s, newFlags)
        \/ \E u \in Uid : CopyMessage(s, u) \/ MoveWithin(s, u) \/ MoveOut(s, u)
        \/ Noop(s)
        \/ Search(s)
        \/ FlagCommand(s)
        \/ \E S \in SUBSET sess[s].uids : Expunge(s, S)

Spec == Init /\ [][Next]_vars

-----------------------------------------------------------------------------
(* Expunged messages whose expunge the log has forgotten: update() of a    *)
(* message that is gone but still in somebody's view records an update.    *)
Superseded == {u \in Uid \ messages : log.last[u].kind = "update"}

(* A session that has seen the last change of a message agrees with the    *)
(* mailbox on it: it has the message with its flags if it is there, and    *)
(* holds on to one that is not only while the expunge waits to be reported *)
(* or has been superseded in the log.  update_selected reads no more than  *)
(* the changes since the session's last number, so this is what all those  *)
(* partial updates must add up to.                                         *)
ViewFollowsMailbox ==
    \A s \in Session, u \in Uid :
        Selecting(s) /\ log.last[u].seq <= sess[s].modseq =>
            /\ u \in messages => u \in sess[s].uids /\ sess[s].keys[u] = flags[u]
            /\ u \in sess[s].uids \ sess[s].pending => u \in messages \cup Superseded

-----------------------------------------------------------------------------
(* The inductive strengthening of ViewFollowsMailbox that the proofs use.  *)

\* The log knows every message there is, and no number is past the highest.
LogOK(lg, msgs, max) ==
    \A u \in Uid : /\ lg.last[u].seq <= lg.highest
                   /\ u \in msgs => lg.last[u].kind = "update"
                   /\ IF lg.last[u].kind = "none" THEN lg.last[u].seq = 0 ELSE u <= max

\* A view right about everything it has seen.  A message that is gone can only
\* stay in it through an update recorded since: that is what Superseded means.
View(sel, lg, msgs, fl) ==
    /\ sel.modseq <= lg.highest
    /\ sel.pending \cap msgs = {}
    /\ \A u \in Uid : lg.last[u].seq <= sel.modseq =>
           /\ u \in msgs => u \in sel.uids /\ sel.keys[u] = fl[u]
           /\ u \in sel.uids \ sel.pending => lg.last[u].kind = "update"

\* UIDs are never used again, so what is pending cannot come back.
Known(sel, max) == \A u \in sel.uids \cup sel.pending : u <= max

SessionsOK ==
    \A s \in Session : Selecting(s) =>
        View(sess[s], log, messages, flags) /\ Known(sess[s], maxUid)

ViewInv == TypeOK /\ recent \subseteq messages /\ LogOK(log, messages, maxUid) /\ SessionsOK

-----------------------------------------------------------------------------
(* At most one session, or the mailbox's own mark for the next one, has a  *)
(* message as \Recent: append, copy and move give it away to any session,  *)
(* SELECT claims what is left.                                             *)
RecentOnce ==
    /\ \A s \in Session : sess[s].recent \cap recent = {}
    /\ \A s, t \in Session : s # t => sess[s].recent \cap sess[t].recent = {}

Uids(c) == [i \in DOMAIN c.msgs |-> c.msgs[i].uid]

(* The client and its session number the same messages the same way after  *)
(* every command, whatever EXPUNGE and EXISTS it was sent or spared: the   *)
(* next sequence set means the same messages to both.                      *)
ClientNumbersAgree ==
    \A s \in Session : Selecting(s) =>
        Uids(client[s]) = Ascending(sess[s].uids)

\* What the client should know of a message: the flags at the last fork().
Told(s, u) == sess[s].prev.keys[u] \cup (IF u \in sess[s].prev.recent THEN {Recent} ELSE {})

(* What the client last heard of a message's flags, unless it has itself   *)
(* changed them with .SILENT since, is what its session takes for told:    *)
(* the comparison in fork() loses no change and no response is misplaced.  *)
ClientFlagsCurrent ==
    \A s \in Session : \A i \in DOMAIN client[s].msgs :
        LET e == client[s].msgs[i]
        IN  e.uid \in messages /\ e.flags # NotHeard /\ ~e.silent => e.flags = Told(s, e.uid)

(* The same, if the client also applies its own .SILENT stores: a change   *)
(* of another session must not be silenced with them.                      *)
ClientFlagsWithSilent ==
    \A s \in Session : \A i \in DOMAIN client[s].msgs :
        LET e == client[s].msgs[i]
        IN  e.uid \in messages /\ e.flags # NotHeard => e.flags = Told(s, e.uid)

(* The number of the last RECENT response is right after every command of  *)
(* a read-write session, though fork() only compares two counts.           *)
RecentCountTold ==
    \A s \in Session :
        Writing(s) => client[s].recent = Cardinality(sess[s].prev.recent)

(* The inductive strengthening of ClientNumbersAgree and RecentCountTold:  *)
(* the client was told of the view as it is, and a message that is not in  *)
(* it is newer than all that are, so that EXISTS can only add at the end.  *)
ClientInv ==
    /\ ViewInv
    /\ DOMAIN client = Session /\ \A s \in Session : client[s] \in ClientType
    /\ \A s \in Session : Selecting(s) =>
           /\ sess[s].prev.uids = sess[s].uids
           /\ \A u \in messages \ sess[s].uids, v \in sess[s].uids : v < u
    /\ ClientNumbersAgree
    /\ RecentCountTold

(* A command that names sequence numbers takes none away from the client,  *)
(* even if the session hid expunges before and now learns of more.         *)
SearchKeepsNumbers ==
    [][\A s \in Session : Search(s) => IsPrefix(Uids(client[s]), Uids(client'[s]))]_vars

-----------------------------------------------------------------------------
(* What the documentation says and the code does not do.                   *)

(* After a NOOP a session's view is the mailbox, if nothing else is left   *)
(* hidden: every expunge is reported before it is forgotten.               *)
NoopShowsMailbox ==
    [][\A s \in Session : Noop(s) /\ ~sess[s].hide => sess'[s].uids = messages]_vars

(* After a NOOP the session flags count as \Recent only messages in view:  *)
(* STATUS answers that count.                                              *)
NoopCountsRecent ==
    [][\A s \in Session : Noop(s) /\ ~sess[s].hide => sess'[s].recent \subseteq sess'[s].uids]_vars

=============================================================================
