-------------------------------- MODULE Redis --------------------------------
(***************************************************************************)
(* One mailbox of pymap/backend/redis/mailbox.py, the contents its         *)
(* messages share with the other mailboxes of the user, and the background *)
(* task that counts the references to contents down.  A Lua script or a    *)
(* pipeline is one atomic step; sessions and the task interleave between   *)
(* them.  A script that fails keeps what it has written up to there.       *)
(*                                                                         *)
(* The user's other mailboxes are the number of their messages that have   *)
(* each content.                                                           *)
(***************************************************************************)
EXTENDS Integers, FiniteSets, Sequences, SequencesExt, Functions

CONSTANTS
    Session,      \* connections that have the mailbox selected
    Email,        \* contents of messages, by their hash
    MaxUid,       \* bound: the highest UID
    MaxModSeq,    \* bound: the highest modification sequence
    MaxLen,       \* the length to which the stream of changes is trimmed (1000)
    MaxAway,      \* bound: the messages of a content in other mailboxes
    MaxCrashes    \* bound: how often the background task dies

None == "none"

ASSUME RedisAssumption ==
    /\ {MaxUid, MaxModSeq, MaxLen, MaxAway, MaxCrashes} \subseteq Nat
    /\ Email \cap {None, "mailbox"} = {}

VARIABLES
    messages,     \* uids and content: the content and \Deleted flag of each UID
    maxUid,
    recent,       \* the set of UIDs that no session has claimed
    deleted,      \* the set of UIDs that are \Deleted, kept for EXPUNGE
    changes,      \* the stream of changes
    lastId,       \* the last number the stream has given
    maxModSeq,    \* the counter all mailboxes of the user share
    exists,       \* whether the mailbox is named, or how far its cleanup is
    refs, data,   \* contentrefs, and whether the content is there, or expires
    away,         \* the messages of other mailboxes
    queue,        \* cleanup: contents whose references are to be counted down
    task,         \* what the background task has popped
    modSeq, view, \* of each session: the last change seen, and its messages
    sessionRecent,\* and which of them are \Recent
    crashes,      \* the crashes so far
    broken        \* history: a script has failed, or worked on a deleted mailbox

boxVars  == <<messages, maxUid, recent, deleted, changes, lastId, maxModSeq>>
contVars == <<refs, data, away>>
sessVars == <<modSeq, view, sessionRecent>>
taskVars == <<queue, task, crashes>>
vars == <<boxVars, exists, contVars, taskVars, sessVars, broken>>

\* The number of a session that has not seen the mailbox.
Unread == -1
\* Numbers made from the clock by XADD "*", beyond those of the counter.
Clock == 100

Uids == DOMAIN messages

Init ==
    /\ messages = << >> /\ maxUid = 0 /\ recent = {} /\ deleted = {}
    /\ changes = << >> /\ lastId = 0 /\ maxModSeq = 0 /\ exists = "named"
    /\ refs = [e \in Email |-> 0] /\ data = [e \in Email |-> "none"]
    /\ away = [e \in Email |-> 0]
    /\ queue = << >> /\ task = None /\ crashes = 0
    /\ modSeq = [s \in Session |-> Unread] /\ view = [s \in Session |-> << >>]
    /\ sessionRecent = [s \in Session |-> {}]
    /\ broken = FALSE

-----------------------------------------------------------------------------
\* The parts of the scripts.

\* XADD fails unless its number is above all that the stream has had.  Trimming
\* keeps at least MaxLen entries, and as many more as Redis likes.
Xadd(change) ==
    /\ \E n \in 0..Len(changes) :
          /\ n = 0 \/ Len(changes) + 1 - n >= MaxLen
          /\ changes' = SubSeq(changes, n + 1, Len(changes)) \o <<change>>
    /\ lastId' = change.id

\* INCR of the counter, and the XADD of a change with it.  ok: it succeeds.
Changed(uid, kind, flag, ok) ==
    /\ maxModSeq < MaxModSeq /\ maxModSeq' = maxModSeq + 1
    /\ ok <=> maxModSeq' > lastId
    /\ IF ok THEN Xadd([id |-> maxModSeq', uid |-> uid, kind |-> kind, flag |-> flag])
             ELSE UNCHANGED <<changes, lastId>>

\* A script may fail, and one that a session runs after the mailbox was deleted
\* works on keys that will expire.
Broken(ok) == broken' = (broken \/ ~ok \/ exists # "named")

\* A mistake: the UID after the highest there is.
NewMessageNext(email, flag, isRecent, ok) ==
    LET uid == 1 + Max(Uids \cup {0})
    IN /\ maxUid < MaxUid /\ maxUid' = uid
       /\ messages' = [u \in Uids \cup {uid} |->
                         IF u = uid THEN [email |-> email, flag |-> flag] ELSE messages[u]]
       /\ Changed(uid, "fetch", flag, ok)
       /\ recent'  = IF ok /\ isRecent THEN recent \cup {uid} ELSE recent
       /\ deleted' = IF ok /\ flag THEN deleted \cup {uid} ELSE deleted
       /\ Broken(ok)

\* The new message of message_add, message_copy and message_move.
NewMessage(email, flag, isRecent, ok) ==
    LET uid == maxUid + 1
    IN /\ maxUid < MaxUid /\ maxUid' = uid
       /\ messages' = [u \in Uids \cup {uid} |->
                         IF u = uid THEN [email |-> email, flag |-> flag] ELSE messages[u]]
       /\ Changed(uid, "fetch", flag, ok)
       /\ recent'  = IF ok /\ isRecent THEN recent \cup {uid} ELSE recent
       /\ deleted' = IF ok /\ flag THEN deleted \cup {uid} ELSE deleted
       /\ Broken(ok)

\* A mistake: content that is there is taken to be there for good.
ReferencedOnce(email) ==
    /\ refs' = [refs EXCEPT ![email] = @ + 1]
    /\ data' = IF data[email] = "none" THEN [data EXCEPT ![email] = "kept"] ELSE data

\* The first reference makes the content, or keeps it from expiring.
Referenced(email) ==
    /\ refs' = [refs EXCEPT ![email] = @ + 1]
    /\ data' = IF refs'[email] = 1 THEN [data EXCEPT ![email] = "kept"] ELSE data

Reference(email) == refs' = [refs EXCEPT ![email] = @ + 1] /\ UNCHANGED data

Forget(uids) ==
    /\ messages' = Restrict(messages, Uids \ uids)
    /\ recent' = recent \ uids
    /\ deleted' = deleted \ uids

-----------------------------------------------------------------------------
\* message_add, for APPEND to this mailbox and to the others.
AppendMessage(email, flag, isRecent) ==
    /\ \E ok \in BOOLEAN : NewMessage(email, flag, isRecent, ok)
    /\ Referenced(email)
    /\ UNCHANGED <<exists, away, taskVars, sessVars>>

AppendAway(email) ==
    /\ away[email] < MaxAway /\ away' = [away EXCEPT ![email] = @ + 1]
    /\ Referenced(email)
    /\ UNCHANGED <<boxVars, exists, taskVars, sessVars, broken>>

\* message_copy, within the mailbox, into it and out of it.  The reference is
\* the script's last step.
CopyIn(email, flag, isRecent) ==
    /\ \/ away[email] > 0
       \/ \E u \in Uids : messages[u] = [email |-> email, flag |-> flag]
    /\ \E ok \in BOOLEAN :
          /\ NewMessage(email, flag, isRecent, ok)
          /\ IF ok THEN Reference(email) ELSE UNCHANGED <<refs, data>>
    /\ UNCHANGED <<exists, away, taskVars, sessVars>>

CopyOut(u) ==
    LET email == messages[u].email
    IN /\ u \in Uids
       /\ away[email] < MaxAway /\ away' = [away EXCEPT ![email] = @ + 1]
       /\ Reference(email)
       /\ Broken(TRUE)
       /\ UNCHANGED <<boxVars, exists, taskVars, sessVars>>

\* message_move, into the mailbox and out of it; its expunge is numbered by the
\* clock.
MoveIn(email, flag, isRecent) ==
    /\ away[email] > 0 /\ away' = [away EXCEPT ![email] = @ - 1]
    /\ \E ok \in BOOLEAN : NewMessage(email, flag, isRecent, ok)
    /\ UNCHANGED <<exists, refs, data, taskVars, sessVars>>

MoveOut(u) ==
    LET email == messages[u].email
        now == IF lastId < Clock THEN Clock ELSE lastId + 1
    IN /\ u \in Uids
       /\ away[email] < MaxAway /\ away' = [away EXCEPT ![email] = @ + 1]
       /\ Forget({u})
       /\ Xadd([id |-> now, uid |-> u, kind |-> "expunge", flag |-> FALSE])
       /\ Broken(TRUE)
       /\ UNCHANGED <<maxUid, maxModSeq, exists, refs, data, taskVars, sessVars>>

\* A mistake: only setting the flag is noted in the set.
UpdateAdds(u, flag) ==
    /\ u \in Uids
    /\ messages' = [messages EXCEPT ![u].flag = flag]
    /\ deleted' = IF flag THEN deleted \cup {u} ELSE deleted
    /\ \E ok \in BOOLEAN : Changed(u, "fetch", flag, ok) /\ Broken(ok)
    /\ UNCHANGED <<maxUid, recent, exists, contVars, taskVars, sessVars>>

\* message_update: \Deleted is set, removed, or not in the flags that replace
\* the message's own.  The flags are written before the change is.
Update(u, flag) ==
    /\ u \in Uids
    /\ messages' = [messages EXCEPT ![u].flag = flag]
    /\ deleted' = IF flag THEN deleted \cup {u} ELSE deleted \ {u}
    /\ \E ok \in BOOLEAN : Changed(u, "fetch", flag, ok) /\ Broken(ok)
    /\ UNCHANGED <<maxUid, recent, exists, contVars, taskVars, sessVars>>

\* message_delete, here of one UID, which may be gone already: it is recorded as
\* expunged in any case, and its content queued if it was there.  find_deleted
\* gives EXPUNGE the set of UIDs, and UID EXPUNGE those of the session's view.
Expunge(u) ==
    /\ u \in deleted \cup UNION {{v \in DOMAIN view[s] : view[s][v]} : s \in Session}
    /\ Forget({u})
    /\ \E ok \in BOOLEAN :
          /\ Changed(u, "expunge", FALSE, ok) /\ Broken(ok)
          /\ queue' = IF ok /\ u \in Uids THEN Append(queue, messages[u].email) ELSE queue
    /\ UNCHANGED <<maxUid, exists, contVars, task, crashes, sessVars>>

-----------------------------------------------------------------------------
(* The sessions. *)

\* claim_recent of SELECT.
Select(s) ==
    /\ exists = "named"
    /\ sessionRecent' = [sessionRecent EXCEPT ![s] = recent] /\ recent' = {}
    /\ modSeq' = [modSeq EXCEPT ![s] = Unread] /\ view' = [view EXCEPT ![s] = << >>]
    /\ UNCHANGED <<messages, maxUid, deleted, changes, lastId, maxModSeq, exists, contVars,
                   taskVars, broken>>

Flags == [u \in Uids |-> messages[u].flag]

\* The entries of the stream from a session's number on, by their places.
Newer(s) == {i \in DOMAIN changes : changes[i].id > modSeq[s]}

\* add_updates with what _get_changes makes of the entries.
Updated(old, new) ==
    LET expunged == {changes[i].uid : i \in {j \in new : changes[j].kind = "expunge"}}
        fetched == {changes[i].uid : i \in new} \ expunged
        Latest(u) == CHOOSE i \in new :
                      changes[i].uid = u /\ \A j \in new : changes[j].uid = u => j <= i
    IN [u \in (DOMAIN old \cup fetched) \ expunged |->
          IF u \in fetched THEN changes[Latest(u)].flag ELSE old[u]]

\* A mistake: a stream that was trimmed is not noticed.
LoadChanges(s) ==
    IF modSeq[s] = Unread THEN Flags ELSE Updated(view[s], Newer(s))

\* update_selected: if no entry of the stream is older than the session's number
\* the stream may have been trimmed beyond it, and all messages are read again.
Load(s) == IF Newer(s) = DOMAIN changes THEN Flags ELSE Updated(view[s], Newer(s))

UpdateSelected(s) ==
    /\ exists = "named"
    /\ view' = [view EXCEPT ![s] = Load(s)]
    /\ modSeq' = [modSeq EXCEPT ![s] = IF changes = << >> THEN 0 ELSE Last(changes).id]
    /\ sessionRecent' = [sessionRecent EXCEPT ![s] = @ \ (DOMAIN view[s] \ DOMAIN Load(s))]
    /\ UNCHANGED <<boxVars, exists, contVars, taskVars, broken>>

-----------------------------------------------------------------------------
(* The deletion of the mailbox, and the background task. *)

\* mailbox_delete.
DeleteMailbox ==
    /\ exists = "named" /\ exists' = "queued"
    /\ UNCHANGED <<boxVars, contVars, taskVars, sessVars, broken>>

\* BLPOP, which asks for mailboxes before contents.
Pop ==
    /\ task = None
    /\ \/ exists = "queued" /\ task' = "mailbox" /\ exists' = "popped" /\ UNCHANGED queue
       \/ /\ exists # "queued" /\ queue # << >>
          /\ task' = Head(queue) /\ queue' = Tail(queue) /\ UNCHANGED exists
    /\ UNCHANGED <<boxVars, contVars, crashes, sessVars, broken>>

\* cleanup_mailbox: the contents of all messages are queued.
RunMailbox ==
    /\ task = "mailbox" /\ task' = None /\ exists' = "cleaned"
    /\ \E order \in SetToSeqs(Uids) :
          queue' = queue \o [i \in DOMAIN order |-> messages[order[i]].email]
    /\ UNCHANGED <<boxVars, contVars, crashes, sessVars, broken>>

\* cleanup_content.
RunContent ==
    /\ task \in Email /\ task' = None
    /\ refs' = [refs EXCEPT ![task] = @ - 1]
    /\ data' = IF refs'[task] <= 0 /\ data[task] = "kept"
               THEN [data EXCEPT ![task] = "expires"] ELSE data
    /\ UNCHANGED <<boxVars, exists, away, queue, crashes, sessVars, broken>>

\* The connection or the process fails with the entry in hand, which is lost;
\* the task starts again.
Crash ==
    /\ task # None /\ task' = None
    /\ crashes < MaxCrashes /\ crashes' = crashes + 1
    /\ UNCHANGED <<boxVars, exists, contVars, queue, sessVars, broken>>

\* The time to live of a content is over.
Vanish ==
    /\ \E e \in Email : data[e] = "expires" /\ data' = [data EXCEPT ![e] = "none"]
    /\ UNCHANGED <<boxVars, exists, refs, away, taskVars, sessVars, broken>>

Next ==
    \/ \E e \in Email : AppendAway(e)
    \/ \E e \in Email, flag, isRecent \in BOOLEAN :
          AppendMessage(e, flag, isRecent) \/ CopyIn(e, flag, isRecent) \/ MoveIn(e, flag, isRecent)
    \/ \E u \in 1..MaxUid : CopyOut(u) \/ MoveOut(u) \/ Expunge(u)
    \/ \E u \in 1..MaxUid, flag \in BOOLEAN : Update(u, flag)
    \/ \E s \in Session : Select(s) \/ UpdateSelected(s)
    \/ DeleteMailbox \/ Pop \/ RunMailbox \/ RunContent \/ Crash \/ Vanish

Spec == Init /\ [][Next]_vars

-----------------------------------------------------------------------------
(* A session that has seen the last change agrees with the mailbox on its  *)
(* messages and their flags, wherever the stream was trimmed in between,   *)
(* and while no script has failed for the numbers of MOVE.                 *)
ViewFollowsMailbox ==
    \A s \in Session :
        modSeq[s] = lastId /\ exists = "named" /\ ~broken => view[s] = Flags

(* EXPUNGE finds the messages to remove in a set of their own, which has   *)
(* the UIDs of just those messages that are \Deleted; and a \Recent mark   *)
(* is one of a message, which no session has.                              *)
IndexesAgree ==
    ~broken => /\ deleted = {u \in Uids : messages[u].flag}
               /\ recent \subseteq Uids
               /\ \A s, t \in Session : s # t => sessionRecent[s] \cap sessionRecent[t] = {}

\* What refers to a content: the messages, the queue and the task.
Holding(e) == {u \in Uids : messages[u].email = e /\ exists # "cleaned"}
Queued(e) == {i \in DOMAIN queue : queue[i] = e}
Users(e) == away[e] + Cardinality(Holding(e))
Waiting(e) == Cardinality(Queued(e)) + (IF task = e THEN 1 ELSE 0)

(* Contents that several messages share are counted exactly, but for what  *)
(* the background task has lost, and a content is never about to expire    *)
(* while a message has it: however APPEND, COPY, MOVE, EXPUNGE, deletion   *)
(* and the delayed counting down follow each other.                        *)
ContentKept ==
    ~broken => \A e \in Email :
        /\ refs[e] >= Users(e) + Waiting(e)
        /\ crashes = 0 => refs[e] = Users(e) + Waiting(e)
        /\ Users(e) > 0 => data[e] = "kept"

(* UIDs are given in ascending order and never again, also by scripts that *)
(* fail.                                                                   *)
Ledger == INSTANCE UidLedger WITH
    records <- [u \in Uids |-> messages[u].email], nextUid <- maxUid + 1
LedgerSpec == Ledger!Spec

-----------------------------------------------------------------------------
(* What they rest on, for the proofs. *)

Change == [id : Nat \ {0}, uid : 1..maxUid, kind : {"fetch", "expunge"}, flag : BOOLEAN]

BoxType ==
    /\ maxUid \in Nat /\ maxModSeq \in Nat /\ lastId \in Nat /\ broken \in BOOLEAN
    /\ Uids \subseteq 1..maxUid /\ messages \in [Uids -> [email : Email, flag : BOOLEAN]]
    /\ recent \subseteq 1..maxUid /\ deleted \subseteq 1..maxUid
    /\ changes \in Seq(Change)

ContentType ==
    /\ exists \in {"named", "queued", "popped", "cleaned"}
    /\ refs \in [Email -> Int] /\ data \in [Email -> {"none", "kept", "expires"}]
    /\ away \in [Email -> Nat]
    /\ queue \in Seq(Email) /\ task \in Email \cup {None, "mailbox"} /\ crashes \in Nat
    /\ task = "mailbox" => exists = "popped"

SessionType ==
    /\ modSeq \in [Session -> Int] /\ DOMAIN view = Session
    /\ \A s \in Session : DOMAIN view[s] \subseteq 1..maxUid /\ view[s] \in [DOMAIN view[s] -> BOOLEAN]
    /\ sessionRecent \in [Session -> SUBSET (1..maxUid)]

TypeOK == BoxType /\ ContentType /\ SessionType

\* The stream ends with the last number given, and trimming takes its beginning.
StreamOrdered ==
    /\ \A i, j \in DOMAIN changes : i < j => changes[i].id < changes[j].id
    /\ lastId = IF changes = << >> THEN 0 ELSE changes[Len(changes)].id
    /\ \A s \in Session : modSeq[s] \in Unread..lastId

\* The last entry of each UID says what has become of the message.
StreamTrue ==
    /\ changes = << >> => Uids = {}
    /\ \A i \in DOMAIN changes :
          /\ changes[i].kind = "expunge" => changes[i].uid \notin Uids
          /\ \/ \E j \in DOMAIN changes : i < j /\ changes[j].uid = changes[i].uid
             \/ changes[i].kind = "expunge"
             \/ changes[i].uid \in Uids /\ changes[i].flag = messages[changes[i].uid].flag

\* The stream reaches back to what a session has seen.
Reaches(s) == changes = << >> \/ \E i \in DOMAIN changes : changes[i].id <= modSeq[s]

\* A session is right about the messages without newer entries, if the stream
\* reaches back to what it has seen.
ViewTrue ==
    \A s \in Session : modSeq[s] # Unread /\ Reaches(s) =>
        \A u \in 1..maxUid \ {changes[i].uid : i \in Newer(s)} :
            /\ u \in DOMAIN view[s] <=> u \in Uids
            /\ u \in Uids => view[s][u] = messages[u].flag

RecentUnclaimed == \A s \in Session : recent \cap sessionRecent[s] = {}

\* A content is kept while it is referred to, and not only while a message has it.
Counted ==
    \A e \in Email :
        /\ refs[e] >= Users(e) + Waiting(e)
        /\ crashes = 0 => refs[e] = Users(e) + Waiting(e)
        /\ refs[e] > 0 => data[e] = "kept"

RedisInv ==
    /\ TypeOK /\ StreamOrdered /\ IndexesAgree
    /\ ~broken => StreamTrue /\ ViewTrue /\ RecentUnclaimed /\ Counted

=============================================================================
