------------------------------- MODULE Maildir -------------------------------
(***************************************************************************)
(* One mailbox of pymap/backend/maildir/mailbox.py.  Its messages are the  *)
(* files of a directory, its UIDs the records of a list that is a file of  *)
(* its own.  Every session reads and writes both without knowing of the    *)
(* others: they meet in the file system alone.  Each step below is one     *)
(* access to the directory or to the list, and sessions, deliveries and    *)
(* crashes interleave between them.                                        *)
(*                                                                         *)
(* The list has the lock of module FileLock.  Whoever changes it makes the *)
(* lock file and reads the list in one step, writes it back as a whole in  *)
(* another, and unlinks the lock file in a third.  A file left behind by a *)
(* process that died is found by its age in one step and unlinked in the   *)
(* next, so that it may be another's by then.  The user's other mailboxes  *)
(* are one place, "away".                                                  *)
(***************************************************************************)
EXTENDS Naturals, FiniteSets, Sequences, SequencesExt, Functions

CONSTANTS
    Session,      \* connections, each with its own MailboxData object
    Key,          \* bound: the unique names of all files there will ever be
    MaxUid,       \* bound: the highest UID
    MaxDeaths,    \* bound: how many processes die, and may leave the lock behind
    Contended,    \* bound: whether live holders keep others out until they time out
    AfterRace     \* bound: whether commands begin after a live holder lost its lock file

NoKey == "no key"

ASSUME MaildirAssumption ==
    /\ IsFiniteSet(Key) /\ NoKey \notin Key
    /\ Session \cap {"free", "left", "expired"} = {}
    /\ MaxUid \in Nat /\ MaxDeaths \in Nat /\ Contended \in BOOLEAN /\ AfterRace \in BOOLEAN

VARIABLES
    place,        \* where the file of each key is
    records,      \* dovecot-uidlist: the key of each recorded UID
    nextUid,      \* the next UID, in the header of that file
    lock,         \* dovecot-uidlist.lock: the live session that made it, or what it is
    gate,         \* where each session is in read_lock() or write_lock()
    copy,         \* the list that it has read and will write back
    home,         \* whether each session has the mailbox selected
    view,         \* the UIDs in its selected mailbox
    recent,       \* those that are \Recent in it
    pc,           \* the access it is at, and of which command
    keys,         \* its last scan of the directory
    key,          \* the file in its hands
    twice,        \* history: the files that two sessions have recorded
    back,         \* history: the files brought back while a record of them was left
    deaths,       \* history: how many processes have died
    raced         \* history: whether the lock file of a live holder was unlinked

listVars == <<records, nextUid>>
lockVars == <<lock, gate, copy, raced>>
viewVars == <<home, view, recent>>
handVars == <<keys, key>>
histVars == <<twice, back, deaths>>
vars == <<place, listVars, lockVars, viewVars, pc, handVars, histVars>>

Here == {"new", "cur"}

New   == {k \in Key : place[k] = "new"}
Files == {k \in Key : place[k] \in Here}
Recorded == Range(records)

List == [records |-> records, nextUid |-> nextUid]
EmptyList == [records |-> << >>, nextUid |-> 1]

Init ==
    /\ place = [k \in Key |-> "unused"]
    /\ records = << >> /\ nextUid = 1 /\ lock = "free"
    /\ gate = [s \in Session |-> "call"]
    /\ copy = [s \in Session |-> EmptyList]
    /\ home = [s \in Session |-> "out"]
    /\ view = [s \in Session |-> {}] /\ recent = [s \in Session |-> {}]
    /\ pc = [s \in Session |-> "rest"]
    /\ keys = [s \in Session |-> {}]
    /\ key = [s \in Session |-> NoKey]
    /\ twice = {} /\ back = {} /\ deaths = 0 /\ raced = FALSE

-----------------------------------------------------------------------------
Goto(s, l) == pc' = [pc EXCEPT ![s] = l]

\* The command is over, and the session waits for another one or is no more.
Finish(s, l) ==
    /\ Goto(s, l)
    /\ keys' = [keys EXCEPT ![s] = {}]
    /\ key' = [key EXCEPT ![s] = NoKey]

\* _load_updates, which has nothing to do when no mailbox is selected.
Update(s) == Finish(s, IF home[s] = "in" THEN "look" ELSE "rest")

\* The commands, each named for what it does after get_mailbox, by whether the
\* session has the mailbox selected: EXAMINE or NOOP, SELECT, APPEND, MOVE back;
\* COPY, MOVE and EXPUNGE; CHECK.
Command(s) == IF home[s] = "out"
              THEN {"look", "claim", "add", "bring"}
              ELSE {"look", "add", "lookup", "clean"}

\* What COPY, MOVE, MOVE within the mailbox and EXPUNGE do with a record.  The
\* third waits for the write lock of the mailbox, which it holds.
OnRecord == {"add", "take", "stuck", "remove"}

-----------------------------------------------------------------------------
(* The lock of the list. *)

Reads  == {"claim", "lookup", "look"}
Writes == {"merge", "record", "sweep"}

ToGate(s, g) == gate' = [gate EXCEPT ![s] = g]

\* The session is at a step that needs no lock, and has given back its last.
Unlocked(s, l) == pc[s] = l /\ gate[s] = "call"

\* with_read: the list is read when there is no lock file, or the session has
\* unlinked an expired one.
Reading(s, l) ==
    /\ pc[s] = l /\ (gate[s] = "in" \/ (gate[s] = "call" /\ lock = "free"))
    /\ ToGate(s, "call")
    /\ UNCHANGED <<listVars, lock, copy, raced>>

\* The end of the block of with_write: the list is written, if there is anything
\* to write, over whatever is there by now.
Writing(s, l) ==
    /\ pc[s] = l /\ gate[s] = "in"
    /\ ToGate(s, "out") /\ copy' = [copy EXCEPT ![s] = EmptyList]
    /\ UNCHANGED <<lock, raced>>

\* The stat() of _check_lock finds an expired file.
Find(s) ==
    /\ pc[s] \in Reads \cup Writes /\ gate[s] = "call" /\ lock = "expired"
    /\ ToGate(s, "stale")
    /\ UNCHANGED <<place, listVars, lock, copy, raced, viewVars, pc, handVars, histVars>>

\* Its unlink() takes whatever file is there by now.
Break(s) ==
    /\ gate[s] = "stale"
    /\ ToGate(s, IF pc[s] \in Reads THEN "in" ELSE "wait")
    /\ lock' = "free" /\ raced' = (raced \/ lock \in Session)
    /\ UNCHANGED <<place, listVars, copy, viewVars, pc, handVars, histVars>>

\* The files that the session will add to the list.
Wanted(s, list) == CASE pc[s] = "merge"  -> keys[s] \ Range(list.records)
                     [] pc[s] = "record" -> {key[s]}
                     [] OTHER            -> {}

\* A mistake: the lock file is opened without "x".
EnterOver(s) ==
    /\ pc[s] \in Writes /\ gate[s] \in {"call", "wait"}
    /\ nextUid + Cardinality(Wanted(s, List)) <= MaxUid + 1
    /\ lock' = s /\ ToGate(s, "in") /\ copy' = [copy EXCEPT ![s] = List]
    /\ UNCHANGED <<place, listVars, raced, viewVars, pc, handVars, histVars>>

\* with_write: _try_lock makes the lock file, at once or after a delay, and the
\* list is read.
Enter(s) ==
    /\ pc[s] \in Writes /\ gate[s] \in {"call", "wait"} /\ lock = "free"
    /\ nextUid + Cardinality(Wanted(s, List)) <= MaxUid + 1
    /\ lock' = s /\ ToGate(s, "in") /\ copy' = [copy EXCEPT ![s] = List]
    /\ UNCHANGED <<place, listVars, raced, viewVars, pc, handVars, histVars>>

\* _unlock: it, too, takes any file.
Release(s) ==
    /\ gate[s] = "out" /\ ToGate(s, "call")
    /\ lock' = "free" /\ raced' = (raced \/ lock \in Session \ {s})
    /\ UNCHANGED <<place, listVars, copy, viewVars, pc, handVars, histVars>>

-----------------------------------------------------------------------------
(* The steps of the commands. *)

\* A command begins: get_mailbox calls reset().
Start(s) ==
    /\ Unlocked(s, "rest") /\ (raced => AfterRace) /\ Goto(s, "scan")
    /\ UNCHANGED <<place, listVars, lockVars, viewVars, handVars, histVars>>

\* CLOSE and UNSELECT, what SELECT does first, and the end of the connection.
Close(s) ==
    /\ Unlocked(s, "rest") /\ home[s] = "in"
    /\ home' = [home EXCEPT ![s] = "out"]
    /\ view' = [view EXCEPT ![s] = {}] /\ recent' = [recent EXCEPT ![s] = {}]
    /\ UNCHANGED <<place, listVars, lockVars, pc, handVars, histVars>>

\* _get_keys, for reset() and for cleanup().
Scan(s) ==
    /\ \/ Unlocked(s, "scan") /\ Goto(s, "merge")
       \/ Unlocked(s, "clean") /\ Goto(s, "sweep")
    /\ keys' = [keys EXCEPT ![s] = Files]
    /\ UNCHANGED <<place, listVars, lockVars, viewVars, key, histVars>>

\* The list is written with new records of these files, in any order.
WithRecords(list, files) ==
    LET count == Cardinality(files)
    IN /\ \E order \in SetToSeqs(files) :
             records' = [u \in DOMAIN list.records \cup list.nextUid..(list.nextUid + count - 1) |->
                           IF u < list.nextUid THEN list.records[u] ELSE order[u - list.nextUid + 1]]
       /\ nextUid' = list.nextUid + count

\* The files that a session has added and will record next.
InHand == {key[s] : s \in {t \in Session : pc[t] = "record"}}

\* A mistake: the records are those that the session knew before it had the lock,
\* when it has last updated its view.
MergeUnlocked(s) ==
    LET list == copy[s]
        found == keys[s] \ {list.records[u] : u \in DOMAIN list.records \cap view[s]}
    IN /\ Writing(s, "merge") /\ \E c \in Command(s) : Goto(s, c)
       /\ IF found = {} THEN UNCHANGED listVars ELSE WithRecords(list, found)
       /\ twice' = twice \cup (found \cap InHand)
       /\ keys' = [keys EXCEPT ![s] = {}]
       /\ UNCHANGED <<place, viewVars, key, back, deaths>>

\* The list access of reset(): files without a record get one.
Merge(s) ==
    LET found == Wanted(s, copy[s])
    IN /\ Writing(s, "merge") /\ \E c \in Command(s) : Goto(s, c)
       /\ IF found = {} THEN UNCHANGED listVars ELSE WithRecords(copy[s], found)
       /\ twice' = twice \cup (found \cap InHand)
       /\ keys' = [keys EXCEPT ![s] = {}]
       /\ UNCHANGED <<place, viewVars, key, back, deaths>>

\* claim_recent: the keys of the list in turn are looked up in the generator that
\* claim_new() returns, which goes on through the listing of new/ from where the
\* last look has left it, renaming the files that it passes.  So they are found
\* as long as each comes later in the listing than the one before; the first
\* that does not uses the listing up.
Claimed(listing) ==
    LET At(u, i) == i \in DOMAIN listing /\ listing[i] = records[u]
        Ordered(u) == \A v \in DOMAIN records : v < u =>
                          \E i, j \in DOMAIN listing : i < j /\ At(v, i) /\ At(u, j)
        InTurn(u) == (\E i \in DOMAIN listing : At(u, i)) /\ Ordered(u)
        found == {u \in DOMAIN records : \A v \in DOMAIN records : v <= u => InTurn(v)}
    IN  [found |-> found,
         passed |-> IF found # DOMAIN records THEN Range(listing)
                    ELSE {listing[i] : i \in {j \in DOMAIN listing :
                                              \E u \in found, k \in DOMAIN listing : At(u, k) /\ j <= k}}]

\* A mistake: the files are found in new/ but not renamed.
ClaimUnmoved(s) ==
    /\ Reading(s, "claim") /\ Goto(s, "look")
    /\ recent' = [recent EXCEPT ![s] = {u \in DOMAIN records : records[u] \in New}]
    /\ UNCHANGED <<place, home, view, handVars, histVars>>

Claim(s) ==
    /\ Reading(s, "claim") /\ Goto(s, "look")
    /\ \E listing \in SetToSeqs(New) :
          LET claimed == Claimed(listing)
          IN  /\ place' = [k \in Key |-> IF k \in claimed.passed THEN "cur" ELSE place[k]]
              /\ recent' = [recent EXCEPT ![s] = claimed.found]
    /\ UNCHANGED <<home, view, handVars, histVars>>

\* A session that has the mailbox selected keeps the \Recent mark to itself.
Subdir(s) == IF home[s] = "in" THEN "cur" ELSE "new"

\* The file of APPEND and COPY, under a new key; or that of a MOVE from another
\* mailbox, which keeps its key.
Add(s) ==
    /\ (Unlocked(s, "add") \/ Unlocked(s, "bring")) /\ Goto(s, "record")
    /\ \E k \in Key :
          /\ place[k] = (IF pc[s] = "add" THEN "unused" ELSE "away")
          /\ place' = [place EXCEPT ![k] = Subdir(s)]
          /\ key' = [key EXCEPT ![s] = k]
          /\ back' = IF k \in Recorded THEN back \cup {k} ELSE back
    /\ UNCHANGED <<listVars, lockVars, viewVars, keys, twice, deaths>>

\* The list access of APPEND, COPY and MOVE: the UID that the client is told.
RecordKey(s) ==
    /\ Writing(s, "record")
    /\ WithRecords(copy[s], Wanted(s, copy[s]))
    /\ twice' = IF key[s] \in Range(copy[s].records) THEN twice \cup {key[s]} ELSE twice
    /\ recent' = IF home[s] = "in" THEN [recent EXCEPT ![s] = @ \cup {copy[s].nextUid}] ELSE recent
    /\ Update(s)
    /\ UNCHANGED <<place, home, view, back, deaths>>

\* The record of a UID in the view; there is nothing to do if it is gone.
Lookup(s) ==
    /\ Reading(s, "lookup")
    /\ \/ \E u \in view[s] \cap DOMAIN records :
             /\ key' = [key EXCEPT ![s] = records[u]] /\ \E c \in OnRecord : Goto(s, c)
             /\ UNCHANGED <<keys>>
       \/ ~(view[s] \subseteq DOMAIN records) /\ Update(s)
    /\ UNCHANGED <<place, viewVars, histVars>>

\* The file goes to another mailbox, or is removed, if it is still there; its
\* record stays.
Take(s) ==
    /\ Unlocked(s, "take") /\ Update(s)
    /\ place' = [place EXCEPT ![key[s]] = IF @ \in Here THEN "away" ELSE @]
    /\ UNCHANGED <<listVars, lockVars, viewVars, histVars>>

Delete(s) ==
    /\ Unlocked(s, "remove") /\ Update(s)
    /\ place' = [place EXCEPT ![key[s]] = IF @ \in Here THEN "gone" ELSE @]
    /\ UNCHANGED <<listVars, lockVars, viewVars, histVars>>

\* The list access of cleanup(): records of files that the scan has not found go.
Sweep(s) ==
    /\ Writing(s, "sweep") /\ Goto(s, "look")
    /\ IF DOMAIN copy[s].records = {} THEN UNCHANGED listVars
       ELSE /\ records' = RestrictValues(copy[s].records, LAMBDA k : k \in keys[s])
            /\ nextUid' = copy[s].nextUid
    /\ keys' = [keys EXCEPT ![s] = {}]
    /\ UNCHANGED <<place, viewVars, key, histVars>>

\* messages() and set_messages, with which a SELECT or EXAMINE ends, too.  The
\* list is read and then the files of its records, here in one step.
Look(s) ==
    LET found == {u \in DOMAIN records : records[u] \in Files}
    IN /\ Reading(s, "look") /\ Finish(s, "rest")
       /\ home' = [home EXCEPT ![s] = "in"]
       /\ view' = [view EXCEPT ![s] = found]
       /\ recent' = [recent EXCEPT ![s] = @ \ (view[s] \ found)]
       /\ UNCHANGED <<place, histVars>>

-----------------------------------------------------------------------------
(* What happens outside of the sessions. *)

\* A mail delivery agent puts a file into new/.
Deliver ==
    /\ \E k \in Key : place[k] = "unused" /\ place' = [place EXCEPT ![k] = "new"]
    /\ UNCHANGED <<listVars, lockVars, viewVars, pc, handVars, histVars>>

\* TimeoutError: the command fails, and the connection goes on.
Fail(s) ==
    /\ pc[s] \in Reads \cup Writes /\ gate[s] \in {"call", "wait"}
    /\ lock # "free" /\ (lock \in Session => Contended)
    /\ Finish(s, "rest") /\ ToGate(s, "call")
    /\ recent' = IF home[s] = "in" THEN recent ELSE [recent EXCEPT ![s] = {}]
    /\ UNCHANGED <<place, listVars, lock, copy, raced, home, view, histVars>>

\* The process of a session dies, and leaves the lock file if it has made it; the
\* session's name goes to another.
Crash(s) ==
    /\ deaths < MaxDeaths /\ deaths' = deaths + 1
    /\ Finish(s, "rest") /\ ToGate(s, "call")
    /\ lock' = IF lock = s THEN "left" ELSE lock
    /\ copy' = [copy EXCEPT ![s] = EmptyList]
    /\ home' = [home EXCEPT ![s] = "out"]
    /\ view' = [view EXCEPT ![s] = {}] /\ recent' = [recent EXCEPT ![s] = {}]
    /\ UNCHANGED <<place, listVars, raced, twice, back>>

\* No live holder lets its file expire: its block reads and writes one small file.
Expire ==
    /\ lock = "left" /\ lock' = "expired"
    /\ UNCHANGED <<place, listVars, gate, copy, raced, viewVars, pc, handVars, histVars>>

Next ==
    \/ Deliver \/ Expire
    \/ \E s \in Session :
          \/ Find(s) \/ Break(s) \/ Enter(s) \/ Release(s)
          \/ Start(s) \/ Close(s) \/ Scan(s) \/ Merge(s) \/ Claim(s) \/ Add(s) \/ RecordKey(s)
          \/ Lookup(s) \/ Take(s) \/ Delete(s) \/ Sweep(s) \/ Look(s)
          \/ Fail(s) \/ Crash(s)

Spec == Init /\ [][Next]_vars

-----------------------------------------------------------------------------
(* A file has one UID, however many sessions find it in the directory at   *)
(* the same time, unless reset() records it in the moment between its      *)
(* arrival and the record of the session that has added it.  That does not *)
(* even need the lock: a list is written back whole by one that has read   *)
(* it whole.                                                               *)
EachOnce(list) ==
    \A u, v \in DOMAIN list.records :
        list.records[u] = list.records[v] => u = v \/ list.records[u] \in twice

OneUidPerFile == EachOnce(List)

(* A message is \Recent in at most one session, as claim_new() moves the   *)
(* file that it finds, unless the file has left the mailbox and come back  *)
(* while its record was still there, or has two records; and until a live  *)
(* holder's lock file is unlinked, when two may take one UID for theirs.   *)
RecentOnce ==
    ~raced => \A s, t \in Session : s # t =>
                 \A u \in recent[s] \cap recent[t] \cap DOMAIN records : records[u] \in twice \cup back

(* A UID belongs to one file for ever, and none is given twice, whatever   *)
(* sessions do between the steps of an APPEND, COPY, MOVE or CHECK: the    *)
(* list keeps the promise of UidLedger, also after a process has died,     *)
(* until two processes find the same expired lock file and the second      *)
(* unlinks what the first has made in its place.                           *)
Ledger == INSTANCE UidLedger
LedgerUnlessRaced == Ledger!Init /\ [][raced' \/ Ledger!Next]_listVars

(* Without reservation that is so where no process dies.  The second of    *)
(* two that are inside with_write() at once writes its list over the       *)
(* other's, and a UID may then be given again, to another file.            *)
LedgerSpec == Ledger!Spec

-----------------------------------------------------------------------------
(* What they rest on, for the proofs. *)

Where == Here \cup {"unused", "away", "gone"}
Access == {"rest", "scan", "add", "bring", "take", "stuck", "remove", "clean"} \cup Reads \cup Writes

ListOK(list) ==
    /\ list.nextUid \in Nat \ {0} /\ DOMAIN list.records \subseteq 1..(list.nextUid - 1)
    /\ list.records \in [DOMAIN list.records -> Key]

TypeOK ==
    /\ place \in [Key -> Where]
    /\ ListOK(List) /\ DOMAIN copy = Session /\ \A s \in Session : ListOK(copy[s])
    /\ lock \in Session \cup {"free", "left", "expired"}
    /\ gate \in [Session -> {"call", "stale", "wait", "in", "out"}]
    /\ home \in [Session -> {"in", "out"}]
    /\ recent \in [Session -> SUBSET Nat] /\ DOMAIN view = Session
    /\ pc \in [Session -> Access]
    /\ keys \in [Session -> SUBSET Key] /\ key \in [Session -> Key \cup {NoKey}]
    /\ \A s \in Session : pc[s] \in {"record", "take", "remove"} => key[s] \in Key
    /\ deaths \in 0..MaxDeaths /\ raced \in BOOLEAN

\* Of a file that is not there yet nobody has heard.
UnusedUnknown ==
    \A k \in Key : place[k] = "unused" =>
        /\ k \notin Recorded
        /\ \A s \in Session : k \notin keys[s] /\ k # key[s] /\ k \notin Range(copy[s].records)

\* What is in the list, and in what the sessions have read of it, whoever else
\* has the lock.
ListInv == TypeOK /\ OneUidPerFile /\ (\A s \in Session : EachOnce(copy[s])) /\ UnusedUnknown

\* Who is about to write the list back, or has just done so.
Holds(s) == gate[s] = "out" \/ (gate[s] = "in" /\ pc[s] \in Writes)

\* Until a live holder's file is unlinked it is the one that has read the list, and
\* nobody has written it since; and nobody unlinks files before a process has died.
LockInv ==
    /\ ~raced => \A s \in Session :
                    /\ Holds(s) => lock = s
                    /\ Holds(s) /\ gate[s] = "in" => copy[s] = List
    /\ deaths = 0 => /\ ~raced /\ lock \notin {"left", "expired"}
                     /\ \A s \in Session : gate[s] # "stale"

\* A file that a session adds with the mailbox selected is its own until it is
\* recorded, if no other session records it first.
AddedUnseen ==
    \A s \in Session :
        /\ pc[s] = "bring" => home[s] = "out"
        /\ pc[s] = "record" /\ home[s] = "in" /\ key[s] \notin twice =>
              /\ place[key[s]] = "cur" /\ key[s] \notin Recorded
              /\ \A t \in Session \ {s} : key[t] # key[s]

\* What is \Recent in a session was given out, and is not in new/ any more, where
\* another one would find it.
RecentClaimed ==
    \A s \in Session : \A u \in recent[s] :
        /\ u < nextUid
        /\ u \in DOMAIN records /\ records[u] \notin twice \cup back => place[records[u]] # "new"

MarksInv == RecentOnce /\ (~raced => AddedUnseen /\ RecentClaimed)

MaildirInv == ListInv /\ LockInv /\ MarksInv

=============================================================================
