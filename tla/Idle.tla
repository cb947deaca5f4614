-------------------------------- MODULE Idle --------------------------------
(***************************************************************************)
(* One IMAP session in IDLE (idle() and handle_updates() of pymap/imap/    *)
(* __init__.py) on a mailbox of the dict backend that other sessions       *)
(* change.  idle() runs two tasks: one reads the line that ends it, one    *)
(* loops: wait for a change, synchronise, write the untagged responses.    *)
(* Only the waits and the writes suspend.                                  *)
(*                                                                         *)
(* Changes are counted: the mailbox has made "highest" of them, the session*)
(* has taken notice of "seen", the client has been told of "told".         *)
(***************************************************************************)
EXTENDS Naturals

CONSTANT MaxChanges    \* bound on the changes made to the mailbox

ASSUME IdleAssumption == MaxChanges \in Nat

VARIABLES
    idling,     \* whether the session is in idle(), or between commands
    updates,    \* the updates_task: what it does or how it ended
    event,      \* the either_event it waits on, once it does: is it set
    done,       \* the done event
    deleted,    \* whether the mailbox has been deleted
    highest, seen, told,
    registered  \* history: highest when the task began its last wait

vars == <<idling, updates, event, done, deleted, highest, seen, told, registered>>

TypeOK ==
    /\ idling \in BOOLEAN /\ event \in BOOLEAN /\ done \in BOOLEAN /\ deleted \in BOOLEAN
    /\ updates \in {"none", "looping", "waiting", "writing", "ended", "failed"}
    /\ highest \in 0..MaxChanges /\ seen \in 0..highest /\ told \in 0..seen
    /\ registered \in 0..highest

Init ==
    /\ idling = FALSE /\ updates = "none" /\ event = FALSE
    /\ done = FALSE /\ deleted = FALSE
    /\ highest = 0 /\ seen = 0 /\ told = 0 /\ registered = 0

-----------------------------------------------------------------------------
\* Any other command of the session: its update_selected, fork() and response.
Command ==
    /\ ~idling /\ ~deleted
    /\ seen' = highest /\ told' = highest
    /\ UNCHANGED <<idling, updates, event, done, deleted, highest, registered>>

\* do_idle selects nothing to synchronise; both tasks are made.
StartIdle ==
    /\ ~idling
    /\ idling' = TRUE /\ updates' = "looping" /\ done' = FALSE
    /\ UNCHANGED <<event, deleted, highest, seen, told, registered>>

\* A round of handle_updates up to either_event.wait(): the new or_event is not
\* set, however many changes there were before it.  check_mailbox raises if
\* the mailbox is gone, and that ends the task.
Round ==
    /\ updates = "looping"
    /\ updates' = IF done THEN "ended" ELSE IF deleted THEN "failed" ELSE "waiting"
    /\ event' = FALSE
    /\ registered' = highest
    /\ UNCHANGED <<idling, done, deleted, highest, seen, told>>

\* The rest of receive_updates, when the waiting task runs again.
Wake ==
    /\ updates = "waiting" /\ event
    /\ seen' = highest
    /\ updates' = "writing"
    /\ UNCHANGED <<idling, event, done, deleted, highest, told, registered>>

\* A mistake: the write is given up when the client's line is there.
WrittenUnlessDone ==
    /\ updates = "writing"
    /\ told' = IF done THEN told ELSE seen
    /\ updates' = "looping"
    /\ UNCHANGED <<idling, event, done, deleted, highest, seen, registered>>

\* write_updates has written everything; a lost connection is ignored.
Written ==
    /\ updates = "writing"
    /\ told' = seen
    /\ updates' = "looping"
    /\ UNCHANGED <<idling, event, done, deleted, highest, seen, registered>>

\* A mistake: the task waits for the mailbox alone.
DoneUnheard ==
    /\ idling /\ ~done
    /\ done' = TRUE
    /\ UNCHANGED <<idling, updates, event, deleted, highest, seen, told, registered>>

\* The client sends its line, or goes away: done.set().
Done ==
    /\ idling /\ ~done
    /\ done' = TRUE
    /\ event' = (event \/ updates = "waiting")
    /\ UNCHANGED <<idling, updates, deleted, highest, seen, told, registered>>

\* idle() has both tasks' results and answers.
Answer ==
    /\ idling /\ done /\ updates \in {"ended", "failed"}
    /\ idling' = FALSE /\ updates' = "none"
    /\ UNCHANGED <<event, done, deleted, highest, seen, told, registered>>

\* A mistake: a change that does not set the mailbox's event.
ChangeQuietly ==
    /\ ~deleted /\ highest < MaxChanges
    /\ highest' = highest + 1
    /\ UNCHANGED <<idling, updates, event, done, deleted, seen, told, registered>>

\* Another session changes the mailbox: _updated.set() sets the or_event there
\* is, if any.
Change ==
    /\ ~deleted /\ highest < MaxChanges
    /\ highest' = highest + 1
    /\ event' = (event \/ updates = "waiting")
    /\ UNCHANGED <<idling, updates, done, deleted, seen, told, registered>>

\* Another session deletes the mailbox, which sets no event.
Delete ==
    /\ ~deleted
    /\ deleted' = TRUE
    /\ UNCHANGED <<idling, updates, event, done, highest, seen, told, registered>>

Next == Command \/ StartIdle \/ Round \/ Wake \/ Written \/ Done \/ Answer \/ Change \/ Delete

\* The event loop runs every task that is ready; nothing is assumed of clients.
Fairness == WF_vars(Round) /\ WF_vars(Wake) /\ WF_vars(Written) /\ WF_vars(Answer)

Spec == Init /\ [][Next]_vars /\ Fairness

-----------------------------------------------------------------------------
(* Nothing the session has taken off the change log is lost to the client: *)
(* between commands it has been told all of it, even if the client's line  *)
(* arrived while the responses were being written, or the task failed.     *)
SeenIsTold == ~idling => told = seen

(* Why, for the proof: only while it writes is a session behind with what  *)
(* it has taken notice of.                                                 *)
IdleInv == (~idling => updates = "none") /\ (updates # "writing" => told = seen)

(* The line that ends IDLE is always answered: the task can be waiting,    *)
(* writing, about to wait or dead when done is set.                        *)
DoneIsAnswered == (idling /\ done) ~> ~idling

(* A change made while the task waits is reported, whatever comes next.    *)
WaitingNotices ==
    \A n \in 1..MaxChanges :
        updates = "waiting" /\ registered < highest /\ highest = n ~> told >= n

(* What check_mailbox says of wait_on, "block until either this event is   *)
(* signalled or the mailbox has detected updates": a change made while the *)
(* session idles is reported before the client ends IDLE.                  *)
IdleNotices ==
    \A n \in 1..MaxChanges :
        idling /\ ~done /\ ~deleted /\ highest = n ~> told >= n \/ done \/ deleted

=============================================================================
