--------------------------- MODULE ReadWriteLock ---------------------------
(***************************************************************************)
(* The read-write lock of pymap/concurrent.py, in the steps of its         *)
(* threading form; the asyncio form runs some of them together.  The first *)
(* reader takes the write lock for all of them and the last one gives it   *)
(* back.  The inner lock around the counter is held for no other step, so  *)
(* counting oneself in or out is one action.                               *)
(***************************************************************************)
EXTENDS Naturals, FiniteSets

CONSTANT Task    \* the threads, or asyncio tasks, that use the lock

ASSUME TaskAssumption == IsFiniteSet(Task)

VARIABLES
    pc,          \* where each task is in read_lock() or write_lock()
    counter,     \* _counter
    writeLock    \* _write_lock: whether it is locked

vars == <<pc, counter, writeLock>>

Place == {"idle", "first", "reading", "last", "wanting", "writing"}

TypeOK == pc \in [Task -> Place] /\ counter \in Nat /\ writeLock \in BOOLEAN

At(place) == {t \in Task : pc[t] = place}

Init ==
    /\ pc = [t \in Task |-> "idle"]
    /\ counter = 0
    /\ writeLock = FALSE

-----------------------------------------------------------------------------
\* A mistake: the counter is compared before it is counted up.
AcquireReadStale(t) ==
    /\ pc[t] = "idle"
    /\ counter' = counter + 1
    /\ pc' = [pc EXCEPT ![t] = IF counter = 1 THEN "first" ELSE "reading"]
    /\ UNCHANGED writeLock

\* _acquire_read: only the reader that counts itself first goes for the lock.
AcquireRead(t) ==
    /\ pc[t] = "idle"
    /\ counter' = counter + 1
    /\ pc' = [pc EXCEPT ![t] = IF counter' = 1 THEN "first" ELSE "reading"]
    /\ UNCHANGED writeLock

\* A mistake: it waits until it is the only reader.
LockWhenAlone(t) ==
    /\ pc[t] = "first" /\ ~writeLock /\ counter = 1
    /\ writeLock' = TRUE
    /\ pc' = [pc EXCEPT ![t] = "reading"]
    /\ UNCHANGED counter

\* Its _write_lock.acquire().
LockForReaders(t) ==
    /\ pc[t] = "first" /\ ~writeLock
    /\ writeLock' = TRUE
    /\ pc' = [pc EXCEPT ![t] = "reading"]
    /\ UNCHANGED counter

\* Mistakes: the reader before the last gives the lock back; every one does.
ReleaseReadEarly(t) ==
    /\ pc[t] = "reading"
    /\ counter' = counter - 1
    /\ pc' = [pc EXCEPT ![t] = IF counter' = 1 THEN "last" ELSE "idle"]
    /\ UNCHANGED writeLock

ReleaseReadAlways(t) ==
    /\ pc[t] = "reading"
    /\ counter' = counter - 1
    /\ pc' = [pc EXCEPT ![t] = "last"]
    /\ UNCHANGED writeLock

\* _release_read
ReleaseRead(t) ==
    /\ pc[t] = "reading"
    /\ counter' = counter - 1
    /\ pc' = [pc EXCEPT ![t] = IF counter' = 0 THEN "last" ELSE "idle"]
    /\ UNCHANGED writeLock

\* The _write_lock.release() of the last reader.
UnlockForReaders(t) ==
    /\ pc[t] = "last"
    /\ writeLock' = FALSE
    /\ pc' = [pc EXCEPT ![t] = "idle"]
    /\ UNCHANGED counter

\* write_lock(), from the call to the end of its block.
WantWrite(t) ==
    /\ pc[t] = "idle"
    /\ pc' = [pc EXCEPT ![t] = "wanting"]
    /\ UNCHANGED <<counter, writeLock>>

\* A mistake: the lock is taken without waiting for it.
AcquireWriteNow(t) ==
    /\ pc[t] = "wanting"
    /\ writeLock' = TRUE
    /\ pc' = [pc EXCEPT ![t] = "writing"]
    /\ UNCHANGED counter

AcquireWrite(t) ==
    /\ pc[t] = "wanting" /\ ~writeLock
    /\ writeLock' = TRUE
    /\ pc' = [pc EXCEPT ![t] = "writing"]
    /\ UNCHANGED counter

ReleaseWrite(t) ==
    /\ pc[t] = "writing"
    /\ writeLock' = FALSE
    /\ pc' = [pc EXCEPT ![t] = "idle"]
    /\ UNCHANGED counter

Leave(t) == ReleaseRead(t) \/ UnlockForReaders(t) \/ ReleaseWrite(t)

Next == \E t \in Task : \/ AcquireRead(t) \/ LockForReaders(t)
                        \/ WantWrite(t) \/ AcquireWrite(t)
                        \/ Leave(t)

Spec == Init /\ [][Next]_vars

\* Whoever is in leaves, as no block runs for ever, and asyncio.Lock serves its
\* waiters in turn.
FairSpec == Spec /\ \A t \in Task : /\ WF_vars(Leave(t))
                                    /\ SF_vars(LockForReaders(t))
                                    /\ SF_vars(AcquireWrite(t))

-----------------------------------------------------------------------------
(* Writers exclude each other.                                             *)
WritersExclude == \A t, r \in At("writing") : t = r

(* The last reader releases the lock that the readers took: not a writer's,*)
(* and never one that is free already, which raises.                       *)
ReleaseOwnLock == At("last") # {} => writeLock /\ At("writing") = {}

(* A writer can only meet readers while the first of them still waits for  *)
(* the lock: readers that have got it keep the writers out.                *)
ReadersKeepWritersOut == At("writing") # {} /\ At("reading") # {} => At("first") # {}

(* The first reader is not passed over for ever: while it waits no reader  *)
(* has the lock, whatever the readers that come and go meanwhile.          *)
FirstReaderEnters == \A t \in Task : pc[t] = "first" ~> pc[t] = "reading"

(* The inductive invariant behind the three: the counter counts the readers*)
(* that are in or wait to be first, and once there is no such first one the*)
(* lock is theirs.                                                         *)
Counted == At("first") \cup At("reading")

LockInv ==
    /\ TypeOK
    /\ counter = Cardinality(Counted)
    /\ \A t, r \in At("first") : t = r
    /\ \A t, r \in At("last") : t = r
    /\ WritersExclude
    /\ ReleaseOwnLock
    /\ At("writing") # {} => writeLock
    /\ Counted # {} /\ At("first") = {} => writeLock /\ At("writing") = {} /\ At("last") = {}

(* What the doc string of read_lock says: it blocks "until any write-locks *)
(* are released".                                                          *)
ReadersWaitForWriters == At("writing") = {} \/ At("reading") = {}

=============================================================================
