------------------------------ MODULE FileLock ------------------------------
(***************************************************************************)
(* The lock file of pymap/concurrent.py, by which processes that share a   *)
(* directory exclude each other.  Each step is one system call: processes  *)
(* interleave between them.  A process that dies in its block leaves the   *)
(* file behind, and whoever finds it once it has expired unlinks it.       *)
(***************************************************************************)
EXTENDS Naturals, FiniteSets

CONSTANTS
    Process,      \* the processes, or threads, that use the lock
    Retries       \* bound: the number of delays in write_retry_delay (17 by default)

ASSUME RetriesAssumption == Retries \in Nat

VARIABLES
    pc,           \* where each process is in read_lock() or write_lock()
    kind,         \* which of the two it is in
    tries,        \* the delays it has left
    file,         \* the lock file, or NoFile
    crashed,      \* history: whether any process has died in its block
    raced         \* history: whether the file of a live holder was unlinked

vars == <<pc, kind, tries, file, crashed, raced>>

NoFile == [by |-> "nobody", state |-> "absent"]

\* "held" while the process that made it lives, then "left", then "expired".
FileType == {NoFile} \cup [by : Process, state : {"held", "left", "expired"}]

Place == {"out", "stale", "try", "sleep", "in"}

Inside == {p \in Process : pc[p] = "in" /\ kind[p] = "write"}

TypeOK ==
    /\ pc \in [Process -> Place]
    /\ kind \in [Process -> {"read", "write"}]
    /\ tries \in [Process -> 0..Retries]
    /\ file \in FileType
    /\ crashed \in BOOLEAN /\ raced \in BOOLEAN

Init ==
    /\ pc = [p \in Process |-> "out"]
    /\ kind = [p \in Process |-> "read"]
    /\ tries = [p \in Process |-> 0]
    /\ file = NoFile
    /\ crashed = FALSE /\ raced = FALSE

-----------------------------------------------------------------------------
Goto(p, place) == pc' = [pc EXCEPT ![p] = place]

\* Where _check_lock() leads when there is no file, or none any more: a reader
\* is in, a writer still has to make its own.
Absent(k) == IF k = "read" THEN "in" ELSE "try"

\* The call, and the stat() of _check_lock.
Call(p, k) ==
    /\ pc[p] = "out"
    /\ Goto(p, CASE file.state = "absent"  -> Absent(k)
                 [] file.state = "expired" -> "stale"
                 [] OTHER                  -> "sleep")
    /\ kind' = [kind EXCEPT ![p] = k]
    /\ tries' = [tries EXCEPT ![p] = Retries]
    /\ UNCHANGED <<file, crashed, raced>>

\* The unlink() of _check_lock takes whatever file is there by now.
Break(p) ==
    /\ pc[p] = "stale"
    /\ file' = NoFile
    /\ raced' = (raced \/ file.state = "held")
    /\ Goto(p, Absent(kind[p]))
    /\ UNCHANGED <<kind, tries, crashed>>

\* A mistake: the file is opened without "x".
TryOver(p) ==
    /\ pc[p] = "try"
    /\ file' = [by |-> p, state |-> "held"] /\ Goto(p, "in")
    /\ UNCHANGED <<kind, tries, crashed, raced>>

\* _try_lock, which creates the file or fails.
Try(p) ==
    /\ pc[p] = "try"
    /\ IF file = NoFile THEN file' = [by |-> p, state |-> "held"] /\ Goto(p, "in")
                        ELSE Goto(p, "sleep") /\ UNCHANGED file
    /\ UNCHANGED <<kind, tries, crashed, raced>>

\* One round of the loop over the delays, which never looks at the file's age;
\* after the last one TimeoutError.
Retry(p) ==
    /\ pc[p] = "sleep"
    /\ \/ /\ tries[p] > 0 /\ file = NoFile
          /\ file' = IF kind[p] = "read" THEN NoFile ELSE [by |-> p, state |-> "held"]
          /\ Goto(p, "in") /\ UNCHANGED tries
       \/ /\ tries[p] > 0 /\ file # NoFile
          /\ tries' = [tries EXCEPT ![p] = @ - 1]
          /\ UNCHANGED <<pc, file>>
       \/ /\ tries[p] = 0
          /\ Goto(p, "out") /\ UNCHANGED <<tries, file>>
    /\ UNCHANGED <<kind, crashed, raced>>

\* A mistake: a block that fails does not unlink the file.
ReleaseKept(p) ==
    /\ pc[p] = "in"
    /\ Goto(p, "out")
    /\ UNCHANGED <<kind, tries, file, crashed, raced>>

\* The end of the block, and _unlock of a writer: it, too, takes any file.
Release(p) ==
    /\ pc[p] = "in"
    /\ Goto(p, "out")
    /\ IF kind[p] = "read" THEN UNCHANGED <<file, raced>>
       ELSE file' = NoFile /\ raced' = (raced \/ (file.state = "held" /\ file.by # p))
    /\ UNCHANGED <<kind, tries, crashed>>

\* A writer dies; its process may be started again and call as any other.
Crash(p) ==
    /\ p \in Inside
    /\ Goto(p, "out")
    /\ file' = IF file.by = p THEN [file EXCEPT !.state = "left"] ELSE file
    /\ crashed' = TRUE
    /\ UNCHANGED <<kind, tries, raced>>

\* The file's age passes the expiration.  No live holder lets that happen: its
\* block reads and writes one small file.
Expire ==
    /\ file.state = "left"
    /\ file' = [file EXCEPT !.state = "expired"]
    /\ UNCHANGED <<pc, kind, tries, crashed, raced>>

Next ==
    \/ Expire
    \/ \E p \in Process :
          \/ \E k \in {"read", "write"} : Call(p, k)
          \/ Break(p) \/ Try(p) \/ Retry(p) \/ Release(p) \/ Crash(p)

Spec == Init /\ [][Next]_vars

-----------------------------------------------------------------------------
(* Writers exclude each other as long as none of them dies: the retries,   *)
(* which do not look at the file's age, and the unlinking by a reader break*)
(* no lock of a live writer.                                               *)
ExclusiveWithoutCrash == ~crashed => Cardinality(Inside) <= 1

(* After a crash they still do, until two processes find the same expired  *)
(* file and the second unlinks what the first has made in its place.       *)
ExclusiveUnlessRaced == ~raced => Cardinality(Inside) <= 1

(* A lock file is never orphaned but by a crash: one that is not left over *)
(* belongs to a writer that is still in its block, and will go with it.    *)
FileHasHolder == file.state = "held" => file.by \in Inside

\* Only writers make files.
OnlyWritersTry == \A p \in Process : pc[p] = "try" => kind[p] = "write"

(* What the invariants rest on, for the proofs: until a live holder's file *)
(* is unlinked the writer inside is the one that made the file, and nobody *)
(* is about to unlink a file unless one was left by a crash.               *)
LockFileInv ==
    /\ TypeOK
    /\ OnlyWritersTry
    /\ FileHasHolder
    /\ raced => crashed
    /\ ~raced => \A p \in Inside : file = [by |-> p, state |-> "held"]
    /\ ~crashed => /\ file.state \in {"absent", "held"}
                   /\ \A p \in Process : pc[p] # "stale"

(* What the documentation says: "If the file is present, other read- and   *)
(* write-locks will block until the file is gone".                         *)
WritersExclude == Cardinality(Inside) <= 1

=============================================================================
