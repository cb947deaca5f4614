------------------------ MODULE ReadWriteLockProofs ------------------------
(***************************************************************************)
(* Proofs about ReadWriteLock, for any finite set of tasks.                *)
(***************************************************************************)
EXTENDS ReadWriteLock, FiniteSetTheorems, TLAPS

\* The set of tasks at a place, after t has gone from its place to another.
LEMMA AtMoved ==
    ASSUME TypeOK, NEW t \in Task, NEW to \in Place, pc' = [pc EXCEPT ![t] = to]
    PROVE  /\ At(to)' = At(to) \cup {t}
           /\ \A p \in Place \ {to} : At(p)' = At(p) \ {t}
BY DEF At, TypeOK

\* The readers counted by _counter are finitely many.
LEMMA CountedFinite == IsFiniteSet(Counted) /\ Cardinality(Counted) \in Nat
<1>1. Counted \subseteq Task
  BY DEF Counted, At
<1> QED  BY <1>1, TaskAssumption, FS_Subset, FS_CardinalityType

\* A new lock, free and counting nobody, satisfies the invariant.
LEMMA LockInit == Init => LockInv
<1> SUFFICES ASSUME Init PROVE LockInv
  OBVIOUS
<1>1. \A p \in Place \ {"idle"} : At(p) = {}
  BY DEF Init, At, Place
<1>2. Counted = {} /\ Cardinality({}) = 0
  BY <1>1, FS_EmptySet DEF Counted, Place
<1>3. At("first") = {} /\ At("last") = {} /\ At("writing") = {}
  BY <1>1 DEF Place
<1> QED  BY <1>2, <1>3 DEF Init, LockInv, TypeOK, Place, WritersExclude, ReleaseOwnLock

\* A reader counts itself in.  If it is not the first to, some reader already
\* waits or is in, so that nothing about the lock changes.
LEMMA AcquireReadStep ==
    ASSUME LockInv, NEW t \in Task, AcquireRead(t)
    PROVE  LockInv'
<1>0. PICK to \in {"first", "reading"} :
          pc' = [pc EXCEPT ![t] = to] /\ (to = "first" <=> counter' = 1)
  BY DEF AcquireRead
<1>1. /\ pc[t] = "idle" /\ counter \in Nat /\ counter = Cardinality(Counted)
      /\ counter' = counter + 1 /\ writeLock' = writeLock /\ TypeOK
  BY DEF AcquireRead, LockInv, TypeOK
<1>2. t \notin Counted /\ t \notin At("last") /\ t \notin At("writing") /\ t \notin At("first")
  BY <1>1 DEF Counted, At
<1>3. /\ At(to)' = At(to) \cup {t}
      /\ \A p \in Place \ {to} : At(p)' = At(p) \ {t}
  <2>1. to \in Place
    BY DEF Place
  <2> QED  BY <1>0, <1>1, <2>1, AtMoved
<1>4. At("last")' = At("last") /\ At("writing")' = At("writing")
  BY <1>2, <1>3 DEF Place
<1>5. Counted' = Counted \cup {t}
  BY <1>2, <1>3 DEF Counted, Place
<1>6. Cardinality(Counted') = counter'
  BY <1>1, <1>2, <1>5, CountedFinite, FS_AddElement
<1>7. CASE counter' = 1
  <2>1. Counted = {}
    BY <1>1, <1>7, CountedFinite, FS_EmptySet
  <2>2. At("first")' = {t}
    BY <1>0, <1>3, <1>7, <2>1 DEF Counted
  <2> QED  BY <1>1, <1>4, <1>6, <1>7, <2>2 DEF LockInv, TypeOK, AcquireRead, Place, WritersExclude, ReleaseOwnLock
<1>8. CASE counter' # 1
  <2>1. Counted # {}
    BY <1>1, <1>8, FS_EmptySet
  <2>2. At("first")' = At("first")
    BY <1>0, <1>2, <1>3, <1>8 DEF Place
  <2> QED  BY <1>1, <1>4, <1>6, <1>8, <2>1, <2>2 DEF LockInv, TypeOK, AcquireRead, Place, WritersExclude, ReleaseOwnLock
<1> QED  BY <1>7, <1>8

\* The first reader gets the lock: it was free, so nobody writes or leaves.
LEMMA LockForReadersStep ==
    ASSUME LockInv, NEW t \in Task, LockForReaders(t)
    PROVE  LockInv'
<1>1. /\ pc[t] = "first" /\ ~writeLock /\ writeLock' = TRUE /\ counter' = counter
      /\ pc' = [pc EXCEPT ![t] = "reading"] /\ TypeOK
  BY DEF LockForReaders, LockInv
<1>2. "reading" \in Place
  BY DEF Place
<1>3. /\ At("reading")' = At("reading") \cup {t}
      /\ \A p \in Place \ {"reading"} : At(p)' = At(p) \ {t}
  BY <1>1, <1>2, AtMoved
<1>4. t \in At("first")
  BY <1>1 DEF At
<1>5. At("first")' = {} /\ Counted' = Counted
  BY <1>3, <1>4 DEF Counted, LockInv, Place
<1>6. At("last")' = {} /\ At("writing")' = {}
  BY <1>1, <1>3 DEF LockInv, ReleaseOwnLock, Place
<1> QED  BY <1>1, <1>2, <1>5, <1>6 DEF LockInv, TypeOK, WritersExclude, ReleaseOwnLock

\* A reader counts itself out; the last to do so leaves with the lock.
LEMMA ReleaseReadStep ==
    ASSUME LockInv, NEW t \in Task, ReleaseRead(t)
    PROVE  LockInv'
<1>0. PICK to \in {"last", "idle"} :
          pc' = [pc EXCEPT ![t] = to] /\ (to = "last" <=> counter' = 0)
  BY DEF ReleaseRead
<1>1. /\ pc[t] = "reading" /\ counter \in Nat /\ counter = Cardinality(Counted)
      /\ counter' = counter - 1 /\ writeLock' = writeLock /\ TypeOK
  BY DEF ReleaseRead, LockInv, TypeOK
<1>2. t \in Counted /\ t \notin At("first") /\ t \notin At("last") /\ t \notin At("writing")
  BY <1>1 DEF Counted, At
<1>3. /\ At(to)' = At(to) \cup {t}
      /\ \A p \in Place \ {to} : At(p)' = At(p) \ {t}
  <2>1. to \in Place
    BY DEF Place
  <2> QED  BY <1>0, <1>1, <2>1, AtMoved
<1>4. At("first")' = At("first") /\ At("writing")' = At("writing")
  BY <1>2, <1>3 DEF Place
<1>5. Counted' = Counted \ {t}
  BY <1>2, <1>3 DEF Counted, Place
<1>6. Cardinality(Counted') = counter' /\ counter' \in Nat
  <2>1. Cardinality(Counted \ {t}) = Cardinality(Counted) - 1
    BY <1>2, CountedFinite, FS_RemoveElement
  <2>2. IsFiniteSet(Counted \ {t})
    BY CountedFinite, FS_RemoveElement
  <2> QED  BY <1>1, <1>5, <2>1, <2>2, FS_CardinalityType
<1>7. TypeOK'
  BY <1>1, <1>6 DEF TypeOK, ReleaseRead, Place
<1>8. CASE counter' = 0
  <2>1. Counted \ {t} = {}
    BY <1>5, <1>6, <1>8, CountedFinite, FS_RemoveElement, FS_EmptySet
  <2>2. At("first") = {}
    BY <1>2, <2>1 DEF Counted
  <2>3. writeLock /\ At("writing") = {} /\ At("last") = {}
    BY <1>2, <2>2 DEF LockInv
  <2>4. At("last")' = {t}
    BY <1>0, <1>3, <1>8, <2>3
  <2> QED  BY <1>1, <1>4, <1>5, <1>6, <1>7, <2>1, <2>2, <2>3, <2>4 DEF LockInv, WritersExclude, ReleaseOwnLock
<1>9. CASE counter' # 0
  <2>1. At("last")' = At("last")
    BY <1>0, <1>2, <1>3, <1>9 DEF Place
  <2> QED  BY <1>1, <1>2, <1>4, <1>5, <1>6, <1>7, <2>1 DEF LockInv, WritersExclude, ReleaseOwnLock
<1> QED  BY <1>8, <1>9

\* The last reader gives the lock back.
LEMMA UnlockStep ==
    ASSUME LockInv, NEW t \in Task, UnlockForReaders(t)
    PROVE  LockInv'
<1>1. /\ pc[t] = "last" /\ writeLock' = FALSE /\ counter' = counter
      /\ pc' = [pc EXCEPT ![t] = "idle"] /\ TypeOK /\ t \in At("last")
  BY DEF UnlockForReaders, LockInv, At
<1>2. "idle" \in Place
  BY DEF Place
<1>3. \A p \in Place \ {"idle"} : At(p)' = At(p) \ {t}
  BY <1>1, <1>2, AtMoved
<1>4. t \notin At("first") /\ t \notin At("reading") /\ t \notin At("writing")
  BY <1>1 DEF At
<1>5. /\ At("first")' = At("first") /\ Counted' = Counted
      /\ At("last")' = {} /\ At("writing")' = {}
  BY <1>1, <1>3, <1>4 DEF Counted, LockInv, ReleaseOwnLock, Place
<1>6. ~(Counted # {} /\ At("first") = {})
  BY <1>1 DEF LockInv
<1> QED  BY <1>1, <1>2, <1>5, <1>6 DEF LockInv, TypeOK, WritersExclude, ReleaseOwnLock

\* What a writer does to the readers: nothing.
LEMMA WriterStep ==
    ASSUME LockInv, NEW t \in Task, WantWrite(t) \/ AcquireWrite(t) \/ ReleaseWrite(t)
    PROVE  LockInv'
<1>1. PICK to \in {"wanting", "writing", "idle"} :
          pc' = [pc EXCEPT ![t] = to] /\ counter' = counter /\ TypeOK
  BY DEF WantWrite, AcquireWrite, ReleaseWrite, LockInv
<1>2. to \in Place
  BY <1>1 DEF Place
<1>3. /\ At(to)' = At(to) \cup {t}
      /\ \A p \in Place \ {to} : At(p)' = At(p) \ {t}
  BY <1>1, <1>2, AtMoved
<1>4. pc[t] \in {"idle", "wanting", "writing"}
  BY DEF WantWrite, AcquireWrite, ReleaseWrite
<1>5. /\ At("first")' = At("first") /\ At("last")' = At("last")
      /\ At("reading")' = At("reading") /\ Counted' = Counted
  <2>1. t \notin At("first") /\ t \notin At("last") /\ t \notin At("reading")
    BY <1>4 DEF At
  <2> QED  BY <1>1, <1>3, <2>1 DEF Counted, Place
<1>6. CASE WantWrite(t)
  <2>1. At("writing")' = At("writing") /\ writeLock' = writeLock
    <3>1. pc' = [pc EXCEPT ![t] = "wanting"] /\ writeLock' = writeLock /\ t \notin At("writing")
      BY <1>6 DEF WantWrite, At
    <3>2. "wanting" \in Place /\ "writing" \in Place \ {"wanting"}
      BY DEF Place
    <3>3. At("writing")' = At("writing") \ {t}
      BY ONLY <1>1, <3>1, <3>2, AtMoved, t \in Task
    <3> QED  BY <3>1, <3>3
  <2> QED  BY <1>1, <1>2, <1>5, <2>1 DEF LockInv, TypeOK, WritersExclude, ReleaseOwnLock
<1>7. CASE AcquireWrite(t)
  <2>1. ~writeLock /\ writeLock' = TRUE /\ pc' = [pc EXCEPT ![t] = "writing"]
    BY <1>7 DEF AcquireWrite
  <2>2. At("writing") = {} /\ At("last") = {} /\ (Counted = {} \/ At("first") # {})
    BY <2>1 DEF LockInv, ReleaseOwnLock
  <2>3. At("writing")' = {t}
    BY <1>1, <2>1, <2>2, AtMoved DEF Place
  <2> QED  BY <1>1, <1>2, <1>5, <2>1, <2>2, <2>3 DEF LockInv, TypeOK, WritersExclude, ReleaseOwnLock
<1>8. CASE ReleaseWrite(t)
  <2>1. t \in At("writing") /\ writeLock' = FALSE /\ pc' = [pc EXCEPT ![t] = "idle"]
    BY <1>8 DEF ReleaseWrite, At
  <2>2. At("last") = {} /\ (Counted = {} \/ At("first") # {})
    BY <2>1 DEF LockInv, ReleaseOwnLock
  <2>3. At("writing")' = {}
    <3>1. "idle" \in Place /\ "writing" \in Place \ {"idle"}
      BY DEF Place
    <3>2. At("writing")' = At("writing") \ {t}
      BY ONLY <1>1, <2>1, <3>1, AtMoved, t \in Task
    <3> QED  BY <2>1, <3>2 DEF LockInv, WritersExclude
  <2> QED  BY <1>1, <1>2, <1>5, <2>1, <2>2, <2>3 DEF LockInv, TypeOK, WritersExclude, ReleaseOwnLock
<1> QED  BY <1>6, <1>7, <1>8

\* Every step of read_lock() and write_lock() keeps the invariant.
LEMMA LockStep == LockInv /\ [Next]_vars => LockInv'
<1> SUFFICES ASSUME LockInv, [Next]_vars PROVE LockInv'
  OBVIOUS
<1>1. CASE UNCHANGED vars
  BY <1>1 DEF vars, LockInv, TypeOK, Counted, At, WritersExclude, ReleaseOwnLock
<1>2. CASE Next
  BY <1>2, AcquireReadStep, LockForReadersStep, ReleaseReadStep, UnlockStep, WriterStep
     DEF Next, Leave
<1> QED  BY <1>1, <1>2

\* The invariant holds whatever the tasks do.
THEOREM LockCorrect == Spec => []LockInv
<1> QED  BY LockInit, LockStep, PTL DEF Spec

\* The read-write lock gives the write lock to one writer at a time.
THEOREM ExclusionCorrect == Spec => []WritersExclude
<1>1. LockInv => WritersExclude
  BY DEF LockInv
<1> QED  BY <1>1, LockCorrect, PTL

\* The last reader to leave releases the lock that the readers have, and never
\* that of a writer which has got it meanwhile.
THEOREM ReleaseCorrect == Spec => []ReleaseOwnLock
<1>1. LockInv => ReleaseOwnLock
  BY DEF LockInv
<1> QED  BY <1>1, LockCorrect, PTL

\* A writer meets readers only while the first of them still waits for the lock.
THEOREM ReadersCorrect == Spec => []ReadersKeepWritersOut
<1>1. LockInv => ReadersKeepWritersOut
  BY DEF LockInv, ReadersKeepWritersOut, Counted
<1> QED  BY <1>1, LockCorrect, PTL

=============================================================================
