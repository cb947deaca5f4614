---------------------------- MODULE MaildirProofs ----------------------------
(***************************************************************************)
(* Proofs about Maildir, for any sessions, any finite set of files and any *)
(* number of UIDs and of processes that die.                               *)
(***************************************************************************)
EXTENDS Maildir, FiniteSetTheorems, TLAPS

\* The list that is written after files got records: the old records are as they
\* were, and the new ones, under the UIDs from nextUid on, are of these files, each once.
LEMMA RecordsAdded ==
    ASSUME NEW list, ListOK(list), NEW files \in SUBSET Key, WithRecords(list, files)
    PROVE  /\ nextUid' \in Nat \ {0} /\ list.nextUid <= nextUid'
           /\ nextUid' = list.nextUid + Cardinality(files)
           /\ DOMAIN records' = DOMAIN list.records \cup list.nextUid..(nextUid' - 1)
           /\ DOMAIN records' \subseteq 1..(nextUid' - 1)
           /\ records' \in [DOMAIN records' -> Key]
           /\ \A u \in DOMAIN list.records : u < list.nextUid /\ records'[u] = list.records[u]
           /\ \A u \in list.nextUid..(nextUid' - 1) : records'[u] \in files
           /\ \A u, v \in list.nextUid..(nextUid' - 1) : records'[u] = records'[v] => u = v
           /\ Recorded' \subseteq Range(list.records) \cup files
<1> DEFINE count == Cardinality(files)
<1>1. count \in Nat
  <2>1. IsFiniteSet(files)
    BY MaildirAssumption, FS_Subset
  <2> QED  BY <2>1, FS_CardinalityType
<1> HIDE DEF count
<1>2. PICK order \in SetToSeqs(files) :
          records' = [u \in DOMAIN list.records \cup list.nextUid..(list.nextUid + count - 1) |->
                        IF u < list.nextUid THEN list.records[u] ELSE order[u - list.nextUid + 1]]
  BY DEF WithRecords, count
<1>3. /\ order \in [1..count -> files]
      /\ \A i, j \in 1..count : i # j => order[i] # order[j]
  BY <1>2 DEF SetToSeqs, count
<1>4. nextUid' = list.nextUid + count /\ list.nextUid \in Nat \ {0}
  BY DEF WithRecords, count, ListOK
<1>5. /\ nextUid' \in Nat \ {0} /\ list.nextUid <= nextUid'
      /\ DOMAIN records' = DOMAIN list.records \cup list.nextUid..(nextUid' - 1)
  BY <1>1, <1>2, <1>4
<1>6. \A u \in DOMAIN list.records : u < list.nextUid /\ u \in Nat \ {0} /\ records'[u] = list.records[u]
  BY <1>2, <1>4 DEF ListOK
<1>7. \A u \in list.nextUid..(nextUid' - 1) :
          u - list.nextUid + 1 \in 1..count /\ records'[u] = order[u - list.nextUid + 1]
  BY <1>1, <1>2, <1>4
<1>8. \A u \in list.nextUid..(nextUid' - 1) : records'[u] \in files
  BY <1>3, <1>7
<1>9. \A u, v \in list.nextUid..(nextUid' - 1) : records'[u] = records'[v] => u = v
  BY <1>3, <1>4, <1>7
<1>10. \A u \in DOMAIN records' : records'[u] \in Key
  BY <1>5, <1>6, <1>8 DEF ListOK
<1>11. records' \in [DOMAIN records' -> Key]
  BY <1>2, <1>10
<1>12. Recorded' \subseteq Range(list.records) \cup files
  BY <1>5, <1>6, <1>8 DEF Recorded, Range
<1>13. DOMAIN records' \subseteq 1..(nextUid' - 1)
  BY <1>4, <1>5, <1>6
<1> QED  BY <1>4, <1>5, <1>6, <1>8, <1>9, <1>11, <1>12, <1>13 DEF count

\* claim_recent finds files that are in new/, and moves them away from there.
LEMMA ClaimedMoves ==
    ASSUME TypeOK, NEW listing \in SetToSeqs(New)
    PROVE  /\ Claimed(listing).found \subseteq DOMAIN records
           /\ \A u \in Claimed(listing).found : records[u] \in New /\ records[u] \in Claimed(listing).passed
           /\ Claimed(listing).passed \subseteq New
<1> DEFINE At(u, i) == i \in DOMAIN listing /\ listing[i] = records[u]
           Ordered(u) == \A v \in DOMAIN records : v < u =>
                             \E i, j \in DOMAIN listing : i < j /\ At(v, i) /\ At(u, j)
           InTurn(u) == (\E i \in DOMAIN listing : At(u, i)) /\ Ordered(u)
           found == {u \in DOMAIN records : \A v \in DOMAIN records : v <= u => InTurn(v)}
           upTo == {listing[i] : i \in {j \in DOMAIN listing :
                                         \E u \in found, k \in DOMAIN listing : At(u, k) /\ j <= k}}
<1>1. /\ Claimed(listing).found = found
      /\ Claimed(listing).passed = IF found # DOMAIN records THEN Range(listing) ELSE upTo
  BY DEF Claimed
<1>2. listing \in [1..Cardinality(New) -> New] /\ Cardinality(New) \in Nat
  <2>1. IsFiniteSet(New)
    BY MaildirAssumption, FS_Subset DEF New
  <2> QED  BY <2>1, FS_CardinalityType DEF SetToSeqs
<1>3. \A i \in DOMAIN listing : listing[i] \in New /\ i \in Nat
  BY <1>2
<1>4. ASSUME NEW u \in found
      PROVE  \E i \in DOMAIN listing : listing[i] = records[u]
  <2>1. u \in Nat /\ u \in DOMAIN records
    BY DEF TypeOK, ListOK, List
  <2>2. InTurn(u)
    BY <2>1
  <2> QED  BY <2>2
<1>5. Range(listing) \subseteq New
  BY <1>3 DEF Range
<1>6. upTo \subseteq New
  BY <1>3
<1>7. ASSUME NEW u \in found
      PROVE  records[u] \in New /\ records[u] \in Range(listing) /\ records[u] \in upTo
  <2>1. PICK i \in DOMAIN listing : listing[i] = records[u]
    BY <1>4
  <2>2. i <= i
    BY <1>3
  <2>3. records[u] \in upTo
    BY <2>1, <2>2
  <2> QED  BY <1>3, <2>1, <2>3 DEF Range
<1> HIDE DEF found, upTo
<1>8. Claimed(listing).passed \subseteq New /\ \A u \in found : records[u] \in Claimed(listing).passed
  BY <1>1, <1>5, <1>6, <1>7
<1>9. found \subseteq DOMAIN records
  BY DEF found
<1> QED  BY <1>1, <1>7, <1>8, <1>9

\* The list of a new mailbox.
LEMMA EmptyListOK == ListOK(EmptyList) /\ Range(EmptyList.records) = {} /\ EachOnce(EmptyList) /\ EachOnce(EmptyList)'
<1>1. EmptyList.nextUid = 1 /\ DOMAIN EmptyList.records = {}
  BY DEF EmptyList
<1>2. EmptyList.records \in [DOMAIN EmptyList.records -> Key]
  BY DEF EmptyList
<1> QED  BY <1>1, <1>2 DEF ListOK, Range, EachOnce

\* A new mailbox is empty, and no session knows of it.
LEMMA MaildirInit == Init => MaildirInv
<1> SUFFICES ASSUME Init PROVE MaildirInv
  OBVIOUS
<1>1. List = EmptyList /\ copy = [s \in Session |-> EmptyList] /\ DOMAIN records = {} /\ nextUid = 1
  BY DEF Init, List, EmptyList
<1>2. /\ place = [k \in Key |-> "unused"] /\ home = [s \in Session |-> "out"]
      /\ recent = [s \in Session |-> {}] /\ DOMAIN view = Session /\ pc = [s \in Session |-> "rest"]
      /\ keys = [s \in Session |-> {}] /\ key = [s \in Session |-> NoKey]
      /\ gate = [s \in Session |-> "call"] /\ lock = "free" /\ deaths = 0 /\ raced = FALSE
  BY DEF Init
<1>3. TypeOK
  <2>1. ListOK(List) /\ DOMAIN copy = Session /\ \A s \in Session : ListOK(copy[s])
    BY <1>1, EmptyListOK
  <2>2. deaths \in 0..MaxDeaths
    BY <1>2, MaildirAssumption
  <2>3. raced \in BOOLEAN
    BY <1>2
  <2> QED  BY <1>2, <2>1, <2>2, <2>3 DEF TypeOK, Where, Access
<1>4. UnusedUnknown
  BY <1>1, <1>2, EmptyListOK, MaildirAssumption DEF UnusedUnknown, Recorded, Range
<1>5. OneUidPerFile /\ \A s \in Session : EachOnce(copy[s])
  BY <1>1, EmptyListOK DEF OneUidPerFile
<1>6. LockInv
  BY <1>1, <1>2 DEF LockInv, Holds
<1>7. MarksInv
  BY <1>1, <1>2 DEF MarksInv, AddedUnseen, RecentClaimed, RecentOnce
<1> QED  BY <1>3, <1>4, <1>5, <1>6, <1>7 DEF MaildirInv, ListInv

-----------------------------------------------------------------------------
(* The list and the marks. *)

\* What a session takes for the list: the list itself, or what it has read.  Until a
\* live holder loses its lock file there is no difference.
LEMMA CopyFresh ==
    ASSUME MaildirInv, NEW s \in Session, gate[s] = "in", pc[s] \in Writes, ~raced
    PROVE  copy[s] = List /\ \A t \in Session \ {s} : ~Holds(t)
<1>1. \A t \in Session : Holds(t) => lock = t
  BY DEF MaildirInv, LockInv
<1>2. Holds(s)
  BY DEF Holds
<1>3. copy[s] = List
  BY <1>2 DEF MaildirInv, LockInv
<1> QED  BY <1>1, <1>2, <1>3

\* Most steps record no file, add none and mark none \Recent.  They may take
\* files away and write a list with fewer records, and a session sees only files
\* and records that are there.
QuietStep ==
    /\ TypeOK' /\ UNCHANGED <<twice, back>> /\ (raced => raced')
    /\ \E list \in {List} \cup {copy[s] : s \in Session} :
          /\ nextUid' = list.nextUid /\ DOMAIN records' \subseteq DOMAIN list.records
          /\ \A u \in DOMAIN records' : records'[u] = list.records[u]
          /\ ~raced' => list = List
    /\ \A k \in Key : place'[k] # place[k] =>
          /\ place'[k] \in {"away", "gone"} /\ place[k] \in Here
          /\ \E s \in Session : pc[s] \in {"take", "remove"} /\ key[s] = k
    /\ \A s \in Session :
          /\ copy'[s] \in {copy[s], List, EmptyList}
          /\ recent'[s] \subseteq recent[s]
          /\ keys'[s] \subseteq keys[s] \cup Files /\ key'[s] \in {key[s], NoKey} \cup Recorded
          /\ ~raced /\ pc'[s] = "bring" => home'[s] = "out"
          /\ pc'[s] = "record" => pc[s] = "record" /\ home'[s] = home[s] /\ key'[s] = key[s]

LEMMA QuietKeeps == ASSUME MaildirInv, QuietStep PROVE ListInv' /\ MarksInv'
<1>1. TypeOK /\ TypeOK' /\ OneUidPerFile /\ (\A s \in Session : EachOnce(copy[s])) /\ UnusedUnknown
  BY DEF MaildirInv, ListInv, QuietStep
<1>2. twice' = twice /\ back' = back /\ (raced => raced')
  BY DEF QuietStep
<1>3. PICK list \in {List} \cup {copy[s] : s \in Session} :
          /\ nextUid' = list.nextUid /\ DOMAIN records' \subseteq DOMAIN list.records
          /\ \A u \in DOMAIN records' : records'[u] = list.records[u]
          /\ ~raced' => list = List
  BY DEF QuietStep
<1>4. List.records = records /\ List.nextUid = nextUid /\ List'.records = records'
  BY DEF List
<1>5. Recorded' \subseteq Range(list.records) /\ Recorded = Range(List.records)
  BY <1>3, <1>4 DEF Recorded, Range
<1>6. OneUidPerFile'
  <2>1. EachOnce(list)
    BY <1>1 DEF OneUidPerFile
  <2> QED  BY <1>2, <1>3, <1>4, <2>1 DEF OneUidPerFile, EachOnce
<1>7. (\A s \in Session : EachOnce(copy[s]))'
  <2> SUFFICES ASSUME NEW s \in Session PROVE EachOnce(copy[s])'
    OBVIOUS
  <2>1. copy'[s] \in {copy[s], List, EmptyList}
    BY DEF QuietStep
  <2>2. EachOnce(copy[s]) /\ EachOnce(List) /\ EachOnce(EmptyList)
    BY <1>1, EmptyListOK DEF OneUidPerFile
  <2>3. EachOnce(copy'[s])
    BY <2>1, <2>2
  <2> QED  BY <1>2, <2>3 DEF EachOnce
<1>8. UnusedUnknown'
  <2> SUFFICES ASSUME NEW k \in Key, place'[k] = "unused"
               PROVE  /\ k \notin Recorded'
                      /\ \A s \in Session : k \notin keys'[s] /\ k # key'[s] /\ k \notin Range(copy'[s].records)
    BY DEF UnusedUnknown
  <2>1. place[k] = "unused"
    BY DEF QuietStep
  <2>2. /\ k \notin Recorded /\ k \notin Files /\ k # NoKey
        /\ \A s \in Session : k \notin keys[s] /\ k # key[s] /\ k \notin Range(copy[s].records)
    BY <1>1, <2>1, MaildirAssumption DEF UnusedUnknown, Files, Here
  <2>3. k \notin Recorded'
    BY <1>5, <2>2
  <2>4. ASSUME NEW s \in Session PROVE k \notin Range(copy'[s].records)
    <3>1. copy'[s] \in {copy[s], List, EmptyList}
      BY DEF QuietStep
    <3> QED  BY <1>5, <2>2, <3>1, EmptyListOK
  <2> QED  BY <2>2, <2>3, <2>4 DEF QuietStep
<1>9. MarksInv'
  <2> SUFFICES ASSUME ~raced' PROVE (RecentOnce /\ AddedUnseen /\ RecentClaimed)'
    BY DEF MarksInv, RecentOnce
  <2>1. ~raced /\ RecentOnce /\ AddedUnseen /\ RecentClaimed
    BY <1>2 DEF MaildirInv, MarksInv
  <2>2. /\ nextUid' = nextUid /\ DOMAIN records' \subseteq DOMAIN records /\ Recorded' \subseteq Recorded
        /\ \A u \in DOMAIN records' : records'[u] = records[u]
    BY <1>3, <1>4, <1>5
  <2>3. \A u \in DOMAIN records' : records[u] \in Key
    BY <1>1, <1>4, <2>2 DEF TypeOK, ListOK
  <2>4. RecentOnce'
    BY <1>2, <2>1, <2>2 DEF RecentOnce, QuietStep
  <2>5. RecentClaimed'
    <3> SUFFICES ASSUME NEW s \in Session, NEW u \in recent'[s]
                 PROVE  /\ u < nextUid'
                        /\ u \in DOMAIN records' /\ records'[u] \notin twice' \cup back' => place'[records'[u]] # "new"
      BY DEF RecentClaimed
    <3>1. u \in recent[s]
      BY DEF QuietStep
    <3>2. /\ u < nextUid
          /\ u \in DOMAIN records /\ records[u] \notin twice \cup back => place[records[u]] # "new"
      BY <2>1, <3>1 DEF RecentClaimed
    <3>3. \A k \in Key : place[k] # "new" => place'[k] # "new"
      BY DEF QuietStep
    <3> QED  BY <1>2, <2>2, <2>3, <3>2, <3>3
  <2>6. AddedUnseen'
    <3> SUFFICES ASSUME NEW s \in Session, pc'[s] = "record" /\ home'[s] = "in" /\ key'[s] \notin twice'
                 PROVE  /\ place'[key'[s]] = "cur" /\ key'[s] \notin Recorded'
                        /\ \A t \in Session \ {s} : key'[t] # key'[s]
      BY <2>1 DEF AddedUnseen, QuietStep
    <3>1. pc[s] = "record" /\ home[s] = "in" /\ key'[s] = key[s] /\ key[s] \notin twice /\ key[s] \in Key
      BY <1>1, <1>2 DEF QuietStep, TypeOK
    <3>2. /\ place[key[s]] = "cur" /\ key[s] \notin Recorded
          /\ \A t \in Session \ {s} : key[t] # key[s]
      BY <2>1, <3>1 DEF AddedUnseen
    <3>3. place'[key[s]] = "cur"
      BY <3>1, <3>2 DEF QuietStep
    <3>4. \A t \in Session \ {s} : key'[t] # key[s]
      BY <3>1, <3>2, MaildirAssumption DEF QuietStep
    <3> QED  BY <2>2, <3>1, <3>2, <3>3, <3>4
  <2> QED  BY <2>4, <2>5, <2>6
<1> QED  BY <1>1, <1>6, <1>7, <1>8, <1>9 DEF ListInv

-----------------------------------------------------------------------------
(* The lock. *)

\* Steps that leave the list and the lock alone, and take no session into a block.
LEMMA LockKept ==
    ASSUME MaildirInv, UNCHANGED <<listVars, lock, copy, raced>>, deaths <= deaths', deaths' \in Nat,
           \A s \in Session : Holds(s)' => Holds(s) /\ gate'[s] = gate[s],
           \A s \in Session : gate'[s] = "stale" => gate[s] = "stale"
    PROVE  LockInv'
<1>1. LockInv /\ deaths \in Nat
  BY MaildirAssumption DEF MaildirInv, ListInv, TypeOK
<1>2. lock' = lock /\ copy' = copy /\ raced' = raced /\ List' = List
  BY DEF listVars, List
<1>3. deaths' = 0 => deaths = 0
  BY <1>1
<1> QED  BY <1>1, <1>2, <1>3 DEF LockInv

\* Of a session that begins or ends a command, or goes on to a step without lock.
LEMMA UnlockedLock ==
    ASSUME MaildirInv, NEW s \in Session,
           Start(s) \/ Close(s) \/ Scan(s) \/ Add(s) \/ Take(s) \/ Delete(s) \/ Claim(s) \/ Lookup(s) \/ Look(s) \/ Fail(s)
    PROVE  LockInv'
<1>1. TypeOK
  BY DEF MaildirInv, ListInv
<1>2. /\ UNCHANGED <<listVars, lock, copy, raced, deaths>>
      /\ gate' = [gate EXCEPT ![s] = "call"]
      /\ \A t \in Session \ {s} : pc'[t] = pc[t]
  <2>1. CASE Start(s) \/ Close(s) \/ Scan(s) \/ Add(s) \/ Take(s) \/ Delete(s)
    BY <1>1, <2>1 DEF Start, Close, Scan, Add, Take, Delete, Unlocked, Update, Finish, Goto, lockVars, histVars, TypeOK
  <2>2. CASE Claim(s) \/ Lookup(s) \/ Look(s) \/ Fail(s)
    BY <1>1, <2>2 DEF Claim, Lookup, Look, Fail, Reading, ToGate, Update, Finish, Goto, histVars, TypeOK
  <2> QED  BY <2>1, <2>2
<1>3. \A t \in Session \ {s} : gate'[t] = gate[t] /\ pc'[t] = pc[t]
  BY <1>1, <1>2 DEF TypeOK
<1>4. gate'[s] = "call"
  BY <1>1, <1>2 DEF TypeOK
<1>5. \A t \in Session : Holds(t)' => Holds(t) /\ gate'[t] = gate[t]
  BY <1>3, <1>4 DEF Holds
<1>6. deaths' = deaths /\ deaths \in Nat
  BY <1>1, <1>2, MaildirAssumption DEF TypeOK
<1>7. deaths <= deaths' /\ deaths' \in Nat
  BY <1>6
<1> QED  BY <1>2, <1>3, <1>4, <1>5, <1>7, LockKept

\* The writer inside is the only one, until a live holder loses its lock file.
LEMMA WriteLock ==
    ASSUME MaildirInv, NEW s \in Session, Merge(s) \/ RecordKey(s) \/ Sweep(s)
    PROVE  LockInv'
<1>1. TypeOK /\ LockInv
  BY DEF MaildirInv, ListInv
<1>2. /\ UNCHANGED <<lock, raced, deaths>> /\ gate[s] = "in" /\ pc[s] \in Writes
      /\ gate' = [gate EXCEPT ![s] = "out"] /\ copy' = [copy EXCEPT ![s] = EmptyList]
      /\ \A t \in Session \ {s} : pc'[t] = pc[t]
  BY <1>1 DEF Merge, RecordKey, Sweep, Writing, ToGate, Update, Finish, Goto, histVars, Writes, TypeOK
<1>3. /\ gate'[s] = "out"
      /\ \A t \in Session \ {s} : gate'[t] = gate[t] /\ pc'[t] = pc[t]
  BY <1>1, <1>2 DEF TypeOK
<1>4. Holds(s) /\ \A t \in Session \ {s} : Holds(t)' => Holds(t)
  BY <1>2, <1>3 DEF Holds
<1>5. ASSUME ~raced'
      PROVE  \A t \in Session : Holds(t)' => t = s /\ lock' = s
  <2>1. \A t \in Session : Holds(t) => lock = t
    BY <1>1, <1>2, <1>5 DEF LockInv
  <2> QED  BY <1>2, <1>4, <2>1
<1>6. deaths' = 0 => ~raced' /\ lock' \notin {"left", "expired"} /\ \A t \in Session : gate'[t] # "stale"
  BY <1>1, <1>2, <1>3 DEF LockInv
<1>7. ~raced' => \A t \in Session : (Holds(t)' => lock' = t) /\ (Holds(t)' /\ gate'[t] = "in" => copy'[t] = List')
  BY <1>3, <1>5
<1> QED  BY <1>6, <1>7 DEF LockInv

\* An expired file is found, and whatever is there by then unlinked.
LEMMA BreakLock == ASSUME MaildirInv, NEW s \in Session, Find(s) \/ Break(s) PROVE LockInv'
<1>1. TypeOK /\ LockInv
  BY DEF MaildirInv, ListInv
<1>2. UNCHANGED <<listVars, copy, pc, deaths>> /\ List' = List
  BY DEF Find, Break, histVars, listVars, List
<1>3. CASE Find(s)
  <2>1. gate' = [gate EXCEPT ![s] = "stale"] /\ lock = "expired" /\ lock' = lock /\ raced' = raced
    BY <1>3 DEF Find, ToGate
  <2>2. deaths # 0
    BY <1>1, <2>1 DEF LockInv
  <2>3. \A t \in Session : Holds(t)' => Holds(t) /\ gate'[t] = gate[t]
    BY <1>1, <1>2, <2>1 DEF Holds, TypeOK
  <2> QED  BY <1>1, <1>2, <2>1, <2>2, <2>3 DEF LockInv
<1>4. CASE Break(s)
  <2>1. /\ gate[s] = "stale" /\ gate' = [gate EXCEPT ![s] = IF pc[s] \in Reads THEN "in" ELSE "wait"]
        /\ raced' = (raced \/ lock \in Session)
    BY <1>4 DEF Break, ToGate
  <2>2. deaths # 0
    BY <1>1, <2>1 DEF LockInv
  <2>3. \A t \in Session : Holds(t)' => Holds(t)
    BY <1>1, <1>2, <2>1 DEF Holds, TypeOK, Reads, Writes
  <2>4. ~raced' => \A t \in Session : ~Holds(t)
    BY <1>1, <2>1 DEF LockInv
  <2> QED  BY <1>2, <2>2, <2>3, <2>4 DEF LockInv
<1> QED  BY <1>3, <1>4

\* Who makes the file is the only one inside; who unlinks its own leaves nobody there.
LEMMA EnterLock == ASSUME MaildirInv, NEW s \in Session, Enter(s) \/ Release(s) PROVE LockInv'
<1>1. TypeOK /\ LockInv
  BY DEF MaildirInv, ListInv
<1>2. UNCHANGED <<listVars, pc, deaths>> /\ List' = List
  BY DEF Enter, Release, histVars, listVars, List
<1>3. CASE Enter(s)
  <2>1. /\ lock = "free" /\ lock' = s /\ raced' = raced /\ gate' = [gate EXCEPT ![s] = "in"]
        /\ copy' = [copy EXCEPT ![s] = List]
    BY <1>3 DEF Enter, ToGate
  <2>2. lock' = s /\ copy'[s] = List' /\ gate'[s] = "in" /\ s \notin {"free", "left", "expired"}
    BY <1>1, <1>2, <2>1, MaildirAssumption DEF TypeOK
  <2>3. \A t \in Session \ {s} : Holds(t)' => Holds(t) /\ gate'[t] = gate[t]
    BY <1>1, <1>2, <2>1 DEF Holds, TypeOK
  <2>4. ~raced' => \A t \in Session \ {s} : ~Holds(t)'
    <3>1. ~raced => \A t \in Session : ~Holds(t)
      BY <1>1, <2>1, MaildirAssumption DEF LockInv
    <3> QED  BY <2>1, <2>3, <3>1
  <2>5. deaths' = 0 => ~raced' /\ lock' \notin {"left", "expired"} /\ \A t \in Session : gate'[t] # "stale"
    BY <1>1, <1>2, <2>1, <2>2 DEF LockInv, TypeOK
  <2> QED  BY <2>2, <2>4, <2>5 DEF LockInv
<1>4. CASE Release(s)
  <2>1. /\ gate[s] = "out" /\ gate' = [gate EXCEPT ![s] = "call"]
        /\ lock' = "free" /\ raced' = (raced \/ lock \in Session \ {s})
    BY <1>4 DEF Release, ToGate
  <2>2. Holds(s) /\ ~Holds(s)' /\ \A t \in Session : Holds(t)' => Holds(t)
    BY <1>1, <1>2, <2>1 DEF Holds, TypeOK
  <2>3. ~raced' => \A t \in Session \ {s} : ~Holds(t)
    BY <1>1, <2>1 DEF LockInv
  <2>4. deaths' = 0 => ~raced' /\ \A t \in Session : gate'[t] # "stale"
    <3>1. ASSUME deaths = 0 PROVE lock = s /\ ~raced /\ \A t \in Session : gate[t] # "stale"
      BY <1>1, <2>2, <3>1 DEF LockInv
    <3> QED  BY <1>1, <1>2, <2>1, <3>1 DEF TypeOK
  <2> QED  BY <2>1, <2>2, <2>3, <2>4 DEF LockInv
<1> QED  BY <1>3, <1>4

\* Who dies inside leaves nobody there, but its file.
LEMMA CrashLock == ASSUME MaildirInv, NEW s \in Session, Crash(s) PROVE LockInv'
<1>1. TypeOK /\ LockInv
  BY DEF MaildirInv, ListInv
<1>2. /\ UNCHANGED <<listVars, raced>> /\ List' = List /\ deaths' = deaths + 1
      /\ gate' = [gate EXCEPT ![s] = "call"] /\ copy' = [copy EXCEPT ![s] = EmptyList]
      /\ lock' = IF lock = s THEN "left" ELSE lock
      /\ pc' = [pc EXCEPT ![s] = "rest"]
  BY DEF Crash, ToGate, Finish, Goto, listVars, List
<1>3. deaths' # 0
  BY <1>1, <1>2, MaildirAssumption DEF TypeOK
<1>4. ~Holds(s)' /\ \A t \in Session \ {s} : Holds(t)' => Holds(t) /\ gate'[t] = gate[t] /\ copy'[t] = copy[t]
  BY <1>1, <1>2 DEF Holds, TypeOK
<1>5. ~raced' => \A t \in Session : (Holds(t)' => lock' = t) /\ (Holds(t)' /\ gate'[t] = "in" => copy'[t] = List')
  BY <1>1, <1>2, <1>4 DEF LockInv
<1> QED  BY <1>3, <1>5 DEF LockInv

\* No step lets two in, as long as no live holder has lost its lock file.
LEMMA LockStep == MaildirInv /\ [Next]_vars => LockInv'
<1> SUFFICES ASSUME MaildirInv, [Next]_vars PROVE LockInv'
  OBVIOUS
<1>1. TypeOK /\ LockInv
  BY DEF MaildirInv, ListInv
<1>2. CASE UNCHANGED vars \/ Deliver
  <2>1. UNCHANGED <<listVars, lock, gate, copy, raced, pc, deaths>>
    BY <1>2 DEF vars, Deliver, lockVars, histVars
  <2> QED  BY <1>1, <2>1 DEF LockInv, Holds, listVars, List
<1>3. CASE Expire
  <2>1. UNCHANGED <<listVars, gate, copy, raced, pc, deaths>> /\ lock = "left" /\ lock' = "expired"
    BY <1>3 DEF Expire, histVars
  <2> QED  BY <1>1, <2>1, MaildirAssumption DEF LockInv, Holds, listVars, List
<1>4. ASSUME NEW s \in Session,
             \/ Start(s) \/ Close(s) \/ Scan(s) \/ Add(s) \/ Take(s) \/ Delete(s) \/ Claim(s) \/ Lookup(s) \/ Look(s)
             \/ Fail(s) \/ Merge(s) \/ RecordKey(s) \/ Sweep(s) \/ Find(s) \/ Break(s) \/ Enter(s) \/ Release(s)
             \/ Crash(s)
      PROVE  LockInv'
  BY <1>4, UnlockedLock, WriteLock, BreakLock, EnterLock, CrashLock
<1> QED  BY <1>2, <1>3, <1>4 DEF Next

-----------------------------------------------------------------------------
(* The steps that record nothing. *)

\* Begin and end of a command, of a selection and of a session.
LEMMA SessionQuiet ==
    ASSUME MaildirInv, NEW s \in Session, Start(s) \/ Close(s) \/ Look(s) \/ Fail(s) \/ Crash(s)
    PROVE  QuietStep
<1>1. TypeOK /\ (~raced => AddedUnseen)
  BY DEF MaildirInv, ListInv, MarksInv
<1>2. UNCHANGED <<place, records, nextUid, twice, back, raced>>
  BY DEF Start, Close, Look, Fail, Crash, Reading, listVars, lockVars, histVars
<1>3. /\ \A t \in Session \ {s} : /\ pc'[t] = pc[t] /\ keys'[t] = keys[t] /\ key'[t] = key[t]
                                  /\ home'[t] = home[t] /\ recent'[t] = recent[t]
      /\ recent'[s] \subseteq recent[s] /\ keys'[s] \subseteq keys[s] /\ key'[s] \in {key[s], NoKey}
      /\ pc'[s] \in {"scan", "rest"}
  BY <1>1 DEF Start, Close, Look, Fail, Crash, Unlocked, Reading, Finish, Goto, viewVars, handVars, TypeOK
<1>4. lock' \in Session \cup {"free", "left", "expired"} /\ DOMAIN copy' = Session
      /\ \A t \in Session : copy'[t] \in {copy[t], EmptyList}
  BY <1>1 DEF Start, Close, Look, Fail, Crash, Reading, lockVars, TypeOK
<1>5. gate' \in [Session -> {"call", "stale", "wait", "in", "out"}]
  BY <1>1 DEF Start, Close, Look, Fail, Crash, Reading, ToGate, lockVars, TypeOK
<1>6. deaths' \in 0..MaxDeaths
  <2>1. deaths' = deaths \/ (deaths < MaxDeaths /\ deaths' = deaths + 1)
    BY DEF Start, Close, Look, Fail, Crash, histVars
  <2> QED  BY <1>1, <2>1, MaildirAssumption DEF TypeOK
<1>7. /\ pc' \in [Session -> Access] /\ keys' \in [Session -> SUBSET Key] /\ key' \in [Session -> Key \cup {NoKey}]
      /\ home' \in [Session -> {"in", "out"}] /\ recent' \in [Session -> SUBSET Nat] /\ DOMAIN view' = Session
  BY <1>1 DEF TypeOK, Start, Close, Look, Fail, Crash, Finish, Goto, Access, viewVars, handVars
<1>8. \A t \in Session : pc'[t] \in {"record", "take", "remove"} => key'[t] \in Key
  BY <1>1, <1>3 DEF TypeOK
<1>9. ListOK(List)' /\ (\A t \in Session : ListOK(copy[t]))'
  <2>1. List' = List /\ \A t \in Session : ListOK(copy'[t])
    BY <1>1, <1>2, <1>4, EmptyListOK DEF List, TypeOK
  <2> QED  BY <1>1, <2>1 DEF ListOK, TypeOK
<1>10. TypeOK'
  <2>1. place' = place /\ place \in [Key -> Where] /\ raced' \in BOOLEAN
    BY <1>1, <1>2 DEF TypeOK
  <2> QED  BY <1>4, <1>5, <1>6, <1>7, <1>8, <1>9, <2>1 DEF TypeOK
<1>11. ASSUME NEW t \in Session
       PROVE  /\ recent'[t] \subseteq recent[t]
              /\ keys'[t] \subseteq keys[t] \cup Files /\ key'[t] \in {key[t], NoKey} \cup Recorded
              /\ ~raced /\ pc'[t] = "bring" => home'[t] = "out"
              /\ pc'[t] = "record" => pc[t] = "record" /\ home'[t] = home[t] /\ key'[t] = key[t]
  BY <1>1, <1>3 DEF AddedUnseen
<1>12. QuietStep
  BY <1>2, <1>4, <1>10, <1>11 DEF QuietStep, List
<1> QED  BY <1>12

\* What the lock is taken and given back with changes nothing else.
LEMMA LockQuiet ==
    ASSUME MaildirInv, Expire \/ \E s \in Session : Find(s) \/ Break(s) \/ Enter(s) \/ Release(s)
    PROVE  QuietStep
<1>1. TypeOK /\ (~raced => AddedUnseen)
  BY DEF MaildirInv, ListInv, MarksInv
<1>2. /\ UNCHANGED <<place, records, nextUid, home, view, recent, pc, keys, key, twice, back, deaths>>
      /\ (raced => raced') /\ raced' \in BOOLEAN
  BY <1>1 DEF Expire, Find, Break, Enter, Release, listVars, viewVars, handVars, histVars, TypeOK
<1>3. /\ lock' \in Session \cup {"free", "left", "expired"}
      /\ gate' \in [Session -> {"call", "stale", "wait", "in", "out"}]
      /\ DOMAIN copy' = Session /\ \A t \in Session : copy'[t] \in {copy[t], List}
  <2>1. CASE Expire
    BY <1>1, <2>1 DEF Expire, TypeOK
  <2>2. ASSUME NEW s \in Session, Find(s) \/ Break(s) \/ Enter(s) \/ Release(s)
        PROVE  /\ lock' \in Session \cup {"free", "left", "expired"}
               /\ gate' \in [Session -> {"call", "stale", "wait", "in", "out"}]
               /\ DOMAIN copy' = Session /\ \A t \in Session : copy'[t] \in {copy[t], List}
    BY <1>1, <2>2 DEF Find, Break, Enter, Release, ToGate, TypeOK
  <2> QED  BY <2>1, <2>2
<1>4. ListOK(List)' /\ (\A t \in Session : ListOK(copy[t]))'
  <2>1. List' = List /\ \A t \in Session : ListOK(copy'[t])
    BY <1>1, <1>2, <1>3 DEF List, TypeOK
  <2> QED  BY <1>1, <2>1 DEF ListOK, TypeOK
<1>5. TypeOK'
  BY <1>1, <1>2, <1>3, <1>4 DEF TypeOK
<1>6. ASSUME NEW t \in Session
      PROVE  /\ copy'[t] \in {copy[t], List, EmptyList} /\ recent'[t] \subseteq recent[t]
             /\ keys'[t] \subseteq keys[t] \cup Files /\ key'[t] \in {key[t], NoKey} \cup Recorded
             /\ ~raced /\ pc'[t] = "bring" => home'[t] = "out"
             /\ pc'[t] = "record" => pc[t] = "record" /\ home'[t] = home[t] /\ key'[t] = key[t]
  BY <1>1, <1>2, <1>3 DEF AddedUnseen
<1>7. nextUid' = List.nextUid /\ records' = List.records
  BY <1>2 DEF List
<1> QED  BY <1>2, <1>5, <1>6, <1>7 DEF QuietStep

\* The scans of the directory, and the lookup of a record.
LEMMA ReadQuiet ==
    ASSUME MaildirInv, NEW s \in Session, Scan(s) \/ Lookup(s)
    PROVE  QuietStep
<1>1. TypeOK /\ (~raced => AddedUnseen)
  BY DEF MaildirInv, ListInv, MarksInv
<1>2. UNCHANGED <<place, records, nextUid, lock, copy, raced, twice, back, deaths, home, view, recent>>
  BY DEF Scan, Lookup, Reading, listVars, lockVars, viewVars, histVars
<1>3. Files \subseteq Key /\ \A u \in DOMAIN records : records[u] \in Key /\ records[u] \in Recorded
  BY <1>1 DEF TypeOK, ListOK, List, Files, Recorded, Range
<1>4. /\ \A t \in Session \ {s} : pc'[t] = pc[t] /\ keys'[t] = keys[t] /\ key'[t] = key[t]
      /\ keys'[s] \subseteq keys[s] \cup Files
      /\ \/ key'[s] = key[s] /\ pc'[s] \in {"merge", "sweep", "look", "rest"}
         \/ key'[s] = NoKey /\ pc'[s] \in {"look", "rest"}
         \/ key'[s] \in Key /\ key'[s] \in Recorded /\ pc'[s] \in OnRecord
      /\ gate' \in [Session -> {"call", "stale", "wait", "in", "out"}]
  <2>1. CASE Scan(s)
    BY <1>1, <2>1 DEF Scan, Unlocked, Goto, lockVars, TypeOK
  <2>2. CASE Lookup(s)
    BY <1>1, <1>3, <2>2 DEF Lookup, Reading, ToGate, Update, Finish, Goto, TypeOK
  <2> QED  BY <2>1, <2>2
<1>5. /\ pc' \in [Session -> Access]
      /\ keys' \in [Session -> SUBSET Key] /\ key' \in [Session -> Key \cup {NoKey}]
  <2>1. DOMAIN pc' = Session /\ DOMAIN keys' = Session /\ DOMAIN key' = Session
        /\ pc' = [t \in Session |-> pc'[t]] /\ keys' = [t \in Session |-> keys'[t]] /\ key' = [t \in Session |-> key'[t]]
    BY <1>1 DEF Scan, Lookup, Update, Finish, Goto, TypeOK
  <2>2. \A t \in Session : pc'[t] \in Access /\ keys'[t] \in SUBSET Key /\ key'[t] \in Key \cup {NoKey}
    BY <1>1, <1>3, <1>4 DEF TypeOK, Access, OnRecord, Reads, Writes
  <2> QED  BY <2>1, <2>2
<1>6. \A t \in Session : pc'[t] \in {"record", "take", "remove"} => key'[t] \in Key
  BY <1>1, <1>4 DEF TypeOK
<1>7. TypeOK'
  BY <1>1, <1>2, <1>4, <1>5, <1>6 DEF TypeOK, ListOK, List
<1>8. ASSUME NEW t \in Session
      PROVE  /\ recent'[t] \subseteq recent[t]
             /\ keys'[t] \subseteq keys[t] \cup Files /\ key'[t] \in {key[t], NoKey} \cup Recorded
             /\ ~raced /\ pc'[t] = "bring" => home'[t] = "out"
             /\ pc'[t] = "record" => pc[t] = "record" /\ home'[t] = home[t] /\ key'[t] = key[t]
  BY <1>1, <1>2, <1>4 DEF AddedUnseen, OnRecord
<1> QED  BY <1>2, <1>7, <1>8 DEF QuietStep, List

\* A file is moved away or removed, and its record left.
LEMMA TakeQuiet ==
    ASSUME MaildirInv, NEW s \in Session, Take(s) \/ Delete(s)
    PROVE  QuietStep
<1>1. TypeOK /\ (~raced => AddedUnseen)
  BY DEF MaildirInv, ListInv, MarksInv
<1>2. UNCHANGED <<records, nextUid, lock, gate, copy, raced, twice, back, deaths, home, view, recent>>
  BY DEF Take, Delete, listVars, lockVars, viewVars, histVars
<1>3. /\ \A t \in Session \ {s} : pc'[t] = pc[t] /\ keys'[t] = keys[t] /\ key'[t] = key[t]
      /\ keys'[s] = {} /\ key'[s] = NoKey /\ pc'[s] \in {"look", "rest"}
      /\ pc' \in [Session -> Access]
      /\ keys' \in [Session -> SUBSET Key] /\ key' \in [Session -> Key \cup {NoKey}]
  BY <1>1 DEF Take, Delete, Update, Finish, Goto, TypeOK, Access, Reads
<1>4. /\ \A k \in Key : place'[k] # place[k] =>
            /\ place'[k] \in {"away", "gone"} /\ place[k] \in Here
            /\ \E t \in Session : pc[t] \in {"take", "remove"} /\ key[t] = k
      /\ place' \in [Key -> Where]
  BY <1>1 DEF Take, Delete, Unlocked, TypeOK, Where, Here
<1>5. TypeOK'
  BY <1>1, <1>2, <1>3, <1>4 DEF TypeOK, ListOK, List
<1>6. ASSUME NEW t \in Session
      PROVE  /\ recent'[t] \subseteq recent[t]
             /\ keys'[t] \subseteq keys[t] \cup Files /\ key'[t] \in {key[t], NoKey} \cup Recorded
             /\ ~raced /\ pc'[t] = "bring" => home'[t] = "out"
             /\ pc'[t] = "record" => pc[t] = "record" /\ home'[t] = home[t] /\ key'[t] = key[t]
  BY <1>1, <1>2, <1>3 DEF AddedUnseen
<1> QED  BY <1>2, <1>4, <1>5, <1>6 DEF QuietStep, List

\* The list is written without the records of files that are gone.
LEMMA SweepQuiet == ASSUME MaildirInv, NEW s \in Session, Sweep(s) PROVE QuietStep
<1>1. TypeOK /\ (~raced => AddedUnseen)
  BY DEF MaildirInv, ListInv, MarksInv
<1>2. /\ UNCHANGED <<place, lock, raced, twice, back, deaths, home, view, recent, key>>
      /\ gate[s] = "in" /\ pc[s] = "sweep" /\ gate' = [gate EXCEPT ![s] = "out"]
      /\ copy' = [copy EXCEPT ![s] = EmptyList]
      /\ pc' = [pc EXCEPT ![s] = "look"] /\ keys' = [keys EXCEPT ![s] = {}]
  BY DEF Sweep, Writing, ToGate, Goto, viewVars, histVars
<1>3. PICK list \in {List} \cup {copy[t] : t \in Session} :
          /\ nextUid' = list.nextUid /\ DOMAIN records' \subseteq DOMAIN list.records
          /\ \A u \in DOMAIN records' : records'[u] = list.records[u]
          /\ ~raced' => list = List
  <2>1. CASE UNCHANGED listVars
    <3>1. nextUid' = List.nextUid /\ records' = List.records
      BY <2>1 DEF listVars, List
    <3> QED  BY <3>1
  <2>2. CASE records' = RestrictValues(copy[s].records, LAMBDA k : k \in keys[s]) /\ nextUid' = copy[s].nextUid
    <3>1. ~raced' => copy[s] = List
      BY <1>2, CopyFresh DEF Writes
    <3>2. DOMAIN records' \subseteq DOMAIN copy[s].records /\ \A u \in DOMAIN records' : records'[u] = copy[s].records[u]
      BY <2>2 DEF RestrictValues, Restrict
    <3> QED  BY <2>2, <3>1, <3>2
  <2> QED  BY <2>1, <2>2 DEF Sweep
<1>4. ListOK(list)
  BY <1>1 DEF TypeOK
<1>5. records' \in [DOMAIN records' -> Key]
  <2>1. \A u \in DOMAIN records' : records'[u] \in Key
    BY <1>3, <1>4 DEF ListOK
  <2>2. records' = [u \in DOMAIN records' |-> records'[u]]
    <3>1. CASE UNCHANGED listVars
      BY <1>1, <3>1 DEF listVars, TypeOK, ListOK, List
    <3>2. CASE records' = RestrictValues(copy[s].records, LAMBDA k : k \in keys[s])
      BY <3>2 DEF RestrictValues, Restrict
    <3> QED  BY <3>1, <3>2 DEF Sweep
  <2> QED  BY <2>1, <2>2
<1>6. ListOK(List)'
  BY <1>3, <1>4, <1>5 DEF ListOK, List
<1>7. \A t \in Session : copy'[t] \in {copy[t], EmptyList} /\ ListOK(copy'[t])
  BY <1>1, <1>2, EmptyListOK DEF TypeOK
<1>8. TypeOK'
  <2>1. (\A t \in Session : ListOK(copy[t]))'
    BY <1>7 DEF ListOK
  <2>2. /\ pc' \in [Session -> Access] /\ keys' \in [Session -> SUBSET Key] /\ DOMAIN copy' = Session
        /\ gate' \in [Session -> {"call", "stale", "wait", "in", "out"}]
        /\ \A t \in Session : pc'[t] \in {"record", "take", "remove"} => pc[t] = pc'[t]
    BY <1>1, <1>2 DEF TypeOK, Access, Reads
  <2> QED  BY <1>1, <1>2, <1>6, <2>1, <2>2 DEF TypeOK
<1>9. ASSUME NEW t \in Session
      PROVE  /\ recent'[t] \subseteq recent[t]
             /\ keys'[t] \subseteq keys[t] \cup Files /\ key'[t] \in {key[t], NoKey} \cup Recorded
             /\ ~raced /\ pc'[t] = "bring" => home'[t] = "out"
             /\ pc'[t] = "record" => pc[t] = "record" /\ home'[t] = home[t] /\ key'[t] = key[t]
  BY <1>1, <1>2 DEF AddedUnseen, TypeOK
<1> QED  BY <1>2, <1>3, <1>7, <1>8, <1>9 DEF QuietStep

-----------------------------------------------------------------------------
(* The steps that record, claim or add files. *)

\* A session writes its list back with records of files that it has scanned or added.
\* One that had a record before, or is in the hands of another, is in twice.
LEMMA RecordsKeep ==
    ASSUME MaildirInv, TypeOK', NEW s \in Session, NEW files \in SUBSET Key, WithRecords(copy[s], files),
           gate[s] = "in", pc[s] \in Writes, copy' = [copy EXCEPT ![s] = EmptyList],
           UNCHANGED <<place, home, back, raced>>, twice \subseteq twice',
           files \cap Range(copy[s].records) \subseteq twice',
           \A k \in files : place[k] # "unused",
           \A t \in Session \ {s} :
               ~raced /\ pc[t] = "record" /\ home[t] = "in" => key[t] \notin files \/ key[t] \in twice',
           \A t \in Session \ {s} : /\ pc'[t] = pc[t] /\ key'[t] = key[t]
                                    /\ keys'[t] = keys[t] /\ recent'[t] = recent[t],
           keys'[s] \subseteq keys[s], key'[s] \in {key[s], NoKey},
           pc'[s] # "record", pc'[s] = "bring" => home'[s] = "out",
           \/ recent'[s] = recent[s]
           \/ /\ recent'[s] = recent[s] \cup {copy[s].nextUid} /\ files # {}
              /\ ~raced => \A k \in files : k \in twice' \/ place[k] # "new"
    PROVE  ListInv' /\ MarksInv'
<1> DEFINE list == copy[s]
<1>1. TypeOK /\ OneUidPerFile /\ (\A t \in Session : EachOnce(copy[t])) /\ UnusedUnknown /\ ListOK(list)
  BY DEF MaildirInv, ListInv, TypeOK
<1>2. /\ nextUid' \in Nat \ {0} /\ list.nextUid <= nextUid' /\ list.nextUid \in Nat
      /\ nextUid' = list.nextUid + Cardinality(files)
      /\ DOMAIN records' = DOMAIN list.records \cup list.nextUid..(nextUid' - 1)
      /\ \A u \in DOMAIN list.records : u < list.nextUid /\ records'[u] = list.records[u]
      /\ \A u \in list.nextUid..(nextUid' - 1) : records'[u] \in files
      /\ \A u, v \in list.nextUid..(nextUid' - 1) : records'[u] = records'[v] => u = v
      /\ Recorded' \subseteq Range(list.records) \cup files
  BY <1>1, RecordsAdded DEF ListOK
<1>3. copy'[s] = EmptyList /\ \A t \in Session \ {s} : copy'[t] = copy[t]
  BY <1>1 DEF TypeOK
<1>4. files \cap Range(list.records) \subseteq twice' /\ EachOnce(list)
  BY <1>1
<1>5. ~raced => list = List /\ nextUid = list.nextUid /\ records = list.records
  BY CopyFresh DEF List
<1>6. \A t \in Session : \A u \in recent'[t] : u \in recent[t] \/ (t = s /\ u = list.nextUid /\ list.nextUid < nextUid')
  <2>1. files # {} => list.nextUid < nextUid'
    <3>1. IsFiniteSet(files)
      BY MaildirAssumption, FS_Subset
    <3>2. Cardinality(files) \in Nat /\ (files # {} => Cardinality(files) # 0)
      BY <3>1, FS_CardinalityType, FS_EmptySet
    <3> QED  BY <1>2, <3>2
  <2> QED  BY <2>1
<1>7. /\ ~raced => \A t \in Session \ {s} :
               pc[t] = "record" /\ home[t] = "in" => key[t] \notin files \/ key[t] \in twice'
      /\ \/ recent'[s] = recent[s]
         \/ recent'[s] = recent[s] \cup {list.nextUid} /\ (~raced => \A k \in files : k \in twice' \/ place[k] # "new")
  OBVIOUS
<1> HIDE DEF list
<1>8. OneUidPerFile'
  <2> SUFFICES ASSUME NEW u \in DOMAIN records', NEW v \in DOMAIN records', records'[u] = records'[v],
                      records'[u] \notin twice'
               PROVE  u = v
    BY DEF OneUidPerFile, EachOnce, List
  <2>1. \A w \in DOMAIN list.records : list.records[w] \in Range(list.records)
    BY DEF Range
  <2>2. CASE u \in DOMAIN list.records /\ v \in DOMAIN list.records
    BY <1>2, <1>4, <2>2 DEF EachOnce
  <2>3. CASE u \notin DOMAIN list.records /\ v \notin DOMAIN list.records
    BY <1>2, <2>3
  <2>4. CASE u \in DOMAIN list.records /\ v \notin DOMAIN list.records
    BY <1>2, <1>4, <2>1, <2>4
  <2>5. CASE u \notin DOMAIN list.records /\ v \in DOMAIN list.records
    BY <1>2, <1>4, <2>1, <2>5
  <2> QED  BY <2>2, <2>3, <2>4, <2>5
<1>9. (\A t \in Session : EachOnce(copy[t]))'
  BY <1>1, <1>3, EmptyListOK DEF EachOnce
<1>10. UnusedUnknown'
  <2> SUFFICES ASSUME NEW k \in Key, place[k] = "unused"
               PROVE  /\ k \notin Recorded'
                      /\ \A t \in Session : k \notin keys'[t] /\ k # key'[t] /\ k \notin Range(copy'[t].records)
    BY DEF UnusedUnknown
  <2>1. /\ k \notin files /\ k \notin Range(list.records) /\ k # NoKey
        /\ \A t \in Session : k \notin keys[t] /\ k # key[t] /\ k \notin Range(copy[t].records)
    BY <1>1, MaildirAssumption DEF UnusedUnknown, list
  <2> QED  BY <1>2, <1>3, <2>1, EmptyListOK
<1>11. MarksInv'
  <2> SUFFICES ASSUME ~raced PROVE (RecentOnce /\ AddedUnseen /\ RecentClaimed)'
    BY DEF MarksInv, RecentOnce
  <2>1. RecentOnce /\ AddedUnseen /\ RecentClaimed
    BY DEF MaildirInv, MarksInv
  <2>2. list = List /\ nextUid = list.nextUid /\ records = list.records /\ Recorded = Range(list.records)
    BY <1>5 DEF Recorded
  <2>3. \A t \in Session : \A u \in recent[t] : u \in Nat /\ u < nextUid /\ u \notin nextUid..(nextUid' - 1)
    BY <1>1, <1>2, <2>1, <2>2 DEF TypeOK, RecentClaimed
  <2>4. RecentOnce'
    <3> SUFFICES ASSUME NEW q \in Session, NEW t \in Session, q # t,
                        NEW u \in recent'[q] \cap recent'[t] \cap DOMAIN records'
                 PROVE  records'[u] \in twice' \cup back'
      BY DEF RecentOnce
    <3>1. u \in recent[q] \cap recent[t]
      BY <1>2, <1>6, <2>2, <2>3
    <3>2. u \in DOMAIN records
      BY <1>2, <2>2, <2>3, <3>1
    <3> QED  BY <1>2, <2>1, <2>2, <3>1, <3>2 DEF RecentOnce
  <2>5. RecentClaimed'
    <3> SUFFICES ASSUME NEW q \in Session, NEW u \in recent'[q]
                 PROVE  /\ u < nextUid'
                        /\ u \in DOMAIN records' /\ records'[u] \notin twice' \cup back' => place[records'[u]] # "new"
      BY DEF RecentClaimed
    <3>1. CASE u \in recent[q]
      <4>1. u < nextUid /\ u \in Nat /\ (u \in DOMAIN records' => u \in DOMAIN records)
        BY <1>2, <2>2, <2>3, <3>1
      <4>2. u < nextUid'
        BY <1>2, <2>2, <4>1
      <4>3. u \in DOMAIN records /\ records[u] \notin twice \cup back => place[records[u]] # "new"
        BY <2>1, <3>1 DEF RecentClaimed
      <4> QED  BY <1>2, <2>2, <4>1, <4>2, <4>3
    <3>2. CASE u \notin recent[q]
      <4>1. q = s /\ u = list.nextUid /\ u < nextUid' /\ u \in list.nextUid..(nextUid' - 1)
        BY <1>2, <1>6, <3>2
      <4>2. \A k \in files : k \in twice' \/ place[k] # "new"
        BY <1>7, <3>2, <4>1
      <4>3. records'[u] \in files
        BY <1>2, <4>1
      <4> QED  BY <4>1, <4>2, <4>3
    <3> QED  BY <3>1, <3>2
  <2>6. AddedUnseen'
    <3> SUFFICES ASSUME NEW t \in Session
                 PROVE  /\ pc'[t] = "bring" => home'[t] = "out"
                        /\ pc'[t] = "record" /\ home'[t] = "in" /\ key'[t] \notin twice' =>
                              /\ place'[key'[t]] = "cur" /\ key'[t] \notin Recorded'
                              /\ \A q \in Session \ {t} : key'[q] # key'[t]
      BY DEF AddedUnseen
    <3>1. CASE t = s
      BY <3>1
    <3>2. CASE t # s
      <4>1. pc'[t] = pc[t] /\ key'[t] = key[t] /\ home'[t] = home[t]
        BY <3>2
      <4>2. pc[t] = "record" => key[t] # NoKey
        BY <1>1, MaildirAssumption DEF TypeOK
      <4>3. /\ pc[t] = "bring" => home[t] = "out"
            /\ pc[t] = "record" /\ home[t] = "in" /\ key[t] \notin twice =>
                  /\ place[key[t]] = "cur" /\ key[t] \notin Recorded
                  /\ \A q \in Session \ {t} : key[q] # key[t]
        BY <2>1 DEF AddedUnseen
      <4>4. pc[t] = "record" /\ home[t] = "in" /\ key[t] \notin twice' => key[t] \notin files
        BY <1>7, <3>2
      <4> QED  BY <1>2, <2>2, <3>2, <4>1, <4>2, <4>3, <4>4
    <3> QED  BY <3>1, <3>2
  <2> QED  BY <2>4, <2>5, <2>6
<1> QED  BY <1>8, <1>9, <1>10, <1>11 DEF ListInv

\* reset() records what its scan has found; nothing of it is recorded yet.
LEMMA MergeKeeps == ASSUME MaildirInv, NEW s \in Session, Merge(s) PROVE ListInv' /\ MarksInv'
<1> DEFINE found == Wanted(s, copy[s])
<1>1. TypeOK /\ UnusedUnknown /\ (~raced => AddedUnseen)
  BY DEF MaildirInv, ListInv, MarksInv
<1>2. /\ UNCHANGED <<place, home, view, recent, key, back, deaths, lock, raced>>
      /\ pc[s] = "merge" /\ gate[s] = "in" /\ pc[s] \in Writes
      /\ gate' = [gate EXCEPT ![s] = "out"] /\ copy' = [copy EXCEPT ![s] = EmptyList]
      /\ twice' = twice \cup (found \cap InHand) /\ keys' = [keys EXCEPT ![s] = {}]
  BY DEF Merge, Writing, ToGate, viewVars, Writes
<1>3. found = keys[s] \ Range(copy[s].records) /\ found \in SUBSET Key
  BY <1>1, <1>2 DEF Wanted, TypeOK
<1>4. PICK c \in Command(s) : pc' = [pc EXCEPT ![s] = c]
  BY DEF Merge, Goto
<1>5. c \in Access /\ c \notin {"record", "take", "remove"} /\ (c = "bring" => home[s] = "out")
  BY DEF Command, Access, Reads, OnRecord
<1>6. \A k \in found : place[k] # "unused"
  BY <1>1, <1>3 DEF UnusedUnknown
<1>7. \A t \in Session \ {s} : pc[t] = "record" => key[t] \notin found \/ key[t] \in twice'
  BY <1>2 DEF InHand
<1>8. /\ \A t \in Session \ {s} : pc'[t] = pc[t] /\ key'[t] = key[t] /\ keys'[t] = keys[t] /\ recent'[t] = recent[t]
      /\ keys'[s] \subseteq keys[s] /\ key'[s] = key[s] /\ recent'[s] = recent[s]
      /\ pc'[s] # "record" /\ (pc'[s] = "bring" => home'[s] = "out")
  BY <1>1, <1>2, <1>4, <1>5 DEF TypeOK
<1>9. \/ found = {} /\ UNCHANGED listVars
      \/ found # {} /\ WithRecords(copy[s], found)
  BY DEF Merge
<1> HIDE DEF found
<1>10. ListOK(List)'
  <2>1. CASE UNCHANGED listVars
    BY <1>1, <2>1 DEF TypeOK, ListOK, List, listVars
  <2>2. CASE WithRecords(copy[s], found)
    <3>1. /\ nextUid' \in Nat \ {0} /\ DOMAIN records' \subseteq 1..(nextUid' - 1)
          /\ records' \in [DOMAIN records' -> Key]
      BY <1>1, <1>3, <2>2, RecordsAdded DEF TypeOK
    <3> QED  BY <3>1 DEF ListOK, List
  <2> QED  BY <1>9, <2>1, <2>2
<1>11. TypeOK'
  <2>1. \A t \in Session : ListOK(copy'[t])
    BY <1>1, <1>2, EmptyListOK DEF TypeOK
  <2>2. (\A t \in Session : ListOK(copy[t]))'
    BY <2>1 DEF ListOK
  <2>3. /\ pc' \in [Session -> Access] /\ keys' \in [Session -> SUBSET Key] /\ DOMAIN copy' = Session
        /\ gate' \in [Session -> {"call", "stale", "wait", "in", "out"}]
        /\ \A t \in Session : pc'[t] \in {"record", "take", "remove"} => pc[t] = pc'[t]
    BY <1>1, <1>2, <1>4, <1>5 DEF TypeOK
  <2> QED  BY <1>1, <1>2, <1>10, <2>2, <2>3 DEF TypeOK
<1>12. CASE found = {} /\ UNCHANGED listVars
  <2>1. nextUid' = List.nextUid /\ records' = List.records /\ twice' = twice
    BY <1>2, <1>12 DEF listVars, List
  <2>2. \A t \in Session : copy'[t] \in {copy[t], List, EmptyList}
    BY <1>1, <1>2 DEF TypeOK
  <2>3. ASSUME NEW t \in Session
        PROVE  /\ recent'[t] \subseteq recent[t]
               /\ keys'[t] \subseteq keys[t] \cup Files /\ key'[t] \in {key[t], NoKey} \cup Recorded
               /\ ~raced /\ pc'[t] = "bring" => home'[t] = "out"
               /\ pc'[t] = "record" => pc[t] = "record" /\ home'[t] = home[t] /\ key'[t] = key[t]
    BY <1>1, <1>2, <1>8 DEF AddedUnseen
  <2>4. QuietStep
    BY <1>2, <1>11, <2>1, <2>2, <2>3 DEF QuietStep
  <2> QED  BY <2>4, QuietKeeps
<1>13. CASE WithRecords(copy[s], found)
  <2>1. twice \subseteq twice' /\ found \cap Range(copy[s].records) \subseteq twice'
    BY <1>2, <1>3
  <2> QED  BY <1>2, <1>3, <1>6, <1>7, <1>8, <1>11, <1>13, <2>1, RecordsKeep
<1> QED  BY <1>9, <1>12, <1>13

\* A session records the file that it has added.
LEMMA RecordKeyKeeps == ASSUME MaildirInv, NEW s \in Session, RecordKey(s) PROVE ListInv' /\ MarksInv'
<1> DEFINE files == {key[s]}
<1>1. TypeOK /\ UnusedUnknown /\ ListOK(copy[s]) /\ (~raced => AddedUnseen)
  BY DEF MaildirInv, ListInv, MarksInv, TypeOK
<1>2. /\ pc[s] = "record" /\ gate[s] = "in" /\ key[s] \in Key /\ files \in SUBSET Key
      /\ WithRecords(copy[s], files) /\ pc[s] \in Writes
  BY <1>1 DEF RecordKey, Writing, Wanted, TypeOK, Writes
<1>3. /\ nextUid' \in Nat \ {0} /\ DOMAIN records' \subseteq 1..(nextUid' - 1)
      /\ records' \in [DOMAIN records' -> Key] /\ copy[s].nextUid \in Nat
  BY <1>1, <1>2, RecordsAdded DEF ListOK
<1>4. /\ UNCHANGED <<place, home, view, back, deaths, lock, raced>>
      /\ gate' = [gate EXCEPT ![s] = "out"] /\ copy' = [copy EXCEPT ![s] = EmptyList]
      /\ twice' = IF key[s] \in Range(copy[s].records) THEN twice \cup {key[s]} ELSE twice
      /\ recent' = IF home[s] = "in" THEN [recent EXCEPT ![s] = @ \cup {copy[s].nextUid}] ELSE recent
      /\ keys' = [keys EXCEPT ![s] = {}] /\ key' = [key EXCEPT ![s] = NoKey]
  BY DEF RecordKey, Writing, ToGate, Update, Finish
<1>5. PICK c \in {"look", "rest"} : pc' = [pc EXCEPT ![s] = c]
  BY DEF RecordKey, Update, Finish, Goto
<1>6. ~raced => Recorded = Range(copy[s].records)
  BY <1>2, CopyFresh DEF Recorded, List
<1>7. TypeOK'
  <2>1. \A t \in Session : ListOK(copy'[t])
    BY <1>1, <1>4, EmptyListOK DEF TypeOK
  <2>2. (\A t \in Session : ListOK(copy[t]))' /\ ListOK(List)'
    BY <1>3, <2>1 DEF ListOK, List
  <2>3. recent' \in [Session -> SUBSET Nat]
    BY <1>1, <1>3, <1>4 DEF TypeOK
  <2>4. \A t \in Session : pc'[t] \in {"record", "take", "remove"} => key'[t] \in Key
    BY <1>1, <1>4, <1>5 DEF TypeOK
  <2>5. /\ pc' \in [Session -> Access] /\ DOMAIN copy' = Session
        /\ gate' \in [Session -> {"call", "stale", "wait", "in", "out"}]
        /\ keys' \in [Session -> SUBSET Key] /\ key' \in [Session -> Key \cup {NoKey}]
    BY <1>1, <1>4, <1>5 DEF TypeOK, Access, Reads
  <2> QED  BY <1>1, <1>4, <2>2, <2>3, <2>4, <2>5 DEF TypeOK
<1>8. \A k \in files : place[k] # "unused"
  BY <1>1, <1>2 DEF UnusedUnknown
<1>9. twice \subseteq twice' /\ files \cap Range(copy[s].records) \subseteq twice'
  BY <1>4
<1>10. \A t \in Session \ {s} :
           ~raced /\ pc[t] = "record" /\ home[t] = "in" => key[t] \notin files \/ key[t] \in twice'
  BY <1>1, <1>9 DEF AddedUnseen
<1>11. /\ \A t \in Session \ {s} : pc'[t] = pc[t] /\ key'[t] = key[t] /\ keys'[t] = keys[t] /\ recent'[t] = recent[t]
       /\ keys'[s] \subseteq keys[s] /\ key'[s] = NoKey /\ pc'[s] # "record" /\ pc'[s] # "bring"
  BY <1>1, <1>4, <1>5 DEF TypeOK
<1>12. \/ recent'[s] = recent[s]
       \/ /\ recent'[s] = recent[s] \cup {copy[s].nextUid} /\ files # {}
          /\ ~raced => \A k \in files : k \in twice' \/ place[k] # "new"
  <2>1. CASE home[s] = "out"
    BY <1>4, <2>1
  <2>2. CASE home[s] = "in"
    <3>1. recent'[s] = recent[s] \cup {copy[s].nextUid}
      BY <1>1, <1>4, <2>2 DEF TypeOK
    <3>2. ~raced => key[s] \in twice' \/ place[key[s]] # "new"
      BY <1>1, <1>2, <1>9, <2>2 DEF AddedUnseen
    <3> QED  BY <3>1, <3>2
  <2> QED  BY <1>1, <2>1, <2>2 DEF TypeOK
<1> HIDE DEF files
<1> QED  BY <1>2, <1>4, <1>7, <1>8, <1>9, <1>10, <1>11, <1>12, RecordsKeep

\* claim_recent marks files that it has found in new/, where no session finds
\* what is \Recent in it, and moves them on.
LEMMA ClaimKeeps == ASSUME MaildirInv, NEW s \in Session, Claim(s) PROVE ListInv' /\ MarksInv'
<1>1. TypeOK /\ OneUidPerFile /\ (\A t \in Session : EachOnce(copy[t])) /\ UnusedUnknown
  BY DEF MaildirInv, ListInv
<1>2. PICK listing \in SetToSeqs(New) :
          /\ place' = [k \in Key |-> IF k \in Claimed(listing).passed THEN "cur" ELSE place[k]]
          /\ recent' = [recent EXCEPT ![s] = Claimed(listing).found]
  BY DEF Claim
<1> DEFINE found == Claimed(listing).found
           passed == Claimed(listing).passed
<1>3. /\ found \subseteq DOMAIN records /\ passed \subseteq New
      /\ \A u \in found : records[u] \in New /\ records[u] \in passed
  BY <1>1, ClaimedMoves
<1> HIDE DEF found, passed
<1>4. /\ place' = [k \in Key |-> IF k \in passed THEN "cur" ELSE place[k]]
      /\ recent' = [recent EXCEPT ![s] = found]
  BY <1>2 DEF found, passed
<1>5. /\ UNCHANGED <<records, nextUid, lock, copy, raced, home, view, keys, key, twice, back, deaths>>
      /\ pc[s] = "claim" /\ pc' = [pc EXCEPT ![s] = "look"] /\ gate' = [gate EXCEPT ![s] = "call"]
  BY DEF Claim, Reading, ToGate, Goto, listVars, handVars, histVars
<1>6. \A k \in Key : /\ place'[k] = place[k] \/ (place[k] = "new" /\ place'[k] = "cur")
                     /\ k \in passed => place'[k] = "cur"
  BY <1>1, <1>3, <1>4 DEF TypeOK, New
<1>7. Recorded' = Recorded /\ (\A u \in DOMAIN records : records[u] \in Key /\ u \in Nat /\ u < nextUid) /\ List' = List
  BY <1>1, <1>5 DEF Recorded, TypeOK, ListOK, List
<1>8. TypeOK'
  <2>1. place' \in [Key -> Where]
    BY <1>1, <1>4 DEF TypeOK, Where, Here
  <2>2. recent' \in [Session -> SUBSET Nat]
    BY <1>1, <1>3, <1>4, <1>7 DEF TypeOK
  <2>3. /\ pc' \in [Session -> Access] /\ gate' \in [Session -> {"call", "stale", "wait", "in", "out"}]
        /\ \A t \in Session : pc'[t] \in {"record", "take", "remove"} => pc[t] = pc'[t]
    BY <1>1, <1>5 DEF TypeOK, Access, Reads
  <2> QED  BY <1>1, <1>5, <2>1, <2>2, <2>3 DEF TypeOK, ListOK, List
<1>9. OneUidPerFile' /\ (\A t \in Session : EachOnce(copy[t]))'
  BY <1>1, <1>5 DEF OneUidPerFile, EachOnce, List
<1>10. UnusedUnknown'
  BY <1>1, <1>5, <1>6, <1>7 DEF UnusedUnknown
<1>11. MarksInv'
  <2> SUFFICES ASSUME ~raced PROVE (RecentOnce /\ AddedUnseen /\ RecentClaimed)'
    BY <1>5 DEF MarksInv, RecentOnce
  <2>1. RecentOnce /\ AddedUnseen /\ RecentClaimed
    BY DEF MaildirInv, MarksInv
  <2>2. recent'[s] = found /\ \A q \in Session \ {s} : recent'[q] = recent[q]
    BY <1>1, <1>4 DEF TypeOK
  <2>3. AddedUnseen'
    <3>1. \A t \in Session : pc'[t] \in {"bring", "record"} => pc'[t] = pc[t]
      BY <1>1, <1>5 DEF TypeOK
    <3>2. \A t \in Session : pc[t] = "record" => key[t] \in Key
      BY <1>1 DEF TypeOK
    <3> QED  BY <1>5, <1>6, <1>7, <2>1, <3>1, <3>2 DEF AddedUnseen
  <2>4. RecentClaimed'
    <3> SUFFICES ASSUME NEW q \in Session, NEW u \in recent'[q]
                 PROVE  u < nextUid /\ (u \in DOMAIN records /\ records[u] \notin twice \cup back => place'[records[u]] # "new")
      BY <1>5 DEF RecentClaimed
    <3>1. CASE q = s
      <4>1. u \in found
        BY <2>2, <3>1
      <4> QED  BY <1>3, <1>6, <1>7, <4>1
    <3>2. CASE q # s
      <4>1. u \in recent[q]
        BY <2>2, <3>2
      <4>2. u < nextUid /\ (u \in DOMAIN records /\ records[u] \notin twice \cup back => place[records[u]] # "new")
        BY <2>1, <4>1 DEF RecentClaimed
      <4> QED  BY <1>6, <1>7, <4>2
    <3> QED  BY <3>1, <3>2
  <2>5. RecentOnce'
    <3>1. ASSUME NEW q \in Session \ {s}, NEW u \in recent[q] \cap found
          PROVE  records[u] \in twice \cup back
      BY <1>3, <2>1 DEF RecentClaimed, New
    <3> SUFFICES ASSUME NEW q \in Session, NEW t \in Session, q # t,
                        NEW u \in recent'[q] \cap recent'[t] \cap DOMAIN records'
                 PROVE  records[u] \in twice \cup back
      BY <1>5 DEF RecentOnce
    <3>2. CASE q # s /\ t # s
      BY <1>5, <2>1, <2>2, <3>2 DEF RecentOnce
    <3>3. CASE q = s \/ t = s
      BY <2>2, <3>1, <3>3
    <3> QED  BY <3>2, <3>3
  <2> QED  BY <2>3, <2>4, <2>5
<1> QED  BY <1>8, <1>9, <1>10, <1>11 DEF ListInv

\* A session adds a file of which no other has heard, or, with no mailbox
\* selected, brings one back.
LEMMA AddKeeps == ASSUME MaildirInv, NEW s \in Session, Add(s) PROVE ListInv' /\ MarksInv'
<1>1. TypeOK /\ OneUidPerFile /\ (\A t \in Session : EachOnce(copy[t])) /\ UnusedUnknown
  BY DEF MaildirInv, ListInv
<1>2. PICK k \in Key : /\ place[k] = (IF pc[s] = "add" THEN "unused" ELSE "away")
                       /\ place' = [place EXCEPT ![k] = Subdir(s)]
                       /\ key' = [key EXCEPT ![s] = k]
                       /\ back' = IF k \in Recorded THEN back \cup {k} ELSE back
  BY DEF Add
<1>3. /\ UNCHANGED <<records, nextUid, lock, gate, copy, raced, home, view, recent, keys, twice, deaths>>
      /\ pc[s] \in {"add", "bring"} /\ pc' = [pc EXCEPT ![s] = "record"]
  BY DEF Add, Unlocked, Goto, listVars, lockVars, viewVars
<1>4. /\ place'[k] = Subdir(s) /\ Subdir(s) \in Here /\ (home[s] = "in" => Subdir(s) = "cur")
      /\ \A j \in Key \ {k} : place'[j] = place[j]
      /\ \A t \in Session \ {s} : key'[t] = key[t] /\ pc'[t] = pc[t]
      /\ key'[s] = k /\ pc'[s] = "record"
  BY <1>1, <1>2, <1>3 DEF TypeOK, Subdir, Here
<1>5. /\ Recorded' = Recorded /\ List' = List
      /\ \A u \in DOMAIN records : records[u] \in Key /\ records[u] \in Recorded
  BY <1>1, <1>3 DEF Recorded, TypeOK, ListOK, List, Range
<1>6. TypeOK'
  <2>1. place' \in [Key -> Where] /\ key' \in [Session -> Key \cup {NoKey}] /\ pc' \in [Session -> Access]
    BY <1>1, <1>2, <1>3, <1>4 DEF TypeOK, Where, Access, Writes
  <2>2. \A t \in Session : pc'[t] \in {"record", "take", "remove"} => key'[t] \in Key
    BY <1>1, <1>4 DEF TypeOK
  <2> QED  BY <1>1, <1>3, <2>1, <2>2 DEF TypeOK, ListOK, List
<1>7. OneUidPerFile' /\ (\A t \in Session : EachOnce(copy[t]))'
  BY <1>1, <1>3 DEF OneUidPerFile, EachOnce, List
<1>8. UnusedUnknown'
  <2> SUFFICES ASSUME NEW j \in Key, place'[j] = "unused"
               PROVE  j \notin Recorded /\ \A t \in Session : j \notin keys[t] /\ j # key'[t] /\ j \notin Range(copy[t].records)
    BY <1>3, <1>5 DEF UnusedUnknown
  <2>1. j # k /\ place[j] = "unused"
    BY <1>4 DEF Here
  <2> QED  BY <1>1, <1>4, <2>1 DEF UnusedUnknown
<1>9. MarksInv'
  <2> SUFFICES ASSUME ~raced PROVE (RecentOnce /\ AddedUnseen /\ RecentClaimed)'
    BY <1>3 DEF MarksInv, RecentOnce
  <2>1. RecentOnce /\ AddedUnseen /\ RecentClaimed /\ (home[s] = "in" => pc[s] = "add")
    BY <1>3 DEF MaildirInv, MarksInv, AddedUnseen
  <2>2. RecentOnce'
    BY <1>2, <1>3, <2>1 DEF RecentOnce
  <2>3. RecentClaimed'
    BY <1>2, <1>3, <1>4, <1>5, <2>1 DEF RecentClaimed
  <2>4. AddedUnseen'
    <3> SUFFICES ASSUME NEW t \in Session
                 PROVE  /\ pc'[t] = "bring" => home[t] = "out"
                        /\ pc'[t] = "record" /\ home[t] = "in" /\ key'[t] \notin twice =>
                              /\ place'[key'[t]] = "cur" /\ key'[t] \notin Recorded
                              /\ \A q \in Session \ {t} : key'[q] # key'[t]
      BY <1>3, <1>5 DEF AddedUnseen
    <3>1. CASE t = s
      <4>1. home[s] = "in" => k \notin Recorded /\ \A q \in Session : key[q] # k
        BY <1>1, <1>2, <2>1 DEF UnusedUnknown
      <4> QED  BY <1>4, <3>1, <4>1
    <3>2. CASE t # s
      <4>1. pc'[t] = pc[t] /\ key'[t] = key[t] /\ (pc[t] = "bring" => home[t] = "out")
        BY <1>4, <2>1, <3>2 DEF AddedUnseen
      <4>2. ASSUME pc[t] = "record" /\ home[t] = "in" /\ key[t] \notin twice
            PROVE  /\ place[key[t]] = "cur" /\ key[t] \notin Recorded /\ key[t] \in Key /\ key[t] # k
                   /\ \A q \in Session \ {t} : key[q] # key[t]
        BY <1>1, <1>2, <2>1, <4>2 DEF AddedUnseen, TypeOK
      <4> QED  BY <1>4, <3>2, <4>1, <4>2
    <3> QED  BY <3>1, <3>2
  <2> QED  BY <2>2, <2>3, <2>4
<1> QED  BY <1>6, <1>7, <1>8, <1>9 DEF ListInv

\* A delivery agent puts a file into new/ of which no session has heard.
LEMMA DeliverKeeps == ASSUME MaildirInv, Deliver PROVE ListInv' /\ MarksInv'
<1>1. TypeOK /\ OneUidPerFile /\ (\A t \in Session : EachOnce(copy[t])) /\ UnusedUnknown
  BY DEF MaildirInv, ListInv
<1>2. PICK k \in Key : place[k] = "unused" /\ place' = [place EXCEPT ![k] = "new"]
  BY DEF Deliver
<1>3. UNCHANGED <<records, nextUid, lock, gate, copy, raced, home, view, recent, pc, keys, key, twice, back, deaths>>
  BY DEF Deliver, listVars, lockVars, viewVars, handVars, histVars
<1>4. place' \in [Key -> Where] /\ place'[k] = "new" /\ \A j \in Key \ {k} : place'[j] = place[j]
  BY <1>1, <1>2 DEF TypeOK, Where, Here
<1>5. /\ Recorded' = Recorded /\ k \notin Recorded
      /\ \A u \in DOMAIN records : records[u] \in Key /\ records[u] \in Recorded
  BY <1>1, <1>2, <1>3 DEF Recorded, TypeOK, ListOK, List, Range, UnusedUnknown
<1>6. TypeOK'
  BY <1>1, <1>3, <1>4 DEF TypeOK, ListOK, List
<1>7. OneUidPerFile' /\ (\A t \in Session : EachOnce(copy[t]))'
  BY <1>1, <1>3 DEF OneUidPerFile, EachOnce, List
<1>8. UnusedUnknown'
  BY <1>1, <1>3, <1>4, <1>5 DEF UnusedUnknown
<1>9. MarksInv'
  <2> SUFFICES ASSUME ~raced PROVE (RecentOnce /\ AddedUnseen /\ RecentClaimed)'
    BY <1>3 DEF MarksInv, RecentOnce
  <2>1. RecentOnce /\ AddedUnseen /\ RecentClaimed
    BY DEF MaildirInv, MarksInv
  <2>2. RecentOnce' /\ RecentClaimed'
    BY <1>3, <1>4, <1>5, <2>1 DEF RecentOnce, RecentClaimed
  <2>3. \A t \in Session : pc[t] = "record" => key[t] \in Key /\ key[t] # k
    BY <1>1, <1>2 DEF TypeOK, UnusedUnknown
  <2>4. AddedUnseen'
    BY <1>3, <1>4, <1>5, <2>1, <2>3 DEF AddedUnseen
  <2> QED  BY <2>2, <2>4
<1> QED  BY <1>6, <1>7, <1>8, <1>9 DEF ListInv

-----------------------------------------------------------------------------
\* Every access to the directory and to the list keeps the invariant.
LEMMA MaildirStep == MaildirInv /\ [Next]_vars => MaildirInv'
<1> SUFFICES ASSUME MaildirInv, [Next]_vars PROVE ListInv' /\ MarksInv'
  BY LockStep DEF MaildirInv
<1>1. CASE UNCHANGED vars
  <2>1. UNCHANGED <<place, records, nextUid, lock, gate, copy, raced, home, view, recent, pc, keys, key, twice, back, deaths>>
    BY <1>1 DEF vars, listVars, lockVars, viewVars, handVars, histVars
  <2>2. ListInv /\ MarksInv
    BY DEF MaildirInv
  <2>3. ListInv'
    BY <2>1, <2>2 DEF ListInv, TypeOK, ListOK, List, OneUidPerFile, EachOnce, UnusedUnknown, Recorded
  <2>4. MarksInv'
    BY <2>1, <2>2 DEF MarksInv, AddedUnseen, RecentClaimed, RecentOnce, Recorded
  <2> QED  BY <2>3, <2>4
<1>2. CASE Deliver \/ Expire
  BY <1>2, DeliverKeeps, LockQuiet, QuietKeeps
<1>3. ASSUME NEW s \in Session,
             \/ Find(s) \/ Break(s) \/ Enter(s) \/ Release(s)
             \/ Start(s) \/ Close(s) \/ Look(s) \/ Fail(s) \/ Crash(s) \/ Scan(s) \/ Lookup(s)
             \/ Take(s) \/ Delete(s) \/ Sweep(s)
      PROVE  ListInv' /\ MarksInv'
  BY <1>3, LockQuiet, SessionQuiet, ReadQuiet, TakeQuiet, SweepQuiet, QuietKeeps
<1>4. ASSUME NEW s \in Session, Merge(s) \/ Claim(s) \/ Add(s) \/ RecordKey(s)
      PROVE  ListInv' /\ MarksInv'
  BY <1>4, MergeKeeps, ClaimKeeps, AddKeeps, RecordKeyKeeps
<1> QED  BY <1>1, <1>2, <1>3, <1>4 DEF Next

LEMMA MaildirAlways == Spec => []MaildirInv
BY MaildirInit, MaildirStep, PTL DEF Spec

\* Sessions, deliveries and files that are moved and removed never take the
\* directory, the list, its lock or a session out of its type, wherever a process
\* dies and however many are inside the lock.
THEOREM MaildirTyped == Spec => []TypeOK
<1>1. MaildirInv => TypeOK
  BY DEF MaildirInv, ListInv
<1> QED  BY <1>1, MaildirAlways, PTL

\* reset() gives no file a second UID, unless the session that has added it has
\* not recorded it yet; not even when two processes are inside the lock.
THEOREM OneUid == Spec => []OneUidPerFile
<1>1. MaildirInv => OneUidPerFile
  BY DEF MaildirInv, ListInv
<1> QED  BY <1>1, MaildirAlways, PTL

\* claim_new() and the subdirectory of an added file keep the \Recent mark in
\* one session, until a live holder's lock file is unlinked.
THEOREM RecentInOne == Spec => []RecentOnce
<1>1. MaildirInv => RecentOnce
  BY DEF MaildirInv, MarksInv
<1> QED  BY <1>1, MaildirAlways, PTL

-----------------------------------------------------------------------------
\* New files get UIDs that were never given before; if there are none, nothing
\* has happened to the list.
LEMMA AddedGiven ==
    ASSUME ListOK(List), NEW files \in SUBSET Key, WithRecords(List, files)
    PROVE  [Ledger!Next]_(Ledger!vars)
<1> DEFINE list == List
<1>1. list.records = records /\ list.nextUid = nextUid
  BY DEF List
<1>2. ListOK(list) /\ WithRecords(list, files)
  OBVIOUS
<1> HIDE DEF list
<1>3. /\ nextUid' \in Nat /\ nextUid <= nextUid' /\ nextUid \in Nat
      /\ DOMAIN records' = DOMAIN records \cup nextUid..(nextUid' - 1)
      /\ records' \in [DOMAIN records' -> Key] /\ records \in [DOMAIN records -> Key]
      /\ \A u \in DOMAIN records : records'[u] = records[u]
  <2>1. list.nextUid \in Nat /\ list.records \in [DOMAIN list.records -> Key]
    BY <1>2 DEF ListOK
  <2>2. /\ nextUid' \in Nat \ {0} /\ list.nextUid <= nextUid'
        /\ DOMAIN records' = DOMAIN list.records \cup list.nextUid..(nextUid' - 1)
        /\ records' \in [DOMAIN records' -> Key]
        /\ \A u \in DOMAIN list.records : records'[u] = list.records[u]
    BY <1>2, RecordsAdded
  <2> QED  BY <1>1, <2>1, <2>2
<1>4. CASE nextUid' = nextUid
  <2>1. DOMAIN records' = DOMAIN records
    BY <1>3, <1>4
  <2>2. records' = records
    BY <1>3, <2>1
  <2> QED  BY <1>4, <2>2 DEF Ledger!vars
<1>5. CASE nextUid' > nextUid
  BY <1>3, <1>5 DEF Ledger!Next, Ledger!Give
<1> QED  BY <1>3, <1>4, <1>5

\* Until a live holder loses its lock file, every step of the mailbox is one of its
\* ledger, or nothing to it: who writes the list back has read what is there.
LEMMA LedgerStep ==
    ASSUME MaildirInv, [Next]_vars, ~raced'
    PROVE  [Ledger!Next]_(Ledger!vars)
<1>1. TypeOK /\ ListOK(List)
  BY DEF MaildirInv, ListInv, TypeOK
<1>2. CASE UNCHANGED vars
  BY <1>2 DEF vars, listVars, Ledger!vars
<1>3. CASE Deliver \/ Expire
  BY <1>3 DEF Deliver, Expire, listVars, Ledger!vars
<1>4. ASSUME NEW s \in Session,
             \/ Find(s) \/ Break(s) \/ Enter(s) \/ Release(s)
             \/ Start(s) \/ Close(s) \/ Scan(s) \/ Claim(s) \/ Add(s) \/ Lookup(s) \/ Take(s) \/ Delete(s)
             \/ Look(s) \/ Fail(s) \/ Crash(s)
      PROVE  UNCHANGED Ledger!vars
  BY <1>4 DEF Find, Break, Enter, Release, Start, Close, Scan, Claim, Add, Lookup, Take, Delete, Look, Fail,
              Crash, Reading, listVars, Ledger!vars
<1>5. ASSUME NEW s \in Session, Merge(s) \/ RecordKey(s) \/ Sweep(s)
      PROVE  copy[s] = List
  <2>1. gate[s] = "in" /\ pc[s] \in Writes /\ raced' = raced
    BY <1>5 DEF Merge, RecordKey, Sweep, Writing, Writes
  <2> QED  BY <2>1, CopyFresh
<1>6. ASSUME NEW s \in Session, Merge(s) \/ RecordKey(s)
      PROVE  [Ledger!Next]_(Ledger!vars)
  <2> DEFINE files == Wanted(s, copy[s])
  <2>1. files \in SUBSET Key
    BY <1>1, <1>6 DEF Merge, RecordKey, Writing, Wanted, TypeOK
  <2>2. UNCHANGED listVars \/ WithRecords(copy[s], files)
    BY <1>6 DEF Merge, RecordKey
  <2> HIDE DEF files
  <2>3. CASE UNCHANGED listVars
    BY <2>3 DEF listVars, Ledger!vars
  <2>4. CASE WithRecords(copy[s], files)
    BY <1>1, <1>5, <1>6, <2>1, <2>4, AddedGiven
  <2> QED  BY <2>2, <2>3, <2>4
<1>7. ASSUME NEW s \in Session, Sweep(s)
      PROVE  [Ledger!Next]_(Ledger!vars)
  <2>1. CASE UNCHANGED listVars
    BY <2>1 DEF listVars, Ledger!vars
  <2>2. CASE records' = RestrictValues(records, LAMBDA k : k \in keys[s]) /\ nextUid' = nextUid
    <3>1. nextUid' = nextUid /\ DOMAIN records' \subseteq DOMAIN records
          /\ records' = Restrict(records, DOMAIN records')
      BY <2>2 DEF RestrictValues, Restrict
    <3> QED  BY <3>1 DEF Ledger!Next, Ledger!Forget, Ledger!Restrict, Restrict
  <2>3. List.records = records /\ List.nextUid = nextUid
    BY DEF List
  <2>4. copy[s].records = records /\ copy[s].nextUid = nextUid
    BY <1>5, <1>7, <2>3
  <2>5. UNCHANGED listVars \/ (/\ records' = RestrictValues(copy[s].records, LAMBDA k : k \in keys[s])
                               /\ nextUid' = copy[s].nextUid)
    BY <1>7 DEF Sweep
  <2> QED  BY <2>1, <2>2, <2>4, <2>5
<1> QED  BY <1>2, <1>3, <1>4, <1>6, <1>7 DEF Next

\* Whatever sessions do between the accesses of an APPEND, COPY, MOVE or CHECK, and
\* after a process has died, a UID belongs to one file for ever, until two processes
\* find the same expired lock file and one unlinks what the other has made since.
THEOREM MaildirKeepsLedger == Spec => LedgerUnlessRaced
<1>1. Init => Ledger!Init
  BY DEF Init, Ledger!Init
<1>2. MaildirInv /\ [Next]_vars => [raced' \/ Ledger!Next]_listVars
  BY LedgerStep DEF Ledger!vars, listVars
<1> QED  BY <1>1, <1>2, MaildirAlways, PTL DEF Spec, LedgerUnlessRaced

\* Where no process dies a live holder never loses its lock file, and the list
\* implements UidLedger without reservation.
THEOREM MaildirImplementsLedger ==
    ASSUME MaxDeaths = 0
    PROVE  Spec => LedgerSpec
<1>1. Init => Ledger!Init
  BY DEF Init, Ledger!Init
<1>2. MaildirInv => ~raced
  <2> SUFFICES ASSUME MaildirInv PROVE ~raced
    OBVIOUS
  <2>1. deaths \in 0..MaxDeaths
    BY DEF MaildirInv, ListInv, TypeOK
  <2>2. deaths = 0
    BY <2>1
  <2> QED  BY <2>2 DEF MaildirInv, LockInv
<1>3. MaildirInv /\ MaildirInv' /\ [Next]_vars => [Ledger!Next]_(Ledger!vars)
  <2>1. MaildirInv' => ~raced'
    BY <1>2, PTL
  <2> QED  BY <2>1, LedgerStep
<1> QED  BY <1>1, <1>3, MaildirAlways, PTL DEF Spec, LedgerSpec, Ledger!Spec

=============================================================================
