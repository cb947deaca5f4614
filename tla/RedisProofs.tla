----------------------------- MODULE RedisProofs -----------------------------
(***************************************************************************)
(* Proofs about Redis, for any sessions and contents, any bounds, and a    *)
(* stream that is trimmed to any length.                                   *)
(***************************************************************************)
EXTENDS Redis, FiniteSetTheorems, FunctionTheorems, SequenceTheorems, WellFoundedInduction, TLAPS

-----------------------------------------------------------------------------
(* Sets of places, and how many there are. *)

\* A set of places in a sequence, if not empty, has a last one.
LEMMA LastPlace ==
    ASSUME NEW n \in Nat, NEW S \in SUBSET (1..n), S # {}
    PROVE  \E m \in S : \A k \in S : k <= m
<1> DEFINE R == {ss \in Nat \X Nat : ss[1] < ss[2]}
           T == {n - k : k \in S}
<1>1. IsWellFoundedOn(R, Nat)
  BY NatLessThanWellFounded DEF OpToRel
<1>2. T \subseteq Nat /\ T # {}
  <2>1. \A k \in S : k \in Nat /\ n - k \in Nat
    OBVIOUS
  <2> QED  BY <2>1
<1>3. \A k, m \in Nat : k < m => <<k, m>> \in R
  OBVIOUS
<1> HIDE DEF R
<1>4. PICK m \in T : \A k \in T : ~ (<<k, m>> \in R)
  <2> HIDE DEF T
  <2> QED  BY <1>1, <1>2, WFMin
<1>5. PICK g \in S : m = n - g
  OBVIOUS
<1>6. \A k \in S : n - k \in T /\ n - k \in Nat /\ k \in Nat
  OBVIOUS
<1>7. \A k \in S : ~ (n - k < n - g)
  BY <1>3, <1>4, <1>5, <1>6
<1>8. \A k \in S : k <= g
  BY <1>6, <1>7
<1> QED  BY <1>8

-----------------------------------------------------------------------------
(* The stream of changes. *)

\* The entries of the stream.
LEMMA ChangesTyped ==
    ASSUME TypeOK
    PROVE  /\ Len(changes) \in Nat /\ DOMAIN changes = 1..Len(changes)
           /\ (changes = << >> <=> Len(changes) = 0)
           /\ \A i \in DOMAIN changes :
                 /\ changes[i] \in Change /\ i \in Nat /\ changes[i].id \in Nat /\ changes[i].id > 0
                 /\ changes[i].uid \in 1..maxUid /\ changes[i].kind \in {"fetch", "expunge"}
                 /\ changes[i].flag \in BOOLEAN
<1>1. changes \in Seq(Change)
  BY DEF TypeOK, BoxType, SessionType
<1>2. Len(changes) \in Nat /\ DOMAIN changes = 1..Len(changes)
  BY <1>1, LenProperties
<1>3. changes = << >> <=> Len(changes) = 0
  BY <1>1
<1>4. \A i \in 1..Len(changes) : changes[i] \in Change
  BY <1>1, ElementOfSeq
<1> QED  BY <1>2, <1>3, <1>4 DEF Change

\* XADD leaves the end of the stream as it is and adds to it.
LEMMA XaddShifts ==
    ASSUME TypeOK, NEW change, Xadd(change)
    PROVE  /\ changes' \in Seq(Change \cup {change}) /\ lastId' = change.id
           /\ \E n \in 0..Len(changes) :
                 /\ Len(changes') = Len(changes) - n + 1 /\ DOMAIN changes' = 1..(Len(changes) - n + 1)
                 /\ \A i \in 1..(Len(changes) - n) : changes'[i] = changes[i + n]
                 /\ changes'[Len(changes) - n + 1] = change
<1> DEFINE T == Change \cup {change}
<1>1. PICK n \in 0..Len(changes) : changes' = SubSeq(changes, n + 1, Len(changes)) \o <<change>>
  BY DEF Xadd
<1>2. changes \in Seq(T) /\ Len(changes) \in Nat /\ \A i \in 1..Len(changes) : changes[i] \in T
  <2>1. changes \in Seq(T)
    BY SeqMonotonic DEF TypeOK, BoxType, SessionType
  <2> HIDE DEF T
  <2> QED  BY <2>1, LenProperties, ElementOfSeq
<1>3. change \in T
  OBVIOUS
<1> HIDE DEF T
<1> DEFINE kept == SubSeq(changes, n + 1, Len(changes))
<1>4. /\ kept \in Seq(T) /\ Len(kept) = Len(changes) - n
      /\ \A i \in 1..(Len(changes) - n) : kept[i] = changes[i + n]
  <2>1. \A i \in (n + 1)..Len(changes) : changes[i] \in T
    BY <1>2
  <2>2. /\ kept \in Seq(T)
        /\ Len(kept) = IF n + 1 <= Len(changes) THEN Len(changes) - (n + 1) + 1 ELSE 0
        /\ \A i \in 1..(Len(changes) - (n + 1) + 1) : kept[i] = changes[(n + 1) + i - 1]
    BY <1>2, <2>1, SubSeqProperties
  <2> HIDE DEF kept
  <2> QED  BY <1>2, <2>2
<1>5. <<change>> \in Seq(T) /\ Len(<<change>>) = 1 /\ <<change>>[1] = change
  BY <1>3
<1>6. changes' = kept \o <<change>>
  BY <1>1
<1> HIDE DEF kept
<1>7. /\ changes' \in Seq(T) /\ Len(changes') = Len(kept) + 1
      /\ \A i \in 1..(Len(kept) + 1) : changes'[i] = IF i <= Len(kept) THEN kept[i] ELSE <<change>>[i - Len(kept)]
  BY <1>4, <1>5, <1>6, ConcatProperties
<1>8. DOMAIN changes' = 1..Len(changes')
  BY <1>7, LenProperties
<1>9. lastId' = change.id
  BY DEF Xadd
<1>10. \A i \in 1..(Len(changes) - n) : changes'[i] = changes[i + n]
  BY <1>2, <1>4, <1>7
<1>11. changes'[Len(changes) - n + 1] = change
  BY <1>2, <1>4, <1>5, <1>7
<1> QED  BY <1>2, <1>4, <1>7, <1>8, <1>9, <1>10, <1>11 DEF T

\* The numbers of the stream are those up to the last.
LEMMA IdsUpToLast ==
    ASSUME TypeOK, StreamOrdered, NEW i \in DOMAIN changes
    PROVE  changes[i].id <= lastId
<1>1. Len(changes) \in DOMAIN changes /\ changes # << >> /\ i \in Nat
  BY ChangesTyped
<1>2. lastId = changes[Len(changes)].id
  BY <1>1 DEF StreamOrdered
<1>3. i = Len(changes) \/ i < Len(changes)
  BY ChangesTyped
<1>4. i < Len(changes) => changes[i].id < changes[Len(changes)].id
  BY <1>1 DEF StreamOrdered
<1> QED  BY <1>1, <1>2, <1>3, <1>4, ChangesTyped

\* A change that is written has a number above all before it, so that the
\* stream stays in order.
LEMMA XaddOrders ==
    ASSUME TypeOK, StreamOrdered, NEW change, Xadd(change), change.id \in Nat, change.id > lastId,
           modSeq' = modSeq
    PROVE  StreamOrdered'
<1>1. PICK n \in 0..Len(changes) :
          /\ Len(changes') = Len(changes) - n + 1 /\ DOMAIN changes' = 1..(Len(changes) - n + 1)
          /\ \A i \in 1..(Len(changes) - n) : changes'[i] = changes[i + n]
          /\ changes'[Len(changes) - n + 1] = change
  BY XaddShifts
<1>2. /\ lastId' = change.id /\ lastId \in Nat /\ Len(changes) \in Nat /\ DOMAIN changes = 1..Len(changes)
      /\ \A i \in DOMAIN changes : changes[i].id \in Nat
  <2>1. lastId' = change.id
    BY XaddShifts
  <2> QED  BY <2>1, ChangesTyped DEF TypeOK, BoxType, SessionType
<1>3. \A i \in DOMAIN changes : changes[i].id <= lastId
  BY IdsUpToLast
<1>4. changes' # << >> /\ Len(changes') = Len(changes) - n + 1
  BY <1>1, <1>2
<1>5. ASSUME NEW i \in DOMAIN changes', NEW j \in DOMAIN changes', i < j
      PROVE  changes'[i].id < changes'[j].id
  <2>1. i \in 1..(Len(changes) - n) /\ i + n \in DOMAIN changes /\ changes'[i] = changes[i + n]
    BY <1>1, <1>2, <1>5
  <2>2. CASE j = Len(changes) - n + 1
    BY <1>1, <1>2, <1>3, <2>1, <2>2
  <2>3. CASE j # Len(changes) - n + 1
    <3>1. j \in 1..(Len(changes) - n) /\ i \in Nat /\ j \in Nat
      BY <1>1, <1>2, <2>3
    <3>2. j + n \in DOMAIN changes /\ changes'[j] = changes[j + n] /\ i + n < j + n
      BY <1>1, <1>2, <1>5, <3>1
    <3> QED  BY <2>1, <3>2 DEF StreamOrdered
  <2> QED  BY <2>2, <2>3
<1>6. \A s \in Session : modSeq'[s] \in Unread..lastId'
  BY <1>2 DEF StreamOrdered, Unread
<1> QED  BY <1>1, <1>2, <1>4, <1>5, <1>6 DEF StreamOrdered

\* A change to the message of one UID, and the entry of the stream that says so.
Logged(change) ==
    /\ Xadd(change) /\ change.id \in Nat /\ change.id > lastId
    /\ UNCHANGED <<modSeq, view>>
    /\ change.uid \in 1..maxUid' /\ maxUid \in Nat /\ maxUid' \in Nat /\ maxUid <= maxUid'
    /\ \A u \in 1..maxUid' \ {change.uid} :
          /\ u \in Uids' <=> u \in Uids
          /\ u \in Uids => messages'[u].flag = messages[u].flag
    /\ \/ change.kind = "expunge" /\ change.uid \notin Uids'
       \/ change.kind = "fetch" /\ change.uid \in Uids' /\ change.flag = messages'[change.uid].flag
    /\ change.uid \in Uids' => change.uid \in Uids \/ change.uid > maxUid

\* Then the stream still ends, for every UID, with what has become of it.
LEMMA LoggedStreamTrue ==
    ASSUME RedisInv, StreamTrue, NEW change, Logged(change)
    PROVE  StreamTrue'
<1>1. TypeOK /\ Xadd(change)
  BY DEF RedisInv, Logged
<1>2. PICK n \in 0..Len(changes) :
          /\ Len(changes') = Len(changes) - n + 1 /\ DOMAIN changes' = 1..(Len(changes) - n + 1)
          /\ \A i \in 1..(Len(changes) - n) : changes'[i] = changes[i + n]
          /\ changes'[Len(changes) - n + 1] = change
  BY <1>1, XaddShifts
<1>3. Len(changes) \in Nat /\ DOMAIN changes = 1..Len(changes)
  BY <1>1, ChangesTyped
<1> DEFINE last == Len(changes) - n + 1
<1>4. last \in DOMAIN changes' /\ changes'[last] = change
  BY <1>2, <1>3
<1>5. ASSUME NEW i \in DOMAIN changes', i # last
      PROVE  i + n \in DOMAIN changes /\ changes'[i] = changes[i + n] /\ i < last /\ i \in Nat
  BY <1>2, <1>3, <1>5
<1>6. changes' # << >>
  BY <1>2, <1>3
<1>7. ASSUME NEW i \in DOMAIN changes'
      PROVE  /\ changes'[i].kind = "expunge" => changes'[i].uid \notin Uids'
             /\ \/ \E j \in DOMAIN changes' : i < j /\ changes'[j].uid = changes'[i].uid
                \/ changes'[i].kind = "expunge"
                \/ changes'[i].uid \in Uids' /\ changes'[i].flag = messages'[changes'[i].uid].flag
  <2>1. CASE i = last
    BY <1>4, <2>1 DEF Logged
  <2>2. CASE i # last
    <3> DEFINE c == changes[i + n]
    <3>1. i + n \in DOMAIN changes /\ changes'[i] = c /\ i < last /\ i \in Nat
      BY <1>5, <2>2
    <3>2. c.uid \in 1..maxUid
      BY <1>1, <3>1, ChangesTyped
    <3>3. c.kind = "expunge" => c.uid \notin Uids
      BY <3>1 DEF StreamTrue
    <3>4. CASE c.uid = change.uid
      <4>1. \E j \in DOMAIN changes' : i < j /\ changes'[j].uid = c.uid
        BY <1>4, <3>1, <3>4
      <4>2. c.kind = "expunge" => c.uid \notin Uids'
        BY <3>2, <3>3, <3>4 DEF Logged
      <4> QED  BY <3>1, <4>1, <4>2
    <3>5. CASE c.uid # change.uid
      <4>1. c.uid \in 1..maxUid' \ {change.uid}
        BY <3>2, <3>5 DEF Logged
      <4>2. c.kind = "expunge" => c.uid \notin Uids'
        BY <3>3, <4>1 DEF Logged
      <4>3. CASE \E j \in DOMAIN changes : i + n < j /\ changes[j].uid = c.uid
        <5>1. PICK j \in DOMAIN changes : i + n < j /\ changes[j].uid = c.uid
          BY <4>3
        <5>2. j - n \in 1..(Len(changes) - n) /\ i < j - n /\ (j - n) + n = j
          BY <1>3, <3>1, <5>1
        <5>3. j - n \in DOMAIN changes' /\ changes'[j - n] = changes[j]
          BY <1>2, <1>3, <5>2
        <5> QED  BY <3>1, <4>2, <5>1, <5>2, <5>3
      <4>4. CASE c.kind = "expunge"
        BY <3>1, <4>2, <4>4
      <4>5. CASE c.uid \in Uids /\ c.flag = messages[c.uid].flag
        BY <3>1, <4>1, <4>2, <4>5 DEF Logged
      <4> QED  BY <3>1, <4>3, <4>4, <4>5 DEF StreamTrue
    <3> QED  BY <3>4, <3>5
  <2> QED  BY <2>1, <2>2
<1> QED  BY <1>6, <1>7 DEF StreamTrue

\* And the sessions that the stream still reaches are right about the others.
LEMMA LoggedViewTrue ==
    ASSUME RedisInv, ViewTrue, NEW change, Logged(change)
    PROVE  ViewTrue'
<1>1. TypeOK /\ Xadd(change) /\ StreamOrdered
  BY DEF RedisInv, Logged
<1>2. PICK n \in 0..Len(changes) :
          /\ Len(changes') = Len(changes) - n + 1 /\ DOMAIN changes' = 1..(Len(changes) - n + 1)
          /\ \A i \in 1..(Len(changes) - n) : changes'[i] = changes[i + n]
          /\ changes'[Len(changes) - n + 1] = change
  BY <1>1, XaddShifts
<1>3. Len(changes) \in Nat /\ DOMAIN changes = 1..Len(changes) /\ \A i \in DOMAIN changes : changes[i].id \in Nat
  BY <1>1, ChangesTyped
<1> DEFINE last == Len(changes) - n + 1
<1>4. last \in DOMAIN changes' /\ changes'[last] = change
  BY <1>2, <1>3
<1> SUFFICES ASSUME NEW s \in Session, modSeq'[s] # Unread, Reaches(s)',
                    NEW u \in 1..maxUid' \ {changes'[i].uid : i \in Newer(s)'}
             PROVE  /\ u \in DOMAIN view'[s] <=> u \in Uids'
                    /\ u \in Uids' => view'[s][u] = messages'[u].flag
  BY DEF ViewTrue
<1>5. modSeq'[s] = modSeq[s] /\ view'[s] = view[s] /\ modSeq[s] \in Int /\ modSeq[s] <= lastId /\ lastId \in Nat
  BY <1>1 DEF Logged, StreamOrdered, TypeOK, BoxType, SessionType, Unread
<1>6. change.id > modSeq[s] /\ last \in Newer(s)'
  BY <1>4, <1>5 DEF Logged, Newer
<1>7. u # change.uid
  BY <1>4, <1>6
<1>8. PICK r \in DOMAIN changes' : changes'[r].id <= modSeq[s]
  BY <1>4, <1>5 DEF Reaches
<1>9. r \in 1..(Len(changes) - n) /\ r + n \in DOMAIN changes /\ changes[r + n].id <= modSeq[s]
  <2>1. r # last
    BY <1>4, <1>5, <1>6, <1>8 DEF Logged
  <2>2. r \in 1..(Len(changes) - n)
    BY <1>2, <1>3, <2>1
  <2> QED  BY <1>2, <1>3, <1>8, <2>2
<1>10. Reaches(s)
  BY <1>9 DEF Reaches
<1>11. ASSUME NEW i \in Newer(s) PROVE changes[i].uid # u
  <2>1. i \in DOMAIN changes /\ changes[i].id > modSeq[s] /\ i \in Nat
    BY <1>3 DEF Newer
  <2>2. r + n < i
    <3>1. i # r + n
      BY <1>3, <1>5, <1>9, <2>1
    <3>2. ~ (i < r + n)
      <4>1. i < r + n => changes[i].id < changes[r + n].id
        BY <1>1, <1>9, <2>1 DEF StreamOrdered
      <4> QED  BY <1>3, <1>5, <1>9, <2>1, <4>1
    <3> QED  BY <1>3, <1>9, <2>1, <3>1, <3>2
  <2>3. i - n \in 1..(Len(changes) - n) /\ (i - n) + n = i
    BY <1>3, <1>9, <2>1, <2>2
  <2>4. i - n \in DOMAIN changes' /\ changes'[i - n] = changes[i]
    BY <1>2, <1>3, <2>3
  <2>5. i - n \in Newer(s)'
    BY <1>5, <2>1, <2>4 DEF Newer
  <2> QED  BY <2>4, <2>5
<1>12. CASE u \in 1..maxUid
  <2>1. (u \in DOMAIN view[s] <=> u \in Uids) /\ (u \in Uids => view[s][u] = messages[u].flag)
    BY <1>5, <1>10, <1>11, <1>12 DEF ViewTrue
  <2> QED  BY <1>5, <1>7, <2>1 DEF Logged
<1>13. CASE u \notin 1..maxUid
  <2>1. u \notin Uids /\ u \notin DOMAIN view[s]
    BY <1>1, <1>13 DEF TypeOK, BoxType, SessionType
  <2> QED  BY <1>5, <1>7, <2>1 DEF Logged
<1> QED  BY <1>12, <1>13

-----------------------------------------------------------------------------
(* What a session makes of the stream. *)

Expunged(s) == {changes[i].uid : i \in {j \in Newer(s) : changes[j].kind = "expunge"}}
Fetched(s) == {changes[i].uid : i \in Newer(s)} \ Expunged(s)

\* The view after the entries of the stream: the messages that they add and
\* change have the flags of their last entry.
LEMMA UpdatedView ==
    ASSUME TypeOK, NEW s \in Session
    PROVE  LET new == Updated(view[s], Newer(s))
           IN  /\ DOMAIN new = (DOMAIN view[s] \cup Fetched(s)) \ Expunged(s)
               /\ new = [u \in DOMAIN new |-> new[u]]
               /\ \A u \in DOMAIN new \ Fetched(s) : new[u] = view[s][u]
               /\ \A u \in Fetched(s) : \E m \in Newer(s) :
                     /\ changes[m].uid = u /\ new[u] = changes[m].flag
                     /\ \A j \in Newer(s) : changes[j].uid = u => j <= m
<1> DEFINE Latest(u) == CHOOSE i \in Newer(s) :
                          changes[i].uid = u /\ \A j \in Newer(s) : changes[j].uid = u => j <= i
           new == Updated(view[s], Newer(s))
<1>1. new = [u \in (DOMAIN view[s] \cup Fetched(s)) \ Expunged(s) |->
               IF u \in Fetched(s) THEN changes[Latest(u)].flag ELSE view[s][u]]
  BY DEF Updated, Fetched, Expunged
<1>2. ASSUME NEW u \in Fetched(s)
      PROVE  /\ Latest(u) \in Newer(s) /\ changes[Latest(u)].uid = u
             /\ \A j \in Newer(s) : changes[j].uid = u => j <= Latest(u)
  <2> DEFINE S == {i \in Newer(s) : changes[i].uid = u}
  <2>1. S # {} /\ S \in SUBSET (1..Len(changes)) /\ Len(changes) \in Nat
    BY ChangesTyped DEF Fetched, Newer
  <2>2. \E m \in S : \A k \in S : k <= m
    <3> HIDE DEF S
    <3> QED  BY <2>1, LastPlace
  <2> QED  BY <2>2
<1> HIDE DEF Latest, new
<1>3. \A u \in Fetched(s) : u \notin Expunged(s)
  BY DEF Fetched
<1>4. /\ DOMAIN new = (DOMAIN view[s] \cup Fetched(s)) \ Expunged(s)
      /\ new = [u \in DOMAIN new |-> new[u]]
      /\ \A u \in DOMAIN new \ Fetched(s) : new[u] = view[s][u]
      /\ \A u \in Fetched(s) : new[u] = changes[Latest(u)].flag
  BY <1>1, <1>3
<1> QED  BY <1>2, <1>4 DEF new

LEMMA LoadTyped ==
    ASSUME TypeOK, NEW s \in Session
    PROVE  DOMAIN Load(s) \subseteq 1..maxUid /\ Load(s) \in [DOMAIN Load(s) -> BOOLEAN]
<1>1. CASE Newer(s) = DOMAIN changes
  BY <1>1 DEF Load, Flags, TypeOK, BoxType, SessionType
<1>2. CASE Newer(s) # DOMAIN changes
  <2> DEFINE new == Updated(view[s], Newer(s))
  <2>1. /\ DOMAIN new = (DOMAIN view[s] \cup Fetched(s)) \ Expunged(s)
        /\ new = [u \in DOMAIN new |-> new[u]]
        /\ \A u \in DOMAIN new \ Fetched(s) : new[u] = view[s][u]
        /\ \A u \in Fetched(s) : \E m \in Newer(s) : new[u] = changes[m].flag
    BY UpdatedView
  <2>2. \A m \in Newer(s) : changes[m].flag \in BOOLEAN /\ changes[m].uid \in 1..maxUid
    BY ChangesTyped DEF Newer
  <2>3. Fetched(s) \subseteq 1..maxUid
    BY <2>2 DEF Fetched
  <2>4. DOMAIN view[s] \subseteq 1..maxUid /\ \A u \in DOMAIN view[s] : view[s][u] \in BOOLEAN
    BY DEF TypeOK, BoxType, SessionType
  <2>5. Load(s) = new
    BY <1>2 DEF Load
  <2> HIDE DEF new
  <2>6. \A u \in DOMAIN new : new[u] \in BOOLEAN
    BY <2>1, <2>2, <2>4
  <2> QED  BY <2>1, <2>3, <2>4, <2>5, <2>6
<1> QED  BY <1>1, <1>2

\* A session that reads the stream is right about all messages: of those with
\* newer entries the last one tells, and about the others it was right before,
\* or the stream does not reach back so far and all messages are read.
LEMMA LoadRight ==
    ASSUME RedisInv, ~broken, NEW s \in Session
    PROVE  Load(s) = Flags
<1>1. TypeOK /\ StreamOrdered /\ StreamTrue /\ ViewTrue
  BY DEF RedisInv
<1>2. CASE Newer(s) = DOMAIN changes
  BY <1>2 DEF Load
<1>3. CASE Newer(s) # DOMAIN changes
  <2> DEFINE new == Updated(view[s], Newer(s))
  <2>1. /\ DOMAIN new = (DOMAIN view[s] \cup Fetched(s)) \ Expunged(s)
        /\ new = [u \in DOMAIN new |-> new[u]]
        /\ \A u \in DOMAIN new \ Fetched(s) : new[u] = view[s][u]
        /\ \A u \in Fetched(s) : \E m \in Newer(s) :
                     /\ changes[m].uid = u /\ new[u] = changes[m].flag
                     /\ \A j \in Newer(s) : changes[j].uid = u => j <= m
    BY <1>1, UpdatedView
  <2>2. Load(s) = new
    BY <1>3 DEF Load
  <2> HIDE DEF new
  <2>3. Reaches(s) /\ modSeq[s] # Unread /\ modSeq[s] \in Int
    <3>1. PICK i \in DOMAIN changes : ~ (changes[i].id > modSeq[s])
      BY <1>3 DEF Newer
    <3>2. changes[i].id \in Nat /\ changes[i].id > 0 /\ modSeq[s] \in Int
      BY <1>1, ChangesTyped DEF TypeOK, BoxType, SessionType
    <3> QED  BY <3>1, <3>2 DEF Reaches, Unread
  <2>4. \A u \in Expunged(s) : u \notin Uids
    BY <1>1 DEF Expunged, Newer, StreamTrue
  <2>5. ASSUME NEW u \in Fetched(s)
        PROVE  u \in Uids /\ new[u] = messages[u].flag
    <3>1. PICK m \in Newer(s) : /\ changes[m].uid = u /\ new[u] = changes[m].flag
                                /\ \A j \in Newer(s) : changes[j].uid = u => j <= m
      BY <2>1
    <3>2. m \in DOMAIN changes /\ m \in Nat /\ changes[m].id \in Nat /\ changes[m].id > modSeq[s]
      BY <1>1, ChangesTyped DEF Newer
    <3>3. ASSUME NEW j \in DOMAIN changes, m < j PROVE changes[j].uid # u
      <4>1. changes[m].id < changes[j].id /\ changes[j].id \in Nat /\ j \in Nat
        BY <1>1, <3>2, <3>3, ChangesTyped DEF StreamOrdered
      <4>2. j \in Newer(s)
        BY <2>3, <3>2, <4>1 DEF Newer
      <4> QED  BY <3>1, <3>2, <3>3, <4>1, <4>2
    <3>4. changes[m].kind # "expunge"
      BY <3>1 DEF Fetched, Expunged
    <3> QED  BY <1>1, <3>1, <3>2, <3>3, <3>4 DEF StreamTrue
  <2>6. ASSUME NEW u \in (1..maxUid) \ (Fetched(s) \cup Expunged(s))
        PROVE  (u \in DOMAIN view[s] <=> u \in Uids) /\ (u \in Uids => view[s][u] = messages[u].flag)
    <3>1. u \notin {changes[i].uid : i \in Newer(s)}
      BY DEF Fetched
    <3> QED  BY <1>1, <2>3, <3>1 DEF ViewTrue
  <2>7. DOMAIN view[s] \subseteq 1..maxUid /\ Uids \subseteq 1..maxUid
    BY <1>1 DEF TypeOK, BoxType, SessionType
  <2>8. DOMAIN new = Uids
    BY <2>1, <2>4, <2>5, <2>6, <2>7
  <2>9. \A u \in Uids : new[u] = messages[u].flag
    BY <2>1, <2>5, <2>6, <2>7, <2>8
  <2> QED  BY <2>1, <2>2, <2>8, <2>9 DEF Flags
<1> QED  BY <1>2, <1>3

-----------------------------------------------------------------------------
(* What the parts of the scripts keep. *)

\* INCR and XADD, which may fail.
LEMMA ChangedKeeps ==
    ASSUME RedisInv, NEW uid, NEW kind \in {"fetch", "expunge"}, NEW flag \in BOOLEAN, NEW ok \in BOOLEAN,
           Changed(uid, kind, flag, ok), uid \in 1..maxUid', maxUid \in Nat, maxUid' \in Nat, maxUid <= maxUid',
           modSeq' = modSeq
    PROVE  /\ maxModSeq' \in Nat /\ lastId' \in Nat /\ changes' \in Seq(Change') /\ StreamOrdered'
           /\ ok => \E change : /\ Xadd(change) /\ change.id \in Nat /\ change.id > lastId
                                /\ change.uid = uid /\ change.kind = kind /\ change.flag = flag
<1>1. TypeOK /\ StreamOrdered
  BY DEF RedisInv
<1>2. maxModSeq' \in Nat \ {0} /\ lastId \in Nat
  BY <1>1 DEF Changed, TypeOK, BoxType
<1> DEFINE change == [id |-> maxModSeq', uid |-> uid, kind |-> kind, flag |-> flag]
<1>3. Change \subseteq Change' /\ change \in Change'
  BY <1>2 DEF Change
<1>4. CASE ok
  <2>1. Xadd(change) /\ maxModSeq' > lastId
    BY <1>4 DEF Changed
  <2>2. change.id = maxModSeq' /\ change.uid = uid /\ change.kind = kind /\ change.flag = flag
    OBVIOUS
  <2> HIDE DEF change
  <2>3. changes' \in Seq(Change \cup {change}) /\ lastId' = change.id
    BY <1>1, <2>1, XaddShifts
  <2>4. changes' \in Seq(Change')
    BY <1>3, <2>3, SeqMonotonic
  <2>5. StreamOrdered'
    BY <1>1, <1>2, <2>1, <2>2, XaddOrders
  <2> QED  BY <1>2, <2>1, <2>2, <2>3, <2>4, <2>5
<1>5. CASE ~ok
  <2>1. changes' = changes /\ lastId' = lastId
    BY <1>5 DEF Changed
  <2>2. changes' \in Seq(Change')
    <3>1. changes \in Seq(Change)
      BY <1>1 DEF TypeOK, BoxType
    <3> QED  BY <1>3, <2>1, <3>1, SeqMonotonic
  <2>3. StreamOrdered'
    BY <1>1, <2>1 DEF StreamOrdered
  <2> QED  BY <1>2, <1>5, <2>1, <2>2, <2>3
<1> QED  BY <1>4, <1>5

\* The sessions are as they were.
LEMMA SessionsTyped ==
    ASSUME TypeOK, UNCHANGED sessVars, maxUid' \in Nat, maxUid <= maxUid'
    PROVE  SessionType'
<1>1. 1..maxUid \subseteq 1..maxUid'
  BY DEF TypeOK, BoxType
<1> QED  BY <1>1 DEF TypeOK, SessionType, sessVars

\* A new message: its UID is above all others, and the indexes have it if it is
\* \Deleted and no session has it if it is \Recent.
LEMMA NewMessageKeeps ==
    ASSUME RedisInv, NEW email \in Email, NEW flag \in BOOLEAN, NEW isRecent \in BOOLEAN, NEW ok \in BOOLEAN,
           NewMessage(email, flag, isRecent, ok), UNCHANGED <<exists, sessVars>>
    PROVE  /\ BoxType' /\ SessionType' /\ StreamOrdered' /\ IndexesAgree'
           /\ ~broken' => StreamTrue' /\ ViewTrue' /\ RecentUnclaimed' /\ ~broken /\ ok /\ exists = "named"
           /\ maxUid + 1 \notin Uids /\ Uids' = Uids \cup {maxUid + 1}
           /\ messages'[maxUid + 1].email = email /\ \A u \in Uids : messages'[u] = messages[u]
<1>1. TypeOK /\ StreamOrdered
  BY DEF RedisInv
<1> DEFINE uid == maxUid + 1
<1>2. maxUid \in Nat /\ maxUid' = uid /\ uid \in 1..maxUid' /\ uid \notin 1..maxUid /\ 1..maxUid \subseteq 1..maxUid'
  BY <1>1 DEF NewMessage, TypeOK, BoxType
<1>3. messages' = [u \in Uids \cup {uid} |->
                     IF u = uid THEN [email |-> email, flag |-> flag] ELSE messages[u]]
  BY DEF NewMessage
<1>4. Uids \subseteq 1..maxUid /\ recent \subseteq 1..maxUid /\ deleted \subseteq 1..maxUid
      /\ uid \notin Uids /\ uid \notin recent /\ uid \notin deleted
      /\ messages \in [Uids -> [email : Email, flag : BOOLEAN]]
      /\ \A s \in Session : sessionRecent'[s] = sessionRecent[s] /\ sessionRecent[s] \subseteq 1..maxUid
  BY <1>1, <1>2 DEF TypeOK, BoxType, SessionType, sessVars
<1>5. /\ Uids' = Uids \cup {uid} /\ messages'[uid] = [email |-> email, flag |-> flag]
      /\ \A u \in Uids : messages'[u] = messages[u]
  BY <1>3, <1>4 DEF Uids
<1>6. Changed(uid, "fetch", flag, ok) /\ modSeq' = modSeq /\ view' = view
  BY DEF NewMessage, sessVars
<1>7. /\ maxModSeq' \in Nat /\ lastId' \in Nat /\ changes' \in Seq(Change') /\ StreamOrdered'
      /\ ok => \E change : /\ Xadd(change) /\ change.id \in Nat /\ change.id > lastId
                           /\ change.uid = uid /\ change.kind = "fetch" /\ change.flag = flag
  <2>1. maxUid' \in Nat /\ maxUid <= maxUid' /\ "fetch" \in {"fetch", "expunge"}
    BY <1>2
  <2> HIDE DEF uid
  <2> QED  BY <1>2, <1>6, <2>1, ChangedKeeps
<1>8. BoxType'
  <2>1. messages' \in [Uids' -> [email : Email, flag : BOOLEAN]]
    BY <1>3, <1>4, <1>5 DEF Uids
  <2>2. recent' \subseteq 1..maxUid' /\ deleted' \subseteq 1..maxUid' /\ broken' \in BOOLEAN
    BY <1>1, <1>2, <1>4 DEF NewMessage, Broken, TypeOK, BoxType
  <2> QED  BY <1>2, <1>4, <1>5, <1>7, <2>1, <2>2 DEF BoxType
<1>9. SessionType'
  BY <1>1, <1>2, SessionsTyped
<1>10. ~broken' => ~broken /\ ok /\ exists = "named"
  BY DEF NewMessage, Broken
<1>11. ASSUME ~broken' PROVE StreamTrue' /\ ViewTrue'
  <2>1. PICK change : /\ Xadd(change) /\ change.id \in Nat /\ change.id > lastId
                      /\ change.uid = uid /\ change.kind = "fetch" /\ change.flag = flag
    BY <1>7, <1>10, <1>11
  <2>2. \A u \in 1..maxUid' \ {uid} : (u \in Uids' <=> u \in Uids) /\ (u \in Uids => messages'[u].flag = messages[u].flag)
    BY <1>5
  <2>3. uid > maxUid /\ maxUid' \in Nat /\ maxUid <= maxUid' /\ messages'[uid].flag = flag /\ uid \in Uids'
    BY <1>2, <1>5
  <2> HIDE DEF uid
  <2>4. Logged(change)
    BY <1>2, <1>6, <2>1, <2>2, <2>3 DEF Logged
  <2> QED  BY <1>10, <1>11, <2>4, LoggedStreamTrue, LoggedViewTrue DEF RedisInv
<1>12. ASSUME ~broken'
       PROVE  /\ deleted' = {u \in Uids' : messages'[u].flag} /\ recent' \subseteq Uids'
              /\ RecentUnclaimed'
  <2>1. deleted = {u \in Uids : messages[u].flag} /\ recent \subseteq Uids /\ RecentUnclaimed
    BY <1>10, <1>12 DEF RedisInv, IndexesAgree
  <2>2. /\ recent' = IF isRecent THEN recent \cup {uid} ELSE recent
        /\ deleted' = IF flag THEN deleted \cup {uid} ELSE deleted
    BY <1>10, <1>12 DEF NewMessage
  <2>3. deleted' = {u \in Uids' : messages'[u].flag}
    <3>1. messages'[uid].flag = flag /\ \A u \in Uids : messages'[u].flag = messages[u].flag
      BY <1>5
    <3>2. CASE flag
      BY <1>4, <1>5, <2>1, <2>2, <3>1, <3>2
    <3>3. CASE ~flag
      BY <1>4, <1>5, <2>1, <2>2, <3>1, <3>3
    <3> QED  BY <3>2, <3>3
  <2>4. RecentUnclaimed'
    BY <1>2, <1>4, <2>1, <2>2 DEF RecentUnclaimed
  <2> QED  BY <1>5, <2>1, <2>2, <2>3, <2>4
<1>13. IndexesAgree'
  BY <1>4, <1>10, <1>12 DEF IndexesAgree, RedisInv
<1> QED  BY <1>4, <1>5, <1>8, <1>7, <1>9, <1>10, <1>11, <1>12, <1>13

-----------------------------------------------------------------------------
(* How many messages and entries of the queue there are of a content. *)

LEMMA Counts ==
    ASSUME TypeOK, NEW e \in Email
    PROVE  /\ IsFiniteSet(Holding(e)) /\ Cardinality(Holding(e)) \in Nat
           /\ IsFiniteSet(Queued(e)) /\ Cardinality(Queued(e)) \in Nat
           /\ Users(e) \in Nat /\ Waiting(e) \in Nat
           /\ refs[e] \in Int /\ away[e] \in Nat
<1>1. maxUid \in Int /\ Holding(e) \subseteq 1..maxUid
  <2>1. Uids \subseteq 1..maxUid
    BY DEF TypeOK, BoxType
  <2>2. Holding(e) \subseteq Uids
    BY DEF Holding
  <2>3. maxUid \in Int
    BY DEF TypeOK, BoxType
  <2>4. Holding(e) \subseteq 1..maxUid
    BY <2>1, <2>2, Zenon
  <2> QED  BY <2>3, <2>4
<1>2. Len(queue) \in Int /\ Queued(e) \subseteq 1..Len(queue)
  <2>1. queue \in Seq(Email)
    BY DEF TypeOK, ContentType
  <2> QED  BY <2>1, LenProperties DEF Queued
<1>3. IsFiniteSet(1..maxUid) /\ IsFiniteSet(1..Len(queue))
  BY <1>1, <1>2, FS_Interval
<1>4. IsFiniteSet(Holding(e)) /\ IsFiniteSet(Queued(e))
  BY <1>1, <1>2, <1>3, FS_Subset
<1>5. Cardinality(Holding(e)) \in Nat /\ Cardinality(Queued(e)) \in Nat
  BY <1>4, FS_CardinalityType
<1>6. away[e] \in Nat /\ refs[e] \in Int
  BY DEF TypeOK, ContentType
<1>7. Users(e) \in Nat /\ Waiting(e) \in Nat
  BY <1>5, <1>6 DEF Users, Waiting
<1> QED  BY <1>4, <1>5, <1>6, <1>7

\* A message more.
LEMMA HoldingAdded ==
    ASSUME TypeOK, exists # "cleaned", exists' # "cleaned", NEW u, u \notin Uids, Uids' = Uids \cup {u},
           \A v \in Uids : messages'[v].email = messages[v].email, NEW e \in Email
    PROVE  Cardinality(Holding(e)') = Cardinality(Holding(e)) + IF messages'[u].email = e THEN 1 ELSE 0
<1>1. Holding(e)' = IF messages'[u].email = e THEN Holding(e) \cup {u} ELSE Holding(e)
  BY DEF Holding
<1>2. u \notin Holding(e)
  BY DEF Holding
<1>3. IsFiniteSet(Holding(e)) /\ Cardinality(Holding(e)) \in Nat
  BY Counts
<1>4. Cardinality(Holding(e) \cup {u}) = Cardinality(Holding(e)) + 1
  BY <1>2, <1>3, FS_AddElement
<1> QED  BY <1>1, <1>3, <1>4

\* A message less.
LEMMA HoldingRemoved ==
    ASSUME TypeOK, exists # "cleaned", exists' # "cleaned", NEW u \in Uids, Uids' = Uids \ {u},
           \A v \in Uids' : messages'[v].email = messages[v].email, NEW e \in Email
    PROVE  Cardinality(Holding(e)') = Cardinality(Holding(e)) - IF messages[u].email = e THEN 1 ELSE 0
<1>1. Holding(e)' = IF messages[u].email = e THEN Holding(e) \ {u} ELSE Holding(e)
  BY DEF Holding
<1>2. messages[u].email = e => u \in Holding(e)
  BY DEF Holding
<1>3. IsFiniteSet(Holding(e)) /\ Cardinality(Holding(e)) \in Nat
  BY Counts
<1>4. u \in Holding(e) => Cardinality(Holding(e) \ {u}) = Cardinality(Holding(e)) - 1
  BY <1>3, FS_RemoveElement
<1> QED  BY <1>1, <1>2, <1>3, <1>4

\* The same messages.
LEMMA UsersSame ==
    ASSUME Uids' = Uids, \A u \in Uids : messages'[u].email = messages[u].email,
           exists' = "cleaned" <=> exists = "cleaned", away' = away, NEW e
    PROVE  Users(e)' = Users(e)
<1>1. Holding(e)' = Holding(e)
  BY DEF Holding
<1> QED  BY <1>1 DEF Users

\* An entry more, at the end of the queue.
LEMMA QueuedAdded ==
    ASSUME TypeOK, NEW x \in Email, queue' = Append(queue, x), NEW e \in Email
    PROVE  /\ queue' \in Seq(Email)
           /\ Cardinality(Queued(e)') = Cardinality(Queued(e)) + IF x = e THEN 1 ELSE 0
<1>1. queue \in Seq(Email)
  BY DEF TypeOK, ContentType
<1>2. /\ queue' \in Seq(Email) /\ Len(queue') = Len(queue) + 1 /\ Len(queue) \in Nat
      /\ \A i \in 1..Len(queue) : queue'[i] = queue[i]
      /\ queue'[Len(queue) + 1] = x
      /\ DOMAIN queue = 1..Len(queue) /\ DOMAIN queue' = 1..(Len(queue) + 1)
  BY <1>1, AppendProperties, LenProperties
<1>3. Queued(e)' = IF x = e THEN Queued(e) \cup {Len(queue) + 1} ELSE Queued(e)
  BY <1>2 DEF Queued
<1>4. Len(queue) + 1 \notin Queued(e)
  BY <1>2 DEF Queued
<1>5. IsFiniteSet(Queued(e)) /\ Cardinality(Queued(e)) \in Nat
  BY Counts
<1>6. Cardinality(Queued(e) \cup {Len(queue) + 1}) = Cardinality(Queued(e)) + 1
  BY <1>4, <1>5, FS_AddElement
<1> QED  BY <1>2, <1>3, <1>5, <1>6

\* An entry less, at the head of the queue: the others move up.
LEMMA QueuedTaken ==
    ASSUME TypeOK, queue # << >>, queue' = Tail(queue), NEW e \in Email
    PROVE  /\ queue' \in Seq(Email) /\ Head(queue) \in Email
           /\ Cardinality(Queued(e)') = Cardinality(Queued(e)) - IF Head(queue) = e THEN 1 ELSE 0
<1>1. queue \in Seq(Email)
  BY DEF TypeOK, ContentType
<1>2. /\ queue' \in Seq(Email) /\ Head(queue) \in Email /\ Len(queue) \in Nat \ {0}
      /\ Head(queue) = queue[1]
      /\ DOMAIN queue = 1..Len(queue) /\ DOMAIN queue' = 1..(Len(queue) - 1)
      /\ \A i \in 1..(Len(queue) - 1) : queue'[i] = queue[i + 1]
  <2>1. /\ queue' \in Seq(Email) /\ Head(queue) \in Email /\ Len(queue') = Len(queue) - 1
        /\ \A i \in 1..Len(queue') : queue'[i] = queue[i + 1]
    BY <1>1, HeadTailProperties
  <2>2. DOMAIN queue = 1..Len(queue) /\ DOMAIN queue' = 1..Len(queue') /\ Len(queue) \in Nat \ {0}
    BY <1>1, <2>1, LenProperties, EmptySeq
  <2> QED  BY <2>1, <2>2
<1> DEFINE rest == Queued(e) \ {1}
           up == [i \in rest |-> i - 1]
<1>3. up \in Bijection(rest, Queued(e)')
  <2>1. \A i \in rest : i \in Nat /\ i - 1 \in Queued(e)'
    BY <1>2 DEF Queued
  <2>2. \A i \in Queued(e)' : i \in Nat /\ i + 1 \in rest /\ (i + 1) - 1 = i
    BY <1>2 DEF Queued
  <2>3. up \in [rest -> Queued(e)']
    BY <2>1
  <2>4. \A i, j \in rest : up[i] = up[j] => i = j
    BY <2>1
  <2>5. \A i \in Queued(e)' : \E j \in rest : up[j] = i
    BY <2>2
  <2> HIDE DEF rest, up
  <2> QED  BY <2>3, <2>4, <2>5, Fun_IsBij
<1>4. IsFiniteSet(Queued(e)) /\ Cardinality(Queued(e)) \in Nat
  BY Counts
<1>5. /\ IsFiniteSet(rest)
      /\ Cardinality(rest) = IF 1 \in Queued(e) THEN Cardinality(Queued(e)) - 1 ELSE Cardinality(Queued(e))
  BY <1>4, FS_RemoveElement
<1>6. Cardinality(Queued(e)') = Cardinality(rest)
  <2> HIDE DEF rest, up
  <2> QED  BY <1>3, <1>5, FS_Bijection DEF ExistsBijection
<1>7. 1 \in Queued(e) <=> Head(queue) = e
  BY <1>2 DEF Queued
<1> QED  BY <1>2, <1>4, <1>5, <1>6, <1>7

-----------------------------------------------------------------------------
(* The steps. *)

\* A content is kept while a message has it.
LEMMA CountedKept == RedisInv => ContentKept
<1> SUFFICES ASSUME RedisInv, ~broken, NEW e \in Email
             PROVE  /\ refs[e] >= Users(e) + Waiting(e)
                    /\ crashes = 0 => refs[e] = Users(e) + Waiting(e)
                    /\ Users(e) > 0 => data[e] = "kept"
  BY DEF ContentKept
<1>1. Users(e) \in Nat /\ Waiting(e) \in Nat /\ refs[e] \in Int
  BY Counts DEF RedisInv
<1> QED  BY <1>1 DEF RedisInv, Counted

\* What a step that leaves the mailbox and the sessions alone keeps.
LEMMA BoxSame ==
    ASSUME RedisInv, UNCHANGED <<boxVars, sessVars, broken>>
    PROVE  /\ BoxType' /\ SessionType' /\ StreamOrdered' /\ IndexesAgree'
           /\ ~broken' => StreamTrue' /\ ViewTrue' /\ RecentUnclaimed' /\ ~broken
<1>1. Uids' = Uids /\ Change' = Change
  BY DEF boxVars, Uids, Change
<1>2. BoxType' /\ SessionType'
  BY <1>1 DEF RedisInv, TypeOK, BoxType, SessionType, boxVars, sessVars
<1>3. StreamOrdered' /\ IndexesAgree'
  BY <1>1 DEF RedisInv, StreamOrdered, IndexesAgree, boxVars, sessVars
<1>4. StreamTrue => StreamTrue'
  BY <1>1 DEF StreamTrue, boxVars
<1>5. ViewTrue => ViewTrue'
  BY <1>1 DEF ViewTrue, Reaches, Newer, boxVars, sessVars
<1>6. RecentUnclaimed => RecentUnclaimed'
  BY DEF RecentUnclaimed, boxVars, sessVars
<1> QED  BY <1>2, <1>3, <1>4, <1>5, <1>6 DEF RedisInv

\* A content that is referred to once more is kept.
LEMMA ReferencedKeeps ==
    ASSUME RedisInv, NEW email \in Email, Referenced(email)
    PROVE  /\ refs' \in [Email -> Int] /\ data' \in [Email -> {"none", "kept", "expires"}]
           /\ \A e \in Email : refs'[e] = refs[e] + IF e = email THEN 1 ELSE 0
           /\ ~broken => \A e \in Email : refs'[e] > 0 => data'[e] = "kept"
<1>1. refs \in [Email -> Int] /\ data \in [Email -> {"none", "kept", "expires"}]
  BY DEF RedisInv, TypeOK, ContentType
<1>2. refs' = [refs EXCEPT ![email] = @ + 1]
      /\ data' = IF refs'[email] = 1 THEN [data EXCEPT ![email] = "kept"] ELSE data
  BY DEF Referenced
<1>3. \A e \in Email : refs'[e] = refs[e] + IF e = email THEN 1 ELSE 0
  BY <1>1, <1>2
<1>4. refs' \in [Email -> Int] /\ data' \in [Email -> {"none", "kept", "expires"}]
  BY <1>1, <1>2
<1>5. ASSUME ~broken, NEW e \in Email, refs'[e] > 0 PROVE data'[e] = "kept"
  <2>1. Counted /\ TypeOK
    BY <1>5 DEF RedisInv
  <2>2. refs[e] > 0 => data[e] = "kept"
    BY <2>1 DEF Counted
  <2>3. refs[e] >= 0
    <3>1. Users(e) \in Nat /\ Waiting(e) \in Nat /\ refs[e] \in Int
      BY <2>1, Counts
    <3>2. refs[e] >= Users(e) + Waiting(e)
      BY <2>1 DEF Counted
    <3> QED  BY <3>1, <3>2
  <2>4. CASE e = email
    <3>1. refs'[e] = 1 \/ refs[e] > 0
      BY <1>1, <1>3, <2>3, <2>4
    <3> QED  BY <1>1, <1>2, <2>2, <2>4, <3>1
  <2>5. CASE e # email
    BY <1>1, <1>2, <1>3, <1>5, <2>2, <2>5
  <2> QED  BY <2>4, <2>5
<1> QED  BY <1>3, <1>4, <1>5

LEMMA ReferenceKeeps ==
    ASSUME RedisInv, NEW email \in Email, Reference(email)
    PROVE  /\ refs' \in [Email -> Int] /\ data' = data
           /\ \A e \in Email : refs'[e] = refs[e] + IF e = email THEN 1 ELSE 0
  BY DEF RedisInv, TypeOK, ContentType, Reference

\* The tasks and the queue are as they were.
LEMMA WaitingSame ==
    ASSUME UNCHANGED <<queue, task>>, NEW e
    PROVE  Waiting(e)' = Waiting(e)
  BY DEF Waiting, Queued

\* The messages with a content, after there is a new one.
LEMMA UsersAdded ==
    ASSUME TypeOK, exists = "named", exists' = "named", NEW u, u \notin Uids, Uids' = Uids \cup {u},
           \A v \in Uids : messages'[v] = messages[v], NEW e \in Email
    PROVE  Users(e)' = away'[e] + (Cardinality(Holding(e)) + IF messages'[u].email = e THEN 1 ELSE 0)
<1>1. Cardinality(Holding(e)') = Cardinality(Holding(e)) + IF messages'[u].email = e THEN 1 ELSE 0
  BY HoldingAdded
<1>2. Users(e)' = away'[e] + Cardinality(Holding(e)')
  BY DEF Users
<1> QED  BY <1>1, <1>2

\* The count of a content stays right when its references and what refers to it
\* change alike.
LEMMA CountedKeeps ==
    ASSUME RedisInv, Counted, crashes' = crashes,
           \A e \in Email : \E k \in Int : /\ refs'[e] = refs[e] + k
                                           /\ Users(e)' + Waiting(e)' = Users(e) + Waiting(e) + k,
           \A e \in Email : refs'[e] > 0 => data'[e] = "kept"
    PROVE  Counted'
<1> SUFFICES ASSUME NEW e \in Email
             PROVE  /\ refs'[e] >= Users(e)' + Waiting(e)'
                    /\ crashes' = 0 => refs'[e] = Users(e)' + Waiting(e)'
  BY DEF Counted
<1>1. PICK k \in Int : refs'[e] = refs[e] + k /\ Users(e)' + Waiting(e)' = Users(e) + Waiting(e) + k
  OBVIOUS
<1>2. Users(e) \in Nat /\ Waiting(e) \in Nat /\ refs[e] \in Int
  BY Counts DEF RedisInv
<1>3. refs[e] >= Users(e) + Waiting(e) /\ (crashes = 0 => refs[e] = Users(e) + Waiting(e))
  BY DEF Counted
<1> QED  BY <1>1, <1>2, <1>3

LEMMA AppendMessageStep ==
    ASSUME RedisInv, NEW email \in Email, NEW flag \in BOOLEAN, NEW isRecent \in BOOLEAN,
           AppendMessage(email, flag, isRecent)
    PROVE  RedisInv'
<1>1. PICK ok \in BOOLEAN : NewMessage(email, flag, isRecent, ok)
  BY DEF AppendMessage
<1>2. Referenced(email) /\ UNCHANGED <<exists, sessVars>> /\ UNCHANGED <<away, queue, task, crashes>>
  BY DEF AppendMessage, taskVars
<1>3. /\ BoxType' /\ SessionType' /\ StreamOrdered' /\ IndexesAgree'
      /\ ~broken' => StreamTrue' /\ ViewTrue' /\ RecentUnclaimed' /\ ~broken /\ ok /\ exists = "named"
      /\ maxUid + 1 \notin Uids /\ Uids' = Uids \cup {maxUid + 1}
      /\ messages'[maxUid + 1].email = email /\ \A u \in Uids : messages'[u] = messages[u]
  BY <1>1, <1>2, NewMessageKeeps
<1>4. /\ refs' \in [Email -> Int] /\ data' \in [Email -> {"none", "kept", "expires"}]
      /\ \A e \in Email : refs'[e] = refs[e] + IF e = email THEN 1 ELSE 0
      /\ ~broken => \A e \in Email : refs'[e] > 0 => data'[e] = "kept"
  BY <1>2, ReferencedKeeps
<1>5. ContentType'
  BY <1>2, <1>4 DEF RedisInv, TypeOK, ContentType
<1>6. ASSUME ~broken' PROVE Counted'
  <2>1. TypeOK /\ Counted /\ exists = "named" /\ exists' = "named"
    BY <1>2, <1>3, <1>6 DEF RedisInv
  <2>2. ASSUME NEW e \in Email
        PROVE  \E k \in Int : refs'[e] = refs[e] + k /\ Users(e)' + Waiting(e)' = Users(e) + Waiting(e) + k
    <3> DEFINE k == IF e = email THEN 1 ELSE 0
    <3>1. Users(e)' = away'[e] + (Cardinality(Holding(e)) + IF messages'[maxUid + 1].email = e THEN 1 ELSE 0)
      BY <1>3, <2>1, UsersAdded
    <3>2. Waiting(e)' = Waiting(e)
      BY <1>2, WaitingSame
    <3>3. Waiting(e) \in Nat /\ away[e] \in Nat /\ Cardinality(Holding(e)) \in Nat
      BY <2>1, Counts
    <3>4. Users(e)' + Waiting(e)' = Users(e) + Waiting(e) + k
      BY <1>2, <1>3, <3>1, <3>2, <3>3 DEF Users
    <3> QED  BY <1>4, <3>4
  <2> QED  BY <1>2, <1>3, <1>4, <1>6, <2>1, <2>2, CountedKeeps
<1> QED  BY <1>3, <1>5, <1>6 DEF RedisInv, TypeOK

LEMMA CopyInStep ==
    ASSUME RedisInv, NEW email \in Email, NEW flag \in BOOLEAN, NEW isRecent \in BOOLEAN,
           CopyIn(email, flag, isRecent)
    PROVE  RedisInv'
<1>1. PICK ok \in BOOLEAN : /\ NewMessage(email, flag, isRecent, ok)
                            /\ IF ok THEN Reference(email) ELSE UNCHANGED <<refs, data>>
  BY DEF CopyIn
<1>2. /\ \/ away[email] > 0
         \/ \E u \in Uids : messages[u] = [email |-> email, flag |-> flag]
      /\ UNCHANGED <<exists, sessVars>> /\ UNCHANGED <<away, queue, task, crashes>>
  BY DEF CopyIn, taskVars
<1>3. /\ BoxType' /\ SessionType' /\ StreamOrdered' /\ IndexesAgree'
      /\ ~broken' => StreamTrue' /\ ViewTrue' /\ RecentUnclaimed' /\ ~broken /\ ok /\ exists = "named"
      /\ maxUid + 1 \notin Uids /\ Uids' = Uids \cup {maxUid + 1}
      /\ messages'[maxUid + 1].email = email /\ \A u \in Uids : messages'[u] = messages[u]
  BY <1>1, <1>2, NewMessageKeeps
<1>4. /\ refs' \in [Email -> Int] /\ data' = data
      /\ ok => \A e \in Email : refs'[e] = refs[e] + IF e = email THEN 1 ELSE 0
  BY <1>1, ReferenceKeeps DEF RedisInv, TypeOK, ContentType
<1>5. ContentType'
  BY <1>2, <1>4 DEF RedisInv, TypeOK, ContentType
<1>6. ASSUME ~broken' PROVE Counted'
  <2>1. TypeOK /\ Counted /\ ok /\ exists = "named" /\ exists' = "named"
    BY <1>2, <1>3, <1>6 DEF RedisInv
  <2>2. ASSUME NEW e \in Email
        PROVE  \E k \in Int : refs'[e] = refs[e] + k /\ Users(e)' + Waiting(e)' = Users(e) + Waiting(e) + k
    <3> DEFINE k == IF e = email THEN 1 ELSE 0
    <3>1. Users(e)' = away'[e] + (Cardinality(Holding(e)) + IF messages'[maxUid + 1].email = e THEN 1 ELSE 0)
      BY <1>3, <2>1, UsersAdded
    <3>2. Waiting(e)' = Waiting(e)
      BY <1>2, WaitingSame
    <3>3. Waiting(e) \in Nat /\ away[e] \in Nat /\ Cardinality(Holding(e)) \in Nat
      BY <2>1, Counts
    <3>4. Users(e)' + Waiting(e)' = Users(e) + Waiting(e) + k
      BY <1>2, <1>3, <3>1, <3>2, <3>3 DEF Users
    <3> QED  BY <1>4, <2>1, <3>4
  <2>3. refs[email] > 0
    <3>1. Users(email) > 0
      <4>1. CASE away[email] > 0
        BY <2>1, <4>1, Counts DEF Users
      <4>2. CASE \E u \in Uids : messages[u] = [email |-> email, flag |-> flag]
        <5>1. Holding(email) # {}
          BY <2>1, <4>2 DEF Holding
        <5>2. Cardinality(Holding(email)) # 0 /\ Cardinality(Holding(email)) \in Nat /\ away[email] \in Nat
          BY <2>1, <5>1, Counts, FS_EmptySet
        <5> QED  BY <5>2 DEF Users
      <4> QED  BY <1>2, <4>1, <4>2
    <3>2. Users(email) \in Nat /\ Waiting(email) \in Nat /\ refs[email] \in Int
      BY <2>1, Counts
    <3>3. refs[email] >= Users(email) + Waiting(email)
      BY <2>1 DEF Counted
    <3> QED  BY <3>1, <3>2, <3>3
  <2>4. \A e \in Email : refs'[e] > 0 => data'[e] = "kept"
    <3>1. \A e \in Email : refs[e] > 0 => data[e] = "kept"
      BY <2>1 DEF Counted
    <3>2. \A e \in Email : e # email => refs'[e] = refs[e]
      BY <1>4, <2>1 DEF TypeOK, ContentType
    <3> QED  BY <1>4, <2>3, <3>1, <3>2
  <2> QED  BY <1>2, <2>1, <2>2, <2>4, CountedKeeps
<1> QED  BY <1>3, <1>5, <1>6 DEF RedisInv, TypeOK

LEMMA MoveInStep ==
    ASSUME RedisInv, NEW email \in Email, NEW flag \in BOOLEAN, NEW isRecent \in BOOLEAN,
           MoveIn(email, flag, isRecent)
    PROVE  RedisInv'
<1>1. PICK ok \in BOOLEAN : NewMessage(email, flag, isRecent, ok)
  BY DEF MoveIn
<1>2. /\ away[email] > 0 /\ away' = [away EXCEPT ![email] = @ - 1]
      /\ UNCHANGED <<exists, sessVars>> /\ UNCHANGED <<refs, data, queue, task, crashes>>
  BY DEF MoveIn, taskVars
<1>3. /\ BoxType' /\ SessionType' /\ StreamOrdered' /\ IndexesAgree'
      /\ ~broken' => StreamTrue' /\ ViewTrue' /\ RecentUnclaimed' /\ ~broken /\ ok /\ exists = "named"
      /\ maxUid + 1 \notin Uids /\ Uids' = Uids \cup {maxUid + 1}
      /\ messages'[maxUid + 1].email = email /\ \A u \in Uids : messages'[u] = messages[u]
  BY <1>1, <1>2, NewMessageKeeps
<1>4. away \in [Email -> Nat]
  BY DEF RedisInv, TypeOK, ContentType
<1>5. away' \in [Email -> Nat] /\ \A e \in Email : away'[e] = away[e] - IF e = email THEN 1 ELSE 0
  BY <1>2, <1>4
<1>6. ContentType'
  BY <1>2, <1>5 DEF RedisInv, TypeOK, ContentType
<1>7. ASSUME ~broken' PROVE Counted'
  <2>1. TypeOK /\ Counted /\ exists = "named" /\ exists' = "named"
    BY <1>2, <1>3, <1>7 DEF RedisInv
  <2>2. ASSUME NEW e \in Email
        PROVE  \E k \in Int : refs'[e] = refs[e] + k /\ Users(e)' + Waiting(e)' = Users(e) + Waiting(e) + k
    <3>1. Users(e)' = away'[e] + (Cardinality(Holding(e)) + IF messages'[maxUid + 1].email = e THEN 1 ELSE 0)
      BY <1>3, <2>1, UsersAdded
    <3>2. Waiting(e)' = Waiting(e)
      BY <1>2, WaitingSame
    <3>3. Waiting(e) \in Nat /\ away[e] \in Nat /\ Cardinality(Holding(e)) \in Nat /\ refs[e] \in Int
      BY <2>1, Counts
    <3>4. Users(e)' + Waiting(e)' = Users(e) + Waiting(e) + 0 /\ refs'[e] = refs[e] + 0
      BY <1>2, <1>3, <1>5, <3>1, <3>2, <3>3 DEF Users
    <3> QED  BY <3>4
  <2>3. \A e \in Email : refs'[e] > 0 => data'[e] = "kept"
    BY <1>2, <2>1 DEF Counted
  <2> QED  BY <1>2, <2>1, <2>2, <2>3, CountedKeeps
<1> QED  BY <1>3, <1>6, <1>7 DEF RedisInv, TypeOK

LEMMA AppendAwayStep ==
    ASSUME RedisInv, NEW email \in Email, AppendAway(email)
    PROVE  RedisInv'
<1>1. /\ away' = [away EXCEPT ![email] = @ + 1] /\ Referenced(email)
      /\ UNCHANGED <<boxVars, sessVars, broken>> /\ UNCHANGED <<exists, queue, task, crashes>>
  BY DEF AppendAway, taskVars
<1>2. /\ BoxType' /\ SessionType' /\ StreamOrdered' /\ IndexesAgree'
      /\ ~broken' => StreamTrue' /\ ViewTrue' /\ RecentUnclaimed' /\ ~broken
  BY <1>1, BoxSame
<1>3. away \in [Email -> Nat]
  BY DEF RedisInv, TypeOK, ContentType
<1>4. away' \in [Email -> Nat] /\ \A e \in Email : away'[e] = away[e] + IF e = email THEN 1 ELSE 0
  BY <1>1, <1>3
<1>5. /\ refs' \in [Email -> Int] /\ data' \in [Email -> {"none", "kept", "expires"}]
      /\ \A e \in Email : refs'[e] = refs[e] + IF e = email THEN 1 ELSE 0
      /\ ~broken => \A e \in Email : refs'[e] > 0 => data'[e] = "kept"
  BY <1>1, ReferencedKeeps
<1>6. ContentType'
  BY <1>1, <1>4, <1>5 DEF RedisInv, TypeOK, ContentType
<1>7. ASSUME ~broken' PROVE Counted'
  <2>1. TypeOK /\ Counted
    BY <1>2, <1>7 DEF RedisInv
  <2>2. ASSUME NEW e \in Email
        PROVE  \E k \in Int : refs'[e] = refs[e] + k /\ Users(e)' + Waiting(e)' = Users(e) + Waiting(e) + k
    <3> DEFINE k == IF e = email THEN 1 ELSE 0
    <3>1. Holding(e)' = Holding(e)
      BY <1>1 DEF Holding, Uids, boxVars
    <3>2. Waiting(e)' = Waiting(e)
      BY <1>1, WaitingSame
    <3>3. Waiting(e) \in Nat /\ away[e] \in Nat /\ Cardinality(Holding(e)) \in Nat
      BY <2>1, Counts
    <3>4. Users(e)' + Waiting(e)' = Users(e) + Waiting(e) + k
      BY <1>4, <3>1, <3>2, <3>3 DEF Users
    <3> QED  BY <1>5, <3>4
  <2> QED  BY <1>1, <1>2, <1>5, <1>7, <2>1, <2>2, CountedKeeps
<1> QED  BY <1>2, <1>6, <1>7 DEF RedisInv, TypeOK

\* The content of a message is referred to.
LEMMA MessageRefers ==
    ASSUME RedisInv, ~broken, exists = "named", NEW u \in Uids
    PROVE  messages[u].email \in Email /\ refs[messages[u].email] > 0
<1> DEFINE email == messages[u].email
<1>1. email \in Email
  BY DEF RedisInv, TypeOK, BoxType
<1>2. Holding(email) # {}
  BY DEF Holding
<1> HIDE DEF email
<1>3. /\ Cardinality(Holding(email)) # 0 /\ Cardinality(Holding(email)) \in Nat /\ away[email] \in Nat
      /\ Waiting(email) \in Nat /\ refs[email] \in Int
  BY <1>1, <1>2, Counts, FS_EmptySet DEF RedisInv
<1>4. refs[email] >= Users(email) + Waiting(email)
  BY <1>1 DEF RedisInv, Counted
<1> QED  BY <1>1, <1>3, <1>4 DEF Users, email

LEMMA CopyOutStep ==
    ASSUME RedisInv, NEW u, CopyOut(u)
    PROVE  RedisInv'
<1> DEFINE email == messages[u].email
<1>1. /\ u \in Uids /\ away' = [away EXCEPT ![email] = @ + 1] /\ Reference(email) /\ Broken(TRUE)
      /\ UNCHANGED <<boxVars, sessVars>> /\ UNCHANGED <<exists, queue, task, crashes>>
  BY DEF CopyOut, taskVars
<1>2. TypeOK /\ away \in [Email -> Nat] /\ email \in Email /\ broken \in BOOLEAN
  BY <1>1 DEF RedisInv, TypeOK, ContentType, BoxType
<1> HIDE DEF email
<1>3. broken' \in BOOLEAN /\ (~broken' => ~broken /\ exists = "named")
  BY <1>1, <1>2 DEF Broken
<1>4. /\ Uids' = Uids /\ Change' = Change
      /\ messages' = messages /\ maxUid' = maxUid /\ recent' = recent /\ deleted' = deleted
      /\ changes' = changes /\ lastId' = lastId /\ maxModSeq' = maxModSeq
      /\ modSeq' = modSeq /\ view' = view /\ sessionRecent' = sessionRecent
  BY <1>1 DEF boxVars, sessVars, Uids, Change
<1>5. BoxType' /\ SessionType' /\ StreamOrdered'
  BY <1>3, <1>4 DEF RedisInv, TypeOK, BoxType, SessionType, StreamOrdered
<1>6. ASSUME ~broken' PROVE StreamTrue' /\ ViewTrue' /\ RecentUnclaimed'
  <2>1. StreamTrue /\ ViewTrue /\ RecentUnclaimed
    BY <1>3, <1>6 DEF RedisInv
  <2> QED  BY <1>4, <2>1 DEF StreamTrue, ViewTrue, RecentUnclaimed, Reaches, Newer
<1>7. IndexesAgree'
  BY <1>3, <1>4 DEF RedisInv, IndexesAgree
<1>8. away' \in [Email -> Nat] /\ \A e \in Email : away'[e] = away[e] + IF e = email THEN 1 ELSE 0
  BY <1>1, <1>2
<1>9. /\ refs' \in [Email -> Int] /\ data' = data
      /\ \A e \in Email : refs'[e] = refs[e] + IF e = email THEN 1 ELSE 0
  BY <1>1, <1>2, ReferenceKeeps
<1>10. ContentType'
  BY <1>1, <1>8, <1>9 DEF RedisInv, TypeOK, ContentType
<1>11. ASSUME ~broken' PROVE Counted'
  <2>1. Counted /\ exists = "named"
    BY <1>3, <1>11 DEF RedisInv
  <2>2. ASSUME NEW e \in Email
        PROVE  \E k \in Int : refs'[e] = refs[e] + k /\ Users(e)' + Waiting(e)' = Users(e) + Waiting(e) + k
    <3> DEFINE k == IF e = email THEN 1 ELSE 0
    <3>1. Holding(e)' = Holding(e)
      BY <1>1, <1>4 DEF Holding
    <3>2. Waiting(e)' = Waiting(e)
      BY <1>1, WaitingSame
    <3>3. Waiting(e) \in Nat /\ away[e] \in Nat /\ Cardinality(Holding(e)) \in Nat
      BY <1>2, Counts
    <3>4. Users(e)' + Waiting(e)' = Users(e) + Waiting(e) + k
      BY <1>8, <3>1, <3>2, <3>3 DEF Users
    <3> QED  BY <1>9, <3>4
  <2>3. refs[email] > 0
    BY <1>1, <1>3, <1>11, <2>1, MessageRefers DEF email
  <2>4. \A e \in Email : refs'[e] > 0 => data'[e] = "kept"
    <3>1. \A e \in Email : refs[e] > 0 => data[e] = "kept"
      BY <2>1 DEF Counted
    <3>2. \A e \in Email : e # email => refs'[e] = refs[e]
      BY <1>2, <1>9 DEF TypeOK, ContentType
    <3> QED  BY <1>9, <2>3, <3>1, <3>2
  <2> QED  BY <1>1, <2>1, <2>2, <2>4, CountedKeeps
<1> QED  BY <1>5, <1>6, <1>7, <1>10, <1>11 DEF RedisInv, TypeOK

\* A message is gone, from the indexes too.
LEMMA ForgetKeeps ==
    ASSUME TypeOK, NEW u, Forget({u}), maxUid' = maxUid
    PROVE  /\ Uids' = Uids \ {u} /\ Uids' \subseteq 1..maxUid' /\ \A v \in Uids' : messages'[v] = messages[v]
           /\ messages' \in [Uids' -> [email : Email, flag : BOOLEAN]]
           /\ recent' = recent \ {u} /\ deleted' = deleted \ {u}
           /\ recent' \subseteq 1..maxUid' /\ deleted' \subseteq 1..maxUid'
<1>1. messages' = [v \in Uids \ {u} |-> messages[v]]
  BY DEF Forget, Restrict
<1>2. Uids' = Uids \ {u}
  BY <1>1 DEF Uids
<1> QED  BY <1>1, <1>2 DEF TypeOK, BoxType, Forget

\* What the indexes and the marks keep when a message is gone.
LEMMA ForgetIndexes ==
    ASSUME RedisInv, ~broken, NEW u, Forget({u}), maxUid' = maxUid, UNCHANGED sessVars
    PROVE  IndexesAgree' /\ RecentUnclaimed'
<1>1. /\ Uids' = Uids \ {u} /\ \A v \in Uids' : messages'[v] = messages[v]
      /\ recent' = recent \ {u} /\ deleted' = deleted \ {u}
  BY ForgetKeeps DEF RedisInv
<1>2. IndexesAgree /\ RecentUnclaimed /\ sessionRecent' = sessionRecent
  BY DEF RedisInv, sessVars
<1>3. deleted' = {v \in Uids' : messages'[v].flag}
  BY <1>1, <1>2 DEF IndexesAgree
<1> QED  BY <1>1, <1>2, <1>3 DEF IndexesAgree, RecentUnclaimed

\* The messages with a content, after one is gone.
LEMMA UsersRemoved ==
    ASSUME TypeOK, exists = "named", exists' = "named", NEW u \in Uids, Uids' = Uids \ {u},
           \A v \in Uids' : messages'[v] = messages[v], NEW e \in Email
    PROVE  Users(e)' = away'[e] + (Cardinality(Holding(e)) - IF messages[u].email = e THEN 1 ELSE 0)
<1>1. Cardinality(Holding(e)') = Cardinality(Holding(e)) - IF messages[u].email = e THEN 1 ELSE 0
  BY HoldingRemoved
<1>2. Users(e)' = away'[e] + Cardinality(Holding(e)')
  BY DEF Users
<1> QED  BY <1>1, <1>2

LEMMA MoveOutStep ==
    ASSUME RedisInv, NEW u, MoveOut(u)
    PROVE  RedisInv'
<1> DEFINE email == messages[u].email
           now == IF lastId < Clock THEN Clock ELSE lastId + 1
           change == [id |-> now, uid |-> u, kind |-> "expunge", flag |-> FALSE]
<1>1. /\ u \in Uids /\ away' = [away EXCEPT ![email] = @ + 1] /\ Forget({u}) /\ Xadd(change) /\ Broken(TRUE)
      /\ UNCHANGED <<maxUid, maxModSeq, exists, refs, data, queue, task, crashes>> /\ UNCHANGED sessVars
  BY DEF MoveOut, taskVars
<1>2. /\ TypeOK /\ StreamOrdered /\ lastId \in Nat /\ maxUid \in Nat /\ maxModSeq \in Nat /\ broken \in BOOLEAN
      /\ away \in [Email -> Nat] /\ email \in Email /\ u \in 1..maxUid
  BY <1>1 DEF RedisInv, TypeOK, ContentType, BoxType
<1>3. change.id \in Nat \ {0} /\ change.id > lastId /\ change.uid = u /\ change.kind = "expunge"
  BY <1>2 DEF Clock
<1>4. change \in Change' /\ Change' = Change
  BY <1>1, <1>2, <1>3 DEF Change
<1>5. broken' \in BOOLEAN /\ (~broken' => ~broken /\ exists = "named")
  BY <1>1, <1>2 DEF Broken
<1>6. /\ Uids' = Uids \ {u} /\ Uids' \subseteq 1..maxUid' /\ \A v \in Uids' : messages'[v] = messages[v]
      /\ messages' \in [Uids' -> [email : Email, flag : BOOLEAN]]
      /\ recent' \subseteq 1..maxUid' /\ deleted' \subseteq 1..maxUid'
  BY <1>1, <1>2, ForgetKeeps
<1> HIDE DEF email, change
<1>7. changes' \in Seq(Change') /\ lastId' \in Nat
  <2>1. changes' \in Seq(Change \cup {change}) /\ lastId' = change.id
    BY <1>1, <1>2, XaddShifts
  <2>2. Change \cup {change} \subseteq Change'
    BY <1>4
  <2> QED  BY <1>3, <2>1, <2>2, SeqMonotonic
<1>8. BoxType'
  BY <1>1, <1>2, <1>5, <1>6, <1>7 DEF BoxType
<1>9. SessionType'
  BY <1>1, <1>2, SessionsTyped
<1>10. StreamOrdered'
  <2>1. modSeq' = modSeq
    BY <1>1 DEF sessVars
  <2> QED  BY <1>1, <1>2, <1>3, <2>1, XaddOrders
<1>11. ASSUME ~broken' PROVE StreamTrue' /\ ViewTrue'
  <2>1. \A v \in 1..maxUid' \ {u} : (v \in Uids' <=> v \in Uids) /\ (v \in Uids => messages'[v].flag = messages[v].flag)
    BY <1>6
  <2>2. Logged(change)
    BY <1>1, <1>2, <1>3, <1>6, <2>1 DEF Logged, sessVars
  <2> QED  BY <1>5, <1>11, <2>2, LoggedStreamTrue, LoggedViewTrue DEF RedisInv
<1>12. IndexesAgree' /\ (~broken' => RecentUnclaimed')
  <2>1. CASE broken'
    BY <2>1 DEF IndexesAgree
  <2>2. CASE ~broken'
    BY <1>1, <1>5, <2>2, ForgetIndexes
  <2> QED  BY <2>1, <2>2
<1>13. away' \in [Email -> Nat] /\ \A e \in Email : away'[e] = away[e] + IF e = email THEN 1 ELSE 0
  BY <1>1, <1>2
<1>14. ContentType'
  BY <1>1, <1>13 DEF RedisInv, TypeOK, ContentType
<1>15. ASSUME ~broken' PROVE Counted'
  <2>1. Counted /\ exists = "named" /\ exists' = "named"
    BY <1>1, <1>5, <1>15 DEF RedisInv
  <2>2. ASSUME NEW e \in Email
        PROVE  \E k \in Int : refs'[e] = refs[e] + k /\ Users(e)' + Waiting(e)' = Users(e) + Waiting(e) + k
    <3>1. Users(e)' = away'[e] + (Cardinality(Holding(e)) - IF email = e THEN 1 ELSE 0)
      BY <1>1, <1>2, <1>6, <2>1, UsersRemoved DEF email
    <3>2. Waiting(e)' = Waiting(e)
      BY <1>1, WaitingSame
    <3>3. Waiting(e) \in Nat /\ away[e] \in Nat /\ Cardinality(Holding(e)) \in Nat /\ refs[e] \in Int
      BY <1>2, Counts
    <3>4. Users(e)' + Waiting(e)' = Users(e) + Waiting(e) + 0 /\ refs'[e] = refs[e] + 0
      BY <1>1, <1>13, <3>1, <3>2, <3>3 DEF Users
    <3> QED  BY <3>4
  <2>3. \A e \in Email : refs'[e] > 0 => data'[e] = "kept"
    BY <1>1, <2>1 DEF Counted
  <2> QED  BY <1>1, <2>1, <2>2, <2>3, CountedKeeps
<1> QED  BY <1>8, <1>9, <1>10, <1>11, <1>12, <1>14, <1>15 DEF RedisInv, TypeOK

LEMMA UpdateStep ==
    ASSUME RedisInv, NEW u, NEW flag \in BOOLEAN, Update(u, flag)
    PROVE  RedisInv'
<1>1. PICK ok \in BOOLEAN : Changed(u, "fetch", flag, ok) /\ Broken(ok)
  BY DEF Update
<1>2. /\ u \in Uids /\ messages' = [messages EXCEPT ![u].flag = flag]
      /\ deleted' = IF flag THEN deleted \cup {u} ELSE deleted \ {u}
      /\ UNCHANGED <<maxUid, recent, exists, queue, task, crashes>> /\ UNCHANGED contVars /\ UNCHANGED sessVars
  BY DEF Update, taskVars
<1>3. /\ TypeOK /\ maxUid \in Nat /\ broken \in BOOLEAN /\ u \in 1..maxUid
      /\ messages \in [Uids -> [email : Email, flag : BOOLEAN]] /\ Uids \subseteq 1..maxUid
      /\ recent \subseteq 1..maxUid /\ deleted \subseteq 1..maxUid
  BY <1>2 DEF RedisInv, TypeOK, BoxType
<1>4. broken' \in BOOLEAN /\ (~broken' => ~broken /\ ok /\ exists = "named")
  BY <1>1, <1>3 DEF Broken
<1>5. /\ Uids' = Uids /\ messages' \in [Uids' -> [email : Email, flag : BOOLEAN]]
      /\ \A v \in Uids : messages'[v].email = messages[v].email
      /\ \A v \in Uids \ {u} : messages'[v].flag = messages[v].flag
      /\ messages'[u].flag = flag
  BY <1>2, <1>3 DEF Uids
<1>6. modSeq' = modSeq /\ view' = view /\ sessionRecent' = sessionRecent
  BY <1>2 DEF sessVars
<1>7. /\ maxModSeq' \in Nat /\ lastId' \in Nat /\ changes' \in Seq(Change') /\ StreamOrdered'
      /\ ok => \E change : /\ Xadd(change) /\ change.id \in Nat /\ change.id > lastId
                           /\ change.uid = u /\ change.kind = "fetch" /\ change.flag = flag
  <2>1. maxUid' = maxUid /\ maxUid' \in Nat /\ u \in 1..maxUid' /\ maxUid <= maxUid' /\ "fetch" \in {"fetch", "expunge"}
    BY <1>2, <1>3
  <2> QED  BY <1>1, <1>3, <1>6, <2>1, ChangedKeeps
<1>8. BoxType'
  BY <1>2, <1>3, <1>4, <1>5, <1>7 DEF BoxType
<1>9. SessionType'
  BY <1>2, <1>3, SessionsTyped
<1>10. ASSUME ~broken' PROVE StreamTrue' /\ ViewTrue'
  <2>1. PICK change : /\ Xadd(change) /\ change.id \in Nat /\ change.id > lastId
                      /\ change.uid = u /\ change.kind = "fetch" /\ change.flag = flag
    BY <1>4, <1>7, <1>10
  <2>2. Logged(change)
    BY <1>2, <1>3, <1>5, <1>6, <2>1 DEF Logged
  <2> QED  BY <1>4, <1>10, <2>2, LoggedStreamTrue, LoggedViewTrue DEF RedisInv
<1>11. ASSUME ~broken'
       PROVE  /\ deleted' = {v \in Uids' : messages'[v].flag} /\ recent' \subseteq Uids'
              /\ RecentUnclaimed'
              /\ \A s, t \in Session : s # t => sessionRecent'[s] \cap sessionRecent'[t] = {}
  <2>1. /\ deleted = {v \in Uids : messages[v].flag} /\ recent \subseteq Uids /\ RecentUnclaimed
        /\ \A s, t \in Session : s # t => sessionRecent[s] \cap sessionRecent[t] = {}
    BY <1>4, <1>11 DEF RedisInv, IndexesAgree
  <2>2. CASE flag
    BY <1>2, <1>5, <1>6, <2>1, <2>2 DEF RecentUnclaimed
  <2>3. CASE ~flag
    BY <1>2, <1>5, <1>6, <2>1, <2>3 DEF RecentUnclaimed
  <2> QED  BY <2>2, <2>3
<1>12. IndexesAgree'
  BY <1>11 DEF IndexesAgree
<1>13. ContentType'
  BY <1>2 DEF RedisInv, TypeOK, ContentType, contVars
<1>14. ASSUME ~broken' PROVE Counted'
  <2>1. Counted
    BY <1>4, <1>14 DEF RedisInv
  <2>2. ASSUME NEW e \in Email PROVE Users(e)' = Users(e) /\ Waiting(e)' = Waiting(e)
    BY <1>2, <1>5, UsersSame, WaitingSame DEF contVars
  <2> QED  BY <1>2, <2>1, <2>2 DEF Counted, contVars
<1> QED  BY <1>7, <1>8, <1>9, <1>10, <1>11, <1>12, <1>13, <1>14 DEF RedisInv, TypeOK

LEMMA ExpungeStep ==
    ASSUME RedisInv, NEW u, Expunge(u)
    PROVE  RedisInv'
<1>1. PICK ok \in BOOLEAN : /\ Changed(u, "expunge", FALSE, ok) /\ Broken(ok)
                            /\ queue' = IF ok /\ u \in Uids THEN Append(queue, messages[u].email) ELSE queue
  BY DEF Expunge
<1>2. /\ Forget({u}) /\ UNCHANGED <<maxUid, exists, task, crashes>> /\ UNCHANGED contVars /\ UNCHANGED sessVars
      /\ u \in deleted \cup UNION {{v \in DOMAIN view[s] : view[s][v]} : s \in Session}
  BY DEF Expunge
<1>3. TypeOK /\ maxUid \in Nat /\ broken \in BOOLEAN /\ u \in 1..maxUid /\ queue \in Seq(Email)
  <2>1. deleted \subseteq 1..maxUid /\ \A s \in Session : DOMAIN view[s] \subseteq 1..maxUid
    BY DEF RedisInv, TypeOK, BoxType, SessionType
  <2>2. u \in 1..maxUid
    BY <1>2, <2>1
  <2> QED  BY <2>2 DEF RedisInv, TypeOK, BoxType, ContentType
<1>4. broken' \in BOOLEAN /\ (~broken' => ~broken /\ ok /\ exists = "named")
  BY <1>1, <1>3 DEF Broken
<1>5. /\ Uids' = Uids \ {u} /\ Uids' \subseteq 1..maxUid' /\ \A v \in Uids' : messages'[v] = messages[v]
      /\ messages' \in [Uids' -> [email : Email, flag : BOOLEAN]]
      /\ recent' \subseteq 1..maxUid' /\ deleted' \subseteq 1..maxUid'
  BY <1>2, <1>3, ForgetKeeps
<1>6. modSeq' = modSeq /\ view' = view
  BY <1>2 DEF sessVars
<1>7. /\ maxModSeq' \in Nat /\ lastId' \in Nat /\ changes' \in Seq(Change') /\ StreamOrdered'
      /\ ok => \E change : /\ Xadd(change) /\ change.id \in Nat /\ change.id > lastId
                           /\ change.uid = u /\ change.kind = "expunge" /\ change.flag = FALSE
  <2>1. maxUid' = maxUid /\ maxUid' \in Nat /\ u \in 1..maxUid' /\ maxUid <= maxUid' /\ "expunge" \in {"fetch", "expunge"}
    BY <1>2, <1>3
  <2> QED  BY <1>1, <1>3, <1>6, <2>1, ChangedKeeps
<1>8. BoxType'
  BY <1>2, <1>3, <1>4, <1>5, <1>7 DEF BoxType
<1>9. SessionType'
  BY <1>2, <1>3, SessionsTyped
<1>10. ASSUME ~broken' PROVE StreamTrue' /\ ViewTrue'
  <2>1. PICK change : /\ Xadd(change) /\ change.id \in Nat /\ change.id > lastId
                      /\ change.uid = u /\ change.kind = "expunge" /\ change.flag = FALSE
    BY <1>4, <1>7, <1>10
  <2>2. Logged(change)
    BY <1>2, <1>3, <1>5, <1>6, <2>1 DEF Logged
  <2> QED  BY <1>4, <1>10, <2>2, LoggedStreamTrue, LoggedViewTrue DEF RedisInv
<1>11. IndexesAgree' /\ (~broken' => RecentUnclaimed')
  <2>1. CASE broken'
    BY <2>1 DEF IndexesAgree
  <2>2. CASE ~broken'
    BY <1>2, <1>4, <2>2, ForgetIndexes
  <2> QED  BY <2>1, <2>2
<1>12. u \in Uids => messages[u].email \in Email
  BY <1>3 DEF TypeOK, BoxType
<1>13. queue' \in Seq(Email)
  BY <1>1, <1>3, <1>12, QueuedAdded
<1>14. ContentType'
  BY <1>2, <1>13 DEF RedisInv, TypeOK, ContentType, contVars
<1>15. ASSUME ~broken' PROVE Counted'
  <2>1. Counted /\ ok /\ exists = "named" /\ exists' = "named"
    BY <1>2, <1>4, <1>15 DEF RedisInv
  <2>2. ASSUME NEW e \in Email
        PROVE  \E k \in Int : refs'[e] = refs[e] + k /\ Users(e)' + Waiting(e)' = Users(e) + Waiting(e) + k
    <3>1. /\ Waiting(e) \in Nat /\ away[e] \in Nat /\ Cardinality(Holding(e)) \in Nat /\ refs[e] \in Int
          /\ Cardinality(Queued(e)) \in Nat /\ Users(e) \in Nat
      BY <1>3, Counts
    <3>2. CASE u \in Uids
      <4>1. Users(e)' = away'[e] + (Cardinality(Holding(e)) - IF messages[u].email = e THEN 1 ELSE 0)
        BY <1>3, <1>5, <2>1, <3>2, UsersRemoved
      <4>2. Cardinality(Queued(e)') = Cardinality(Queued(e)) + IF messages[u].email = e THEN 1 ELSE 0
        BY <1>1, <1>3, <1>12, <2>1, <3>2, QueuedAdded
      <4>3. Users(e)' + Waiting(e)' = Users(e) + Waiting(e) + 0 /\ refs'[e] = refs[e] + 0
        BY <1>2, <3>1, <4>1, <4>2 DEF Users, Waiting, contVars
      <4> QED  BY <4>3
    <3>3. CASE u \notin Uids
      <4>1. Uids' = Uids /\ queue' = queue
        BY <1>1, <1>5, <3>3
      <4>2. Users(e)' = Users(e) /\ Waiting(e)' = Waiting(e)
        BY <1>2, <1>5, <4>1, UsersSame, WaitingSame DEF contVars
      <4>3. Users(e)' + Waiting(e)' = Users(e) + Waiting(e) + 0 /\ refs'[e] = refs[e] + 0
        BY <1>2, <3>1, <4>2 DEF contVars
      <4> QED  BY <4>3
    <3> QED  BY <3>2, <3>3
  <2>3. \A e \in Email : refs'[e] > 0 => data'[e] = "kept"
    BY <1>2, <2>1 DEF Counted, contVars
  <2> QED  BY <1>2, <2>1, <2>2, <2>3, CountedKeeps
<1> QED  BY <1>7, <1>8, <1>9, <1>10, <1>11, <1>14, <1>15 DEF RedisInv, TypeOK

\* The contents of all messages at the end of the queue, in any order.
LEMMA QueuedAll ==
    ASSUME TypeOK, exists # "cleaned", NEW order \in SetToSeqs(Uids),
           queue' = queue \o [i \in DOMAIN order |-> messages[order[i]].email], NEW e \in Email
    PROVE  /\ queue' \in Seq(Email)
           /\ Cardinality(Queued(e)') = Cardinality(Queued(e)) + Cardinality(Holding(e))
<1> DEFINE n == Cardinality(Uids)
           more == [i \in DOMAIN order |-> messages[order[i]].email]
           L == Len(queue)
           added == {j \in (L + 1)..(L + n) : more[j - L] = e}
           to == [j \in added |-> order[j - L]]
<1>1. queue \in Seq(Email) /\ L \in Nat /\ DOMAIN queue = 1..L
  <2>1. queue \in Seq(Email)
    BY DEF TypeOK, ContentType
  <2> QED  BY <2>1, LenProperties
<1>2. IsFiniteSet(Uids) /\ n \in Nat
  <2>1. maxUid \in Int /\ Uids \subseteq 1..maxUid
    BY DEF TypeOK, BoxType
  <2>2. IsFiniteSet(1..maxUid)
    BY <2>1, FS_Interval
  <2>3. IsFiniteSet(Uids)
    BY <2>1, <2>2, FS_Subset
  <2> QED  BY <2>3, FS_CardinalityType
<1>3. order \in [1..n -> Uids] /\ \A i, j \in 1..n : i # j => order[i] # order[j]
  BY DEF SetToSeqs
<1>4. \A u \in Uids : \E i \in 1..n : order[i] = u
  <2>1. order \in Injection(1..n, Uids)
    BY <1>3 DEF Injection, IsInjective
  <2>2. Cardinality(1..n) = n
    BY <1>2, FS_Interval
  <2>3. order \in Surjection(1..n, Uids)
    BY <1>2, <2>1, <2>2, FS_Injection
  <2> QED  BY <2>3 DEF Surjection
<1>5. /\ more \in [1..n -> Email] /\ DOMAIN more = 1..n
      /\ \A i \in 1..n : more[i] = messages[order[i]].email /\ order[i] \in Uids
  <2>1. \A u \in Uids : messages[u].email \in Email
    BY DEF TypeOK, BoxType
  <2> QED  BY <1>3, <2>1
<1>6. more \in Seq(Email) /\ Len(more) = n
  <2> HIDE DEF n, more
  <2>1. more \in Seq(Email)
    BY <1>2, <1>5
  <2>2. DOMAIN more = 1..Len(more) /\ Len(more) \in Nat
    BY <2>1, LenProperties
  <2> QED  BY <1>2, <1>5, <2>1, <2>2
<1> HIDE DEF more, n, L
<1>7. /\ queue' \in Seq(Email) /\ Len(queue') = L + n /\ DOMAIN queue' = 1..(L + n)
      /\ \A i \in 1..(L + n) : queue'[i] = IF i <= L THEN queue[i] ELSE more[i - L]
  <2>1. queue' = queue \o more
    BY DEF more
  <2> HIDE DEF added, to
  <2>2. /\ queue \o more \in Seq(Email) /\ Len(queue \o more) = Len(queue) + Len(more)
        /\ \A i \in 1..(Len(queue) + Len(more)) :
              (queue \o more)[i] = IF i <= Len(queue) THEN queue[i] ELSE more[i - Len(queue)]
    BY <1>1, <1>6, ConcatProperties
  <2>3. queue' \in Seq(Email) /\ Len(queue') = L + n
        /\ \A i \in 1..(L + n) : queue'[i] = IF i <= L THEN queue[i] ELSE more[i - L]
    BY <1>6, <2>1, <2>2 DEF L
  <2> QED  BY <2>3, LenProperties
<1>8. Queued(e)' = Queued(e) \cup added /\ Queued(e) \cap added = {}
  BY <1>1, <1>2, <1>7 DEF Queued
<1>9. to \in Bijection(added, Holding(e))
  <2>1. \A j \in added : j - L \in 1..n /\ order[j - L] \in Holding(e)
    BY <1>1, <1>2, <1>5 DEF Holding
  <2>2. \A u \in Holding(e) : \E j \in added : to[j] = u
    <3> SUFFICES ASSUME NEW u \in Holding(e) PROVE \E j \in added : to[j] = u
      OBVIOUS
    <3>1. u \in Uids /\ messages[u].email = e
      BY DEF Holding
    <3>2. PICK i \in 1..n : order[i] = u
      BY <1>4, <3>1
    <3>3. L + i \in (L + 1)..(L + n) /\ (L + i) - L = i
      BY <1>1, <1>2
    <3>4. more[i] = e
      BY <1>5, <3>1, <3>2
    <3>5. L + i \in added
      BY <3>3, <3>4
    <3> QED  BY <3>2, <3>3, <3>5
  <2>3. \A i, j \in added : to[i] = to[j] => i = j
    <3> SUFFICES ASSUME NEW i \in added, NEW j \in added, order[i - L] = order[j - L] PROVE i = j
      OBVIOUS
    <3>1. i - L = j - L
      BY <1>3, <2>1
    <3> QED  BY <1>1, <1>2, <3>1
  <2>4. to \in [added -> Holding(e)]
    BY <2>1
  <2> HIDE DEF added, to
  <2> QED  BY <2>2, <2>3, <2>4, Fun_IsBij
<1>10. IsFiniteSet(added)
  <2>1. IsFiniteSet((L + 1)..(L + n))
    BY <1>1, <1>2, FS_Interval
  <2> QED  BY <2>1, FS_Subset
<1>11. IsFiniteSet(Queued(e)) /\ Cardinality(Queued(e)) \in Nat
  BY Counts
<1> HIDE DEF added, to
<1>12. Cardinality(added) = Cardinality(Holding(e)) /\ Cardinality(added) \in Nat
  BY <1>9, <1>10, FS_Bijection, FS_CardinalityType DEF ExistsBijection
<1>13. Cardinality(Queued(e)') = Cardinality(Queued(e)) + Cardinality(added) - Cardinality({})
  BY <1>8, <1>10, <1>11, FS_Union
<1> QED  BY <1>7, <1>11, <1>12, <1>13, FS_EmptySet

LEMMA SelectStep ==
    ASSUME RedisInv, NEW s \in Session, Select(s)
    PROVE  RedisInv'
<1>1. /\ sessionRecent' = [sessionRecent EXCEPT ![s] = recent] /\ recent' = {}
      /\ modSeq' = [modSeq EXCEPT ![s] = Unread] /\ view' = [view EXCEPT ![s] = << >>]
      /\ UNCHANGED <<messages, maxUid, deleted, changes, lastId, maxModSeq, exists, broken>>
      /\ UNCHANGED contVars /\ UNCHANGED <<queue, task, crashes>>
  BY DEF Select, taskVars
<1>2. TypeOK /\ StreamOrdered /\ modSeq \in [Session -> Int] /\ DOMAIN view = Session /\ lastId \in Nat
  BY DEF RedisInv, TypeOK, BoxType, SessionType
<1>3. Uids' = Uids /\ Change' = Change
  BY <1>1 DEF Uids, Change
<1>4. BoxType'
  BY <1>1, <1>3 DEF RedisInv, TypeOK, BoxType
<1>5. /\ modSeq'[s] = Unread /\ view'[s] = << >>
      /\ \A t \in Session \ {s} : modSeq'[t] = modSeq[t] /\ view'[t] = view[t] /\ sessionRecent'[t] = sessionRecent[t]
  BY <1>1, <1>2
<1>6. SessionType'
  <2>1. DOMAIN << >> \subseteq 1..maxUid' /\ << >> \in [DOMAIN << >> -> BOOLEAN]
    OBVIOUS
  <2>2. modSeq' \in [Session -> Int] /\ DOMAIN view' = Session
    BY <1>1, <1>2 DEF Unread
  <2>3. \A t \in Session : DOMAIN view'[t] \subseteq 1..maxUid' /\ view'[t] \in [DOMAIN view'[t] -> BOOLEAN]
    BY <1>1, <1>2, <1>5, <2>1 DEF TypeOK, SessionType
  <2>4. sessionRecent' \in [Session -> SUBSET (1..maxUid')]
    BY <1>1, <1>2 DEF TypeOK, BoxType, SessionType
  <2> QED  BY <2>2, <2>3, <2>4 DEF SessionType
<1>7. StreamOrdered'
  <2>1. \A t \in Session : modSeq'[t] \in Unread..lastId
    BY <1>2, <1>5 DEF StreamOrdered, Unread
  <2> QED  BY <1>1, <1>2, <2>1 DEF StreamOrdered
<1>8. ASSUME ~broken' PROVE StreamTrue' /\ ViewTrue' /\ RecentUnclaimed'
  <2>1. StreamTrue /\ ViewTrue
    BY <1>1, <1>8 DEF RedisInv
  <2>2. StreamTrue' /\ RecentUnclaimed'
    BY <1>1, <1>3, <2>1 DEF StreamTrue, RecentUnclaimed
  <2>3. \A t \in Session \ {s} : (Reaches(t)' <=> Reaches(t)) /\ Newer(t)' = Newer(t)
    BY <1>1, <1>5 DEF Reaches, Newer
  <2> QED  BY <1>1, <1>3, <1>5, <2>1, <2>2, <2>3 DEF ViewTrue
<1>9. IndexesAgree'
  <2> SUFFICES ASSUME ~broken'
               PROVE  /\ deleted' = {u \in Uids' : messages'[u].flag} /\ recent' \subseteq Uids'
                      /\ \A t, r \in Session : t # r => sessionRecent'[t] \cap sessionRecent'[r] = {}
    BY DEF IndexesAgree
  <2>1. /\ deleted = {u \in Uids : messages[u].flag} /\ RecentUnclaimed
        /\ \A t, r \in Session : t # r => sessionRecent[t] \cap sessionRecent[r] = {}
    BY <1>1 DEF RedisInv, IndexesAgree
  <2>2. sessionRecent'[s] = recent
    BY <1>1, <1>2 DEF TypeOK, SessionType
  <2> QED  BY <1>1, <1>3, <1>5, <2>1, <2>2 DEF RecentUnclaimed
<1>10. ContentType'
  BY <1>1 DEF RedisInv, TypeOK, ContentType, contVars
<1>11. Counted => Counted'
  <2>1. ASSUME NEW e \in Email PROVE Users(e)' = Users(e) /\ Waiting(e)' = Waiting(e)
    BY <1>1, <1>3, UsersSame, WaitingSame DEF contVars
  <2> QED  BY <1>1, <2>1 DEF Counted, contVars
<1> QED  BY <1>1, <1>4, <1>6, <1>7, <1>8, <1>9, <1>10, <1>11 DEF RedisInv, TypeOK

LEMMA UpdateSelectedStep ==
    ASSUME RedisInv, NEW s \in Session, UpdateSelected(s)
    PROVE  RedisInv'
<1>1. /\ view' = [view EXCEPT ![s] = Load(s)]
      /\ modSeq' = [modSeq EXCEPT ![s] = IF changes = << >> THEN 0 ELSE Last(changes).id]
      /\ sessionRecent' = [sessionRecent EXCEPT ![s] = @ \ (DOMAIN view[s] \ DOMAIN Load(s))]
      /\ UNCHANGED <<messages, maxUid, recent, deleted, changes, lastId, maxModSeq, exists, broken>>
      /\ UNCHANGED contVars /\ UNCHANGED <<queue, task, crashes>>
  BY DEF UpdateSelected, taskVars, boxVars
<1>2. TypeOK /\ StreamOrdered /\ modSeq \in [Session -> Int] /\ DOMAIN view = Session /\ lastId \in Nat
      /\ sessionRecent \in [Session -> SUBSET (1..maxUid)]
  BY DEF RedisInv, TypeOK, BoxType, SessionType
<1>3. Uids' = Uids /\ Change' = Change
  BY <1>1 DEF Uids, Change
<1>4. BoxType'
  BY <1>1, <1>3 DEF RedisInv, TypeOK, BoxType
<1>5. /\ modSeq'[s] = lastId /\ view'[s] = Load(s)
      /\ \A t \in Session \ {s} : modSeq'[t] = modSeq[t] /\ view'[t] = view[t] /\ sessionRecent'[t] = sessionRecent[t]
  <2>1. (IF changes = << >> THEN 0 ELSE Last(changes).id) = lastId
    BY <1>2 DEF StreamOrdered, Last
  <2> QED  BY <1>1, <1>2, <2>1
<1>6. \A t \in Session : sessionRecent'[t] \subseteq sessionRecent[t]
  BY <1>1, <1>2
<1>7. SessionType'
  <2>1. DOMAIN Load(s) \subseteq 1..maxUid /\ Load(s) \in [DOMAIN Load(s) -> BOOLEAN]
    BY <1>2, LoadTyped
  <2>2. modSeq' \in [Session -> Int] /\ DOMAIN view' = Session
    <3>1. \A t \in Session : modSeq'[t] \in Int
      BY <1>2, <1>5
    <3> QED  BY <1>1, <1>2, <3>1
  <2>3. \A t \in Session : DOMAIN view'[t] \subseteq 1..maxUid' /\ view'[t] \in [DOMAIN view'[t] -> BOOLEAN]
    BY <1>1, <1>2, <1>5, <2>1 DEF TypeOK, SessionType
  <2>4. sessionRecent' \in [Session -> SUBSET (1..maxUid')]
    BY <1>1, <1>2
  <2> QED  BY <2>2, <2>3, <2>4 DEF SessionType
<1>8. StreamOrdered'
  <2>1. \A t \in Session : modSeq'[t] \in Unread..lastId
    BY <1>2, <1>5 DEF StreamOrdered, Unread
  <2> QED  BY <1>1, <1>2, <2>1 DEF StreamOrdered
<1>9. ASSUME ~broken' PROVE StreamTrue' /\ ViewTrue' /\ RecentUnclaimed'
  <2>1. StreamTrue /\ ViewTrue /\ RecentUnclaimed /\ ~broken
    BY <1>1, <1>9 DEF RedisInv
  <2>2. StreamTrue' /\ RecentUnclaimed'
    BY <1>1, <1>3, <1>6, <2>1 DEF StreamTrue, RecentUnclaimed
  <2>3. view'[s] = Flags
    BY <1>5, <2>1, LoadRight
  <2>4. \A t \in Session \ {s} : (Reaches(t)' <=> Reaches(t)) /\ Newer(t)' = Newer(t)
    BY <1>1, <1>5 DEF Reaches, Newer
  <2>5. DOMAIN view'[s] = Uids' /\ \A u \in Uids' : view'[s][u] = messages'[u].flag
    BY <1>1, <1>3, <2>3 DEF Flags
  <2> QED  BY <1>1, <1>3, <1>5, <2>1, <2>2, <2>4, <2>5 DEF ViewTrue
<1>10. IndexesAgree'
  <2> SUFFICES ASSUME ~broken'
               PROVE  /\ deleted' = {u \in Uids' : messages'[u].flag} /\ recent' \subseteq Uids'
                      /\ \A t, r \in Session : t # r => sessionRecent'[t] \cap sessionRecent'[r] = {}
    BY DEF IndexesAgree
  <2>1. /\ deleted = {u \in Uids : messages[u].flag} /\ recent \subseteq Uids
        /\ \A t, r \in Session : t # r => sessionRecent[t] \cap sessionRecent[r] = {}
    BY <1>1 DEF RedisInv, IndexesAgree
  <2> QED  BY <1>1, <1>3, <1>6, <2>1
<1>11. ContentType'
  BY <1>1 DEF RedisInv, TypeOK, ContentType, contVars
<1>12. Counted => Counted'
  <2>1. ASSUME NEW e \in Email PROVE Users(e)' = Users(e) /\ Waiting(e)' = Waiting(e)
    BY <1>1, <1>3, UsersSame, WaitingSame DEF contVars
  <2> QED  BY <1>1, <2>1 DEF Counted, contVars
<1> QED  BY <1>1, <1>4, <1>7, <1>8, <1>9, <1>10, <1>11, <1>12 DEF RedisInv, TypeOK

\* The steps of the deletion and of the background task.
LEMMA DeleteMailboxStep ==
    ASSUME RedisInv, DeleteMailbox
    PROVE  RedisInv'
<1>1. /\ exists = "named" /\ exists' = "queued" /\ UNCHANGED <<boxVars, sessVars, broken>>
      /\ UNCHANGED contVars /\ UNCHANGED <<queue, task, crashes>> /\ Uids' = Uids /\ messages' = messages
  BY DEF DeleteMailbox, taskVars, boxVars, Uids
<1>2. /\ BoxType' /\ SessionType' /\ StreamOrdered' /\ IndexesAgree'
      /\ ~broken' => StreamTrue' /\ ViewTrue' /\ RecentUnclaimed' /\ ~broken
  BY <1>1, BoxSame
<1>3. ContentType'
  BY <1>1 DEF RedisInv, TypeOK, ContentType, contVars
<1>4. Counted => Counted'
  <2>1. ASSUME NEW e \in Email PROVE Users(e)' = Users(e) /\ Waiting(e)' = Waiting(e)
    BY <1>1, UsersSame, WaitingSame DEF contVars
  <2> QED  BY <1>1, <2>1 DEF Counted, contVars
<1> QED  BY <1>2, <1>3, <1>4 DEF RedisInv, TypeOK

LEMMA PopStep ==
    ASSUME RedisInv, Pop
    PROVE  RedisInv'
<1>1. /\ task = None /\ UNCHANGED <<boxVars, sessVars, broken>> /\ UNCHANGED contVars /\ crashes' = crashes
      /\ Uids' = Uids /\ messages' = messages
  BY DEF Pop, boxVars, Uids
<1>2. /\ BoxType' /\ SessionType' /\ StreamOrdered' /\ IndexesAgree'
      /\ ~broken' => StreamTrue' /\ ViewTrue' /\ RecentUnclaimed' /\ ~broken
  BY <1>1, BoxSame
<1>3. TypeOK /\ \A e \in Email : e # None /\ e # "mailbox"
  BY RedisAssumption DEF RedisInv
<1>4. CASE exists = "queued" /\ task' = "mailbox" /\ exists' = "popped" /\ queue' = queue
  <2>1. ContentType'
    BY <1>1, <1>3, <1>4 DEF TypeOK, ContentType, contVars
  <2>2. ASSUME NEW e \in Email PROVE Users(e)' = Users(e) /\ Waiting(e)' = Waiting(e)
    <3>1. Users(e)' = Users(e)
      BY <1>1, <1>4, UsersSame DEF contVars
    <3>2. Queued(e)' = Queued(e) /\ task # e /\ task' # e
      BY <1>1, <1>3, <1>4 DEF Queued
    <3> QED  BY <3>1, <3>2 DEF Waiting
  <2>3. Counted => Counted'
    BY <1>1, <2>2 DEF Counted, contVars
  <2> QED  BY <1>2, <2>1, <2>3 DEF RedisInv, TypeOK
<1>5. CASE queue # << >> /\ task' = Head(queue) /\ queue' = Tail(queue) /\ exists' = exists
  <2>1. queue' \in Seq(Email) /\ Head(queue) \in Email
    <3>1. queue \in Seq(Email)
      BY <1>3 DEF TypeOK, ContentType
    <3> QED  BY <1>5, <3>1, HeadTailProperties
  <2>2. ContentType'
    BY <1>1, <1>3, <1>5, <2>1 DEF TypeOK, ContentType, contVars
  <2>3. ASSUME NEW e \in Email PROVE Users(e)' = Users(e) /\ Waiting(e)' = Waiting(e)
    <3>1. Users(e)' = Users(e)
      BY <1>1, <1>5, UsersSame DEF contVars
    <3>2. Cardinality(Queued(e)') = Cardinality(Queued(e)) - IF Head(queue) = e THEN 1 ELSE 0
      BY <1>3, <1>5, QueuedTaken
    <3>3. Cardinality(Queued(e)) \in Nat
      BY <1>3, Counts
    <3>4. task # e
      BY <1>1, <1>3
    <3> QED  BY <1>5, <3>1, <3>2, <3>3, <3>4 DEF Waiting
  <2>4. Counted => Counted'
    BY <1>1, <2>3 DEF Counted, contVars
  <2> QED  BY <1>2, <2>2, <2>4 DEF RedisInv, TypeOK
<1> QED  BY <1>4, <1>5 DEF Pop

LEMMA RunMailboxStep ==
    ASSUME RedisInv, RunMailbox
    PROVE  RedisInv'
<1>1. /\ task = "mailbox" /\ task' = None /\ exists' = "cleaned"
      /\ UNCHANGED <<boxVars, sessVars, broken>> /\ UNCHANGED contVars /\ crashes' = crashes
  BY DEF RunMailbox
<1>2. /\ BoxType' /\ SessionType' /\ StreamOrdered' /\ IndexesAgree'
      /\ ~broken' => StreamTrue' /\ ViewTrue' /\ RecentUnclaimed' /\ ~broken
  BY <1>1, BoxSame
<1>3. TypeOK /\ exists # "cleaned" /\ \A e \in Email : e # None /\ e # "mailbox"
  BY <1>1, RedisAssumption DEF RedisInv, TypeOK, ContentType
<1>4. PICK order \in SetToSeqs(Uids) :
          queue' = queue \o [i \in DOMAIN order |-> messages[order[i]].email]
  BY DEF RunMailbox
<1>5. Email = {} => queue' \in Seq(Email)
  <2> SUFFICES ASSUME Email = {} PROVE queue' \in Seq(Email)
    OBVIOUS
  <2>1. Uids = {}
    BY <1>3 DEF TypeOK, BoxType
  <2>2. order \in [1..0 -> Uids]
    BY <2>1, FS_EmptySet DEF SetToSeqs
  <2>3. [i \in DOMAIN order |-> messages[order[i]].email] = << >>
    BY <2>2
  <2>4. queue \in Seq(Email)
    BY <1>3 DEF TypeOK, ContentType
  <2> QED  BY <1>4, <2>3, <2>4
<1>6. queue' \in Seq(Email)
  BY <1>3, <1>4, <1>5, QueuedAll
<1>7. ContentType'
  BY <1>1, <1>3, <1>6 DEF TypeOK, ContentType, contVars, None
<1>8. ASSUME ~broken' PROVE Counted'
  <2>1. Counted
    BY <1>2, <1>8 DEF RedisInv
  <2>2. ASSUME NEW e \in Email
        PROVE  \E k \in Int : refs'[e] = refs[e] + k /\ Users(e)' + Waiting(e)' = Users(e) + Waiting(e) + k
    <3>1. Cardinality(Queued(e)') = Cardinality(Queued(e)) + Cardinality(Holding(e))
      BY <1>3, <1>4, QueuedAll
    <3>2. Holding(e)' = {}
      BY <1>1 DEF Holding
    <3>3. Cardinality(Holding(e)') = 0
      BY <3>2, FS_EmptySet
    <3>4. /\ Cardinality(Queued(e)) \in Nat /\ Cardinality(Holding(e)) \in Nat /\ refs[e] \in Int /\ away[e] \in Nat
          /\ away'[e] = away[e] /\ refs'[e] = refs[e] /\ task # e /\ task' # e
      BY <1>1, <1>3, Counts DEF contVars
    <3>5. Users(e)' + Waiting(e)' = Users(e) + Waiting(e) + 0 /\ refs'[e] = refs[e] + 0
      BY <3>1, <3>3, <3>4 DEF Users, Waiting
    <3> QED  BY <3>5
  <2>3. \A e \in Email : refs'[e] > 0 => data'[e] = "kept"
    BY <1>1, <2>1 DEF Counted, contVars
  <2> QED  BY <1>1, <2>1, <2>2, <2>3, CountedKeeps
<1> QED  BY <1>2, <1>7, <1>8 DEF RedisInv, TypeOK

LEMMA RunContentStep ==
    ASSUME RedisInv, RunContent
    PROVE  RedisInv'
<1>1. /\ task \in Email /\ task' = None /\ refs' = [refs EXCEPT ![task] = @ - 1]
      /\ data' = IF refs'[task] <= 0 /\ data[task] = "kept" THEN [data EXCEPT ![task] = "expires"] ELSE data
      /\ UNCHANGED <<boxVars, sessVars, broken>> /\ UNCHANGED <<exists, away, queue, crashes>>
      /\ Uids' = Uids /\ messages' = messages
  BY DEF RunContent, boxVars, Uids
<1>2. /\ BoxType' /\ SessionType' /\ StreamOrdered' /\ IndexesAgree'
      /\ ~broken' => StreamTrue' /\ ViewTrue' /\ RecentUnclaimed' /\ ~broken
  BY <1>1, BoxSame
<1>3. TypeOK /\ \A e \in Email : e # None /\ e # "mailbox"
  BY RedisAssumption DEF RedisInv
<1>4. refs \in [Email -> Int] /\ data \in [Email -> {"none", "kept", "expires"}]
  BY <1>3 DEF TypeOK, ContentType
<1>5. /\ refs' \in [Email -> Int] /\ data' \in [Email -> {"none", "kept", "expires"}]
      /\ refs'[task] = refs[task] - 1 /\ \A e \in Email \ {task} : refs'[e] = refs[e] /\ data'[e] = data[e]
      /\ refs'[task] > 0 => data'[task] = data[task]
  BY <1>1, <1>4
<1>6. ContentType'
  BY <1>1, <1>3, <1>5 DEF TypeOK, ContentType, None
<1>7. ASSUME ~broken' PROVE Counted'
  <2>1. Counted
    BY <1>2, <1>7 DEF RedisInv
  <2>2. ASSUME NEW e \in Email
        PROVE  \E k \in Int : refs'[e] = refs[e] + k /\ Users(e)' + Waiting(e)' = Users(e) + Waiting(e) + k
    <3> DEFINE k == IF e = task THEN -1 ELSE 0
    <3>1. Users(e)' = Users(e)
      BY <1>1, UsersSame
    <3>2. Queued(e)' = Queued(e) /\ task' # e
      BY <1>1, <1>3 DEF Queued
    <3>3. Cardinality(Queued(e)) \in Nat /\ Users(e) \in Nat /\ refs[e] \in Int
      BY <1>3, Counts
    <3>4. Users(e)' + Waiting(e)' = Users(e) + Waiting(e) + k
      BY <3>1, <3>2, <3>3 DEF Waiting
    <3>5. refs'[e] = refs[e] + k
      BY <1>5, <3>3
    <3> QED  BY <3>4, <3>5
  <2>3. \A e \in Email : refs'[e] > 0 => data'[e] = "kept"
    <3>1. \A e \in Email : refs[e] > 0 => data[e] = "kept"
      BY <2>1 DEF Counted
    <3>2. refs'[task] > 0 => refs[task] > 0
      BY <1>1, <1>4, <1>5
    <3> QED  BY <1>1, <1>5, <3>1, <3>2
  <2> QED  BY <1>1, <2>1, <2>2, <2>3, CountedKeeps
<1> QED  BY <1>2, <1>6, <1>7 DEF RedisInv, TypeOK

LEMMA CrashStep ==
    ASSUME RedisInv, Crash
    PROVE  RedisInv'
<1>1. /\ task' = None /\ crashes' = crashes + 1 /\ UNCHANGED <<boxVars, sessVars, broken>>
      /\ UNCHANGED contVars /\ UNCHANGED <<exists, queue>> /\ Uids' = Uids /\ messages' = messages
  BY DEF Crash, boxVars, Uids
<1>2. /\ BoxType' /\ SessionType' /\ StreamOrdered' /\ IndexesAgree'
      /\ ~broken' => StreamTrue' /\ ViewTrue' /\ RecentUnclaimed' /\ ~broken
  BY <1>1, BoxSame
<1>3. TypeOK /\ \A e \in Email : e # None /\ e # "mailbox"
  BY RedisAssumption DEF RedisInv
<1>4. None # "mailbox" /\ crashes \in Nat
  BY <1>3 DEF None, TypeOK, ContentType
<1>5. ContentType'
  BY <1>1, <1>3, <1>4 DEF TypeOK, ContentType, contVars
<1>6. ASSUME Counted PROVE Counted'
  <2>1. ASSUME NEW e \in Email PROVE Users(e)' = Users(e) /\ Waiting(e)' <= Waiting(e) /\ Waiting(e)' \in Nat
    <3>1. Users(e)' = Users(e)
      BY <1>1, UsersSame DEF contVars
    <3>2. Queued(e)' = Queued(e) /\ task' # e
      BY <1>1, <1>3 DEF Queued
    <3>3. Cardinality(Queued(e)) \in Nat
      BY <1>3, Counts
    <3> QED  BY <3>1, <3>2, <3>3 DEF Waiting
  <2> SUFFICES ASSUME NEW e \in Email
               PROVE  /\ refs'[e] >= Users(e)' + Waiting(e)'
                      /\ crashes' = 0 => refs'[e] = Users(e)' + Waiting(e)'
                      /\ refs'[e] > 0 => data'[e] = "kept"
    BY DEF Counted
  <2>2. Users(e) \in Nat /\ Waiting(e) \in Nat /\ refs[e] \in Int /\ refs'[e] = refs[e] /\ data'[e] = data[e]
    BY <1>1, <1>3, Counts DEF contVars
  <2>3. refs[e] >= Users(e) + Waiting(e) /\ (refs[e] > 0 => data[e] = "kept")
    BY <1>6 DEF Counted
  <2> QED  BY <1>1, <1>4, <2>1, <2>2, <2>3
<1> QED  BY <1>2, <1>5, <1>6 DEF RedisInv, TypeOK

LEMMA VanishStep ==
    ASSUME RedisInv, Vanish
    PROVE  RedisInv'
<1>1. PICK g \in Email : data[g] = "expires" /\ data' = [data EXCEPT ![g] = "none"]
  BY DEF Vanish
<1>2. /\ UNCHANGED <<boxVars, sessVars, broken>> /\ UNCHANGED <<exists, refs, away, queue, task, crashes>>
      /\ Uids' = Uids /\ messages' = messages
  BY DEF Vanish, boxVars, Uids, taskVars
<1>3. /\ BoxType' /\ SessionType' /\ StreamOrdered' /\ IndexesAgree'
      /\ ~broken' => StreamTrue' /\ ViewTrue' /\ RecentUnclaimed' /\ ~broken
  BY <1>2, BoxSame
<1>4. TypeOK /\ data \in [Email -> {"none", "kept", "expires"}]
  BY DEF RedisInv, TypeOK, ContentType
<1>5. ContentType'
  BY <1>1, <1>2, <1>4 DEF TypeOK, ContentType
<1>6. ASSUME Counted PROVE Counted'
  <2>1. ASSUME NEW e \in Email PROVE Users(e)' = Users(e) /\ Waiting(e)' = Waiting(e)
    BY <1>2, UsersSame, WaitingSame
  <2>2. \A e \in Email : refs[e] > 0 => data'[e] = "kept"
    BY <1>1, <1>4, <1>6 DEF Counted
  <2> QED  BY <1>2, <1>6, <2>1, <2>2 DEF Counted
<1> QED  BY <1>3, <1>5, <1>6 DEF RedisInv, TypeOK

-----------------------------------------------------------------------------
(* The theorems. *)

LEMMA RedisStarts == Init => RedisInv
<1> SUFFICES ASSUME Init PROVE RedisInv
  OBVIOUS
<1>1. Uids = {} /\ changes = << >> /\ queue = << >>
  BY DEF Init, Uids
<1>2. BoxType
  <2>1. << >> \in [{} -> [email : Email, flag : BOOLEAN]] /\ << >> \in Seq(Change)
    OBVIOUS
  <2>2. messages \in [Uids -> [email : Email, flag : BOOLEAN]] /\ changes \in Seq(Change)
    BY <1>1, <2>1 DEF Init
  <2>3. maxUid = 0 /\ maxModSeq = 0 /\ lastId = 0 /\ broken = FALSE /\ recent = {} /\ deleted = {}
    BY DEF Init
  <2> QED  BY <1>1, <2>2, <2>3 DEF BoxType
<1>3. ContentType
  BY <1>1 DEF Init, ContentType, None
<1>4. SessionType
  <2>1. DOMAIN << >> = {} /\ << >> \in [DOMAIN << >> -> BOOLEAN]
    OBVIOUS
  <2> QED  BY <2>1 DEF Init, SessionType, Unread
<1>5. StreamOrdered
  BY <1>1 DEF Init, StreamOrdered, Unread
<1>6. IndexesAgree /\ StreamTrue /\ ViewTrue /\ RecentUnclaimed
  BY <1>1 DEF Init, IndexesAgree, StreamTrue, ViewTrue, RecentUnclaimed
<1>7. Counted
  <2> SUFFICES ASSUME NEW e \in Email
               PROVE  refs[e] = 0 /\ Users(e) = 0 /\ Waiting(e) = 0
    BY DEF Counted
  <2>1. Holding(e) = {} /\ Queued(e) = {}
    BY <1>1 DEF Holding, Queued
  <2>2. task # e
    BY RedisAssumption DEF Init
  <2> QED  BY <2>1, <2>2, FS_EmptySet DEF Init, Users, Waiting
<1> QED  BY <1>2, <1>3, <1>4, <1>5, <1>6, <1>7 DEF RedisInv, TypeOK

LEMMA RedisStep ==
    ASSUME RedisInv, [Next]_vars
    PROVE  RedisInv'
<1>1. CASE UNCHANGED vars
  <2>1. /\ UNCHANGED <<boxVars, sessVars, broken>> /\ UNCHANGED contVars
        /\ UNCHANGED <<exists, queue, task, crashes>> /\ Uids' = Uids /\ messages' = messages
    BY <1>1 DEF vars, boxVars, taskVars, Uids
  <2>2. /\ BoxType' /\ SessionType' /\ StreamOrdered' /\ IndexesAgree'
        /\ ~broken' => StreamTrue' /\ ViewTrue' /\ RecentUnclaimed' /\ ~broken
    BY <2>1, BoxSame
  <2>3. ContentType'
    BY <2>1 DEF RedisInv, TypeOK, ContentType, contVars
  <2>4. Counted => Counted'
    <3>1. ASSUME NEW e \in Email PROVE Users(e)' = Users(e) /\ Waiting(e)' = Waiting(e)
      BY <2>1, UsersSame, WaitingSame DEF contVars
    <3> QED  BY <2>1, <3>1 DEF Counted, contVars
  <2> QED  BY <2>2, <2>3, <2>4 DEF RedisInv, TypeOK
<1>2. ASSUME NEW e \in Email, AppendAway(e) PROVE RedisInv'
  BY <1>2, AppendAwayStep
<1>3. ASSUME NEW e \in Email, NEW flag \in BOOLEAN, NEW isRecent \in BOOLEAN,
             AppendMessage(e, flag, isRecent) \/ CopyIn(e, flag, isRecent) \/ MoveIn(e, flag, isRecent)
      PROVE  RedisInv'
  BY <1>3, AppendMessageStep, CopyInStep, MoveInStep
<1>4. ASSUME NEW u \in 1..MaxUid, CopyOut(u) \/ MoveOut(u) \/ Expunge(u) PROVE RedisInv'
  BY <1>4, CopyOutStep, MoveOutStep, ExpungeStep
<1>5. ASSUME NEW u \in 1..MaxUid, NEW flag \in BOOLEAN, Update(u, flag) PROVE RedisInv'
  BY <1>5, UpdateStep
<1>6. ASSUME NEW s \in Session, Select(s) \/ UpdateSelected(s) PROVE RedisInv'
  BY <1>6, SelectStep, UpdateSelectedStep
<1>7. CASE DeleteMailbox \/ Pop \/ RunMailbox \/ RunContent \/ Crash \/ Vanish
  BY <1>7, DeleteMailboxStep, PopStep, RunMailboxStep, RunContentStep, CrashStep, VanishStep
<1> QED  BY <1>1, <1>2, <1>3, <1>4, <1>5, <1>6, <1>7 DEF Next

LEMMA RedisAlways == Spec => []RedisInv
<1>1. RedisInv /\ [Next]_vars => RedisInv'
  BY RedisStep
<1> QED  BY <1>1, RedisStarts, PTL DEF Spec

\* EXPUNGE finds the messages to remove in a set of their own: whatever APPEND,
\* COPY, MOVE, STORE, EXPUNGE and the scripts that fail do, it has the UIDs of just
\* the messages that are \Deleted, and a \Recent mark is claimed by one session.
THEOREM RedisIndexes == Spec => []IndexesAgree
<1>1. RedisInv => IndexesAgree
  BY DEF RedisInv
<1> QED  BY <1>1, RedisAlways, PTL

\* However deletions, the background task and its crashes follow each other, the
\* references to a content are at least those that there are, and exactly those
\* while no entry of the queue was lost: no message loses its content.
THEOREM RedisContents == Spec => []ContentKept
  BY RedisAlways, CountedKept, PTL

\* A session that has seen the last change agrees with the mailbox, wherever and
\* how often the stream was trimmed in between.
THEOREM RedisViews == Spec => []ViewFollowsMailbox
<1>1. ASSUME RedisInv, NEW s \in Session, modSeq[s] = lastId, ~broken
      PROVE  view[s] = Flags
  <2>1. TypeOK /\ StreamOrdered /\ StreamTrue /\ ViewTrue
    BY <1>1 DEF RedisInv
  <2>2. lastId \in Nat /\ modSeq[s] # Unread /\ Uids \subseteq 1..maxUid
        /\ DOMAIN view[s] \subseteq 1..maxUid /\ view[s] \in [DOMAIN view[s] -> BOOLEAN]
    BY <1>1, <2>1 DEF TypeOK, BoxType, SessionType, Unread
  <2>3. \A i \in DOMAIN changes : changes[i].id <= modSeq[s] /\ changes[i].id \in Nat
    BY <1>1, <2>1, IdsUpToLast, ChangesTyped
  <2>4. Newer(s) = {}
    BY <1>1, <2>2, <2>3 DEF Newer
  <2>5. Reaches(s)
    <3>1. CASE changes = << >>
      BY <3>1 DEF Reaches
    <3>2. CASE changes # << >>
      <4>1. Len(changes) \in DOMAIN changes
        BY <2>1, <3>2, ChangesTyped
      <4> QED  BY <2>3, <4>1 DEF Reaches
    <3> QED  BY <3>1, <3>2
  <2>6. \A u \in 1..maxUid : (u \in DOMAIN view[s] <=> u \in Uids) /\ (u \in Uids => view[s][u] = messages[u].flag)
    BY <2>1, <2>2, <2>4, <2>5 DEF ViewTrue
  <2>7. DOMAIN view[s] = Uids
    BY <2>2, <2>6
  <2> QED  BY <2>2, <2>6, <2>7 DEF Flags
<1>2. RedisInv => ViewFollowsMailbox
  BY <1>1 DEF ViewFollowsMailbox
<1> QED  BY <1>2, RedisAlways, PTL

\* A new message gets a UID that no message has had.
LEMMA NewMessageGiven ==
    ASSUME RedisInv, NEW email \in Email, NEW flag \in BOOLEAN, NEW isRecent \in BOOLEAN, NEW ok \in BOOLEAN,
           NewMessage(email, flag, isRecent, ok), UNCHANGED <<exists, sessVars>>
    PROVE  Ledger!Next
<1> DEFINE old == [u \in Uids |-> messages[u].email]
           new == [u \in Uids |-> messages[u].email]'
<1>1. Uids' = Uids \cup {maxUid + 1} /\ \A u \in Uids : messages'[u] = messages[u]
  BY NewMessageKeeps
<1>2. maxUid' = maxUid + 1 /\ maxUid \in Nat
  BY DEF NewMessage, RedisInv, TypeOK, BoxType
<1>3. DOMAIN old = Uids /\ DOMAIN new = Uids' /\ \A u \in Uids : new[u] = old[u]
  BY <1>1
<1>4. DOMAIN new \ DOMAIN old \subseteq (maxUid + 1)..((maxUid' + 1) - 1)
  BY <1>1, <1>2, <1>3
<1>5. \A u \in DOMAIN old \cap DOMAIN new : new[u] = old[u]
  BY <1>3
<1>6. maxUid' + 1 > maxUid + 1
  BY <1>2
<1> QED  BY <1>4, <1>5, <1>6 DEF Ledger!Next, Ledger!Give

\* A message that is gone takes its UID with it.
LEMMA ForgetForgets ==
    ASSUME NEW u, Forget({u}), maxUid' = maxUid
    PROVE  Ledger!Next
<1> DEFINE old == [v \in Uids |-> messages[v].email]
           new == [v \in Uids |-> messages[v].email]'
<1>1. messages' = [v \in Uids \ {u} |-> messages[v]]
  BY DEF Forget, Restrict
<1>2. Uids' = Uids \ {u}
  BY <1>1 DEF Uids
<1>3. DOMAIN old = Uids /\ DOMAIN new = Uids' /\ Uids' \subseteq Uids
  BY <1>2
<1>4. new = [v \in Uids' |-> old[v]]
  BY <1>1, <1>2
<1>5. new = [v \in DOMAIN new |-> old[v]]
  BY <1>3, <1>4
<1>6. DOMAIN new \subseteq DOMAIN old
  BY <1>3
<1> QED  BY <1>5, <1>6 DEF Ledger!Next, Ledger!Forget, Ledger!Restrict

\* Every step of the mailbox is one of its ledger, or nothing to it.
LEMMA RedisLedgerStep ==
    ASSUME RedisInv, [Next]_vars
    PROVE  [Ledger!Next]_(Ledger!vars)
<1>1. ASSUME NEW e \in Email, NEW flag \in BOOLEAN, NEW isRecent \in BOOLEAN,
             AppendMessage(e, flag, isRecent) \/ CopyIn(e, flag, isRecent) \/ MoveIn(e, flag, isRecent)
      PROVE  Ledger!Next
  <2>1. /\ \E ok \in BOOLEAN : NewMessage(e, flag, isRecent, ok)
        /\ UNCHANGED <<exists, sessVars>>
    BY <1>1 DEF AppendMessage, CopyIn, MoveIn
  <2> QED  BY <2>1, NewMessageGiven
<1>2. ASSUME NEW u, MoveOut(u) \/ Expunge(u) PROVE Ledger!Next
  <2>1. Forget({u}) /\ maxUid' = maxUid
    BY <1>2 DEF MoveOut, Expunge
  <2> QED  BY <2>1, ForgetForgets
<1>3. ASSUME NEW u, NEW flag \in BOOLEAN, Update(u, flag) PROVE UNCHANGED Ledger!vars
  <2>1. messages' = [messages EXCEPT ![u].flag = flag] /\ u \in Uids /\ maxUid' = maxUid
    BY <1>3 DEF Update
  <2>2. Uids' = Uids
    BY <2>1 DEF Uids
  <2>3. messages \in [Uids -> [email : Email, flag : BOOLEAN]]
    BY DEF RedisInv, TypeOK, BoxType
  <2>4. \A v \in Uids : messages'[v].email = messages[v].email
    BY <2>1, <2>3
  <2> QED  BY <2>1, <2>2, <2>4 DEF Ledger!vars
<1>4. ASSUME UNCHANGED boxVars PROVE UNCHANGED Ledger!vars
  BY <1>4 DEF boxVars, Uids, Ledger!vars
<1>5. ASSUME NEW s \in Session, Select(s) PROVE UNCHANGED Ledger!vars
  BY <1>5 DEF Select, Uids, Ledger!vars
<1>6. ASSUME NEW e \in Email, AppendAway(e) PROVE UNCHANGED boxVars
  BY <1>6 DEF AppendAway
<1>7. ASSUME NEW u, CopyOut(u) PROVE UNCHANGED boxVars
  BY <1>7 DEF CopyOut
<1>8. ASSUME NEW s \in Session, UpdateSelected(s) PROVE UNCHANGED boxVars
  BY <1>8 DEF UpdateSelected
<1>9. CASE DeleteMailbox \/ Pop \/ RunMailbox \/ RunContent \/ Crash \/ Vanish \/ UNCHANGED vars
  <2>1. UNCHANGED boxVars
    BY <1>9 DEF DeleteMailbox, Pop, RunMailbox, RunContent, Crash, Vanish, vars
  <2> QED  BY <1>4, <2>1
<1> QED  BY <1>1, <1>2, <1>3, <1>4, <1>5, <1>6, <1>7, <1>8, <1>9 DEF Next

\* UIDs are given in ascending order and never again, also by scripts that fail:
\* the mailbox implements UidLedger.
THEOREM RedisImplementsLedger == Spec => LedgerSpec
<1>1. Init => Ledger!Init
  BY DEF Init, Uids, Ledger!Init
<1>2. RedisInv /\ [Next]_vars => [Ledger!Next]_(Ledger!vars)
  BY RedisLedgerStep
<1> QED  BY <1>1, <1>2, RedisAlways, PTL DEF Spec, LedgerSpec, Ledger!Spec

=============================================================================
