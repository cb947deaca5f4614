------------------------- MODULE DictMailboxProofs -------------------------
(***************************************************************************)
(* Proofs about DictMailbox, for any sessions, flags and bounds.           *)
(*                                                                         *)
(* ViewFollowsMailbox is not inductive.  What a command adds to it is      *)
(* split in two: Sync says what update_selected makes of a view that was   *)
(* right about everything it had seen; Drift says that a change of the     *)
(* mailbox, being numbered past every session's last number, leaves such a *)
(* view right about everything it had seen.                                *)
(*                                                                         *)
(* What the clients were told follows by induction along the list of       *)
(* responses: Renumbers says what one response does to a numbering, Runs   *)
(* that a list of them takes it from the old view to the new one.          *)
(*                                                                         *)
(* The flags they were told follow along the same list: in the responses   *)
(* of a command no EXPUNGE comes after a FETCH (Ordered), so every FETCH   *)
(* of a message has its new number and may only say its new flags (Says);  *)
(* if they differ from those told last, one of them does (Mentions).       *)
(***************************************************************************)
EXTENDS DictMailbox, FiniteSetTheorems, FunctionTheorems, SequenceTheorems,
        WellFoundedInduction, TLAPS

FlagsType == [Uid -> SUBSET Flag]

\* The set of the messages' numbers is finite: a mailbox counts them.
LEMMA UidFinite ==
    ASSUME NEW S \in SUBSET Uid
    PROVE  IsFiniteSet(S) /\ Cardinality(S) \in Nat
<1>1. IsFiniteSet(Uid)
  BY UidAssumption, FS_Interval DEF Uid
<1>2. IsFiniteSet(S)
  BY <1>1, FS_Subset
<1> QED  BY <1>2, FS_CardinalityType

\* Rank counts u itself, so every number RecordEach gives out is a new one.
LEMMA RankBound ==
    ASSUME NEW S \in SUBSET Uid, NEW u \in S
    PROVE  /\ Rank(S, u) \in Nat
           /\ 1 <= Rank(S, u) /\ Rank(S, u) <= Cardinality(S)
<1> DEFINE T == {v \in S : v <= u}
<1>1. T \in SUBSET Uid /\ T \subseteq S /\ u \in T
  <2>1. u <= u
    BY UidAssumption DEF Uid
  <2> QED  BY <2>1
<1>2. IsFiniteSet(T) /\ Cardinality(T) \in Nat
  BY <1>1, UidFinite
<1>3. Cardinality(T) <= Cardinality(S)
  BY <1>1, UidFinite, FS_Subset
<1>4. Cardinality(T) # 0
  BY <1>1, <1>2, FS_EmptySet
<1> QED  BY <1>2, <1>3, <1>4 DEF Rank

-----------------------------------------------------------------------------
(* Types of the operators on a selected mailbox.                           *)

\* What SelectedMailbox.__init__ makes is a selected mailbox.
LEMMA NewSelectedType ==
    ASSUME NEW mode \in {"none", "rw", "ro"}
    PROVE  NewSelected(mode) \in SelectedType
BY DEF NewSelected, SelectedType, FrozenType, NoKeys

\* _Frozen copies a view into what the client was told.
LEMMA FreezeType ==
    ASSUME NEW sel \in SelectedType
    PROVE  Freeze(sel) \in FrozenType
BY DEF Freeze, SelectedType, FrozenType

\* fork() answers a selected mailbox.
LEMMA ForkType ==
    ASSUME NEW sel \in SelectedType
    PROVE  /\ Fork(sel) \in SelectedType
           /\ Fork(sel).mode = sel.mode
           /\ Fork(sel).modseq = sel.modseq
           /\ Fork(sel).uids = sel.uids
           /\ Fork(sel).keys = sel.keys
           /\ Fork(sel).pending = sel.pending
           /\ Fork(sel).recent = sel.recent
BY FreezeType DEF Fork, SelectedType

\* SynchronizedMessages._update keeps a selected mailbox one.
LEMMA UpdateMessagesType ==
    ASSUME NEW sel \in SelectedType, NEW S \in SUBSET Uid, NEW fl \in FlagsType
    PROVE  LET new == UpdateMessages(sel, S, fl)
           IN  /\ new \in SelectedType
               /\ new.mode = sel.mode
               /\ new.modseq = sel.modseq
               /\ new.uids = sel.uids \cup S
               /\ new.keys = [u \in Uid |-> IF u \in S THEN fl[u] ELSE sel.keys[u]]
               /\ new.pending = sel.pending
               /\ new.recent = sel.recent
               /\ new.hide = sel.hide
BY DEF UpdateMessages, SelectedType, FlagsType

\* What _update leaves of a selected mailbox for the recent marks.
LEMMA UpdateMessagesRecent ==
    ASSUME NEW sel \in SelectedType, NEW S \in SUBSET Uid, NEW fl \in FlagsType
    PROVE  /\ UpdateMessages(sel, S, fl) \in SelectedType
           /\ UpdateMessages(sel, S, fl).recent = sel.recent
BY DEF UpdateMessages, SelectedType, FlagsType

\* SynchronizedMessages._remove keeps a selected mailbox one.
LEMMA RemoveMessagesType ==
    ASSUME NEW sel \in SelectedType, NEW E \in SUBSET Uid
    PROVE  LET new == RemoveMessages(sel, E)
               gone == E \cup sel.pending
           IN  /\ new \in SelectedType
               /\ new.mode = sel.mode
               /\ new.modseq = sel.modseq
               /\ new.recent \subseteq sel.recent
               /\ sel.hide => new.uids = sel.uids /\ new.keys = sel.keys /\ new.pending = gone
               /\ ~sel.hide => /\ new.uids = sel.uids \ gone
                               /\ new.keys = [u \in Uid |-> IF u \in gone THEN {} ELSE sel.keys[u]]
                               /\ new.pending = {}
<1>1. CASE sel.hide
  BY <1>1 DEF RemoveMessages, SelectedType
<1>2. CASE ~sel.hide
  BY <1>2 DEF RemoveMessages, SelectedType
<1> QED  BY <1>1, <1>2 DEF SelectedType

-----------------------------------------------------------------------------
(* The inductive invariant is ViewInv of DictMailbox.                      *)

\* update_selected brings a view up to date with all of the log.
LEMMA Sync ==
    ASSUME NEW sel \in SelectedType, NEW lg \in LogType, NEW msgs \in SUBSET Uid,
           NEW fl \in FlagsType, NEW max \in Nat,
           LogOK(lg, msgs, max), View(sel, lg, msgs, fl), Known(sel, max)
    PROVE  LET new == UpdateSelected(sel, lg, msgs, fl)
           IN  /\ new \in SelectedType
               /\ new.mode = sel.mode
               /\ new.recent \subseteq sel.recent
               /\ View(new, lg, msgs, fl)
               /\ Known(new, max)
<1> DEFINE new  == UpdateSelected(sel, lg, msgs, fl)
           numbered == [sel EXCEPT !.modseq = lg.highest]
           U    == Since(lg, "update", sel.modseq) \cap msgs
           E    == Since(lg, "expunge", sel.modseq)
           upd  == UpdateMessages(numbered, U, fl)
<1>1. /\ numbered \in SelectedType
      /\ numbered.mode = sel.mode
      /\ numbered.modseq = lg.highest
      /\ numbered.uids = sel.uids
      /\ numbered.keys = sel.keys
      /\ numbered.pending = sel.pending
      /\ numbered.recent = sel.recent
      /\ numbered.hide = sel.hide
  BY DEF SelectedType, LogType
<1>2. U \in SUBSET Uid /\ E \in SUBSET Uid
  BY DEF Since
<1> HIDE DEF numbered, U, E
<1>3. /\ upd \in SelectedType
      /\ upd.mode = sel.mode
      /\ upd.modseq = lg.highest
      /\ upd.uids = sel.uids \cup U
      /\ upd.keys = [u \in Uid |-> IF u \in U THEN fl[u] ELSE sel.keys[u]]
      /\ upd.pending = sel.pending
      /\ upd.recent = sel.recent
      /\ upd.hide = sel.hide
  BY <1>1, <1>2, UpdateMessagesType
<1>4. new = RemoveMessages(upd, E)
  BY DEF UpdateSelected, AddUpdates, numbered, U, E
<1> HIDE DEF upd, new
<1> DEFINE gone == E \cup sel.pending
<1>5. /\ new \in SelectedType
      /\ new.mode = sel.mode
      /\ new.modseq = lg.highest
      /\ new.recent \subseteq sel.recent
      /\ sel.hide => new.uids = upd.uids /\ new.keys = upd.keys /\ new.pending = gone
      /\ ~sel.hide => /\ new.uids = upd.uids \ gone
                      /\ new.keys = [u \in Uid |-> IF u \in gone THEN {} ELSE upd.keys[u]]
                      /\ new.pending = {}
  BY <1>2, <1>3, <1>4, RemoveMessagesType
<1>6. gone \cap msgs = {}
  BY DEF View, LogOK, Since, E
<1>7. new.pending \subseteq gone
  BY <1>5 DEF SelectedType
<1>8. \A u \in msgs : u \in new.uids /\ new.keys[u] = fl[u]
  <2> SUFFICES ASSUME NEW u \in msgs
               PROVE  u \in upd.uids /\ upd.keys[u] = fl[u]
    BY <1>5, <1>6 DEF SelectedType
  <2>1. lg.last[u].kind = "update" /\ lg.last[u].seq \in Nat /\ sel.modseq \in Nat
    BY DEF LogOK, LogType, SelectedType
  <2>2. CASE lg.last[u].seq >= sel.modseq
    BY <1>3, <2>1, <2>2 DEF Since, U
  <2>3. CASE lg.last[u].seq < sel.modseq
    BY <1>3, <2>1, <2>3 DEF View, U, Since
  <2> QED  BY <2>1, <2>2, <2>3
<1>9. \A u \in new.uids \ new.pending : lg.last[u].kind = "update"
  <2> SUFFICES ASSUME NEW u \in new.uids, u \notin new.pending
               PROVE  lg.last[u].kind = "update"
    OBVIOUS
  <2>1. u \in Uid /\ u \in upd.uids /\ u \notin gone
    BY <1>5 DEF SelectedType
  <2>2. lg.last[u].seq \in Nat /\ sel.modseq \in Nat /\ lg.last[u].kind \in Kind
    BY <2>1 DEF LogType, SelectedType
  <2>3. CASE u \in U
    BY <2>3 DEF Since, U
  <2>4. CASE u \in sel.uids /\ lg.last[u].seq < sel.modseq
    BY <2>1, <2>2, <2>4 DEF View
  <2>5. CASE u \in sel.uids /\ lg.last[u].seq >= sel.modseq
    <3>1. lg.last[u].kind # "expunge"
      BY <2>1, <2>5 DEF Since, E
    <3>2. CASE lg.last[u].kind = "none"
      BY <2>1, <2>2, <2>5, <3>2 DEF View, LogOK
    <3> QED  BY <2>2, <3>1, <3>2 DEF Kind
  <2> QED  BY <1>3, <2>1, <2>2, <2>3, <2>4, <2>5
<1>10. View(new, lg, msgs, fl)
  <2>1. new.modseq <= lg.highest
    BY <1>5 DEF LogType
  <2>2. new.pending \cap msgs = {}
    BY <1>6, <1>7
  <2> QED  BY <1>8, <1>9, <2>1, <2>2 DEF View
<1>11. Known(new, max)
  <2>1. new.uids \subseteq sel.uids \cup U
    BY <1>3, <1>5 DEF SelectedType
  <2>2. \A u \in U \cup E : u <= max
    BY <1>2 DEF LogOK, Since, U, E
  <2> QED  BY <1>7, <2>1, <2>2 DEF Known
<1> QED  BY <1>5, <1>10, <1>11 DEF new

\* A change of no more than the UIDs of C, which numbers them past the highest
\* number so far and adds no message but with a new UID.
Changes(C, lg, msgs, fl, max, lg2, msgs2, fl2) ==
    /\ lg.highest <= lg2.highest
    /\ \A u \in C : lg2.last[u].seq > lg.highest
    /\ \A u \in Uid \ C : /\ lg2.last[u] = lg.last[u]
                          /\ u \in msgs2 <=> u \in msgs
                          /\ fl2[u] = fl[u]
    /\ \A u \in msgs2 \ msgs : u > max

\* Such a change leaves a view right about everything it has seen.
LEMMA Drift ==
    ASSUME NEW sel \in SelectedType, NEW max \in Nat,
           NEW lg \in LogType, NEW msgs \in SUBSET Uid, NEW fl \in FlagsType,
           NEW lg2 \in LogType, NEW msgs2 \in SUBSET Uid, NEW fl2 \in FlagsType,
           NEW C \in SUBSET Uid,
           View(sel, lg, msgs, fl), Known(sel, max),
           Changes(C, lg, msgs, fl, max, lg2, msgs2, fl2)
    PROVE  View(sel, lg2, msgs2, fl2)
<1> USE DEF Changes
<1>1. sel.modseq \in Nat /\ sel.modseq <= lg.highest /\ lg.highest \in Nat /\ lg2.highest \in Nat
  BY DEF View, SelectedType, LogType
<1>2. sel.modseq <= lg2.highest
  BY <1>1
<1>3. sel.pending \cap msgs2 = {}
  <2> SUFFICES ASSUME NEW u \in sel.pending, u \in msgs2
               PROVE  FALSE
    OBVIOUS
  <2>1. u \notin msgs /\ u <= max /\ u \in Nat
    BY UidAssumption DEF View, Known, Uid
  <2>2. u > max
    BY <2>1
  <2> QED  BY <2>1, <2>2
<1>4. ASSUME NEW u \in Uid, lg2.last[u].seq <= sel.modseq
      PROVE  /\ u \in msgs2 => u \in sel.uids /\ sel.keys[u] = fl2[u]
             /\ u \in sel.uids \ sel.pending => lg2.last[u].kind = "update"
  <2>1. lg2.last[u].seq \in Nat
    BY DEF LogType
  <2>2. u \notin C
    BY <1>1, <1>4, <2>1
  <2> QED  BY <1>4, <2>2 DEF View
<1> QED  BY <1>2, <1>3, <1>4 DEF View

\* The log of an action that records one change.
LEMMA RecordType ==
    ASSUME NEW lg \in LogType, NEW S \in SUBSET Uid, NEW kind \in Kind
    PROVE  /\ Record(lg, S, kind) \in LogType
           /\ Record(lg, S, kind).highest = lg.highest + 1
           /\ \A u \in S : Record(lg, S, kind).last[u] = [seq |-> lg.highest + 1, kind |-> kind]
           /\ \A u \in Uid \ S : Record(lg, S, kind).last[u] = lg.last[u]
BY DEF Record, LogType

\* One update() per message, as STORE and FETCH make them, keeps the log a log.
LEMMA RecordEachType ==
    ASSUME NEW lg \in LogType, NEW S \in SUBSET Uid
    PROVE  /\ RecordEach(lg, S) \in LogType
           /\ RecordEach(lg, S).highest = lg.highest + Cardinality(S)
           /\ Cardinality(S) \in Nat
           /\ \A u \in S : /\ RecordEach(lg, S).last[u].kind = "update"
                           /\ RecordEach(lg, S).last[u].seq > lg.highest
                           /\ RecordEach(lg, S).last[u].seq <= lg.highest + Cardinality(S)
           /\ \A u \in Uid \ S : RecordEach(lg, S).last[u] = lg.last[u]
<1>1. Cardinality(S) \in Nat /\ lg.highest \in Nat
  BY UidFinite DEF LogType
<1>2. \A u \in S : /\ Rank(S, u) \in Nat
                   /\ 1 <= Rank(S, u) /\ Rank(S, u) <= Cardinality(S)
  BY RankBound
<1> QED  BY <1>1, <1>2 DEF RecordEach, LogType, Kind

-----------------------------------------------------------------------------
(* Steps.                                                                  *)

\* What a handler may do to a selected mailbox before it is synchronised.
SameView(a, b) == /\ a.mode = b.mode /\ a.modseq = b.modseq /\ a.uids = b.uids
                  /\ a.keys = b.keys /\ a.pending = b.pending

\* A step of the mailbox that changes no more than the UIDs of C.
StoreStep(C) ==
    /\ messages' \in SUBSET Uid /\ flags' \in FlagsType /\ recent' \subseteq messages'
    /\ maxUid' \in 0..MaxUid /\ maxUid <= maxUid'
    /\ log' \in LogType /\ LogOK(log', messages', maxUid')
    /\ Changes(C, log, messages, flags, maxUid, log', messages', flags')

\* The view of a session that takes no part in the step.
LEMMA Bystander ==
    ASSUME ViewInv, NEW C \in SUBSET Uid, StoreStep(C),
           NEW t \in Session, Selecting(t),
           NEW sel \in SelectedType, SameView(sel, sess[t])
    PROVE  View(sel, log', messages', flags') /\ Known(sel, maxUid')
<1>1. /\ messages \in SUBSET Uid /\ flags \in FlagsType /\ log \in LogType
      /\ maxUid \in Nat /\ maxUid' \in Nat
  BY UidAssumption DEF ViewInv, TypeOK, FlagsType, StoreStep
<1>2. View(sess[t], log, messages, flags) /\ Known(sess[t], maxUid)
  BY DEF ViewInv, SessionsOK
<1>3. View(sel, log, messages, flags) /\ Known(sel, maxUid)
  BY <1>2 DEF View, Known, SameView
<1>4. View(sel, log', messages', flags')
  <2>1. messages' \in SUBSET Uid /\ flags' \in FlagsType /\ log' \in LogType
    BY DEF StoreStep
  <2>2. Changes(C, log, messages, flags, maxUid, log', messages', flags')
    BY DEF StoreStep
  <2> QED  BY <1>1, <1>3, <2>1, <2>2, Drift
<1>5. Known(sel, maxUid')
  <2> SUFFICES ASSUME NEW u \in sel.uids \cup sel.pending
               PROVE  u <= maxUid'
    BY DEF Known
  <2>1. u \in Nat /\ u <= maxUid
    BY <1>3, UidAssumption DEF Known, SelectedType, Uid
  <2> QED  BY <1>1, <2>1 DEF StoreStep
<1> QED  BY <1>4, <1>5

\* The end of a command preserves the invariant.
LEMMA CompleteStep ==
    ASSUME ViewInv, NEW C \in SUBSET Uid, StoreStep(C), NEW s \in Session,
           NEW given \in [Session -> SelectedType],
           \A t \in Session : SameView(given[t], sess[t]),
           NEW own, NEW told, Complete(s, given, own, told)
    PROVE  ViewInv'
<1> DEFINE sel == UpdateSelected(given[s], log', messages', flags')
<1>1. \A t \in Session : Selecting(t) =>
          View(given[t], log', messages', flags') /\ Known(given[t], maxUid')
  BY Bystander
<1>2. /\ messages' \in SUBSET Uid /\ flags' \in FlagsType /\ log' \in LogType
      /\ maxUid' \in Nat /\ LogOK(log', messages', maxUid')
  BY UidAssumption DEF StoreStep
<1>3. ASSUME Selecting(s)
      PROVE  /\ Fork(sel) \in SelectedType
             /\ Fork(sel).mode = given[s].mode
             /\ View(Fork(sel), log', messages', flags')
             /\ Known(Fork(sel), maxUid')
  <2>1. /\ sel \in SelectedType
        /\ sel.mode = given[s].mode
        /\ View(sel, log', messages', flags')
        /\ Known(sel, maxUid')
    BY <1>1, <1>2, <1>3, Sync
  <2> HIDE DEF sel
  <2> QED  BY <2>1, ForkType DEF View, Known
<1> HIDE DEF sel
<1>4. sess' \in [Session -> SelectedType]
      /\ \A t \in Session : /\ sess'[t].mode = sess[t].mode
                            /\ t # s \/ ~Selecting(s) => sess'[t] = given[t]
                            /\ t = s /\ Selecting(s) => sess'[t] = Fork(sel)
  BY <1>3 DEF Complete, SameView, sel
<1>5. TypeOK'
  BY <1>2, <1>4 DEF TypeOK, StoreStep, FlagsType
<1>6. SessionsOK'
  BY <1>1, <1>3, <1>4 DEF SessionsOK, Selecting
<1> QED  BY <1>2, <1>5, <1>6 DEF ViewInv, StoreStep

-----------------------------------------------------------------------------
(* The steps of the mailbox that the actions take.                         *)

\* The invariant depends on the mailbox and the sessions, not on the clients.
LEMMA StoreSame ==
    ASSUME ViewInv, UNCHANGED store
    PROVE  StoreStep({})
BY UidAssumption DEF ViewInv, TypeOK, StoreStep, Changes, FlagsType, LogType, LogOK, store

\* Taking messages away and recording it.
LEMMA StoreDelete ==
    ASSUME ViewInv, NEW C \in SUBSET Uid, messages' = messages \ C, recent' = recent \ C,
           log' = Record(log, C, "expunge"), UNCHANGED <<flags, maxUid>>,
           \A u \in C : u <= maxUid
    PROVE  StoreStep(C)
<1>1. /\ messages \in SUBSET Uid /\ flags \in FlagsType /\ recent \subseteq messages
      /\ maxUid \in 0..MaxUid /\ log \in LogType /\ LogOK(log, messages, maxUid)
  BY DEF ViewInv, TypeOK, FlagsType
<1>2. /\ log' \in LogType
      /\ log'.highest = log.highest + 1
      /\ \A u \in C : log'.last[u] = [seq |-> log.highest + 1, kind |-> "expunge"]
      /\ \A u \in Uid \ C : log'.last[u] = log.last[u]
  BY <1>1, RecordType, "expunge" \in Kind DEF Kind
<1>3. log.highest \in Nat /\ \A u \in Uid : log.last[u].seq \in Nat
  BY <1>1 DEF LogType
<1>4. LogOK(log', messages', maxUid')
  BY <1>1, <1>2, <1>3 DEF LogOK
<1>5. Changes(C, log, messages, flags, maxUid, log', messages', flags')
  BY <1>2, <1>3 DEF Changes
<1> QED  BY <1>1, <1>2, <1>4, <1>5 DEF StoreStep

\* Changing flags, or only recent marks, of messages that are or were there.
LEMMA StoreTouch ==
    ASSUME ViewInv, NEW C \in SUBSET Uid, messages' = messages, maxUid' = maxUid,
           recent' \subseteq messages, flags' \in FlagsType,
           \A u \in Uid \ C : flags'[u] = flags[u],
           \A u \in C : u <= maxUid,
           log' = RecordEach(log, C) \/ log' = Record(log, C, "update")
    PROVE  StoreStep(C)
<1>1. /\ messages \in SUBSET Uid /\ maxUid \in 0..MaxUid /\ log \in LogType
      /\ LogOK(log, messages, maxUid)
  BY DEF ViewInv, TypeOK
<1>2. /\ log' \in LogType
      /\ log.highest <= log'.highest
      /\ \A u \in C : /\ log'.last[u].kind = "update"
                      /\ log'.last[u].seq > log.highest
                      /\ log'.last[u].seq <= log'.highest
      /\ \A u \in Uid \ C : log'.last[u] = log.last[u]
  <2>1. log.highest \in Nat
    BY <1>1 DEF LogType
  <2>2. CASE log' = RecordEach(log, C)
    BY <1>1, <2>1, <2>2, RecordEachType
  <2>3. CASE log' = Record(log, C, "update")
    <3>1. "update" \in Kind
      BY DEF Kind
    <3>2. /\ log' \in LogType
          /\ log'.highest = log.highest + 1
          /\ \A u \in C : log'.last[u] = [seq |-> log.highest + 1, kind |-> "update"]
          /\ \A u \in Uid \ C : log'.last[u] = log.last[u]
      BY <1>1, <2>3, <3>1, RecordType
    <3> QED  BY <2>1, <3>2
  <2> QED  BY <2>2, <2>3
<1>3. log.highest \in Nat /\ log'.highest \in Nat
      /\ \A u \in Uid : log.last[u].seq \in Nat /\ log'.last[u].seq \in Nat
  BY <1>1, <1>2 DEF LogType
<1>4. LogOK(log', messages', maxUid')
  BY <1>1, <1>2, <1>3 DEF LogOK
<1>5. Changes(C, log, messages, flags, maxUid, log', messages', flags')
  BY <1>2, <1>3 DEF Changes
<1> QED  BY <1>1, <1>2, <1>4, <1>5 DEF StoreStep

\* A new message, after D was taken away.
LEMMA StoreAdd ==
    ASSUME ViewInv, NEW D \in SUBSET Uid, \A u \in D : u <= maxUid,
           NEW fl \in SUBSET Flag, NEW to, Add(messages \ D, fl, to),
           NEW lg, lg = Record(log, D, "expunge") \/ (D = {} /\ lg = log),
           log' = Record(lg, {maxUid + 1}, "update")
    PROVE  StoreStep(D \cup {maxUid + 1})
<1> DEFINE new == maxUid + 1
<1>1. /\ messages \in SUBSET Uid /\ flags \in FlagsType /\ recent \subseteq messages
      /\ maxUid \in 0..MaxUid /\ log \in LogType /\ LogOK(log, messages, maxUid)
  BY DEF ViewInv, TypeOK, FlagsType
<1>2. /\ new \in Uid /\ new > maxUid /\ maxUid' = new
      /\ messages' = (messages \ D) \cup {new}
      /\ recent' \subseteq messages'
      /\ flags' \in FlagsType
      /\ \A u \in Uid \ {new} : flags'[u] = flags[u]
  BY <1>1, UidAssumption DEF Add, Uid, FlagsType
<1>3. log.highest \in Nat /\ \A u \in Uid : log.last[u].seq \in Nat
  BY <1>1 DEF LogType
<1>4. /\ lg \in LogType
      /\ lg.highest \in Nat /\ lg.highest >= log.highest
      /\ \A u \in D : /\ lg.last[u].kind = "expunge"
                      /\ lg.last[u].seq = lg.highest
                      /\ lg.last[u].seq > log.highest
      /\ \A u \in Uid \ D : lg.last[u] = log.last[u]
  <2>1. CASE D = {} /\ lg = log
    BY <1>1, <1>3, <2>1
  <2>2. CASE lg = Record(log, D, "expunge")
    <3>1. "expunge" \in Kind
      BY DEF Kind
    <3> DEFINE r == Record(log, D, "expunge")
    <3>2. /\ r \in LogType
          /\ r.highest = log.highest + 1
          /\ \A u \in D : r.last[u] = [seq |-> log.highest + 1, kind |-> "expunge"]
          /\ \A u \in Uid \ D : r.last[u] = log.last[u]
      BY <1>1, <3>1, RecordType
    <3>3. lg = r
      BY <2>2
    <3> HIDE DEF r
    <3> QED  BY <1>3, <3>2, <3>3
  <2> QED  BY <2>1, <2>2
<1>5. /\ log' \in LogType
      /\ log'.highest = lg.highest + 1
      /\ log'.last[new].seq = lg.highest + 1
      /\ log'.last[new].kind = "update"
      /\ \A u \in Uid \ {new} : log'.last[u] = lg.last[u]
  <2>1. "update" \in Kind
    BY DEF Kind
  <2>2. {new} \in SUBSET Uid
    BY <1>2
  <2> DEFINE r == Record(lg, {new}, "update")
  <2>3. /\ r \in LogType
        /\ r.highest = lg.highest + 1
        /\ \A u \in {new} : r.last[u] = [seq |-> lg.highest + 1, kind |-> "update"]
        /\ \A u \in Uid \ {new} : r.last[u] = lg.last[u]
    BY <1>4, <2>1, <2>2, RecordType
  <2>4. log' = r
    OBVIOUS
  <2> HIDE DEF r, new
  <2> QED  BY <2>3, <2>4
<1>6. new \notin D /\ new \notin messages
  <2>1. \A u \in messages : u <= maxUid
    BY <1>1 DEF LogOK
  <2> QED  BY <1>1, <1>2, <2>1
<1>7. \A u \in Uid : u \in messages' <=> u = new \/ (u \in messages /\ u \notin D)
  BY <1>2
<1> HIDE DEF new
<1>8. LogOK(log', messages', maxUid')
  <2> SUFFICES ASSUME NEW u \in Uid
               PROVE  /\ log'.last[u].seq <= log'.highest
                      /\ u \in messages' => log'.last[u].kind = "update"
                      /\ IF log'.last[u].kind = "none" THEN log'.last[u].seq = 0
                         ELSE u <= maxUid'
    BY DEF LogOK
  <2>1. maxUid \in Nat /\ new \in Nat /\ u \in Nat
    BY <1>1, <1>2, UidAssumption DEF Uid
  <2>2. CASE u = new
    BY <1>2, <1>4, <1>5, <2>1, <2>2
  <2>3. CASE u # new /\ u \in D
    <3>1. log'.last[u].kind = "expunge" /\ log'.last[u].seq <= log'.highest
      <4>1. log'.last[u] = lg.last[u]
        BY <1>5, <2>3
      <4>2. lg.last[u].kind = "expunge" /\ lg.last[u].seq = lg.highest
        BY <1>4, <2>3
      <4> QED  BY <1>4, <1>5, <4>1, <4>2
    <3>2. u \notin messages'
      BY <1>7, <2>3
    <3>3. u <= maxUid'
      BY <1>2, <2>1, <2>3
    <3> QED  BY <3>1, <3>2, <3>3
  <2>4. CASE u # new /\ u \notin D
    <3>1. log'.last[u] = log.last[u] /\ log.last[u].seq \in Nat
      BY <1>3, <1>4, <1>5, <2>4
    <3>2. /\ log.last[u].seq <= log.highest
          /\ u \in messages => log.last[u].kind = "update"
          /\ IF log.last[u].kind = "none" THEN log.last[u].seq = 0 ELSE u <= maxUid
      BY <1>1 DEF LogOK
    <3>3. log'.last[u].seq <= log'.highest
      BY <1>3, <1>4, <1>5, <3>1, <3>2
    <3>4. u <= maxUid => u <= maxUid'
      BY <1>2, <2>1
    <3> QED  BY <1>7, <2>4, <3>1, <3>2, <3>3, <3>4
  <2> QED  BY <2>2, <2>3, <2>4
<1>9. Changes(D \cup {new}, log, messages, flags, maxUid, log', messages', flags')
  <2>1. \A u \in D \cup {new} : log'.last[u].seq > log.highest
    <3>1. log'.last[new].seq > log.highest
      BY <1>3, <1>4, <1>5
    <3>2. \A u \in D : log'.last[u].seq > log.highest
      BY <1>4, <1>5, <1>6
    <3> QED  BY <3>1, <3>2
  <2>2. \A u \in Uid \ (D \cup {new}) : /\ log'.last[u] = log.last[u]
                                        /\ u \in messages' <=> u \in messages
                                        /\ flags'[u] = flags[u]
    BY <1>2, <1>4, <1>5, <1>7
  <2>3. log.highest <= log'.highest
    BY <1>3, <1>4, <1>5
  <2>4. \A u \in messages' \ messages : u > maxUid
    BY <1>2, <1>7
  <2> QED  BY <2>1, <2>2, <2>3, <2>4 DEF Changes
<1>10. messages' \in SUBSET Uid /\ maxUid' \in 0..MaxUid /\ maxUid <= maxUid'
  BY <1>1, <1>2, UidAssumption DEF Uid
<1> QED  BY <1>2, <1>5, <1>8, <1>9, <1>10 DEF StoreStep, new

-----------------------------------------------------------------------------
(* The handlers of one session, and the theorem.                           *)

\* What AddRecent, Hiding and Silence do to the selected mailboxes.
LEMMA AddRecentView ==
    ASSUME ViewInv, NEW to \in SUBSET Session, maxUid + 1 \in Uid
    PROVE  /\ AddRecent(to) \in [Session -> SelectedType]
           /\ \A t \in Session : SameView(AddRecent(to)[t], sess[t])
<1>1. \A t \in Session : sess[t] \in SelectedType
  BY DEF ViewInv, TypeOK
<1> QED  BY <1>1 DEF AddRecent, SameView, SelectedType

\* hide_expunged does not disturb what a session's view agrees on.
LEMMA HidingView ==
    ASSUME ViewInv, NEW s \in Session, NEW uid \in BOOLEAN
    PROVE  /\ Hiding(s, uid) \in [Session -> SelectedType]
           /\ \A t \in Session : /\ SameView(Hiding(s, uid)[t], sess[t])
                                 /\ Hiding(s, uid)[t].recent = sess[t].recent
<1>1. sess \in [Session -> SelectedType]
  BY DEF ViewInv, TypeOK
<1>2. CASE uid
  BY <1>1, <1>2 DEF Hiding, SameView
<1>3. CASE ~uid
  BY <1>1, <1>3 DEF Hiding, SameView, SelectedType
<1> QED  BY <1>2, <1>3

\* FlagOp.apply answers a set of permanent flags.
LEMMA ApplyType ==
    ASSUME NEW op \in FlagOp, NEW A \in SUBSET Flag, NEW B \in SUBSET Flag
    PROVE  Apply(op, A, B) \in SUBSET Flag
BY DEF Apply, FlagOp

\* silence() does not disturb what a session's view agrees on.
LEMMA SilenceView ==
    ASSUME NEW sel \in SelectedType, NEW S \in SUBSET Uid, NEW op \in FlagOp,
           NEW operand \in SUBSET Flag, NEW cached \in FlagsType
    PROVE  /\ Silence(sel, S, op, operand, cached) \in SelectedType
           /\ SameView(Silence(sel, S, op, operand, cached), sel)
           /\ Silence(sel, S, op, operand, cached).recent = sel.recent
<1> DEFINE more == {<<u, Apply(op, cached[u], operand)>> :
                       u \in {v \in S : Apply(op, cached[v], operand) # cached[v]}}
<1>1. \A u \in S : Apply(op, cached[u], operand) \in SUBSET Flag
  BY ApplyType DEF FlagsType
<1>2. more \in SUBSET (Uid \X SUBSET Flag)
  BY <1>1
<1> HIDE DEF more
<1>3. [sel EXCEPT !.silenced = @ \cup more] \in SelectedType
  BY <1>2 DEF SelectedType
<1>4. /\ SameView([sel EXCEPT !.silenced = @ \cup more], sel)
      /\ [sel EXCEPT !.silenced = @ \cup more].recent = sel.recent
  BY DEF SameView, SelectedType
<1> QED  BY <1>3, <1>4 DEF Silence, more

\* A command that only changes which mailbox s has selected.
LEMMA OnlySession ==
    ASSUME ViewInv, NEW C \in SUBSET Uid, StoreStep(C), NEW s \in Session,
           NEW sel \in SelectedType,
           sel.mode # "none" => View(sel, log', messages', flags') /\ Known(sel, maxUid'),
           sess' = [sess EXCEPT ![s] = sel]
    PROVE  ViewInv'
<1>1. \A t \in Session : sess[t] \in SelectedType
  BY DEF ViewInv, TypeOK
<1>2. \A t \in Session : Selecting(t) =>
          View(sess[t], log', messages', flags') /\ Known(sess[t], maxUid')
  BY <1>1, Bystander DEF SameView
<1>3. sess' \in [Session -> SelectedType]
      /\ sess'[s] = sel /\ \A t \in Session \ {s} : sess'[t] = sess[t]
  BY DEF ViewInv, TypeOK
<1>4. TypeOK'
  BY <1>3 DEF TypeOK, StoreStep, FlagsType
<1>5. SessionsOK'
  BY <1>2, <1>3 DEF SessionsOK, Selecting
<1> QED  BY <1>4, <1>5 DEF ViewInv, StoreStep

\* An empty mailbox with no session satisfies the invariant.
LEMMA ViewInit == Init => ViewInv
<1> SUFFICES ASSUME Init PROVE ViewInv
  OBVIOUS
<1>1. NotSelected \in SelectedType /\ NotSelected.mode = "none"
  BY NewSelectedType DEF NotSelected, NewSelected
<1>2. EmptyLog \in LogType
  BY DEF EmptyLog, LogType, Kind
<1>3. NoKeys \in FlagsType
  BY DEF NoKeys, FlagsType
<1>4. TypeOK
  BY <1>1, <1>2, <1>3, UidAssumption DEF Init, TypeOK, FlagsType
<1>5. LogOK(log, messages, maxUid)
  BY DEF Init, LogOK, EmptyLog
<1>6. SessionsOK
  BY <1>1 DEF Init, SessionsOK, Selecting
<1> QED  BY <1>4, <1>5, <1>6 DEF Init, ViewInv

\* The messages a session can name.
LEMMA InView ==
    ASSUME ViewInv, NEW s \in Session, Selecting(s)
    PROVE  sess[s].uids \in SUBSET Uid /\ \A u \in sess[s].uids : u <= maxUid
BY DEF ViewInv, TypeOK, SelectedType, SessionsOK, Known

\* A selected mailbox that has just been given the whole mailbox.
LEMMA FreshView ==
    ASSUME NEW sel \in SelectedType, sel.uids = {}, sel.pending = {},
           NEW lg \in LogType, NEW msgs \in SUBSET Uid, NEW fl \in FlagsType, NEW max \in Nat,
           sel.modseq = lg.highest, LogOK(lg, msgs, max)
    PROVE  /\ Fork(UpdateMessages(sel, msgs, fl)) \in SelectedType
           /\ View(Fork(UpdateMessages(sel, msgs, fl)), lg, msgs, fl)
           /\ Known(Fork(UpdateMessages(sel, msgs, fl)), max)
<1> DEFINE new == UpdateMessages(sel, msgs, fl)
<1>1. /\ new \in SelectedType /\ new.modseq = lg.highest /\ new.pending = {}
      /\ new.uids = msgs
      /\ new.keys = [u \in Uid |-> IF u \in msgs THEN fl[u] ELSE sel.keys[u]]
  <2>1. /\ new \in SelectedType
        /\ new.mode = sel.mode
        /\ new.modseq = sel.modseq
        /\ new.uids = sel.uids \cup msgs
        /\ new.keys = [u \in Uid |-> IF u \in msgs THEN fl[u] ELSE sel.keys[u]]
        /\ new.pending = sel.pending
        /\ new.recent = sel.recent
        /\ new.hide = sel.hide
    BY ONLY UpdateMessagesType, sel \in SelectedType, msgs \in SUBSET Uid, fl \in FlagsType DEF new
  <2> HIDE DEF new
  <2> QED  BY <2>1
<1> HIDE DEF new
<1>2. View(new, lg, msgs, fl)
  BY <1>1 DEF View, LogOK, LogType
<1>3. Known(new, max)
  BY <1>1 DEF Known, LogOK
<1>4. /\ Fork(new) \in SelectedType
      /\ View(Fork(new), lg, msgs, fl) /\ Known(Fork(new), max)
  BY <1>1, <1>2, <1>3, ForkType DEF View, Known
<1> QED  BY <1>4 DEF new

\* select_mailbox keeps the invariant: the new view is the whole mailbox.
LEMMA SelectStep ==
    ASSUME ViewInv, NEW s \in Session, NEW mode \in Mode, Select(s, mode)
    PROVE  ViewInv'
<1> DEFINE claimed == IF mode = "rw" THEN recent ELSE {}
           fresh == [NewSelected(mode) EXCEPT !.recent = claimed, !.modseq = log'.highest]
<1>1. /\ messages \in SUBSET Uid /\ flags \in FlagsType /\ recent \subseteq messages
      /\ maxUid \in 0..MaxUid /\ log \in LogType /\ LogOK(log, messages, maxUid)
  BY DEF ViewInv, TypeOK, FlagsType
<1>2. claimed \in SUBSET Uid /\ \A u \in claimed : u <= maxUid
  BY <1>1 DEF LogOK
<1>3. PICK C \in SUBSET Uid : StoreStep(C)
  <2>1. CASE mode = "rw"
    BY <1>1, <1>2, <2>1, StoreTouch DEF Select
  <2>2. CASE mode # "rw"
    <3>1. UNCHANGED store
      BY <1>1, <2>2 DEF Select, store
    <3> QED  BY <3>1, StoreSame
  <2> QED  BY <2>1, <2>2
<1>4. /\ log' \in LogType /\ log'.highest \in Nat /\ maxUid' \in Nat
      /\ LogOK(log', messages', maxUid')
  BY <1>3, UidAssumption DEF StoreStep, LogType
<1>5. mode \in {"rw", "ro"}
  BY SessionAssumption
<1>6. /\ fresh \in SelectedType /\ fresh.modseq = log'.highest
      /\ fresh.uids = {} /\ fresh.pending = {}
  BY <1>2, <1>4, <1>5, NewSelectedType DEF NewSelected, SelectedType
<1>7. /\ messages' = messages /\ flags' = flags /\ maxUid' = maxUid
      /\ sess' = [sess EXCEPT ![s] = Fork(UpdateMessages(fresh, messages, flags))]
  BY DEF Select
<1> HIDE DEF fresh
<1>8. PICK f : f = fresh
  OBVIOUS
<1>9. PICK lg : lg = log'
  OBVIOUS
<1>10. LogOK(lg, messages, maxUid) /\ lg \in LogType /\ f \in SelectedType
       /\ f.modseq = lg.highest /\ f.uids = {} /\ f.pending = {} /\ maxUid \in Nat
  BY <1>4, <1>6, <1>7, <1>8, <1>9
<1> DEFINE sel == Fork(UpdateMessages(f, messages, flags))
<1>11. sel \in SelectedType /\ View(sel, lg, messages, flags) /\ Known(sel, maxUid)
  BY <1>1, <1>10, FreshView
<1> HIDE DEF sel
<1>12. sel \in SelectedType /\ View(sel, log', messages', flags') /\ Known(sel, maxUid')
  BY <1>7, <1>9, <1>11
<1>13. sess' = [sess EXCEPT ![s] = sel]
  BY <1>7, <1>8 DEF sel
<1> QED  BY <1>3, <1>12, <1>13, OnlySession

\* LOGOUT: the session has no view left to be wrong.
LEMMA DeselectStep ==
    ASSUME ViewInv, NEW s \in Session, Deselect(s)
    PROVE  ViewInv'
<1>1. StoreStep({})
  BY StoreSame DEF Deselect
<1>2. NotSelected \in SelectedType /\ NotSelected.mode = "none"
  BY NewSelectedType DEF NotSelected, NewSelected
<1>3. sess' = [sess EXCEPT ![s] = NotSelected]
  BY DEF Deselect
<1> QED  BY <1>1, <1>2, <1>3, OnlySession

\* EXPUNGE and CLOSE take away messages the session could name.
LEMMA DeleteStep ==
    ASSUME ViewInv, NEW s \in Session, Selecting(s), NEW S \in SUBSET sess[s].uids, Delete(s, S)
    PROVE  \E C \in SUBSET Uid : StoreStep(C)
<1> DEFINE deleted == {u \in S \cap sess[s].uids : "Deleted" \in flags[u]}
<1>1. deleted \in SUBSET Uid /\ \A u \in deleted : u <= maxUid
  BY InView
<1>2. /\ messages' = messages \ deleted /\ recent' = recent \ deleted
      /\ log' = Record(log, deleted, "expunge") /\ UNCHANGED <<flags, maxUid>>
  BY DEF Delete
<1> HIDE DEF deleted
<1> QED  BY <1>1, <1>2, StoreDelete

\* do_close keeps the invariant for the sessions that stay.
LEMMA CloseStep ==
    ASSUME ViewInv, NEW s \in Session, Close(s)
    PROVE  ViewInv'
<1>1. PICK C \in SUBSET Uid : StoreStep(C)
  BY DeleteStep DEF Close, Writing, Selecting
<1>2. NotSelected \in SelectedType /\ NotSelected.mode = "none"
  BY NewSelectedType DEF NotSelected, NewSelected
<1>3. sess' = [sess EXCEPT ![s] = NotSelected]
  BY DEF Close
<1> QED  BY <1>1, <1>2, <1>3, OnlySession

\* The selected mailboxes a command leaves as they were.
LEMMA SessView ==
    ASSUME ViewInv
    PROVE  sess \in [Session -> SelectedType] /\ \A t \in Session : SameView(sess[t], sess[t])
BY DEF ViewInv, TypeOK, SameView

\* do_expunge keeps the invariant: delete() records what it takes away.
LEMMA ExpungeStep ==
    ASSUME ViewInv, NEW s \in Session, NEW S \in SUBSET sess[s].uids, Expunge(s, S)
    PROVE  ViewInv'
<1>1. PICK C \in SUBSET Uid : StoreStep(C)
  BY DeleteStep DEF Expunge, Writing, Selecting
<1>2. Complete(s, sess, <<>>, client[s])
  BY DEF Expunge
<1> QED  BY <1>1, <1>2, SessView, CompleteStep

\* The commands that only synchronise, or only read.
LEMMA ReadStep ==
    ASSUME ViewInv, NEW s \in Session, NEW given \in [Session -> SelectedType],
           \A t \in Session : SameView(given[t], sess[t]),
           NEW own, NEW told, UNCHANGED store, Complete(s, given, own, told)
    PROVE  ViewInv'
BY StoreSame, CompleteStep

\* move_messages to another mailbox keeps the invariant.
LEMMA MoveOutStep ==
    ASSUME ViewInv, NEW s \in Session, NEW u \in Uid, MoveOut(s, u)
    PROVE  ViewInv'
<1>1. u <= maxUid
  BY DEF MoveOut, ViewInv, LogOK
<1>2. /\ messages' = messages \ {u} /\ recent' = recent \ {u}
      /\ log' = Record(log, {u}, "expunge") /\ UNCHANGED <<flags, maxUid>>
      /\ Complete(s, sess, <<>>, client[s])
  BY DEF MoveOut
<1>3. StoreStep({u})
  BY <1>1, <1>2, StoreDelete
<1> QED  BY <1>2, <1>3, SessView, CompleteStep

\* APPEND, COPY and MOVE, the ways a message gets a new UID.
LEMMA AddStep ==
    ASSUME ViewInv, NEW s \in Session, NEW to \in SUBSET Session, NEW fl \in SUBSET Flag,
           NEW D \in SUBSET Uid, \A u \in D : u <= maxUid, Add(messages \ D, fl, to),
           NEW lg, lg = Record(log, D, "expunge") \/ (D = {} /\ lg = log),
           log' = Record(lg, {maxUid + 1}, "update"),
           NEW own, NEW told, Complete(s, AddRecent(to), own, told)
    PROVE  ViewInv'
<1>1. maxUid + 1 \in Uid
  BY UidAssumption DEF ViewInv, TypeOK, Add, Uid
<1>2. StoreStep(D \cup {maxUid + 1})
  BY StoreAdd
<1>3. /\ AddRecent(to) \in [Session -> SelectedType]
      /\ \A t \in Session : SameView(AddRecent(to)[t], sess[t])
  BY <1>1, AddRecentView
<1>4. D \cup {maxUid + 1} \in SUBSET Uid
  BY <1>1
<1> QED  BY <1>2, <1>3, <1>4, CompleteStep

\* append_messages keeps the invariant, whichever session gets \Recent.
LEMMA AppendStep ==
    ASSUME ViewInv, NEW s \in Session, NEW newFlags \in Operand \cup {{}},
           AppendMessage(s, newFlags)
    PROVE  ViewInv'
<1>1. PICK to \in SUBSET Recipients(s) :
          /\ Add(messages, newFlags, to)
          /\ log' = Record(log, {maxUid + 1}, "update")
          /\ Complete(s, AddRecent(to), <<>>, client[s])
  BY DEF AppendMessage
<1>2. to \in SUBSET Session
  BY DEF Recipients
<1>3. newFlags \in SUBSET Flag
  BY SessionAssumption
<1>4. messages \ {} = messages
  OBVIOUS
<1>5. Add(messages \ {}, newFlags, to)
  BY <1>1, <1>4
<1> QED  BY <1>1, <1>2, <1>3, <1>5, AddStep

\* copy_messages within the mailbox keeps the invariant.
LEMMA CopyStep ==
    ASSUME ViewInv, NEW s \in Session, NEW u \in Uid, CopyMessage(s, u)
    PROVE  ViewInv'
<1>1. /\ Add(messages, flags[u], {s})
      /\ log' = Record(log, {maxUid + 1}, "update")
      /\ Complete(s, AddRecent({s}), <<>>, client[s])
  BY DEF CopyMessage
<1>2. flags[u] \in SUBSET Flag
  BY DEF ViewInv, TypeOK
<1>3. messages \ {} = messages
  OBVIOUS
<1>4. Add(messages \ {}, flags[u], {s})
  BY <1>1, <1>3
<1> QED  BY <1>1, <1>2, <1>4, AddStep

\* move_messages within the mailbox keeps the invariant: two changes, two numbers.
LEMMA MoveWithinStep ==
    ASSUME ViewInv, NEW s \in Session, NEW u \in Uid, MoveWithin(s, u)
    PROVE  ViewInv'
<1>1. /\ Add(messages \ {u}, flags[u], {s})
      /\ log' = Record(Record(log, {u}, "expunge"), {maxUid + 1}, "update")
      /\ Complete(s, AddRecent({s}), <<>>, client[s])
  BY DEF MoveWithin
<1>2. flags[u] \in SUBSET Flag
  BY DEF ViewInv, TypeOK
<1>3. \A v \in {u} : v <= maxUid
  BY DEF MoveWithin, ViewInv, LogOK
<1> QED  BY <1>1, <1>2, <1>3, AddStep

\* FETCH of a body and STORE, which touch the messages they name.
LEMMA TouchStep ==
    ASSUME ViewInv, NEW s \in Session, Selecting(s), NEW S \in SUBSET sess[s].uids,
           NEW op \in FlagOp, NEW operand \in SUBSET Flag, UpdateFlags(S, op, operand),
           NEW given \in [Session -> SelectedType],
           \A t \in Session : SameView(given[t], sess[t]),
           NEW own, NEW told, Complete(s, given, own, told)
    PROVE  ViewInv'
<1>1. S \in SUBSET Uid /\ \A u \in S : u <= maxUid
  BY InView
<1>2. flags \in FlagsType /\ recent \subseteq messages
  BY DEF ViewInv, TypeOK, FlagsType
<1>3. \A u \in Uid : Apply(op, flags[u], operand) \in SUBSET Flag
  BY <1>2, ApplyType DEF FlagsType
<1>4. flags' \in FlagsType /\ \A u \in Uid \ S : flags'[u] = flags[u]
  BY <1>2, <1>3 DEF UpdateFlags, FlagsType
<1>5. messages' = messages /\ maxUid' = maxUid /\ recent' \subseteq messages
      /\ log' = RecordEach(log, S)
  BY <1>2 DEF UpdateFlags
<1>6. StoreStep(S)
  BY <1>1, <1>4, <1>5, StoreTouch
<1> QED  BY <1>1, <1>6, CompleteStep

\* do_fetch that sets \Seen keeps the invariant.
LEMMA FetchBodyStep ==
    ASSUME ViewInv, NEW s \in Session, NEW uid \in BOOLEAN,
           NEW S \in SUBSET sess[s].uids, FetchBody(s, uid, S)
    PROVE  ViewInv'
<1>1. Selecting(s)
  BY DEF FetchBody, Writing, Selecting
<1>2. "ADD" \in FlagOp /\ {"Seen"} \in SUBSET Flag
  BY FlagAssumption DEF FlagOp
<1>3. UpdateFlags(S, "ADD", {"Seen"})
  BY DEF FetchBody
<1>4. /\ Hiding(s, uid) \in [Session -> SelectedType]
      /\ \A t \in Session : SameView(Hiding(s, uid)[t], sess[t])
  BY HidingView
<1>5. PICK own, told : Complete(s, Hiding(s, uid), own, told)
  BY DEF FetchBody
<1> QED  BY <1>1, <1>2, <1>3, <1>4, <1>5, TouchStep

\* What hide_expunged and silence() leave.
LEMMA HandledView ==
    ASSUME ViewInv, NEW s \in Session, NEW uid \in BOOLEAN, NEW silent \in BOOLEAN,
           NEW S \in SUBSET Uid, NEW op \in FlagOp, NEW operand \in SUBSET Flag
    PROVE  /\ StoreHandled(s, uid, silent, S, op, operand) \in SelectedType
           /\ SameView(StoreHandled(s, uid, silent, S, op, operand), sess[s])
           /\ StoreHandled(s, uid, silent, S, op, operand).recent = sess[s].recent
<1> DEFINE hid == Hiding(s, uid)[s]
           silenced == Silence(hid, S, op, operand, flags)
<1>1. hid \in SelectedType /\ SameView(hid, sess[s]) /\ hid.recent = sess[s].recent
  BY HidingView
<1>2. flags \in FlagsType
  BY DEF ViewInv, TypeOK, FlagsType
<1> HIDE DEF hid
<1>3. silenced \in SelectedType /\ SameView(silenced, hid) /\ silenced.recent = hid.recent
  BY <1>1, <1>2, SilenceView
<1> HIDE DEF silenced
<1>4. StoreHandled(s, uid, silent, S, op, operand) = IF silent THEN silenced ELSE hid
  BY DEF StoreHandled, silenced, hid
<1> QED  BY <1>1, <1>3, <1>4 DEF SameView

\* do_store keeps the invariant, silent or not.
LEMMA StoreFlagsStep ==
    ASSUME ViewInv, NEW s \in Session, NEW uid \in BOOLEAN, NEW silent \in BOOLEAN,
           NEW S \in SUBSET sess[s].uids, NEW op \in FlagOp, NEW operand \in Operand,
           StoreFlags(s, uid, silent, S, op, operand)
    PROVE  ViewInv'
<1> DEFINE handled == StoreHandled(s, uid, silent, S, op, operand)
           given == [sess EXCEPT ![s] = handled]
<1>1. Selecting(s) /\ UpdateFlags(S, op, operand)
  BY DEF StoreFlags, Writing, Selecting
<1>2. S \in SUBSET Uid /\ operand \in SUBSET Flag
  BY <1>1, InView, SessionAssumption
<1>3. PICK own, told : Complete(s, given, own, told)
  BY DEF StoreFlags
<1>4. handled \in SelectedType /\ SameView(handled, sess[s])
  BY <1>2, HandledView
<1> HIDE DEF handled
<1>5. given \in [Session -> SelectedType] /\ \A t \in Session : SameView(given[t], sess[t])
  BY <1>4, SessView
<1> HIDE DEF given
<1> QED  BY <1>1, <1>2, <1>3, <1>5, TouchStep

\* A refused STORE leaves the view as it was, though not the rest.
LEMMA RefusedStep ==
    ASSUME ViewInv, NEW s \in Session, NEW uid \in BOOLEAN, NEW silent \in BOOLEAN,
           NEW S \in SUBSET sess[s].uids, NEW op \in FlagOp, NEW operand \in Operand,
           StoreRefused(s, uid, silent, S, op, operand)
    PROVE  ViewInv'
<1> DEFINE handled == StoreHandled(s, uid, silent, S, op, operand)
<1>1. Selecting(s)
  BY DEF StoreRefused, Selecting
<1>2. S \in SUBSET Uid /\ operand \in SUBSET Flag
  BY <1>1, InView, SessionAssumption
<1>3. sess' = [sess EXCEPT ![s] = handled]
  BY DEF StoreRefused
<1>4. handled \in SelectedType /\ SameView(handled, sess[s])
  BY <1>2, HandledView
<1> HIDE DEF handled
<1>5. StoreStep({})
  BY StoreSame DEF StoreRefused, store
<1>6. View(handled, log', messages', flags') /\ Known(handled, maxUid')
  BY <1>1, <1>4, <1>5, Bystander
<1> QED  BY <1>3, <1>4, <1>5, <1>6, OnlySession

-----------------------------------------------------------------------------
\* Every command keeps the invariant: the induction step of ViewCorrect.
LEMMA ViewStep == ViewInv /\ [Next]_vars => ViewInv'
<1> SUFFICES ASSUME ViewInv, [Next]_vars PROVE ViewInv'
  OBVIOUS
<1>1. ASSUME NEW s \in Session, NEW mode \in Mode, Select(s, mode) PROVE ViewInv'
  BY <1>1, SelectStep
<1>2. ASSUME NEW s \in Session, Deselect(s) PROVE ViewInv'
  BY <1>2, DeselectStep
<1>3. ASSUME NEW s \in Session, Close(s) PROVE ViewInv'
  BY <1>3, CloseStep
<1>4. ASSUME NEW s \in Session, NEW newFlags \in Operand \cup {{}}, AppendMessage(s, newFlags)
      PROVE  ViewInv'
  BY <1>4, AppendStep
<1>5. ASSUME NEW s \in Session, NEW u \in Uid,
             CopyMessage(s, u) \/ MoveWithin(s, u) \/ MoveOut(s, u)
      PROVE  ViewInv'
  BY <1>5, CopyStep, MoveWithinStep, MoveOutStep
<1>6. ASSUME NEW s \in Session, Noop(s) PROVE ViewInv'
  <2>1. UNCHANGED store /\ Complete(s, sess, <<>>, client[s])
    BY <1>6 DEF Noop
  <2> QED  BY <2>1, SessView, ReadStep
<1>7. ASSUME NEW s \in Session, Search(s) PROVE ViewInv'
  <2>1. UNCHANGED store /\ Complete(s, Hiding(s, FALSE), <<>>, client[s])
    BY <1>7 DEF Search
  <2> QED  BY <2>1, HidingView, ReadStep
<1>8. ASSUME NEW s \in Session, FlagCommand(s) PROVE ViewInv'
  <2>1. PICK uid \in BOOLEAN, S \in SUBSET sess[s].uids :
            \/ FetchFlags(s, uid, S)
            \/ FetchBody(s, uid, S)
            \/ \E silent \in BOOLEAN, op \in FlagOp, operand \in Operand :
                   \/ StoreFlags(s, uid, silent, S, op, operand)
                   \/ StoreRefused(s, uid, silent, S, op, operand)
    BY <1>8, SessionAssumption DEF FlagCommand
  <2>2. CASE FetchFlags(s, uid, S)
    <3>1. UNCHANGED store /\ Complete(s, Hiding(s, uid), FetchEach(s, uid, S, flags), client[s])
      BY <2>2 DEF FetchFlags
    <3> QED  BY <3>1, HidingView, ReadStep
  <2>3. CASE FetchBody(s, uid, S)
    BY <2>3, FetchBodyStep
  <2>4. ASSUME NEW silent \in BOOLEAN, NEW op \in FlagOp, NEW operand \in Operand,
               \/ StoreFlags(s, uid, silent, S, op, operand)
               \/ StoreRefused(s, uid, silent, S, op, operand)
        PROVE  ViewInv'
    BY <2>4, StoreFlagsStep, RefusedStep
  <2> QED  BY <2>1, <2>2, <2>3, <2>4
<1>9. ASSUME NEW s \in Session, NEW S \in SUBSET sess[s].uids, Expunge(s, S) PROVE ViewInv'
  BY <1>9, ExpungeStep
<1>10. CASE UNCHANGED vars
  BY <1>10 DEF vars, ViewInv, TypeOK, SessionsOK, Selecting
<1>11. CASE Next
  BY <1>1, <1>2, <1>3, <1>4, <1>5, <1>6, <1>7, <1>8, <1>9, <1>11 DEF Next
<1> QED  BY <1>10, <1>11

\* The invariant implies the property: a view follows the mailbox.
LEMMA ViewInvImplies == ViewInv => ViewFollowsMailbox
<1> SUFFICES ASSUME ViewInv, NEW s \in Session, NEW u \in Uid,
                    Selecting(s), log.last[u].seq <= sess[s].modseq
             PROVE  /\ u \in messages => u \in sess[s].uids /\ sess[s].keys[u] = flags[u]
                    /\ u \in sess[s].uids \ sess[s].pending => u \in messages \cup Superseded
  BY DEF ViewFollowsMailbox
<1>1. View(sess[s], log, messages, flags)
  BY DEF ViewInv, SessionsOK
<1> QED  BY <1>1 DEF View, Superseded

\* The invariant the properties follow from, for any number of sessions.
THEOREM ViewInvCorrect == Spec => []ViewInv
<1> QED  BY ViewInit, ViewStep, PTL DEF Spec

\* Every variable keeps its type, whatever the sessions do: in particular no
\* command gives a message a flag that is not defined, or \Recent to store.
THEOREM TypeCorrect == Spec => []TypeOK
<1>1. ViewInv => TypeOK
  BY DEF ViewInv
<1> QED  BY <1>1, ViewInvCorrect, PTL

\* A session that has seen the last change of a message agrees with the mailbox
\* on it: the partial updates of update_selected add up to the whole mailbox,
\* for any number of sessions, messages, flags and changes.
THEOREM ViewCorrect == Spec => []ViewFollowsMailbox
<1> QED  BY ViewInvCorrect, ViewInvImplies, PTL

-----------------------------------------------------------------------------
(* RecentOnce.  UIDs are never used again, so the new message of an APPEND *)
(* is in nobody's \Recent; every other step hands marks over or drops them.*)

RecentInv ==
    /\ ViewInv
    /\ RecentOnce
    /\ \A s \in Session : \A u \in sess[s].recent : u <= maxUid

\* update_selected gives a session no mark.
LEMMA UpdateSelectedRecent ==
    ASSUME NEW sel \in SelectedType, NEW lg \in LogType, NEW msgs \in SUBSET Uid,
           NEW fl \in FlagsType
    PROVE  /\ UpdateSelected(sel, lg, msgs, fl) \in SelectedType
           /\ UpdateSelected(sel, lg, msgs, fl).recent \subseteq sel.recent
<1> DEFINE numbered == [sel EXCEPT !.modseq = lg.highest]
           U == Since(lg, "update", sel.modseq) \cap msgs
           E == Since(lg, "expunge", sel.modseq)
           upd == UpdateMessages(numbered, U, fl)
<1>1. numbered \in SelectedType /\ numbered.recent = sel.recent
  BY DEF LogType, SelectedType
<1>2. U \in SUBSET Uid /\ E \in SUBSET Uid
  BY DEF Since
<1>3. UpdateSelected(sel, lg, msgs, fl) = RemoveMessages(upd, E)
  BY DEF UpdateSelected, AddUpdates
<1> HIDE DEF numbered, U, E
<1>4. upd \in SelectedType /\ upd.recent = numbered.recent
  <2>1. /\ upd \in SelectedType
        /\ upd.mode = numbered.mode
        /\ upd.modseq = numbered.modseq
        /\ upd.uids = numbered.uids \cup U
        /\ upd.keys = [u \in Uid |-> IF u \in U THEN fl[u] ELSE numbered.keys[u]]
        /\ upd.pending = numbered.pending
        /\ upd.recent = numbered.recent
        /\ upd.hide = numbered.hide
    BY ONLY <1>1, <1>2, UpdateMessagesType, fl \in FlagsType DEF upd
  <2> QED  BY <2>1
<1> HIDE DEF upd
<1>5. RemoveMessages(upd, E) \in SelectedType /\ RemoveMessages(upd, E).recent \subseteq upd.recent
  BY <1>2, <1>4, RemoveMessagesType
<1> QED  BY <1>1, <1>3, <1>4, <1>5

\* The end of a command gives no session a mark that the handler did not.
LEMMA CompleteRecent ==
    ASSUME ViewInv', NEW s \in Session, NEW given \in [Session -> SelectedType],
           NEW own, NEW told, Complete(s, given, own, told)
    PROVE  \A t \in Session : sess'[t].recent \subseteq given[t].recent
<1> DEFINE sel == UpdateSelected(given[s], log', messages', flags')
<1>1. log' \in LogType /\ messages' \in SUBSET Uid /\ flags' \in FlagsType
  BY DEF ViewInv, TypeOK, FlagsType
<1>2. sel \in SelectedType /\ sel.recent \subseteq given[s].recent
  BY <1>1, UpdateSelectedRecent
<1>3. sess' = given \/ sess' = [given EXCEPT ![s] = Fork(sel)]
  BY DEF Complete
<1> HIDE DEF sel
<1>4. Fork(sel).recent = sel.recent
  BY <1>2, ForkType
<1> QED  BY <1>2, <1>3, <1>4

\* Handing over and dropping marks.
LEMMA RecentShrinks ==
    ASSUME RecentInv, ViewInv', maxUid' = maxUid, recent' \subseteq recent,
           \A t \in Session : sess'[t].recent \subseteq sess[t].recent
    PROVE  RecentInv'
BY DEF RecentInv, RecentOnce

\* Giving the new message's mark to one session, or to the mailbox.
LEMMA RecentAdd ==
    ASSUME RecentInv, ViewInv', NEW to \in SUBSET Session, NEW msgs \in SUBSET messages,
           NEW fl, Add(msgs, fl, to), \A t, r \in to : t = r,
           \A t \in Session : sess'[t].recent \subseteq AddRecent(to)[t].recent
    PROVE  RecentInv'
<1> DEFINE new == maxUid + 1
<1>1. \A t \in Session :
          sess'[t].recent \subseteq sess[t].recent \cup (IF t \in to THEN {new} ELSE {})
  BY DEF AddRecent, RecentInv, ViewInv, TypeOK, SelectedType
<1>2. maxUid \in Nat /\ maxUid' = new
      /\ recent' \subseteq recent \cup (IF to = {} THEN {new} ELSE {})
  BY UidAssumption DEF Add, RecentInv, ViewInv, TypeOK
<1>3. /\ \A u \in recent : u \in Uid /\ u <= maxUid
      /\ \A t \in Session : \A u \in sess[t].recent : u \in Uid /\ u <= maxUid
  BY DEF RecentInv, ViewInv, TypeOK, LogOK, SelectedType
<1>4. Uid \subseteq Nat
  BY UidAssumption DEF Uid
<1>5. new \notin recent /\ \A t \in Session : new \notin sess[t].recent
  BY <1>2, <1>3, <1>4
<1>6. \A t \in Session : \A u \in sess'[t].recent : u <= maxUid'
  <2> SUFFICES ASSUME NEW t \in Session, NEW u \in sess'[t].recent
               PROVE  u <= maxUid'
    OBVIOUS
  <2>1. u = new \/ (u \in Nat /\ u <= maxUid)
    BY <1>1, <1>3, <1>4
  <2> QED  BY <1>2, <2>1
<1> HIDE DEF new
<1>7. \A t \in Session : sess'[t].recent \cap recent' = {}
  BY <1>1, <1>2, <1>5 DEF RecentInv, RecentOnce
<1>8. \A t, r \in Session : t # r => sess'[t].recent \cap sess'[r].recent = {}
  BY <1>1, <1>5 DEF RecentInv, RecentOnce
<1> QED  BY <1>6, <1>7, <1>8 DEF RecentInv, RecentOnce

\* SELECT: a read-write session takes all the marks there are.
LEMMA RecentSelect ==
    ASSUME RecentInv, ViewInv', NEW s \in Session, NEW mode \in Mode, Select(s, mode)
    PROVE  RecentInv'
<1> DEFINE claimed == IF mode = "rw" THEN recent ELSE {}
           fresh == [NewSelected(mode) EXCEPT !.recent = claimed, !.modseq = log'.highest]
           sel == Fork(UpdateMessages(fresh, messages, flags))
<1>1. claimed \in SUBSET Uid /\ claimed \subseteq recent
  BY DEF RecentInv, ViewInv, TypeOK
<1>2. log'.highest \in Nat /\ mode \in {"rw", "ro"}
  BY SessionAssumption DEF ViewInv, TypeOK, LogType
<1>3. /\ recent' = recent \ claimed /\ maxUid' = maxUid
      /\ sess' = [sess EXCEPT ![s] = sel]
  BY DEF Select
<1> HIDE DEF claimed
<1>4. fresh \in SelectedType /\ fresh.recent = claimed
  BY ONLY <1>1, <1>2, NewSelectedType DEF NewSelected, SelectedType, fresh
<1>5. messages \in SUBSET Uid /\ flags \in FlagsType
  BY DEF RecentInv, ViewInv, TypeOK, FlagsType
<1> HIDE DEF fresh
<1>6. /\ UpdateMessages(fresh, messages, flags) \in SelectedType
      /\ UpdateMessages(fresh, messages, flags).recent = claimed
  <2>1. fresh \in SelectedType
    BY <1>4
  <2>2. fresh.recent = claimed
    BY <1>4
  <2>3. messages \in SUBSET Uid
    BY <1>5
  <2>4. flags \in FlagsType
    BY <1>5
  <2>5. /\ UpdateMessages(fresh, messages, flags) \in SelectedType
        /\ UpdateMessages(fresh, messages, flags).recent = fresh.recent
    BY ONLY <2>1, <2>3, <2>4, UpdateMessagesRecent, Zenon
  <2> QED  BY ONLY <2>2, <2>5
<1>7. sel.recent = claimed
  BY ONLY <1>6, ForkType DEF sel
<1> HIDE DEF sel
<1>8. sess'[s].recent = claimed /\ \A t \in Session \ {s} : sess'[t] = sess[t]
  BY <1>3, <1>7 DEF RecentInv, ViewInv, TypeOK
<1>9. \A u \in recent : u <= maxUid
  BY DEF RecentInv, ViewInv, TypeOK, LogOK
<1>10. \A t \in Session : \A u \in sess'[t].recent : u <= maxUid'
  BY <1>1, <1>3, <1>8, <1>9 DEF RecentInv
<1>11. \A t \in Session : sess'[t].recent \cap recent' = {}
  BY <1>3, <1>8 DEF RecentInv, RecentOnce
<1>12. \A t, r \in Session : t # r => sess'[t].recent \cap sess'[r].recent = {}
  BY <1>1, <1>8 DEF RecentInv, RecentOnce
<1> QED  BY <1>10, <1>11, <1>12 DEF RecentInv, RecentOnce

\* Every command keeps RecentInv: append, copy and move give a new message's
\* \Recent away once, and SELECT claims only marks no session has.
LEMMA RecentStep == RecentInv /\ [Next]_vars => RecentInv'
<1> SUFFICES ASSUME RecentInv, [Next]_vars PROVE RecentInv'
  OBVIOUS
<1> USE ViewStep DEF RecentInv
<1>0. ViewInv'
  OBVIOUS
<1> DEFINE Quiet == /\ maxUid' = maxUid /\ recent' \subseteq recent
                    /\ \A t \in Session : sess'[t].recent \subseteq sess[t].recent
<1>q. Quiet => RecentInv'
  BY <1>0, RecentShrinks
<1>1. ASSUME NEW s \in Session, NEW mode \in Mode, Select(s, mode) PROVE RecentInv'
  BY <1>0, <1>1, RecentSelect
<1>2. ASSUME NEW s \in Session, Deselect(s) \/ Close(s) PROVE RecentInv'
  <2>1. maxUid' = maxUid /\ recent' \subseteq recent /\ sess' = [sess EXCEPT ![s] = NotSelected]
    BY <1>2 DEF Deselect, Close, Delete, store
  <2>2. NotSelected.recent = {}
    BY DEF NotSelected, NewSelected
  <2> QED  BY <1>q, <2>1, <2>2 DEF ViewInv, TypeOK
<1>3. ASSUME NEW s \in Session, NEW newFlags \in Operand \cup {{}}, AppendMessage(s, newFlags)
      PROVE  RecentInv'
  <2>1. PICK to \in SUBSET Recipients(s) :
            /\ \A t, r \in to : t = r
            /\ Add(messages, newFlags, to)
            /\ Complete(s, AddRecent(to), <<>>, client[s])
    BY <1>3 DEF AppendMessage
  <2>2. to \in SUBSET Session
    BY DEF Recipients
  <2>3. maxUid + 1 \in Uid
    BY <2>1, UidAssumption DEF ViewInv, TypeOK, Add, Uid
  <2>4. AddRecent(to) \in [Session -> SelectedType]
    BY <2>2, <2>3, AddRecentView
  <2>5. \A t \in Session : sess'[t].recent \subseteq AddRecent(to)[t].recent
    BY <1>0, <2>1, <2>4, CompleteRecent
  <2> QED  BY <1>0, <2>1, <2>2, <2>5, RecentAdd
<1>4. ASSUME NEW s \in Session, NEW u \in Uid, CopyMessage(s, u) \/ MoveWithin(s, u)
      PROVE  RecentInv'
  <2>1. PICK msgs \in SUBSET messages :
            /\ Add(msgs, flags[u], {s})
            /\ Complete(s, AddRecent({s}), <<>>, client[s])
    BY <1>4 DEF CopyMessage, MoveWithin
  <2>2. maxUid + 1 \in Uid
    BY <2>1, UidAssumption DEF ViewInv, TypeOK, Add, Uid
  <2>3. AddRecent({s}) \in [Session -> SelectedType]
    BY <2>2, AddRecentView
  <2>4. \A t \in Session : sess'[t].recent \subseteq AddRecent({s})[t].recent
    BY <1>0, <2>1, <2>3, CompleteRecent
  <2> QED  BY <1>0, <2>1, <2>4, RecentAdd
<1>5. ASSUME NEW s \in Session, NEW given \in [Session -> SelectedType], NEW own, NEW told,
             \A t \in Session : given[t].recent \subseteq sess[t].recent,
             maxUid' = maxUid, recent' \subseteq recent, Complete(s, given, own, told)
      PROVE  RecentInv'
  <2>1. \A t \in Session : sess'[t].recent \subseteq given[t].recent
    BY <1>0, <1>5, CompleteRecent
  <2> QED  BY <1>5, <1>q, <2>1
<1>6. ASSUME NEW s \in Session, NEW u \in Uid, MoveOut(s, u) PROVE RecentInv'
  BY <1>5, <1>6, SessView DEF MoveOut
<1>7. ASSUME NEW s \in Session, Noop(s) \/ Search(s) PROVE RecentInv'
  <2>1. maxUid' = maxUid /\ recent' \subseteq recent
    BY <1>7 DEF Noop, Search, store
  <2>2. CASE Noop(s)
    BY <1>5, <2>1, <2>2, SessView DEF Noop
  <2>3. CASE Search(s)
    BY <1>5, <2>1, <2>3, HidingView DEF Search
  <2> QED  BY <1>7, <2>2, <2>3
<1>9. ASSUME NEW s \in Session, NEW S \in SUBSET sess[s].uids, Expunge(s, S) PROVE RecentInv'
  <2>1. maxUid' = maxUid /\ recent' \subseteq recent /\ Complete(s, sess, <<>>, client[s])
    BY <1>9 DEF Expunge, Delete
  <2> QED  BY <1>5, <2>1, SessView
<1>8. ASSUME NEW s \in Session, FlagCommand(s) PROVE RecentInv'
  <2>1. PICK uid \in BOOLEAN, S \in SUBSET sess[s].uids :
            \/ FetchFlags(s, uid, S)
            \/ FetchBody(s, uid, S)
            \/ \E silent \in BOOLEAN, op \in FlagOp, operand \in Operand :
                   \/ StoreFlags(s, uid, silent, S, op, operand)
                   \/ StoreRefused(s, uid, silent, S, op, operand)
    BY <1>8, SessionAssumption DEF FlagCommand
  <2>2. CASE FetchFlags(s, uid, S) \/ FetchBody(s, uid, S)
    <3>1. /\ maxUid' = maxUid /\ recent' = recent
          /\ \E own, told : Complete(s, Hiding(s, uid), own, told)
      BY <2>2 DEF FetchFlags, FetchBody, UpdateFlags, store
    <3> DEFINE given == Hiding(s, uid)
    <3>2. given \in [Session -> SelectedType] /\ \A t \in Session : given[t].recent = sess[t].recent
      BY HidingView
    <3>3. \E own, told : Complete(s, given, own, told)
      BY <3>1
    <3> HIDE DEF given
    <3> QED  BY <1>5, <3>1, <3>2, <3>3
  <2>3. ASSUME NEW silent \in BOOLEAN, NEW op \in FlagOp, NEW operand \in Operand,
               \/ StoreFlags(s, uid, silent, S, op, operand)
               \/ StoreRefused(s, uid, silent, S, op, operand)
        PROVE  RecentInv'
    <3> DEFINE handled == StoreHandled(s, uid, silent, S, op, operand)
               given == [sess EXCEPT ![s] = handled]
    <3>1. maxUid' = maxUid /\ recent' = recent
      BY <2>3 DEF StoreFlags, StoreRefused, UpdateFlags, store
    <3>2. Selecting(s) /\ operand \in SUBSET Flag
      BY <2>3, SessionAssumption DEF StoreFlags, StoreRefused, Writing, Selecting
    <3>3. S \in SUBSET Uid
      BY <3>2, InView
    <3>4. handled \in SelectedType /\ handled.recent = sess[s].recent
      BY <3>2, <3>3, HandledView
    <3>5. CASE StoreRefused(s, uid, silent, S, op, operand)
      <4>1. sess' = given
        BY <3>5 DEF StoreRefused
      <4> HIDE DEF given, handled
      <4>2. given[s] = handled /\ \A t \in Session \ {s} : given[t] = sess[t]
        BY SessView DEF given
      <4> QED  BY <1>q, <3>1, <3>4, <4>1, <4>2
    <3>6. CASE StoreFlags(s, uid, silent, S, op, operand)
      <4>1. \E own, told : Complete(s, given, own, told)
        BY <3>6 DEF StoreFlags
      <4> HIDE DEF handled
      <4>2. given \in [Session -> SelectedType] /\ \A t \in Session : given[t].recent = sess[t].recent
        BY <3>4, SessView
      <4> HIDE DEF given
      <4> QED  BY <1>5, <3>1, <4>1, <4>2
    <3> QED  BY <2>3, <3>5, <3>6
  <2> QED  BY <2>1, <2>2, <2>3
<1>10. CASE UNCHANGED vars
  BY <1>10, <1>q DEF vars
<1>11. CASE Next
  BY <1>1, <1>2, <1>3, <1>4, <1>6, <1>7, <1>8, <1>9, <1>11 DEF Next
<1> QED  BY <1>10, <1>11

\* No two sessions have a message as \Recent, nor does a session together with
\* the mailbox's own mark: append, copy, move and select hand the mark over.
THEOREM RecentCorrect == Spec => []RecentOnce
<1>1. Init => RecentInv
  BY ViewInit, NewSelectedType DEF Init, RecentInv, RecentOnce, NotSelected, NewSelected
<1>2. RecentInv => RecentOnce
  BY DEF RecentInv
<1> QED  BY <1>1, <1>2, RecentStep, PTL DEF Spec

-----------------------------------------------------------------------------
(* The clients.  First induction, and lists in ascending order.            *)

\* What holds at 0 and is handed on holds up to n: the least number at which
\* it does not would have one before it at which it does.
LEMMA UpTo ==
    ASSUME NEW n \in Nat, NEW T, 0 \in T, \A i \in 1..n : i - 1 \in T => i \in T
    PROVE  \A i \in 0..n : i \in T
<1> DEFINE Bad == {i \in 0..n : i \notin T}
<1> SUFFICES ASSUME Bad # {} PROVE FALSE
  OBVIOUS
<1>1. Bad \subseteq Nat
  OBVIOUS
<1>2. PICK x \in Bad : \A y \in Bad : ~ (<<y, x>> \in OpToRel(<, Nat))
  <2> HIDE DEF Bad
  <2> QED  BY <1>1, NatLessThanWellFounded, WFMin
<1>3. \A y \in Bad : ~ (y < x)
  BY <1>1, <1>2 DEF OpToRel
<1>4. x \in 1..n /\ x - 1 \in 0..n /\ x - 1 < x
  OBVIOUS
<1>5. x - 1 \in T
  BY <1>3, <1>4
<1> QED  BY <1>4, <1>5

\* The ranks of UIDs are the numbers up to how many there are, in their order.
LEMMA UidRanks ==
    ASSUME NEW S \in SUBSET Uid
    PROVE  /\ IsFiniteSet(S) /\ Cardinality(S) \in Nat
           /\ \A u \in S : Rank(S, u) \in 1..Cardinality(S)
           /\ \A u, v \in S : u < v => Rank(S, u) < Rank(S, v)
           /\ \A k \in 1..Cardinality(S) : \E u \in S : Rank(S, u) = k
<1> DEFINE Below(u) == {v \in S : v <= u}
<1>1. IsFiniteSet(S) /\ Cardinality(S) \in Nat
  BY UidFinite
<1>0. S \subseteq Int
  BY UidAssumption DEF Uid
<1>2. ASSUME NEW u \in S
      PROVE  /\ IsFiniteSet(Below(u)) /\ Cardinality(Below(u)) \in Nat
             /\ Rank(S, u) \in 1..Cardinality(S)
  <2>1. Below(u) \in SUBSET Uid
    OBVIOUS
  <2> HIDE DEF Below
  <2>2. IsFiniteSet(Below(u)) /\ Cardinality(Below(u)) \in Nat
    BY <2>1, UidFinite
  <2>3. Rank(S, u) \in Nat /\ 1 <= Rank(S, u) /\ Rank(S, u) <= Cardinality(S)
    BY RankBound
  <2> QED  BY <1>1, <2>2, <2>3
<1>3. ASSUME NEW u \in S, NEW v \in S, u < v
      PROVE  Rank(S, u) < Rank(S, v)
  <2>1. v \notin Below(u) /\ Below(u) \cup {v} \subseteq Below(v)
    <3>1. \A w \in S : w <= u => w <= v
      BY <1>0, <1>3
    <3>2. ~ (v <= u) /\ v <= v
      BY <1>0, <1>3
    <3> QED  BY <3>1, <3>2
  <2>2. /\ IsFiniteSet(Below(u)) /\ Cardinality(Below(u)) \in Nat
        /\ IsFiniteSet(Below(v)) /\ Cardinality(Below(v)) \in Nat
    BY <1>2
  <2> HIDE DEF Below
  <2>3. IsFiniteSet(Below(u) \cup {v}) /\ Cardinality(Below(u) \cup {v}) = Cardinality(Below(u)) + 1
    BY <2>1, <2>2, FS_AddElement
  <2>4. Cardinality(Below(u) \cup {v}) <= Cardinality(Below(v))
    BY <2>1, <2>2, FS_Subset
  <2>5. Cardinality(Below(u)) < Cardinality(Below(v))
    BY <2>2, <2>3, <2>4
  <2> QED  BY <2>5 DEF Rank, Below
<1>4. \A u \in S : Rank(S, u) \in 1..Cardinality(S)
  BY <1>2
<1>5. \A k \in 1..Cardinality(S) : \E u \in S : Rank(S, u) = k
  <2> DEFINE f == [u \in S |-> Rank(S, u)]
  <2>1. \A u, v \in S : Rank(S, u) = Rank(S, v) => u = v
    <3> SUFFICES ASSUME NEW u \in S, NEW v \in S, Rank(S, u) = Rank(S, v), u # v PROVE FALSE
      OBVIOUS
    <3>1. u < v \/ v < u
      BY <1>0
    <3>2. Rank(S, u) \in Int /\ Rank(S, v) \in Int
      BY <1>1, <1>4
    <3> QED  BY <1>3, <3>1, <3>2
  <2>2. f \in Injection(S, 1..Cardinality(S))
    BY <1>4, <2>1 DEF Injection, IsInjective
  <2>3. IsFiniteSet(1..Cardinality(S)) /\ Cardinality(1..Cardinality(S)) = Cardinality(S)
    BY <1>1, FS_Interval
  <2> HIDE DEF f
  <2>4. f \in Surjection(S, 1..Cardinality(S))
    BY <1>1, <2>2, <2>3, FS_Injection
  <2> QED  BY <2>4 DEF f, Surjection
<1> QED  BY <1>1, <1>3, <1>4, <1>5

\* Ascending lists a set by rank.
LEMMA AscendingRank ==
    ASSUME NEW S \in SUBSET Uid
    PROVE  /\ Ascending(S) \in Seq(S) /\ Ascending(S) \in Seq(Uid)
           /\ Len(Ascending(S)) = Cardinality(S) /\ Cardinality(S) \in Nat
           /\ \A u \in S : Rank(S, u) \in 1..Cardinality(S) /\ Ascending(S)[Rank(S, u)] = u
           /\ \A k \in 1..Cardinality(S) : Ascending(S)[k] \in S /\ Rank(S, Ascending(S)[k]) = k
<1> DEFINE Place(k) == CHOOSE u \in S : Rank(S, u) = k
           c == Cardinality(S)
<1>1. /\ c \in Nat /\ \A u \in S : Rank(S, u) \in 1..c
      /\ \A u, v \in S : u < v => Rank(S, u) < Rank(S, v)
      /\ \A k \in 1..c : \E u \in S : Rank(S, u) = k
  BY UidRanks
<1>2. \A k \in 1..c : Place(k) \in S /\ Rank(S, Place(k)) = k
  BY <1>1
<1>3. \A u, v \in S : Rank(S, u) = Rank(S, v) => u = v
  <2> SUFFICES ASSUME NEW u \in S, NEW v \in S, Rank(S, u) = Rank(S, v), u # v PROVE FALSE
    OBVIOUS
  <2>1. u < v \/ v < u
    BY UidAssumption DEF Uid
  <2>2. Rank(S, u) \in Int /\ Rank(S, v) \in Int
    BY <1>1
  <2> QED  BY <1>1, <2>1, <2>2
<1>4. Ascending(S) = [k \in 1..c |-> Place(k)]
  BY DEF Ascending
<1> HIDE DEF Place, c
<1>5. Ascending(S) \in Seq(S) /\ Len(Ascending(S)) = c
  BY <1>1, <1>2, <1>4
<1>6. Ascending(S) \in Seq(Uid)
  BY <1>5, SeqMonotonic
<1>7. \A u \in S : Ascending(S)[Rank(S, u)] = u
  BY <1>1, <1>2, <1>3, <1>4
<1>8. \A k \in 1..c : Ascending(S)[k] \in S /\ Rank(S, Ascending(S)[k]) = k
  BY <1>2, <1>4
<1> QED  BY <1>1, <1>5, <1>6, <1>7, <1>8 DEF c

\* RemoveAt takes one place out of a list.
LEMMA RemoveAtRight ==
    ASSUME NEW X, NEW list \in Seq(X), NEW r \in 1..Len(list)
    PROVE  /\ RemoveAt(list, r) \in Seq(X)
           /\ Len(RemoveAt(list, r)) = Len(list) - 1
           /\ \A i \in 1..Len(list) - 1 :
                  RemoveAt(list, r)[i] = IF i < r THEN list[i] ELSE list[i + 1]
<1>0. Len(list) \in Nat /\ r \in 1..Len(list)
  OBVIOUS
<1> DEFINE c == Len(list)
           left == SubSeq(list, 1, r - 1)
           right == SubSeq(list, r + 1, Len(list))
<1>1. /\ left \in Seq(X) /\ Len(left) = r - 1
      /\ \A i \in 1..r - 1 : left[i] = list[i]
  BY <1>0
<1>2. /\ right \in Seq(X) /\ Len(right) = c - r
      /\ \A i \in 1..c - r : right[i] = list[r + i]
  BY <1>0
<1> HIDE DEF left, right
<1>3. /\ left \o right \in Seq(X)
      /\ Len(left \o right) = c - 1
      /\ \A i \in 1..c - 1 : (left \o right)[i] = IF i <= r - 1 THEN left[i] ELSE right[i - (r - 1)]
  <2>1. /\ left \o right \in Seq(X)
        /\ Len(left \o right) = Len(left) + Len(right)
        /\ \A i \in 1..Len(left) + Len(right) :
               (left \o right)[i] = IF i <= Len(left) THEN left[i] ELSE right[i - Len(left)]
    BY <1>1, <1>2, ConcatProperties
  <2>2. Len(left) + Len(right) = c - 1
    BY <1>0, <1>1, <1>2
  <2> QED  BY <1>1, <2>1, <2>2
<1>4. ASSUME NEW i \in 1..c - 1
      PROVE  (left \o right)[i] = IF i < r THEN list[i] ELSE list[i + 1]
  <2>1. CASE i < r
    BY <1>0, <1>1, <1>3, <2>1
  <2>2. CASE ~ (i < r)
    <3>1. i - (r - 1) \in 1..c - r /\ r + (i - (r - 1)) = i + 1 /\ ~ (i <= r - 1)
      BY <1>0, <2>2
    <3> QED  BY <1>2, <1>3, <2>2, <3>1
  <2> QED  BY <2>1, <2>2
<1>5. RemoveAt(list, r) = left \o right
  BY DEF RemoveAt, left, right
<1> QED  BY <1>3, <1>4, <1>5

\* What is newer than all of T does not change the ranks in T.
LEMMA RankOfOlder ==
    ASSUME NEW S \in SUBSET Uid, NEW T \in SUBSET S, \A u \in S \ T, v \in T : v < u,
           NEW v \in T
    PROVE  Rank(S, v) = Rank(T, v)
<1>1. {w \in S : w <= v} = {w \in T : w <= v}
  <2>1. \A w \in S : w \in Int
    BY UidAssumption DEF Uid
  <2>2. \A w \in S \ T : ~ (w <= v)
    BY <2>1
  <2> QED  BY <2>2
<1> QED  BY <1>1 DEF Rank

\* Newer UIDs go to the end of the list.
LEMMA AscendingExtends ==
    ASSUME NEW S \in SUBSET Uid, NEW T \in SUBSET S, \A u \in S \ T, v \in T : v < u
    PROVE  /\ Len(Ascending(T)) <= Len(Ascending(S))
           /\ \A i \in 1..Len(Ascending(T)) : Ascending(S)[i] = Ascending(T)[i]
<1>1. T \in SUBSET Uid
  OBVIOUS
<1>2. /\ Len(Ascending(T)) = Cardinality(T) /\ Len(Ascending(S)) = Cardinality(S)
      /\ Cardinality(T) <= Cardinality(S)
  BY <1>1, AscendingRank, UidFinite, FS_Subset
<1>3. ASSUME NEW i \in 1..Cardinality(T)
      PROVE  Ascending(S)[i] = Ascending(T)[i]
  <2> DEFINE v == Ascending(T)[i]
  <2>1. v \in T /\ Rank(T, v) = i
    BY <1>1, AscendingRank
  <2> HIDE DEF v
  <2>2. Rank(S, v) = i
    BY <2>1, RankOfOlder
  <2>3. Ascending(S)[Rank(S, v)] = v
    BY <2>1, AscendingRank
  <2> QED  BY <2>2, <2>3 DEF v
<1> QED  BY <1>2, <1>3

\* Taking a UID out of a set takes its place out of the list.
LEMMA AscendingRemoves ==
    ASSUME NEW S \in SUBSET Uid, NEW u \in S
    PROVE  /\ Rank(S, u) \in 1..Len(Ascending(S))
           /\ RemoveAt(Ascending(S), Rank(S, u)) = Ascending(S \ {u})
<1> DEFINE rest == S \ {u}
           r == Rank(S, u)
           c == Cardinality(S)
           old == Ascending(S)
           new == Ascending(rest)
<1>1. rest \in SUBSET Uid
  OBVIOUS
<1>2. c \in Nat /\ r \in 1..c /\ Cardinality(rest) = c - 1
  BY UidRanks, FS_RemoveElement
<1>3. old \in Seq(Uid) /\ Len(old) = c
  BY AscendingRank
<1>4. new \in Seq(Uid) /\ Len(new) = c - 1
  BY <1>1, <1>2, AscendingRank
<1>5. ASSUME NEW v \in rest
      PROVE  Rank(S, v) = IF v < u THEN Rank(rest, v) ELSE Rank(rest, v) + 1
  <2> DEFINE R == {w \in rest : w <= v}
  <2>1. IsFiniteSet(R) /\ Cardinality(R) \in Nat
    <3>1. R \in SUBSET Uid
      OBVIOUS
    <3> HIDE DEF R
    <3> QED  BY <3>1, UidFinite
  <2>2. u \in Int /\ v \in Int /\ u # v
    BY UidAssumption DEF Uid
  <2>3. CASE v < u
    <3>1. {w \in S : w <= v} = R
      BY <2>2, <2>3
    <3> QED  BY <2>3, <3>1 DEF Rank
  <2>4. CASE ~ (v < u)
    <3>1. u <= v
      BY <2>2, <2>4
    <3>2. {w \in S : w <= v} = R \cup {u} /\ u \notin R
      BY <3>1
    <3> HIDE DEF R
    <3>3. Cardinality(R \cup {u}) = Cardinality(R) + 1
      BY <2>1, <3>2, FS_AddElement
    <3> QED  BY <2>4, <3>2, <3>3 DEF Rank, R
  <2> QED  BY <2>3, <2>4
<1>6. ASSUME NEW i \in 1..c - 1
      PROVE  new[i] = IF i < r THEN old[i] ELSE old[i + 1]
  <2> DEFINE v == new[i]
  <2>1. v \in rest /\ Rank(rest, v) = i
    BY <1>1, <1>2, AscendingRank
  <2> HIDE DEF v, rest, r
  <2>2. v \in S /\ old[Rank(S, v)] = v /\ Rank(S, v) \in Int
    BY <2>1, AscendingRank DEF rest
  <2>3. Rank(S, v) = IF v < u THEN i ELSE i + 1
    BY <1>5, <2>1
  <2>4. u \in Int /\ v \in Int /\ u # v
    BY <2>1, UidAssumption DEF Uid, rest
  <2>5. v < u => Rank(S, v) < r
    BY <2>2, UidRanks DEF r
  <2>6. u < v => r < Rank(S, v)
    BY <2>2, UidRanks DEF r
  <2>7. CASE v < u
    BY <2>2, <2>3, <2>5, <2>7 DEF v
  <2>8. CASE u < v
    <3>1. Rank(S, v) = i + 1 /\ ~ (i < r)
      BY <1>2, <2>3, <2>4, <2>6, <2>8 DEF r
    <3> QED  BY <2>2, <3>1 DEF v
  <2> QED  BY <2>4, <2>7, <2>8
<1> HIDE DEF old, new, r, c, rest
<1>7. /\ RemoveAt(old, r) \in Seq(Uid)
      /\ Len(RemoveAt(old, r)) = c - 1
      /\ \A i \in 1..c - 1 : RemoveAt(old, r)[i] = IF i < r THEN old[i] ELSE old[i + 1]
  BY <1>2, <1>3, RemoveAtRight
<1>8. \A i \in 1..Len(new) : RemoveAt(old, r)[i] = new[i]
  BY <1>4, <1>6, <1>7
<1>9. RemoveAt(old, r) = new
  BY <1>4, <1>7, <1>8, SeqEqual
<1> QED  BY <1>2, <1>3, <1>9 DEF old, new, r, rest

-----------------------------------------------------------------------------
(* What a list of untagged responses does to the client's numbering: the   *)
(* UIDs of its entries, and the number it has for the recent ones.         *)

FetchType == [type : {"FETCH"}, seq : Nat,
              flags : {NoData} \cup SUBSET (Flag \cup {Recent})]

ResponseType ==
    FetchType \cup [type : {"EXPUNGE"}, seq : Nat] \cup [type : {"EXISTS"}, view : Seq(Uid)]
    \cup [type : {"RECENT"}, num : Nat]

Numbering == [uids : Seq(Uid), recent : Nat]

\* A response that means something to a client of this numbering, and what the
\* client makes of it.
Renumbers(a, r, b) ==
    \/ r.type = "EXPUNGE" /\ r.seq \in 1..Len(a.uids)
       /\ b = [a EXCEPT !.uids = RemoveAt(@, r.seq)]
    \/ r.type = "EXISTS" /\ Len(a.uids) <= Len(r.view)
       /\ (\A i \in 1..Len(a.uids) : r.view[i] = a.uids[i])
       /\ b = [a EXCEPT !.uids = r.view]
    \/ r.type = "RECENT" /\ b = [a EXCEPT !.recent = r.num]
    \/ r.type = "FETCH" /\ b = a

\* Response after response of R takes a client from numbering a to b.
Runs(R, a, b) ==
    /\ R \in Seq(ResponseType)
    /\ \E g \in [0..Len(R) -> Numbering] :
           g[0] = a /\ g[Len(R)] = b /\ \A i \in 1..Len(R) : Renumbers(g[i - 1], R[i], g[i])

\* No response changes nothing.
LEMMA RunsNothing ==
    ASSUME NEW a \in Numbering
    PROVE  Runs(<<>>, a, a)
<1> DEFINE g == [i \in {0} |-> a]
<1>1. <<>> \in Seq(ResponseType) /\ Len(<<>>) = 0
  OBVIOUS
<1>2. 0..0 = {0} /\ 1..0 = {}
  OBVIOUS
<1>3. g \in [0..0 -> Numbering] /\ g[0] = a
  BY <1>2
<1> HIDE DEF g
<1> QED  BY <1>1, <1>2, <1>3 DEF Runs

\* One response.
LEMMA RunsOne ==
    ASSUME NEW a \in Numbering, NEW b \in Numbering, NEW r \in ResponseType, Renumbers(a, r, b)
    PROVE  Runs(<<r>>, a, b)
<1> DEFINE g == [i \in 0..1 |-> IF i = 0 THEN a ELSE b]
<1>1. <<r>> \in Seq(ResponseType) /\ Len(<<r>>) = 1 /\ <<r>>[1] = r
  OBVIOUS
<1>2. g \in [0..1 -> Numbering] /\ g[0] = a /\ g[1] = b
  OBVIOUS
<1> HIDE DEF g
<1>3. \A i \in 1..1 : Renumbers(g[i - 1], <<r>>[i], g[i])
  <2>1. \A i \in 1..1 : i = 1 /\ i - 1 = 0
    OBVIOUS
  <2> QED  BY <1>1, <1>2, <2>1
<1> QED  BY <1>1, <1>2, <1>3 DEF Runs

\* One list after the other.
LEMMA RunsBoth ==
    ASSUME NEW a, NEW b, NEW c, NEW R, NEW Q, Runs(R, a, b), Runs(Q, b, c)
    PROVE  Runs(R \o Q, a, c)
<1> DEFINE n == Len(R)
           m == Len(Q)
<1>1. /\ R \in Seq(ResponseType) /\ n \in Nat
      /\ Q \in Seq(ResponseType) /\ m \in Nat
  BY DEF Runs
<1>2. /\ R \o Q \in Seq(ResponseType) /\ Len(R \o Q) = n + m
      /\ \A i \in 1..n + m : (R \o Q)[i] = IF i <= n THEN R[i] ELSE Q[i - n]
  BY <1>1, ConcatProperties
<1>3. PICK g \in [0..n -> Numbering] :
          g[0] = a /\ g[n] = b /\ \A i \in 1..n : Renumbers(g[i - 1], R[i], g[i])
  BY DEF Runs
<1>4. PICK h \in [0..m -> Numbering] :
          h[0] = b /\ h[m] = c /\ \A i \in 1..m : Renumbers(h[i - 1], Q[i], h[i])
  BY DEF Runs
<1> HIDE DEF n, m
<1> DEFINE f == [i \in 0..n + m |-> IF i <= n THEN g[i] ELSE h[i - n]]
<1>5. f \in [0..n + m -> Numbering] /\ f[0] = a
  BY <1>1, <1>3, <1>4
<1>6. f[n + m] = c
  BY <1>1, <1>3, <1>4
<1>7. ASSUME NEW i \in 1..n + m
      PROVE  Renumbers(f[i - 1], (R \o Q)[i], f[i])
  <2>1. CASE i <= n
    <3>1. f[i - 1] = g[i - 1] /\ f[i] = g[i] /\ (R \o Q)[i] = R[i] /\ i \in 1..n
      BY <1>1, <1>2, <2>1
    <3> QED  BY <1>3, <3>1
  <2>2. CASE ~ (i <= n)
    <3>1. i - n \in 1..m /\ (R \o Q)[i] = Q[i - n]
      BY <1>1, <1>2, <2>2
    <3>2. f[i] = h[i - n]
      BY <1>1, <2>2
    <3>3. f[i - 1] = h[(i - n) - 1]
      <4>1. CASE i = n + 1
        BY <1>1, <1>3, <1>4, <4>1
      <4>2. CASE i # n + 1
        BY <1>1, <2>2, <4>2
      <4> QED  BY <4>1, <4>2
    <3> QED  BY <1>4, <3>1, <3>2, <3>3
  <2> QED  BY <2>1, <2>2
<1> HIDE DEF f
<1> QED  BY <1>2, <1>5, <1>6, <1>7 DEF Runs

\* FETCH responses move nothing.
LEMMA RunsFetch ==
    ASSUME NEW a \in Numbering, NEW R \in Seq(FetchType)
    PROVE  Runs(R, a, a)
<1> DEFINE g == [i \in 0..Len(R) |-> a]
<1>1. R \in Seq(ResponseType)
  BY SeqMonotonic DEF ResponseType
<1>2. \A i \in 1..Len(R) : R[i].type = "FETCH"
  <2>1. \A i \in 1..Len(R) : R[i] \in FetchType
    OBVIOUS
  <2> QED  BY <2>1 DEF FetchType
<1>3. g \in [0..Len(R) -> Numbering] /\ g[0] = a /\ g[Len(R)] = a
  BY <1>1
<1>4. \A i \in 1..Len(R) : Renumbers(g[i - 1], R[i], g[i])
  BY <1>1, <1>2 DEF Renumbers
<1> HIDE DEF g
<1> QED  BY <1>1, <1>3, <1>4 DEF Runs

\* CommandResponse.add_untagged keeps what the list does to the numbering: a
\* merge only changes the data of a FETCH.
LEMMA RunsAdd ==
    ASSUME NEW a, NEW b \in Numbering, NEW c \in Numbering, NEW R, Runs(R, a, b),
           NEW r \in ResponseType, Renumbers(b, r, c)
    PROVE  Runs(AddUntagged(R, r), a, c)
<1> DEFINE same == {i \in DOMAIN R : /\ r.type = "FETCH" /\ R[i].type = "FETCH"
                                     /\ R[i].seq = r.seq}
           Q == [i \in DOMAIN R |-> IF i \in same THEN MergeFetch(R[i], r) ELSE R[i]]
<1>1. R \in Seq(ResponseType)
  BY DEF Runs
<1>2. CASE same = {}
  <2>1. AddUntagged(R, r) = R \o <<r>>
    BY <1>1, <1>2 DEF AddUntagged
  <2> QED  BY <2>1, RunsOne, RunsBoth
<1>3. CASE same # {}
  <2>1. AddUntagged(R, r) = Q
    BY <1>3 DEF AddUntagged
  <2>2. r \in FetchType
    BY <1>3 DEF ResponseType, FetchType
  <2>3. c = b
    BY <2>2 DEF Renumbers, FetchType
  <2>4. \A i \in DOMAIN R : R[i] \in ResponseType
    BY <1>1
  <2>5. ASSUME NEW i \in same
        PROVE  MergeFetch(R[i], r) \in FetchType
    <3>1. R[i] \in FetchType
      BY <2>4 DEF ResponseType, FetchType
    <3> QED  BY <2>2, <3>1 DEF FetchType, MergeFetch
  <2>6. DOMAIN R = 1..Len(R) /\ Len(R) \in Nat
    BY <1>1
  <2>7. \A i \in 1..Len(R) : /\ Q[i] \in ResponseType
                             /\ \/ Q[i] = R[i]
                                \/ Q[i].type = "FETCH" /\ R[i].type = "FETCH"
    BY <2>4, <2>5, <2>6 DEF ResponseType, FetchType
  <2>8. Q \in Seq(ResponseType) /\ Len(Q) = Len(R)
    BY <2>6, <2>7
  <2>9. PICK g \in [0..Len(R) -> Numbering] :
            g[0] = a /\ g[Len(R)] = b /\ \A i \in 1..Len(R) : Renumbers(g[i - 1], R[i], g[i])
    BY DEF Runs
  <2> HIDE DEF Q, same
  <2>10. ASSUME NEW i \in 1..Len(R)
         PROVE  Renumbers(g[i - 1], Q[i], g[i])
    <3>1. Renumbers(g[i - 1], R[i], g[i])
      BY <2>9
    <3>2. CASE Q[i] = R[i]
      BY <3>1, <3>2
    <3>3. CASE Q[i].type = "FETCH" /\ R[i].type = "FETCH"
      BY <3>1, <3>3 DEF Renumbers
    <3> QED  BY <2>7, <3>2, <3>3
  <2> QED  BY <2>1, <2>3, <2>8, <2>9, <2>10 DEF Runs
<1> QED  BY <1>2, <1>3

\* The recursive function of Response exists.
LEMMA AddedExists ==
    ASSUME NEW R, NEW n \in Nat
    PROVE  \E f : f = [i \in 0..n |-> IF i = 0 THEN <<>> ELSE AddUntagged(f[i - 1], R[i])]
<1> DEFINE Upto(f, k) == f = [i \in 0..k |-> IF i = 0 THEN <<>> ELSE AddUntagged(f[i - 1], R[i])]
           T == {k \in 0..n : \E f : Upto(f, k)}
<1>1. 0 \in T
  <2>1. Upto([i \in 0..0 |-> <<>>], 0)
    OBVIOUS
  <2> HIDE DEF Upto
  <2> QED  BY <2>1
<1>2. ASSUME NEW k \in 1..n, k - 1 \in T
      PROVE  k \in T
  <2>1. PICK f : Upto(f, k - 1)
    BY <1>2
  <2> DEFINE g == [i \in 0..k |-> IF i = k THEN AddUntagged(f[k - 1], R[k]) ELSE f[i]]
  <2>2. \A i \in 0..k - 1 : g[i] = f[i]
    OBVIOUS
  <2>3. \A i \in 0..k - 1 : f[i] = IF i = 0 THEN <<>> ELSE AddUntagged(f[i - 1], R[i])
    BY <2>1
  <2>4. \A i \in 0..k : g[i] = IF i = 0 THEN <<>> ELSE AddUntagged(g[i - 1], R[i])
    <3> SUFFICES ASSUME NEW i \in 0..k
                 PROVE  g[i] = IF i = 0 THEN <<>> ELSE AddUntagged(g[i - 1], R[i])
      OBVIOUS
    <3>1. CASE i = k
      BY <2>2, <3>1
    <3>2. CASE i # k
      <4>1. i \in 0..k - 1 /\ (i # 0 => i - 1 \in 0..k - 1)
        BY <3>2
      <4> HIDE DEF g
      <4> QED  BY <2>2, <2>3, <4>1
    <3> QED  BY <3>1, <3>2
  <2>5. DOMAIN g = 0..k /\ g = [i \in 0..k |-> g[i]]
    OBVIOUS
  <2> HIDE DEF g
  <2>6. g = [i \in 0..k |-> IF i = 0 THEN <<>> ELSE AddUntagged(g[i - 1], R[i])]
    BY <2>4, <2>5
  <2> QED  BY <2>6
<1> HIDE DEF Upto
<1>3. \A k \in 0..n : k \in T
  <2> HIDE DEF T
  <2> QED  BY <1>1, <1>2, UpTo
<1> QED  BY <1>3 DEF Upto

\* Merging into the responses of a command does not change the numbering they
\* lead to.
LEMMA RunsResponse ==
    ASSUME NEW a \in Numbering, NEW b \in Numbering, NEW own, NEW untagged,
           Runs(own \o untagged, a, b)
    PROVE  Runs(Response(own, untagged), a, b)
<1> DEFINE all == own \o untagged
           n == Len(all)
           added == CHOOSE f : f = [i \in 0..n |->
                        IF i = 0 THEN <<>> ELSE AddUntagged(f[i - 1], all[i])]
<1>1. Response(own, untagged) = added[n]
  BY DEF Response
<1>2. all \in Seq(ResponseType) /\ n \in Nat
  BY DEF Runs
<1>3. PICK g \in [0..n -> Numbering] :
          g[0] = a /\ g[n] = b /\ \A i \in 1..n : Renumbers(g[i - 1], all[i], g[i])
  BY DEF Runs
<1> HIDE DEF all, n
<1>4. added = [i \in 0..n |-> IF i = 0 THEN <<>> ELSE AddUntagged(added[i - 1], all[i])]
  BY <1>2, AddedExists
<1> HIDE DEF added
<1> DEFINE T == {k \in 0..n : Runs(added[k], a, g[k])}
<1>5. 0 \in T
  <2>1. added[0] = <<>>
    BY <1>2, <1>4
  <2> QED  BY <1>2, <1>3, <2>1, RunsNothing
<1>6. ASSUME NEW k \in 1..n, k - 1 \in T
      PROVE  k \in T
  <2>1. added[k] = AddUntagged(added[k - 1], all[k])
    BY <1>2, <1>4
  <2>2. /\ Renumbers(g[k - 1], all[k], g[k]) /\ g[k] \in Numbering /\ g[k - 1] \in Numbering
        /\ all[k] \in ResponseType
    BY <1>2, <1>3 DEF n
  <2>3. Runs(added[k - 1], a, g[k - 1])
    BY <1>6
  <2> QED  BY <2>1, <2>2, <2>3, RunsAdd
<1> HIDE DEF T
<1>7. \A k \in 0..n : k \in T
  BY <1>2, <1>5, <1>6, UpTo
<1>8. n \in T
  BY <1>2, <1>7
<1> QED  BY <1>1, <1>3, <1>8 DEF T

-----------------------------------------------------------------------------
(* What the client makes of the responses.                                 *)

\* The numbering a client has.
Has(c, a) == c \in ClientType /\ Uids(c) = a.uids /\ c.recent = a.recent

\* The UIDs of a client's entries are a list.
LEMMA UidsType ==
    ASSUME NEW c \in ClientType
    PROVE  /\ Uids(c) \in Seq(Uid) /\ Len(Uids(c)) = Len(c.msgs) /\ Len(c.msgs) \in Nat
           /\ \A i \in 1..Len(c.msgs) : Uids(c)[i] = c.msgs[i].uid
           /\ c.msgs \in Seq(EntryType) /\ c.recent \in Nat
<1>1. c.msgs \in Seq(EntryType) /\ c.recent \in Nat
  BY DEF ClientType
<1>2. \A i \in 1..Len(c.msgs) : c.msgs[i].uid \in Uid
  <2>1. \A i \in 1..Len(c.msgs) : c.msgs[i] \in EntryType
    BY <1>1
  <2> QED  BY <2>1 DEF EntryType
<1>3. DOMAIN c.msgs = 1..Len(c.msgs) /\ Len(c.msgs) \in Nat
  BY <1>1
<1>4. Uids(c) = [i \in 1..Len(c.msgs) |-> c.msgs[i].uid]
  BY <1>3 DEF Uids
<1> QED  BY <1>1, <1>2, <1>3, <1>4

\* One client's entries by the list of their UIDs.
LEMMA UidsAre ==
    ASSUME NEW c \in ClientType, NEW q \in Seq(Uid), Len(q) = Len(c.msgs),
           \A i \in 1..Len(q) : c.msgs[i].uid = q[i]
    PROVE  Uids(c) = q
<1>1. Uids(c) \in Seq(Uid) /\ Len(Uids(c)) = Len(q) /\ \A i \in 1..Len(q) : Uids(c)[i] = q[i]
  BY UidsType
<1> QED  BY <1>1, SeqEqual

\* The end of a list.
LEMMA RestOfList ==
    ASSUME NEW X, NEW list \in Seq(X), NEW n \in Nat, n <= Len(list)
    PROVE  /\ SubSeq(list, n + 1, Len(list)) \in Seq(X)
           /\ Len(SubSeq(list, n + 1, Len(list))) = Len(list) - n
           /\ \A i \in 1..Len(list) - n : SubSeq(list, n + 1, Len(list))[i] = list[n + i]
OBVIOUS

\* The entries a client makes of the UIDs an EXISTS announces.
LEMMA AnnouncedRight ==
    ASSUME NEW view \in Seq(Uid)
    PROVE  /\ Announced(view) \in Seq(EntryType) /\ Len(Announced(view)) = Len(view)
           /\ \A i \in 1..Len(view) : /\ Announced(view)[i].uid = view[i]
                                      /\ Announced(view)[i].flags = NotHeard
<1>1. Len(view) \in Nat /\ DOMAIN view = 1..Len(view)
  OBVIOUS
<1>2. \A i \in 1..Len(view) : /\ NewEntry(view[i]) \in EntryType
                              /\ NewEntry(view[i]).uid = view[i]
                              /\ NewEntry(view[i]).flags = NotHeard
  <2>1. \A i \in 1..Len(view) : view[i] \in Uid
    OBVIOUS
  <2>2. ASSUME NEW u \in Uid
        PROVE  NewEntry(u) \in EntryType /\ NewEntry(u).uid = u /\ NewEntry(u).flags = NotHeard
    <3>1. NotHeard \in {NotHeard} \cup SUBSET (Flag \cup {Recent})
      OBVIOUS
    <3> QED  BY <3>1 DEF NewEntry, EntryType
  <2> QED  BY <2>1, <2>2
<1>3. Announced(view) = [i \in 1..Len(view) |-> NewEntry(view[i])]
  BY <1>1 DEF Announced
<1> QED  BY <1>1, <1>2, <1>3

\* Where a client has its entries from after a response: a FETCH with data sets
\* the flags of one, any other response keeps or adds some.
Hears(c, r, d) ==
    \A i \in 1..Len(d.msgs) :
        \/ /\ r.type # "FETCH"
           /\ d.msgs[i].flags = NotHeard \/ \E j \in 1..Len(c.msgs) : d.msgs[i] = c.msgs[j]
        \/ /\ r.type = "FETCH" /\ i \in 1..Len(c.msgs)
           /\ IF i = r.seq /\ r.flags # NoData
              THEN d.msgs[i].uid = c.msgs[i].uid /\ d.msgs[i].flags = r.flags
              ELSE d.msgs[i] = c.msgs[i]

\* A client does with a response what Renumbers says.
LEMMA HearRight ==
    ASSUME NEW a \in Numbering, NEW b \in Numbering, NEW c, Has(c, a),
           NEW r \in ResponseType, Renumbers(a, r, b)
    PROVE  Has(Hear(c, r), b) /\ Hears(c, r, Hear(c, r))
<1> DEFINE d == Hear(c, r)
           n == Len(c.msgs)
<1>1. /\ c \in ClientType /\ c.msgs \in Seq(EntryType) /\ c.recent \in Nat
      /\ n \in Nat /\ DOMAIN c.msgs = 1..n /\ Len(c.msgs) = n
      /\ Uids(c) = a.uids /\ c.recent = a.recent /\ Len(a.uids) = n
      /\ \A i \in 1..n : a.uids[i] = c.msgs[i].uid
      /\ a.uids \in Seq(Uid) /\ b.uids \in Seq(Uid) /\ b.recent \in Nat
  BY UidsType DEF Has, Numbering
<1> HIDE DEF n
<1>2. CASE r.type = "EXPUNGE"
  <2>1. r.seq \in 1..n /\ b.uids = RemoveAt(a.uids, r.seq) /\ b.recent = a.recent
    BY <1>1, <1>2 DEF Renumbers, Numbering
  <2>2. d = [c EXCEPT !.msgs = RemoveAt(@, r.seq)]
    BY <1>2 DEF Hear
  <2>3. /\ RemoveAt(c.msgs, r.seq) \in Seq(EntryType)
        /\ Len(RemoveAt(c.msgs, r.seq)) = n - 1
        /\ \A i \in 1..n - 1 : RemoveAt(c.msgs, r.seq)[i] =
                                   IF i < r.seq THEN c.msgs[i] ELSE c.msgs[i + 1]
    <3> DEFINE M == c.msgs
    <3>1. M \in Seq(EntryType) /\ Len(M) = n /\ r.seq \in 1..Len(M)
      BY <1>1, <2>1
    <3> HIDE DEF M
    <3>2. /\ RemoveAt(M, r.seq) \in Seq(EntryType)
          /\ Len(RemoveAt(M, r.seq)) = n - 1
          /\ \A i \in 1..n - 1 : RemoveAt(M, r.seq)[i] = IF i < r.seq THEN M[i] ELSE M[i + 1]
      BY <3>1, RemoveAtRight
    <3> QED  BY <3>2 DEF M
  <2>4. /\ Len(b.uids) = n - 1
        /\ \A i \in 1..n - 1 : b.uids[i] = IF i < r.seq THEN a.uids[i] ELSE a.uids[i + 1]
    <3> DEFINE U == a.uids
    <3>1. U \in Seq(Uid) /\ Len(U) = n /\ r.seq \in 1..Len(U)
      BY <1>1, <2>1
    <3> HIDE DEF U
    <3>2. /\ Len(RemoveAt(U, r.seq)) = n - 1
          /\ \A i \in 1..n - 1 : RemoveAt(U, r.seq)[i] = IF i < r.seq THEN U[i] ELSE U[i + 1]
      BY <3>1, RemoveAtRight
    <3> QED  BY <2>1, <3>2 DEF U
  <2>5. d \in ClientType /\ d.msgs = RemoveAt(c.msgs, r.seq) /\ d.recent = b.recent
    BY <1>1, <2>1, <2>2, <2>3 DEF ClientType
  <2> HIDE DEF d
  <2>6. \A i \in 1..n - 1 : d.msgs[i].uid = b.uids[i]
    BY <1>1, <2>3, <2>4, <2>5
  <2>7. Uids(d) = b.uids
    BY <1>1, <2>3, <2>4, <2>5, <2>6, UidsAre
  <2>8. Hears(c, r, d)
    <3>1. \A i \in 1..n - 1 : i \in 1..n /\ i + 1 \in 1..n
      BY <1>1
    <3> QED  BY <1>1, <1>2, <2>3, <2>5, <3>1 DEF Hears
  <2> QED  BY <2>5, <2>7, <2>8 DEF Has, d
<1>3. CASE r.type = "EXISTS"
  <2> DEFINE view == r.view
             m == Len(view)
             more == SubSeq(view, n + 1, m)
             new == Announced(more)
  <2>1. /\ view \in Seq(Uid) /\ m \in Nat /\ n <= m /\ Len(view) = m
        /\ \A i \in 1..n : view[i] = a.uids[i]
        /\ b.uids = view /\ b.recent = a.recent
    BY <1>1, <1>3 DEF Renumbers, Numbering, ResponseType, FetchType
  <2>2. d = [c EXCEPT !.msgs = @ \o new]
    BY <1>3 DEF Hear, n
  <2> HIDE DEF m
  <2>3. /\ more \in Seq(Uid) /\ Len(more) = m - n
        /\ \A i \in 1..m - n : more[i] = view[n + i]
    BY <1>1, <2>1, RestOfList
  <2> HIDE DEF more
  <2>4. /\ new \in Seq(EntryType) /\ Len(new) = m - n
        /\ \A i \in 1..m - n : new[i].uid = more[i] /\ new[i].flags = NotHeard
    BY <2>3, AnnouncedRight
  <2> HIDE DEF new
  <2>5. /\ c.msgs \o new \in Seq(EntryType) /\ Len(c.msgs \o new) = n + (m - n)
        /\ \A i \in 1..n + (m - n) : (c.msgs \o new)[i] = IF i <= n THEN c.msgs[i] ELSE new[i - n]
    <3> DEFINE M == c.msgs
    <3>1. M \in Seq(EntryType) /\ Len(M) = n
      BY <1>1
    <3> HIDE DEF M
    <3>2. /\ M \o new \in Seq(EntryType) /\ Len(M \o new) = Len(M) + Len(new)
          /\ \A i \in 1..Len(M) + Len(new) :
                 (M \o new)[i] = IF i <= Len(M) THEN M[i] ELSE new[i - Len(M)]
      BY <2>4, <3>1, ConcatProperties
    <3> QED  BY <2>4, <3>1, <3>2 DEF M
  <2>6. n + (m - n) = m
    BY <1>1, <2>1
  <2>7. d \in ClientType /\ d.msgs = c.msgs \o new /\ d.recent = b.recent
    BY <1>1, <2>1, <2>2, <2>5 DEF ClientType
  <2> HIDE DEF d
  <2>8. ASSUME NEW i \in 1..m
        PROVE  /\ d.msgs[i].uid = view[i]
               /\ d.msgs[i].flags = NotHeard \/ \E j \in 1..n : d.msgs[i] = c.msgs[j]
    <3>1. CASE i <= n
      <4>1. i \in 1..n /\ d.msgs[i] = c.msgs[i]
        BY <1>1, <2>1, <2>5, <2>6, <2>7, <3>1
      <4> QED  BY <1>1, <2>1, <4>1
    <3>2. CASE ~ (i <= n)
      <4>1. i - n \in 1..m - n /\ n + (i - n) = i
        <5>1. n \in Nat /\ m \in Nat /\ i \in 1..m
          BY <1>1, <2>1
        <5> QED  BY <3>2, <5>1
      <4>2. d.msgs[i] = new[i - n]
        BY <2>5, <2>6, <2>7, <3>2
      <4> QED  BY <2>3, <2>4, <4>1, <4>2
    <3> QED  BY <3>1, <3>2
  <2>9. Len(d.msgs) = m
    BY <2>5, <2>6, <2>7
  <2>10. Uids(d) = b.uids
    BY <2>1, <2>7, <2>8, <2>9, UidsAre
  <2>11. Hears(c, r, d)
    BY <1>1, <1>3, <2>8, <2>9 DEF Hears
  <2> QED  BY <2>7, <2>10, <2>11 DEF Has, d
<1>4. CASE r.type = "RECENT"
  <2>1. d = [c EXCEPT !.recent = r.num] /\ b = [a EXCEPT !.recent = r.num]
    BY <1>4 DEF Hear, Renumbers
  <2>2. r.num \in Nat
    BY <1>4 DEF ResponseType, FetchType
  <2>3. d \in ClientType /\ d.msgs = c.msgs /\ d.recent = b.recent /\ b.uids = a.uids
    BY <1>1, <2>1, <2>2 DEF ClientType, Numbering
  <2>4. Uids(d) = Uids(c)
    BY <2>3 DEF Uids
  <2>5. Hears(c, r, d)
    BY <1>4, <2>3 DEF Hears
  <2> QED  BY <1>1, <2>3, <2>4, <2>5 DEF Has
<1>5. CASE r.type = "FETCH"
  <2>1. b = a /\ r \in FetchType
    BY <1>5 DEF Renumbers, ResponseType, FetchType
  <2>2. CASE r.flags = NoData \/ r.seq \notin DOMAIN c.msgs
    <3>1. d = c
      BY <1>5, <2>2 DEF Hear
    <3>2. Hears(c, r, c)
      BY <1>1, <1>5, <2>2 DEF Hears
    <3> QED  BY <2>1, <3>1, <3>2
  <2>3. CASE ~ (r.flags = NoData \/ r.seq \notin DOMAIN c.msgs)
    <3>1. d = [c EXCEPT !.msgs[r.seq].flags = r.flags, !.msgs[r.seq].silent = FALSE]
      BY <1>5, <2>3 DEF Hear
    <3>2. r.seq \in 1..n /\ r.flags \in SUBSET (Flag \cup {Recent})
      <4>1. r.flags \in {NoData} \cup SUBSET (Flag \cup {Recent})
        BY <2>1 DEF FetchType
      <4>2. r.flags \in SUBSET (Flag \cup {Recent})
        BY <2>3, <4>1
      <4> QED  BY <1>1, <2>3, <4>2
    <3> DEFINE e == [c.msgs[r.seq] EXCEPT !.flags = r.flags, !.silent = FALSE]
               M == [c.msgs EXCEPT ![r.seq] = e]
    <3>3. c.msgs[r.seq] \in EntryType
      BY <1>1, <3>2
    <3>4. e \in EntryType /\ e.uid = c.msgs[r.seq].uid /\ e.flags = r.flags
      BY <3>2, <3>3 DEF EntryType
    <3>5. d = [c EXCEPT !.msgs = M]
      BY <1>1, <3>1, <3>2, <3>3 DEF ClientType, EntryType
    <3> HIDE DEF e
    <3>6. /\ M \in Seq(EntryType) /\ Len(M) = n
          /\ \A i \in 1..n : M[i] = IF i = r.seq THEN e ELSE c.msgs[i]
      BY <1>1, <3>2, <3>4, ExceptSeq
    <3> HIDE DEF M
    <3>7. d \in ClientType /\ d.msgs = M /\ d.recent = c.recent
      BY <1>1, <3>5, <3>6 DEF ClientType
    <3> HIDE DEF d
    <3>8. \A i \in 1..n : d.msgs[i].uid = a.uids[i]
      BY <1>1, <3>4, <3>6, <3>7
    <3>9. Uids(d) = a.uids
      BY <1>1, <3>6, <3>7, <3>8, UidsAre
    <3>10. Hears(c, r, d)
      BY <1>1, <1>5, <2>3, <3>4, <3>6, <3>7 DEF Hears
    <3> QED  BY <1>1, <2>1, <3>7, <3>9, <3>10 DEF Has, d
  <2> QED  BY <2>2, <2>3
<1> QED  BY <1>2, <1>3, <1>4, <1>5 DEF Renumbers

\* f is the client c after each of the first n responses of R.
Hearing(f, c, R, n) == f = [i \in 0..n |-> IF i = 0 THEN c ELSE Hear(f[i - 1], R[i])]

\* The recursive function of HearAll exists.
LEMMA HeardExists ==
    ASSUME NEW c, NEW R, NEW n \in Nat
    PROVE  \E f : Hearing(f, c, R, n)
<1> DEFINE Upto(f, k) == f = [i \in 0..k |-> IF i = 0 THEN c ELSE Hear(f[i - 1], R[i])]
           T == {k \in 0..n : \E f : Upto(f, k)}
<1>1. 0 \in T
  <2>1. Upto([i \in 0..0 |-> c], 0)
    OBVIOUS
  <2> HIDE DEF Upto
  <2> QED  BY <2>1
<1>2. ASSUME NEW k \in 1..n, k - 1 \in T
      PROVE  k \in T
  <2>1. PICK f : Upto(f, k - 1)
    BY <1>2
  <2> DEFINE g == [i \in 0..k |-> IF i = k THEN Hear(f[k - 1], R[k]) ELSE f[i]]
  <2>2. \A i \in 0..k - 1 : g[i] = f[i]
    OBVIOUS
  <2>3. \A i \in 0..k - 1 : f[i] = IF i = 0 THEN c ELSE Hear(f[i - 1], R[i])
    BY <2>1
  <2>4. \A i \in 0..k : g[i] = IF i = 0 THEN c ELSE Hear(g[i - 1], R[i])
    <3> SUFFICES ASSUME NEW i \in 0..k
                 PROVE  g[i] = IF i = 0 THEN c ELSE Hear(g[i - 1], R[i])
      OBVIOUS
    <3>1. CASE i = k
      BY <2>2, <3>1
    <3>2. CASE i # k
      <4>1. i \in 0..k - 1 /\ (i # 0 => i - 1 \in 0..k - 1)
        BY <3>2
      <4> HIDE DEF g
      <4> QED  BY <2>2, <2>3, <4>1
    <3> QED  BY <3>1, <3>2
  <2>5. DOMAIN g = 0..k /\ g = [i \in 0..k |-> g[i]]
    OBVIOUS
  <2> HIDE DEF g
  <2>6. g = [i \in 0..k |-> IF i = 0 THEN c ELSE Hear(g[i - 1], R[i])]
    BY <2>4, <2>5
  <2> QED  BY <2>6
<1> HIDE DEF Upto
<1>3. \A k \in 0..n : k \in T
  <2> HIDE DEF T
  <2> QED  BY <1>1, <1>2, UpTo
<1> QED  BY <1>3 DEF Upto, Hearing

\* f is what the client c becomes, response by response.
Listens(f, c, R) ==
    /\ f[0] = c /\ HearAll(c, R) = f[Len(R)]
    /\ \A i \in 1..Len(R) : f[i] = Hear(f[i - 1], R[i])

\* A client hears a list response by response.
LEMMA HeardAll ==
    ASSUME NEW c, NEW R, Len(R) \in Nat
    PROVE  \E f : Listens(f, c, R)
<1> DEFINE n == Len(R)
           heard == CHOOSE f : Hearing(f, c, R, n)
<1>1. HearAll(c, R) = heard[n]
  BY DEF HearAll, Hearing
<1>2. Hearing(heard, c, R, n)
  BY HeardExists
<1> HIDE DEF heard, n
<1>3. n \in Nat
  BY DEF n
<1>4. heard = [i \in 0..n |-> IF i = 0 THEN c ELSE Hear(heard[i - 1], R[i])]
  BY <1>2 DEF Hearing
<1>5. heard[0] = c /\ \A i \in 1..n : heard[i] = Hear(heard[i - 1], R[i])
  BY <1>3, <1>4
<1> QED  BY <1>1, <1>5 DEF Listens, n

\* After each response the client has the numbering the responses so far lead to.
LEMMA HasUpTo ==
    ASSUME NEW m \in Nat, NEW R, NEW g \in [0..m -> Numbering], NEW f, Has(f[0], g[0]),
           \A i \in 1..m : R[i] \in ResponseType /\ Renumbers(g[i - 1], R[i], g[i]),
           \A i \in 1..m : f[i] = Hear(f[i - 1], R[i])
    PROVE  \A k \in 0..m : Has(f[k], g[k])
<1> DEFINE T == {k \in 0..m : Has(f[k], g[k])}
<1>1. 0 \in T
  OBVIOUS
<1>2. ASSUME NEW k \in 1..m, k - 1 \in T
      PROVE  k \in T
  <2>1. k - 1 \in 0..m /\ k \in 0..m
    OBVIOUS
  <2>2. /\ Renumbers(g[k - 1], R[k], g[k]) /\ g[k] \in Numbering /\ g[k - 1] \in Numbering
        /\ R[k] \in ResponseType
    BY <2>1
  <2>3. Has(f[k - 1], g[k - 1])
    BY <1>2
  <2>4. Has(Hear(f[k - 1], R[k]), g[k])
    BY <2>2, <2>3, HearRight
  <2> QED  BY <2>1, <2>4
<1> HIDE DEF T
<1>3. \A k \in 0..m : k \in T
  BY <1>1, <1>2, UpTo
<1> QED  BY <1>3 DEF T

\* The client ends with the numbering the responses lead to.
LEMMA HearAllRight ==
    ASSUME NEW a \in Numbering, NEW b \in Numbering, NEW c, Has(c, a), NEW R, Runs(R, a, b)
    PROVE  Has(HearAll(c, R), b)
<1> DEFINE n == Len(R)
<1>1. n \in Nat /\ \A i \in 1..n : R[i] \in ResponseType
  <2>1. R \in Seq(ResponseType)
    BY DEF Runs
  <2> QED  BY <2>1
<1>2. PICK g \in [0..n -> Numbering] :
          g[0] = a /\ g[n] = b /\ \A i \in 1..n : Renumbers(g[i - 1], R[i], g[i])
  BY DEF Runs
<1>3. PICK heard : Listens(heard, c, R)
  BY <1>1, HeardAll DEF n
<1>4. /\ heard[0] = c /\ HearAll(c, R) = heard[n]
      /\ \A i \in 1..n : heard[i] = Hear(heard[i - 1], R[i])
  BY <1>3 DEF Listens, n
<1> HIDE DEF n
<1>5. \A k \in 0..n : Has(heard[k], g[k])
  BY <1>1, <1>2, <1>4, HasUpTo
<1> QED  BY <1>1, <1>2, <1>4, <1>5

-----------------------------------------------------------------------------
(* The untagged responses of fork().                                       *)

\* A sequence number is a number.
LEMMA RankType ==
    ASSUME NEW S \in SUBSET Uid, NEW u
    PROVE  Rank(S, u) \in Nat
<1> DEFINE T == {v \in S : v <= u}
<1>1. T \in SUBSET Uid
  OBVIOUS
<1> HIDE DEF T
<1>2. Cardinality(T) \in Nat
  BY <1>1, UidFinite
<1> QED  BY <1>2 DEF Rank, T

\* EXPUNGE by EXPUNGE, the highest old number first, the client drops what has
\* left the view: those not yet expunged are all lower, so their old numbers
\* are the ones the client has.
LEMMA RunsExpunges ==
    ASSUME NEW before, NEW after, before.uids \in SUBSET Uid, NEW n \in Nat
    PROVE  Runs(Expunges(before, after),
                [uids |-> Ascending(before.uids), recent |-> n],
                [uids |-> Ascending(before.uids \cap after.uids), recent |-> n])
<1> DEFINE A == before.uids
           D == A \ after.uids
           k == Cardinality(D)
           up == Ascending(D)
           R == Expunges(before, after)
           Left(i) == A \ {u \in D : Rank(D, u) > k - i}
           g == [i \in 0..k |-> [uids |-> Ascending(Left(i)), recent |-> n]]
<1>1. D \in SUBSET Uid /\ D \subseteq A /\ A \subseteq Int
  BY UidAssumption DEF Uid
<1>2. /\ up \in Seq(D) /\ Len(up) = k /\ k \in Nat
      /\ \A u \in D : Rank(D, u) \in 1..k /\ up[Rank(D, u)] = u
      /\ \A j \in 1..k : up[j] \in D /\ Rank(D, up[j]) = j
  BY <1>1, AscendingRank
<1>3. \A u, v \in D : u < v => Rank(D, u) < Rank(D, v)
  BY <1>1, UidRanks
<1> HIDE DEF D, k, up
<1>4. R = [i \in 1..k |-> ExpungeResponse(Rank(A, up[(k - i) + 1]))]
  <2>1. Reverse(up) = [i \in 1..k |-> up[(k - i) + 1]]
    BY <1>2 DEF Reverse
  <2>2. R = [i \in DOMAIN Reverse(up) |-> ExpungeResponse(Rank(A, Reverse(up)[i]))]
    BY DEF Expunges, up, D
  <2> QED  BY <2>1, <2>2
<1>5. R \in Seq(ResponseType) /\ Len(R) = k
  <2>1. \A i \in 1..k : ExpungeResponse(Rank(A, up[(k - i) + 1])) \in ResponseType
    BY RankType DEF ExpungeResponse, ResponseType
  <2> HIDE DEF R
  <2> QED  BY <1>2, <1>4, <2>1
<1>6. \A i \in 0..k : Left(i) \in SUBSET Uid
  OBVIOUS
<1>7. g \in [0..k -> Numbering]
  <2>1. \A i \in 0..k : Ascending(Left(i)) \in Seq(Uid)
    <3> HIDE DEF Left
    <3> QED  BY <1>6, AscendingRank
  <2> HIDE DEF Left
  <2> QED  BY <2>1 DEF Numbering
<1>8. g[0] = [uids |-> Ascending(A), recent |-> n]
  <2>1. Left(0) = A
    <3>1. \A u \in D : ~ (Rank(D, u) > k - 0)
      BY <1>2
    <3> QED  BY <3>1
  <2> HIDE DEF Left
  <2> QED  BY <1>2, <2>1
<1>9. g[k] = [uids |-> Ascending(A \cap after.uids), recent |-> n]
  <2>1. Left(k) = A \cap after.uids
    <3>1. \A u \in D : Rank(D, u) > k - k
      BY <1>2
    <3> QED  BY <3>1 DEF D
  <2>2. k \in 0..k
    BY <1>2
  <2> HIDE DEF Left
  <2>3. g[k] = [uids |-> Ascending(Left(k)), recent |-> n]
    BY <2>2
  <2> QED  BY <2>1, <2>3
<1>10. ASSUME NEW i \in 1..k
       PROVE  Renumbers(g[i - 1], R[i], g[i])
  <2> DEFINE u == up[(k - i) + 1]
             S == Left(i - 1)
  <2>1. (k - i) + 1 \in 1..k
    BY <1>2
  <2>2. u \in D /\ Rank(D, u) = (k - i) + 1
    BY <1>2, <2>1
  <2> HIDE DEF u
  <2>3. u \in S
    <3>1. ~ ((k - i) + 1 > k - (i - 1))
      BY <1>2
    <3> QED  BY <1>1, <2>2, <3>1
  <2>4. Left(i) = S \ {u}
    <3>1. ASSUME NEW v \in D
          PROVE  Rank(D, v) > k - i <=> (Rank(D, v) > k - (i - 1) \/ v = u)
      <4>1. Rank(D, v) \in 1..k /\ k \in Nat /\ i \in 1..k
        BY <1>2
      <4>2. Rank(D, v) = (k - i) + 1 => v = u
        BY <1>2, <2>2
      <4> QED  BY <2>2, <4>1, <4>2
    <3> QED  BY <3>1, <2>2, <1>1
  <2>5. Rank(A, u) = Rank(S, u)
    <3>1. ASSUME NEW w \in A, w <= u
          PROVE  w \in S
      <4>1. SUFFICES ASSUME w \in D, Rank(D, w) > k - (i - 1) PROVE FALSE
        OBVIOUS
      <4>2. Rank(D, w) \in Int /\ Rank(D, u) \in Int
        BY <1>2, <2>2, <4>1
      <4>3. ~ (Rank(D, w) <= Rank(D, u))
        BY <1>2, <2>2, <4>1, <4>2
      <4>4. w = u \/ w < u
        BY <1>1, <2>2, <3>1
      <4> QED  BY <1>3, <2>2, <4>1, <4>2, <4>3, <4>4
    <3>2. {w \in A : w <= u} = {w \in S : w <= u}
      <4>1. S \subseteq A
        OBVIOUS
      <4> HIDE DEF S
      <4> QED  BY <3>1, <4>1
    <3> QED  BY <3>2 DEF Rank
  <2>6. S \in SUBSET Uid
    OBVIOUS
  <2>7. R[i] = ExpungeResponse(Rank(S, u))
    BY <1>4, <2>5 DEF u
  <2>8. /\ g[i - 1] = [uids |-> Ascending(S), recent |-> n]
        /\ g[i] = [uids |-> Ascending(S \ {u}), recent |-> n]
    <3>1. i \in 0..k /\ i - 1 \in 0..k
      BY <1>2
    <3> HIDE DEF Left
    <3> QED  BY <2>4, <3>1
  <2> HIDE DEF S, g, R
  <2>9. /\ Rank(S, u) \in 1..Len(Ascending(S))
        /\ RemoveAt(Ascending(S), Rank(S, u)) = Ascending(S \ {u})
    BY <2>3, <2>6, AscendingRemoves
  <2> QED  BY <2>7, <2>8, <2>9 DEF Renumbers, ExpungeResponse
<1> HIDE DEF g, R, A
<1>11. Runs(R, [uids |-> Ascending(A), recent |-> n],
               [uids |-> Ascending(A \cap after.uids), recent |-> n])
  BY <1>5, <1>7, <1>8, <1>9, <1>10 DEF Runs
<1> QED  BY <1>11 DEF A, R

\* The numbering of a client told of these messages.
Tells(S, n) == [uids |-> Ascending(S), recent |-> n]

\* Such a numbering is one.
LEMMA TellsType ==
    ASSUME NEW S \in SUBSET Uid, NEW n \in Nat
    PROVE  Tells(S, n) \in Numbering
BY AscendingRank DEF Tells, Numbering

\* EXISTS adds what is new at the end.
LEMMA RunsExists ==
    ASSUME NEW before, NEW after, NEW n \in Nat,
           before.uids \in SUBSET Uid, after.uids \in SUBSET Uid,
           \A u \in after.uids \ before.uids, v \in before.uids \cap after.uids : v < u
    PROVE  Runs(Exists(before, after), Tells(before.uids \cap after.uids, n), Tells(after.uids, n))
<1> DEFINE A == before.uids
           B == after.uids
           T == A \cap B
           r == ExistsResponse(B)
<1>1. Tells(T, n) \in Numbering /\ Tells(B, n) \in Numbering
  BY TellsType
<1>2. CASE B \subseteq A
  <2>1. T = B
    BY <1>2
  <2>2. Exists(before, after) = <<>>
    BY <1>2 DEF Exists
  <2> HIDE DEF T
  <2> QED  BY <1>1, <2>1, <2>2, RunsNothing DEF T
<1>3. CASE ~ (B \subseteq A)
  <2>1. Exists(before, after) = <<r>>
    BY <1>3 DEF Exists
  <2>2. T \in SUBSET B /\ \A u \in B \ T, v \in T : v < u
    OBVIOUS
  <2> HIDE DEF T
  <2>3. /\ Len(Ascending(T)) <= Len(Ascending(B))
        /\ \A i \in 1..Len(Ascending(T)) : Ascending(B)[i] = Ascending(T)[i]
    BY <2>2, AscendingExtends
  <2>4. r \in ResponseType
    BY AscendingRank DEF ExistsResponse, ResponseType
  <2>5. Renumbers(Tells(T, n), r, Tells(B, n))
    BY <2>3 DEF Renumbers, Tells, ExistsResponse
  <2>6. Runs(<<r>>, Tells(T, n), Tells(B, n))
    BY <1>1, <2>4, <2>5, RunsOne
  <2> QED  BY <2>1, <2>6 DEF T
<1> QED  BY <1>2, <1>3

\* The number a client has for the recent messages after RECENT, if any.
RecentTold(before, after, n) ==
    IF Cardinality(after.recent) = Cardinality(before.recent) THEN n
    ELSE Cardinality(after.recent)

\* RECENT changes that number only.
LEMMA RunsRecents ==
    ASSUME NEW before, NEW after, NEW n \in Nat, NEW S \in SUBSET Uid,
           Cardinality(after.recent) \in Nat
    PROVE  Runs(Recents(before, after), Tells(S, n), Tells(S, RecentTold(before, after, n)))
<1> DEFINE m == Cardinality(after.recent)
           r == RecentResponse(m)
<1>1. Tells(S, n) \in Numbering /\ Tells(S, m) \in Numbering
  BY TellsType
<1>2. CASE m = Cardinality(before.recent)
  BY <1>1, <1>2, RunsNothing DEF Recents, RecentTold
<1>3. CASE m # Cardinality(before.recent)
  <2>1. r \in ResponseType
    BY DEF RecentResponse, ResponseType
  <2>2. Renumbers(Tells(S, n), r, Tells(S, m))
    BY DEF Renumbers, Tells, RecentResponse
  <2>3. Runs(<<r>>, Tells(S, n), Tells(S, m))
    BY <1>1, <2>1, <2>2, RunsOne
  <2> QED  BY <1>3, <2>3 DEF Recents, RecentTold
<1> QED  BY <1>2, <1>3

\* The FETCH responses of fork() are FETCH responses.
LEMMA ForkFetches ==
    ASSUME NEW sel \in SelectedType, NEW fl \in FlagsType, NEW S \in SUBSET Uid,
           NEW V \in SUBSET Uid
    PROVE  [i \in DOMAIN Ascending(S) |->
               FetchResponse(Rank(V, Ascending(S)[i]), ShownFlags(sel, Ascending(S)[i], fl))]
               \in Seq(FetchType)
<1> DEFINE q == Ascending(S)
<1>1. q \in Seq(Uid) /\ DOMAIN q = 1..Len(q) /\ Len(q) \in Nat
  BY AscendingRank
<1> HIDE DEF q
<1>2. ASSUME NEW u \in Uid
      PROVE  FetchResponse(Rank(V, u), ShownFlags(sel, u, fl)) \in FetchType
  <2>1. ShownFlags(sel, u, fl) \in SUBSET (Flag \cup {Recent})
    BY DEF ShownFlags, FlagsType
  <2>2. Rank(V, u) \in Nat
    BY RankType
  <2> QED  BY <2>1, <2>2 DEF FetchResponse, FetchType
<1>3. \A i \in 1..Len(q) : q[i] \in Uid
  BY <1>1
<1>4. \A i \in 1..Len(q) : FetchResponse(Rank(V, q[i]), ShownFlags(sel, q[i], fl)) \in FetchType
  BY <1>2, <1>3
<1>5. [i \in DOMAIN q |-> FetchResponse(Rank(V, q[i]), ShownFlags(sel, q[i], fl))] \in Seq(FetchType)
  BY <1>1, <1>4
<1> QED  BY <1>5 DEF q

\* _compare: the client comes to number the messages as the view does.  While
\* expunges are hidden nothing has left the view.
LEMMA RunsCompare ==
    ASSUME NEW sel \in SelectedType, NEW fl \in FlagsType, NEW n \in Nat,
           sel.hide => sel.prev.uids \subseteq sel.uids,
           \A u \in sel.uids \ sel.prev.uids, v \in sel.prev.uids \cap sel.uids : v < u
    PROVE  Runs(Compare(sel, fl), Tells(sel.prev.uids, n),
                Tells(sel.uids, RecentTold(sel.prev, Freeze(sel), n)))
<1> DEFINE before == sel.prev
           after == Freeze(sel)
           fetch == (after.recent \ before.recent)
                    \cup {k[1] : k \in FlagsKeys(after) \ (FlagsKeys(before) \cup sel.silenced)}
           changed == Ascending(fetch)
           one == IF sel.hide THEN <<>> ELSE Expunges(before, after)
           two == Exists(before, after)
           three == Recents(before, after)
           four == [i \in DOMAIN changed |->
                       FetchResponse(Rank(after.uids, changed[i]), ShownFlags(sel, changed[i], fl))]
           m == RecentTold(before, after, n)
           both == before.uids \cap after.uids
<1>1. Compare(sel, fl) = one \o two \o three \o four
  BY DEF Compare
<1>2. /\ before.uids \in SUBSET Uid /\ before.recent \in SUBSET Uid
      /\ after.uids = sel.uids /\ after.uids \in SUBSET Uid
      /\ after.recent \in SUBSET Uid
  BY DEF SelectedType, FrozenType, Freeze
<1>3. fetch \in SUBSET Uid
  <2>1. \A k \in FlagsKeys(after) : k[1] \in Uid
    BY <1>2 DEF FlagsKeys
  <2> QED  BY <1>2, <2>1
<1> HIDE DEF fetch, after, before
<1>4. m \in Nat /\ Cardinality(after.recent) \in Nat
  BY <1>2, UidFinite DEF RecentTold
<1>5. Runs(one, Tells(before.uids, n), Tells(both, n))
  <2>1. CASE sel.hide
    <3>1. both = before.uids /\ one = <<>>
      BY <1>2, <2>1 DEF before
    <3> QED  BY <1>2, <3>1, RunsNothing, TellsType
  <2>2. CASE ~ sel.hide
    BY <1>2, <2>2, RunsExpunges DEF Tells
  <2> QED  BY <2>1, <2>2
<1>6. Runs(two, Tells(both, n), Tells(after.uids, n))
  BY <1>2, RunsExists DEF before
<1>7. Runs(three, Tells(after.uids, n), Tells(after.uids, m))
  BY <1>2, <1>4, RunsRecents
<1>8. Runs(four, Tells(after.uids, m), Tells(after.uids, m))
  <2>1. four \in Seq(FetchType)
    BY <1>2, <1>3, ForkFetches
  <2>2. Tells(after.uids, m) \in Numbering
    BY <1>2, <1>4, TellsType
  <2> QED  BY <2>1, <2>2, RunsFetch
<1> HIDE DEF one, two, three, four, m, both
<1>9. Runs(one \o two, Tells(before.uids, n), Tells(after.uids, n))
  BY <1>5, <1>6, RunsBoth
<1>10. Runs((one \o two) \o three, Tells(before.uids, n), Tells(after.uids, m))
  BY <1>7, <1>9, RunsBoth
<1>11. Runs(((one \o two) \o three) \o four, Tells(before.uids, n), Tells(after.uids, m))
  BY <1>8, <1>10, RunsBoth
<1> QED  BY <1>1, <1>2, <1>11 DEF before, after, m

-----------------------------------------------------------------------------
(* The sessions: what a command does to a selected mailbox that the client *)
(* was told of.                                                            *)

\* _update does not touch what was told.
LEMMA UpdateMessagesTold ==
    ASSUME NEW sel \in SelectedType, NEW S \in SUBSET Uid, NEW fl \in FlagsType
    PROVE  /\ UpdateMessages(sel, S, fl) \in SelectedType
           /\ UpdateMessages(sel, S, fl).prev = sel.prev
           /\ UpdateMessages(sel, S, fl).mode = sel.mode
           /\ UpdateMessages(sel, S, fl).hide = sel.hide
           /\ UpdateMessages(sel, S, fl).modseq = sel.modseq
           /\ UpdateMessages(sel, S, fl).uids = sel.uids \cup S
BY DEF UpdateMessages, SelectedType, FlagsType

\* Nor does _remove.
LEMMA RemoveMessagesTold ==
    ASSUME NEW sel \in SelectedType, NEW E \in SUBSET Uid
    PROVE  /\ RemoveMessages(sel, E) \in SelectedType
           /\ RemoveMessages(sel, E).prev = sel.prev
           /\ RemoveMessages(sel, E).mode = sel.mode
           /\ RemoveMessages(sel, E).hide = sel.hide
           /\ RemoveMessages(sel, E).modseq = sel.modseq
           /\ RemoveMessages(sel, E).uids \subseteq sel.uids
           /\ sel.hide => RemoveMessages(sel, E).uids = sel.uids
<1>1. CASE sel.hide
  BY <1>1 DEF RemoveMessages, SelectedType
<1>2. CASE ~ sel.hide
  BY <1>2 DEF RemoveMessages, SelectedType
<1> QED  BY <1>1, <1>2 DEF SelectedType

\* update_selected adds only messages of the mailbox, and takes none away while
\* expunges are hidden.
LEMMA SyncTold ==
    ASSUME NEW sel \in SelectedType, NEW lg \in LogType, NEW msgs \in SUBSET Uid,
           NEW fl \in FlagsType
    PROVE  /\ UpdateSelected(sel, lg, msgs, fl) \in SelectedType
           /\ UpdateSelected(sel, lg, msgs, fl).prev = sel.prev
           /\ UpdateSelected(sel, lg, msgs, fl).mode = sel.mode
           /\ UpdateSelected(sel, lg, msgs, fl).hide = sel.hide
           /\ UpdateSelected(sel, lg, msgs, fl).modseq = lg.highest
           /\ UpdateSelected(sel, lg, msgs, fl).uids \subseteq sel.uids \cup msgs
           /\ sel.hide => sel.uids \subseteq UpdateSelected(sel, lg, msgs, fl).uids
<1> DEFINE numbered == [sel EXCEPT !.modseq = lg.highest]
           U == Since(lg, "update", sel.modseq) \cap msgs
           E == Since(lg, "expunge", sel.modseq)
           upd == UpdateMessages(numbered, U, fl)
<1>1. /\ numbered \in SelectedType /\ numbered.mode = sel.mode
      /\ numbered.prev = sel.prev /\ numbered.hide = sel.hide
      /\ numbered.modseq = lg.highest /\ numbered.uids = sel.uids
  BY DEF LogType, SelectedType
<1>2. U \in SUBSET Uid /\ U \subseteq msgs /\ E \in SUBSET Uid
  BY DEF Since
<1>3. UpdateSelected(sel, lg, msgs, fl) = RemoveMessages(upd, E)
  BY DEF UpdateSelected, AddUpdates
<1> HIDE DEF numbered, U, E
<1>4. /\ upd \in SelectedType /\ upd.mode = sel.mode /\ upd.prev = sel.prev /\ upd.hide = sel.hide
      /\ upd.modseq = lg.highest /\ upd.uids = sel.uids \cup U
  BY <1>1, <1>2, UpdateMessagesTold
<1> HIDE DEF upd
<1>5. /\ RemoveMessages(upd, E) \in SelectedType
      /\ RemoveMessages(upd, E).prev = upd.prev
      /\ RemoveMessages(upd, E).mode = upd.mode
      /\ RemoveMessages(upd, E).hide = upd.hide
      /\ RemoveMessages(upd, E).modseq = upd.modseq
      /\ RemoveMessages(upd, E).uids \subseteq upd.uids
      /\ upd.hide => RemoveMessages(upd, E).uids = upd.uids
  BY <1>2, <1>4, RemoveMessagesTold
<1> QED  BY <1>2, <1>3, <1>4, <1>5

\* fork() notes all of the view as told.
LEMMA ForkTold ==
    ASSUME NEW sel \in SelectedType
    PROVE  /\ Fork(sel).prev = Freeze(sel) /\ Freeze(sel).uids = sel.uids
           /\ Freeze(sel).recent \in SUBSET Uid
BY DEF Fork, Freeze, SelectedType

\* What the client was told is the view.
Agrees(sel, c) ==
    /\ sel.prev.uids = sel.uids
    /\ Uids(c) = Ascending(sel.uids)
    /\ sel.mode = "rw" => c.recent = Cardinality(sel.prev.recent)

\* New messages have new UIDs.
Grows == \A u \in messages' \ messages : u > maxUid

\* A message that a session does not have is newer than all it has.
LEMMA Newer ==
    ASSUME ClientInv, Grows, ViewInv', NEW s \in Session, Selecting(s),
           NEW u \in messages' \ sess[s].uids, NEW v \in sess[s].uids
    PROVE  v < u
<1>1. CASE u \in messages
  BY <1>1 DEF ClientInv
<1>2. CASE u \notin messages
  <2>1. u > maxUid /\ v <= maxUid /\ maxUid \in Int
    BY <1>2, UidAssumption DEF Grows, ClientInv, ViewInv, TypeOK, SessionsOK, Known
  <2>2. u \in Int /\ v \in Int
    BY UidAssumption DEF ClientInv, ViewInv, TypeOK, SelectedType, Uid
  <2> QED  BY <2>1, <2>2
<1> QED  BY <1>1, <1>2

\* A session keeps its agreement with its client if neither is touched, or has
\* it again if the client was told of the whole mailbox.
LEMMA ClientKept ==
    ASSUME ClientInv, ViewInv', Grows, DOMAIN client' = Session,
           \A t \in Session :
               \/ /\ SameView(sess'[t], sess[t]) /\ sess'[t].prev = sess[t].prev
                  /\ client'[t] = client[t]
               \/ /\ client'[t] \in ClientType
                  /\ sess'[t].mode # "none" =>
                         Agrees(sess'[t], client'[t]) /\ messages' \subseteq sess'[t].uids
    PROVE  ClientInv'
<1>1. ASSUME NEW t \in Session
      PROVE  /\ client'[t] \in ClientType
             /\ sess'[t].mode # "none" =>
                    /\ Agrees(sess'[t], client'[t])
                    /\ \A u \in messages' \ sess'[t].uids, v \in sess'[t].uids : v < u
  <2>1. CASE /\ SameView(sess'[t], sess[t]) /\ sess'[t].prev = sess[t].prev
             /\ client'[t] = client[t]
    <3>1. client[t] \in ClientType
      BY DEF ClientInv
    <3>2. ASSUME sess'[t].mode # "none"
          PROVE  /\ Agrees(sess'[t], client'[t])
                 /\ \A u \in messages' \ sess'[t].uids, v \in sess'[t].uids : v < u
      <4>1. Selecting(t) /\ sess'[t].uids = sess[t].uids /\ sess'[t].mode = sess[t].mode
        BY <2>1, <3>2 DEF SameView, Selecting
      <4>2. Agrees(sess[t], client[t])
        BY <4>1 DEF ClientInv, Agrees, ClientNumbersAgree, RecentCountTold, Writing
      <4>3. Agrees(sess'[t], client'[t])
        BY <2>1, <4>1, <4>2 DEF Agrees
      <4>4. \A u \in messages' \ sess[t].uids, v \in sess[t].uids : v < u
        BY <4>1, Newer
      <4> QED  BY <4>1, <4>3, <4>4
    <3> QED  BY <2>1, <3>1, <3>2
  <2>2. CASE /\ client'[t] \in ClientType
             /\ sess'[t].mode # "none" =>
                    Agrees(sess'[t], client'[t]) /\ messages' \subseteq sess'[t].uids
    BY <2>2
  <2> QED  BY <2>1, <2>2
<1>2. ClientNumbersAgree'
  BY <1>1 DEF ClientNumbersAgree, Selecting, Agrees
<1>3. RecentCountTold'
  BY <1>1 DEF RecentCountTold, Writing, Agrees
<1>4. \A s \in Session : Selecting(s)' =>
           /\ sess'[s].prev.uids = sess'[s].uids
           /\ \A u \in messages' \ sess'[s].uids, v \in sess'[s].uids : v < u
  BY <1>1 DEF Selecting, Agrees
<1> QED  BY <1>1, <1>2, <1>3, <1>4 DEF ClientInv

\* A view that is up to date has every message of the mailbox.
LEMMA HasAll ==
    ASSUME ViewInv', NEW s \in Session, Selecting(s)', sess'[s].modseq = log'.highest
    PROVE  messages' \subseteq sess'[s].uids
<1>1. View(sess'[s], log', messages', flags')
  BY DEF ViewInv, SessionsOK
<1>2. messages' \subseteq Uid /\ \A u \in Uid : log'.last[u].seq <= log'.highest
  BY DEF ViewInv, TypeOK, LogOK
<1> QED  BY <1>1, <1>2 DEF View

\* What the command of s gives to Complete: selected mailboxes that still agree
\* with the clients, FETCH responses, and a client that has changed no number.
Gives(s, given, own, told) ==
    /\ given \in [Session -> SelectedType]
    /\ \A t \in Session : SameView(given[t], sess[t]) /\ given[t].prev = sess[t].prev
    /\ own \in Seq(FetchType)
    /\ told \in ClientType /\ Uids(told) = Uids(client[s]) /\ told.recent = client[s].recent

\* A selected mailbox as update_selected leaves it at the end of a command.
Synced(sel) == UpdateSelected(sel, log', messages', flags')

\* The responses of a command take the client from the numbering it has to that
\* of the view.
LEMMA CommandRuns ==
    ASSUME ClientInv, ViewInv', Grows, NEW s \in Session, Selecting(s),
           NEW given, NEW own, NEW told, Gives(s, given, own, told),
           NEW sel, sel = Synced(given[s]),
           NEW n, n = client[s].recent, NEW m, m = RecentTold(sel.prev, Freeze(sel), n)
    PROVE  /\ sel \in SelectedType /\ sel.mode = sess[s].mode /\ sel.modseq = log'.highest
           /\ sel.prev = sess[s].prev /\ sel.hide = given[s].hide
           /\ sel.hide => sess[s].uids \subseteq sel.uids
           /\ sel.uids \subseteq sess[s].uids \cup messages'
           /\ Tells(sel.prev.uids, n) \in Numbering /\ Tells(sel.uids, m) \in Numbering
           /\ Has(told, Tells(sel.prev.uids, n))
           /\ Runs(Response(own, Compare(sel, flags')),
                   Tells(sel.prev.uids, n), Tells(sel.uids, m))
<1> USE DEF Gives
<1>1. /\ log' \in LogType /\ messages' \in SUBSET Uid /\ flags' \in FlagsType
      /\ \A t \in Session : client[t] \in ClientType
  BY DEF ViewInv, TypeOK, FlagsType, ClientInv
<1>2. given[s] \in SelectedType /\ given[s].uids = sess[s].uids /\ given[s].mode = sess[s].mode
      /\ given[s].prev = sess[s].prev /\ sess[s].prev.uids = sess[s].uids
  BY DEF SameView, ClientInv
<1>3. /\ sel \in SelectedType /\ sel.mode = given[s].mode
      /\ sel.prev = given[s].prev /\ sel.hide = given[s].hide
      /\ sel.modseq = log'.highest
      /\ sel.uids \subseteq given[s].uids \cup messages'
      /\ given[s].hide => given[s].uids \subseteq sel.uids
  BY <1>1, <1>2, SyncTold DEF Synced
<1>4. n \in Nat /\ m \in Nat
  <2>1. n \in Nat
    BY <1>1 DEF ClientType
  <2>2. Cardinality(Freeze(sel).recent) \in Nat
    BY <1>3, ForkTold, UidFinite
  <2> QED  BY <2>1, <2>2 DEF RecentTold
<1>5. Has(told, Tells(sel.prev.uids, n))
  <2>1. Uids(client[s]) = Ascending(sess[s].uids)
    BY DEF ClientInv, ClientNumbersAgree
  <2> QED  BY <1>2, <1>3, <2>1 DEF Has, Tells
<1>6. Runs(Compare(sel, flags'), Tells(sel.prev.uids, n), Tells(sel.uids, m))
  <2>1. sel.hide => sel.prev.uids \subseteq sel.uids
    BY <1>2, <1>3
  <2>2. \A u \in sel.uids \ sel.prev.uids, v \in sel.prev.uids \cap sel.uids : v < u
    BY <1>2, <1>3, Newer
  <2> QED  BY <1>1, <1>3, <1>4, <2>1, <2>2, RunsCompare
<1>7. Tells(sel.prev.uids, n) \in Numbering /\ Tells(sel.uids, m) \in Numbering
  <2>1. sel.prev.uids \in SUBSET Uid /\ sel.uids \in SUBSET Uid
    BY <1>3 DEF SelectedType, FrozenType
  <2> QED  BY <1>4, <2>1, TellsType
<1>8. Runs(Response(own, Compare(sel, flags')), Tells(sel.prev.uids, n), Tells(sel.uids, m))
  <2>1. Runs(own, Tells(sel.prev.uids, n), Tells(sel.prev.uids, n))
    BY <1>7, RunsFetch
  <2>2. Runs(own \o Compare(sel, flags'), Tells(sel.prev.uids, n), Tells(sel.uids, m))
    BY <1>6, <2>1, RunsBoth
  <2> QED  BY <1>7, <2>2, RunsResponse
<1> QED  BY <1>2, <1>3, <1>5, <1>7, <1>8

\* At the end of every command the client numbers the messages as its session.
LEMMA CommandTells ==
    ASSUME ClientInv, ViewInv', Grows, NEW s \in Session,
           NEW given, NEW own, NEW told, Gives(s, given, own, told),
           Complete(s, given, own, told)
    PROVE  ClientInv'
<1> DEFINE sel == Synced(given[s])
           R == Response(own, Compare(sel, flags'))
           new == HearAll(told, R)
           n == client[s].recent
           m == RecentTold(sel.prev, Freeze(sel), n)
<1>1. /\ DOMAIN client = Session /\ DOMAIN client' = Session
      /\ \A t \in Session : client[t] \in ClientType
      /\ given \in [Session -> SelectedType]
      /\ \A t \in Session : SameView(given[t], sess[t]) /\ given[t].prev = sess[t].prev
  BY DEF ClientInv, Complete, Gives
<1>2. CASE ~ Selecting(s)
  <2>1. sess' = given /\ client' = client
    BY <1>2 DEF Complete
  <2> QED  BY <1>1, <2>1, ClientKept
<1>3. CASE Selecting(s)
  <2>1. sess' = [given EXCEPT ![s] = Fork(sel)] /\ client' = [client EXCEPT ![s] = new]
    BY <1>3 DEF Complete, Synced
  <2> HIDE DEF sel
  <2>2. /\ sel \in SelectedType /\ sel.mode = sess[s].mode /\ sel.modseq = log'.highest
        /\ sel.prev = sess[s].prev
        /\ Tells(sel.prev.uids, n) \in Numbering /\ Tells(sel.uids, m) \in Numbering
        /\ Has(told, Tells(sel.prev.uids, n))
        /\ Runs(R, Tells(sel.prev.uids, n), Tells(sel.uids, m))
    BY <1>3, CommandRuns DEF sel
  <2>3. /\ Fork(sel).mode = sel.mode /\ Fork(sel).modseq = sel.modseq
        /\ Fork(sel).uids = sel.uids /\ Fork(sel).prev = Freeze(sel)
        /\ Freeze(sel).uids = sel.uids
    BY <2>2, ForkType, ForkTold
  <2>4. sess'[s] = Fork(sel) /\ \A t \in Session \ {s} : sess'[t] = given[t]
    BY <1>1, <2>1
  <2>5. client'[s] = new /\ \A t \in Session \ {s} : client'[t] = client[t]
    BY <1>1, <2>1
  <2> HIDE DEF R, m
  <2>6. Has(new, Tells(sel.uids, m))
    BY <2>2, HearAllRight
  <2> HIDE DEF new
  <2>7. /\ new \in ClientType /\ Uids(new) = Ascending(sel.uids) /\ new.recent = m
    BY <2>6 DEF Has, Tells
  <2>8. sess[s].mode = "rw" => m = Cardinality(Freeze(sel).recent)
    <3>1. sess[s].mode = "rw" => n = Cardinality(sel.prev.recent)
      BY <2>2 DEF ClientInv, RecentCountTold, Writing
    <3> QED  BY <3>1 DEF RecentTold, m
  <2>9. sess'[s].mode = sess[s].mode
    BY <2>2, <2>3, <2>4
  <2>10. Agrees(sess'[s], client'[s])
    BY <2>3, <2>4, <2>5, <2>7, <2>8, <2>9 DEF Agrees
  <2>11. sess'[s].mode # "none" => messages' \subseteq sess'[s].uids
    BY <2>2, <2>3, <2>4, HasAll DEF Selecting
  <2> QED  BY <1>1, <2>4, <2>5, <2>7, <2>10, <2>11, ClientKept
<1> QED  BY <1>2, <1>3

-----------------------------------------------------------------------------
(* The handlers, and the theorems.                                         *)

\* A message is added with a new UID, or not at all.
LEMMA NextGrows == ViewInv /\ [Next]_vars => Grows
<1> SUFFICES ASSUME ViewInv, [Next]_vars PROVE Grows
  OBVIOUS
<1>0. messages' \subseteq messages => Grows
  BY DEF Grows
<1>1. ASSUME NEW msgs \in SUBSET messages, NEW fl, NEW to, Add(msgs, fl, to) PROVE Grows
  <2>1. maxUid + 1 > maxUid
    BY UidAssumption DEF ViewInv, TypeOK
  <2> QED  BY <1>1, <2>1 DEF Add, Grows
<1>2. ASSUME NEW s \in Session, NEW mode \in Mode, Select(s, mode) PROVE Grows
  BY <1>0, <1>2 DEF Select
<1>3. ASSUME NEW s \in Session, Deselect(s) \/ Close(s) \/ Noop(s) \/ Search(s) PROVE Grows
  BY <1>0, <1>3 DEF Deselect, Close, Noop, Search, Delete, store
<1>4. ASSUME NEW s \in Session, NEW newFlags \in Operand \cup {{}}, AppendMessage(s, newFlags)
      PROVE  Grows
  BY <1>1, <1>4 DEF AppendMessage
<1>5. ASSUME NEW s \in Session, NEW u \in Uid,
             CopyMessage(s, u) \/ MoveWithin(s, u) \/ MoveOut(s, u)
      PROVE  Grows
  <2>1. CASE CopyMessage(s, u) \/ MoveWithin(s, u)
    BY <1>1, <2>1 DEF CopyMessage, MoveWithin
  <2>2. CASE MoveOut(s, u)
    BY <1>0, <2>2 DEF MoveOut
  <2> QED  BY <1>5, <2>1, <2>2
<1>6. ASSUME NEW s \in Session, NEW S \in SUBSET sess[s].uids, Expunge(s, S) PROVE Grows
  BY <1>0, <1>6 DEF Expunge, Delete
<1>7. ASSUME NEW s \in Session, FlagCommand(s) PROVE Grows
  <2>1. PICK uid \in UidCommand, S \in (SUBSET sess[s].uids) \ {{}} :
            \/ FetchFlags(s, uid, S)
            \/ FetchBody(s, uid, S)
            \/ \E silent \in BOOLEAN, op \in FlagOp, operand \in Operand :
                   \/ StoreFlags(s, uid, silent, S, op, operand)
                   \/ StoreRefused(s, uid, silent, S, op, operand)
    BY <1>7 DEF FlagCommand
  <2>2. CASE FetchFlags(s, uid, S)
    BY <1>0, <2>2 DEF FetchFlags, store
  <2>3. CASE FetchBody(s, uid, S)
    BY <1>0, <2>3 DEF FetchBody, UpdateFlags
  <2>4. ASSUME NEW silent \in BOOLEAN, NEW op \in FlagOp, NEW operand \in Operand,
               \/ StoreFlags(s, uid, silent, S, op, operand)
               \/ StoreRefused(s, uid, silent, S, op, operand)
        PROVE  Grows
    BY <1>0, <2>4 DEF StoreFlags, StoreRefused, UpdateFlags, store
  <2> QED  BY <2>1, <2>2, <2>3, <2>4
<1>8. CASE UNCHANGED vars
  BY <1>0, <1>8 DEF vars
<1>9. CASE Next
  BY <1>2, <1>3, <1>4, <1>5, <1>6, <1>7, <1>9 DEF Next
<1> QED  BY <1>8, <1>9

\* The list of no responses of its own.
LEMMA NoFetches == <<>> \in Seq(FetchType)
OBVIOUS

\* A client as it is has changed no number.
LEMMA ClientAsIs ==
    ASSUME ClientInv, NEW s \in Session
    PROVE  client[s] \in ClientType
BY DEF ClientInv

\* What AddRecent gives.
LEMMA AddRecentGives ==
    ASSUME ClientInv, NEW s \in Session, NEW to \in SUBSET Session, maxUid + 1 \in Uid
    PROVE  Gives(s, AddRecent(to), <<>>, client[s])
<1>1. /\ AddRecent(to) \in [Session -> SelectedType]
      /\ \A t \in Session : SameView(AddRecent(to)[t], sess[t])
  BY AddRecentView DEF ClientInv
<1>2. \A t \in Session : AddRecent(to)[t].prev = sess[t].prev
  BY DEF AddRecent, ClientInv, ViewInv, TypeOK, SelectedType
<1> QED  BY <1>1, <1>2, NoFetches, ClientAsIs DEF Gives

\* What a command that leaves the selected mailboxes alone gives.
LEMMA SessGives ==
    ASSUME ClientInv, NEW s \in Session
    PROVE  Gives(s, sess, <<>>, client[s])
BY NoFetches, ClientAsIs DEF Gives, SameView, ClientInv, ViewInv, TypeOK

\* What a command gives that hides expunges, or a UID command.
LEMMA HidingGives ==
    ASSUME ClientInv, NEW s \in Session, NEW uid \in BOOLEAN, NEW own \in Seq(FetchType)
    PROVE  Gives(s, Hiding(s, uid), own, client[s])
<1>1. /\ Hiding(s, uid) \in [Session -> SelectedType]
      /\ \A t \in Session : SameView(Hiding(s, uid)[t], sess[t])
  BY HidingView DEF ClientInv
<1>2. sess \in [Session -> SelectedType]
  BY DEF ClientInv, ViewInv, TypeOK
<1>3. \A t \in Session : Hiding(s, uid)[t].prev = sess[t].prev
  <2>1. CASE uid
    BY <2>1 DEF Hiding
  <2>2. CASE ~ uid
    BY <1>2, <2>2 DEF Hiding, SelectedType
  <2> QED  BY <2>1, <2>2
<1> QED  BY <1>1, <1>3, ClientAsIs DEF Gives

\* The responses of a FETCH that sets \Seen.
LEMMA SeenFetches ==
    ASSUME NEW S \in SUBSET Uid, NEW V \in SUBSET Uid
    PROVE  [i \in DOMAIN Ascending(S) |-> FetchResponse(Rank(V, Ascending(S)[i]), NoData)]
               \in Seq(FetchType)
<1> DEFINE q == Ascending(S)
<1>1. q \in Seq(Uid) /\ DOMAIN q = 1..Len(q) /\ Len(q) \in Nat
  BY AscendingRank
<1>2. \A i \in 1..Len(q) : q[i] \in Uid
  BY <1>1
<1> HIDE DEF q
<1>3. ASSUME NEW u \in Uid PROVE FetchResponse(Rank(V, u), NoData) \in FetchType
  BY RankType DEF FetchResponse, FetchType
<1>4. [i \in 1..Len(q) |-> FetchResponse(Rank(V, q[i]), NoData)] \in Seq(FetchType)
  BY <1>1, <1>2, <1>3
<1> QED  BY <1>1, <1>4 DEF q

\* The responses of do_fetch and do_store.
LEMMA FetchEachType ==
    ASSUME ClientInv, ViewInv', NEW s \in Session, Selecting(s), NEW uid \in BOOLEAN,
           NEW S \in SUBSET Uid, NEW fl \in FlagsType
    PROVE  FetchEach(s, uid, S, fl) \in Seq(FetchType)
<1> DEFINE given == Hiding(s, uid)[s]
           sel == UpdateSelected(given, log', messages', flags')
           V == sess[s].uids
           own == [i \in DOMAIN Ascending(S) |->
                      FetchResponse(Rank(V, Ascending(S)[i]), ShownFlags(sel, Ascending(S)[i], fl))]
<1>0. FetchEach(s, uid, S, fl) = own
  BY Zenon DEF FetchEach
<1>1. log' \in LogType /\ messages' \in SUBSET Uid /\ flags' \in FlagsType /\ V \in SUBSET Uid
  BY DEF ViewInv, TypeOK, FlagsType, ClientInv, SelectedType
<1>2. given \in SelectedType
  BY HidingView DEF ClientInv
<1> HIDE DEF given
<1>3. sel \in SelectedType
  BY <1>1, <1>2, SyncTold
<1> HIDE DEF sel, V
<1>4. own \in Seq(FetchType)
  BY <1>1, <1>3, ForkFetches, Zenon
<1> HIDE DEF own
<1> QED  BY <1>0, <1>4

\* A client that has stored with .SILENT numbers the messages as before.
LEMMA AssumeType ==
    ASSUME NEW c \in ClientType, NEW S, NEW op \in FlagOp, NEW operand \in SUBSET Flag
    PROVE  /\ Assume(c, S, op, operand) \in ClientType
           /\ Uids(Assume(c, S, op, operand)) = Uids(c)
           /\ Assume(c, S, op, operand).recent = c.recent
<1> DEFINE n == Len(c.msgs)
           Entry(e) == IF e.uid \in S THEN StoredEntry(e, op, operand) ELSE e
           M == [i \in 1..n |-> Entry(c.msgs[i])]
           d == Assume(c, S, op, operand)
<1>1. /\ c.msgs \in Seq(EntryType) /\ n \in Nat /\ DOMAIN c.msgs = 1..n
      /\ \A i \in 1..n : c.msgs[i] \in EntryType
  BY DEF ClientType
<1>2. ASSUME NEW e \in EntryType
      PROVE  Entry(e) \in EntryType /\ Entry(e).uid = e.uid
  <2>1. CASE e.uid \notin S
    BY <2>1
  <2>2. CASE e.uid \in S
    <3>1. e.flags \in {NotHeard} \cup SUBSET (Flag \cup {Recent})
      BY DEF EntryType
    <3>2. CASE e.flags = NotHeard
      <4>1. Entry(e) = [e EXCEPT !.silent = TRUE]
        BY <2>2, <3>2 DEF EntryType, StoredEntry
      <4> HIDE DEF Entry
      <4> QED  BY <4>1 DEF EntryType
    <3>3. CASE e.flags # NotHeard
      <4> DEFINE f == Apply(op, e.flags \ {Recent}, operand) \cup (e.flags \cap {Recent})
      <4>1. e.flags \ {Recent} \in SUBSET Flag
        BY <3>1, <3>3
      <4>2. Apply(op, e.flags \ {Recent}, operand) \in SUBSET Flag
        BY <4>1, ApplyType
      <4>3. f \in SUBSET (Flag \cup {Recent})
        BY <4>2
      <4>4. Entry(e) = [e EXCEPT !.silent = TRUE, !.flags = f]
        BY <2>2, <3>3 DEF EntryType, StoredEntry
      <4> HIDE DEF Entry, f
      <4> QED  BY <4>3, <4>4 DEF EntryType
    <3> QED  BY <3>2, <3>3
  <2> QED  BY <2>1, <2>2
<1>3. d = [c EXCEPT !.msgs = M]
  <2>1. d = [c EXCEPT !.msgs = [i \in DOMAIN c.msgs |-> Entry(c.msgs[i])]]
    BY DEF Assume
  <2> HIDE DEF Entry
  <2>2. M = [i \in DOMAIN c.msgs |-> Entry(c.msgs[i])]
    BY <1>1
  <2> QED  BY <2>1, <2>2
<1> HIDE DEF Entry
<1>4. /\ M \in Seq(EntryType) /\ Len(M) = n
      /\ \A i \in 1..n : M[i].uid = c.msgs[i].uid
  BY <1>1, <1>2
<1> HIDE DEF M
<1>5. d \in ClientType /\ d.msgs = M /\ d.recent = c.recent
  BY <1>3, <1>4 DEF ClientType
<1> HIDE DEF d
<1>6. /\ Uids(c) \in Seq(Uid) /\ Len(Uids(c)) = n
      /\ \A i \in 1..n : Uids(c)[i] = c.msgs[i].uid
  BY UidsType
<1>7. Uids(d) = Uids(c)
  BY <1>4, <1>5, <1>6, UidsAre
<1> QED  BY <1>5, <1>7 DEF d

\* SELECT and EXAMINE: the client is told of the whole mailbox.
LEMMA ClientSelect ==
    ASSUME ClientInv, ViewInv', Grows, NEW s \in Session, NEW mode \in Mode, Select(s, mode)
    PROVE  ClientInv'
<1> DEFINE claimed == IF mode = "rw" THEN recent ELSE {}
           fresh == [NewSelected(mode) EXCEPT !.recent = claimed, !.modseq = log'.highest]
           sel == UpdateMessages(fresh, messages, flags)
           new == [msgs |-> Announced(Ascending(messages)), recent |-> Cardinality(recent)]
<1>1. /\ messages' = messages /\ sess' = [sess EXCEPT ![s] = Fork(sel)]
      /\ client' = [client EXCEPT ![s] = new]
  BY DEF Select
<1>2. /\ messages \in SUBSET Uid /\ flags \in FlagsType /\ recent \subseteq messages
      /\ log'.highest \in Nat /\ mode \in {"rw", "ro"}
      /\ DOMAIN client = Session /\ DOMAIN sess = Session
  BY SessionAssumption DEF ClientInv, ViewInv, TypeOK, FlagsType, LogType
<1>3. claimed \subseteq messages /\ (mode = "rw" => claimed = recent)
  BY <1>2
<1> HIDE DEF claimed
<1>4. /\ fresh \in SelectedType /\ fresh.mode = mode /\ fresh.uids = {}
      /\ fresh.recent = claimed
  BY ONLY <1>2, <1>3, NewSelectedType DEF NewSelected, SelectedType, fresh
<1> HIDE DEF fresh
<1>5. sel \in SelectedType /\ sel.mode = mode /\ sel.uids = messages /\ sel.recent = claimed
  <2>1. sel \in SelectedType /\ sel.mode = fresh.mode /\ sel.uids = fresh.uids \cup messages
    BY <1>2, <1>4, UpdateMessagesTold
  <2>2. sel.recent = fresh.recent
    BY <1>2, <1>4, UpdateMessagesRecent
  <2> HIDE DEF sel
  <2> QED  BY <1>4, <2>1, <2>2
<1> HIDE DEF sel
<1>6. /\ Fork(sel).uids = messages /\ Fork(sel).mode = mode
      /\ Fork(sel).prev.uids = messages /\ Fork(sel).prev.recent = claimed
  <2>1. /\ Fork(sel).uids = sel.uids /\ Fork(sel).mode = sel.mode
        /\ Fork(sel).prev = Freeze(sel)
    BY <1>5, ForkType, ForkTold
  <2>2. Freeze(sel).uids = sel.uids /\ Freeze(sel).recent = sel.recent \cap sel.uids
    BY DEF Freeze
  <2> QED  BY <1>3, <1>5, <2>1, <2>2
<1>7. /\ Ascending(messages) \in Seq(Uid) /\ Cardinality(recent) \in Nat
  BY <1>2, AscendingRank, UidFinite
<1>8. /\ Announced(Ascending(messages)) \in Seq(EntryType)
      /\ Len(Announced(Ascending(messages))) = Len(Ascending(messages))
      /\ \A i \in 1..Len(Ascending(messages)) :
             Announced(Ascending(messages))[i].uid = Ascending(messages)[i]
  BY <1>7, AnnouncedRight
<1>9. new \in ClientType /\ new.msgs = Announced(Ascending(messages))
      /\ new.recent = Cardinality(recent)
  BY <1>7, <1>8 DEF ClientType
<1> HIDE DEF new
<1>10. Uids(new) = Ascending(messages)
  BY <1>7, <1>8, <1>9, UidsAre
<1>11. sess'[s] = Fork(sel) /\ \A t \in Session \ {s} : sess'[t] = sess[t]
  BY <1>1, <1>2
<1>12. client'[s] = new /\ \A t \in Session \ {s} : client'[t] = client[t]
  BY <1>1, <1>2
<1>13. Agrees(sess'[s], client'[s]) /\ messages' \subseteq sess'[s].uids
  BY <1>1, <1>3, <1>6, <1>9, <1>10, <1>11, <1>12 DEF Agrees
<1>14. DOMAIN client' = Session
  BY <1>1, <1>2
<1> QED  BY <1>9, <1>11, <1>12, <1>13, <1>14, ClientKept DEF SameView

\* LOGOUT and CLOSE: there is no client any more.
LEMMA ClientLeaves ==
    ASSUME ClientInv, ViewInv', Grows, NEW s \in Session,
           sess' = [sess EXCEPT ![s] = NotSelected], client' = [client EXCEPT ![s] = NoClient]
    PROVE  ClientInv'
<1>1. NoClient \in ClientType
  BY DEF NoClient, ClientType
<1>2. NotSelected.mode = "none"
  BY DEF NotSelected, NewSelected
<1>3. DOMAIN client = Session /\ DOMAIN sess = Session
  BY DEF ClientInv, ViewInv, TypeOK
<1>4. /\ sess'[s].mode = "none" /\ client'[s] \in ClientType /\ DOMAIN client' = Session
      /\ \A t \in Session \ {s} : sess'[t] = sess[t] /\ client'[t] = client[t]
  BY <1>1, <1>2, <1>3
<1> QED  BY <1>4, ClientKept DEF SameView

\* APPEND, COPY and MOVE, whichever session gets \Recent.
LEMMA ClientAdd ==
    ASSUME ClientInv, ViewInv', Grows, NEW s \in Session, NEW to \in SUBSET Session,
           NEW msgs, NEW fl, Add(msgs, fl, to), Complete(s, AddRecent(to), <<>>, client[s])
    PROVE  ClientInv'
<1>1. maxUid + 1 \in Uid
  BY UidAssumption DEF ClientInv, ViewInv, TypeOK, Add, Uid
<1> QED  BY <1>1, AddRecentGives, CommandTells

\* What hide_expunged and silence() leave has been told to the client as before.
LEMMA HandledTold ==
    ASSUME ClientInv, NEW s \in Session, NEW uid \in BOOLEAN, NEW silent \in BOOLEAN,
           NEW S \in SUBSET Uid, NEW op \in FlagOp, NEW operand \in SUBSET Flag
    PROVE  LET given == [sess EXCEPT ![s] = StoreHandled(s, uid, silent, S, op, operand)]
           IN  /\ given \in [Session -> SelectedType]
               /\ \A t \in Session : SameView(given[t], sess[t]) /\ given[t].prev = sess[t].prev
<1> DEFINE hid == Hiding(s, uid)[s]
           handled == StoreHandled(s, uid, silent, S, op, operand)
<1>1. sess \in [Session -> SelectedType] /\ ViewInv
  BY DEF ClientInv, ViewInv, TypeOK
<1>2. handled \in SelectedType /\ SameView(handled, sess[s])
  BY <1>1, HandledView
<1>3. hid \in SelectedType /\ hid.prev = sess[s].prev
  BY HidingGives, NoFetches DEF Gives
<1>4. handled.prev = hid.prev
  <2>1. handled = IF silent THEN Silence(hid, S, op, operand, flags) ELSE hid
    BY DEF StoreHandled
  <2> HIDE DEF hid, handled
  <2>2. Silence(hid, S, op, operand, flags).prev = hid.prev
    BY <1>3 DEF Silence, SelectedType
  <2> QED  BY <2>1, <2>2
<1> HIDE DEF hid, handled
<1>5. /\ [sess EXCEPT ![s] = handled] \in [Session -> SelectedType]
      /\ \A t \in Session : /\ SameView([sess EXCEPT ![s] = handled][t], sess[t])
                            /\ [sess EXCEPT ![s] = handled][t].prev = sess[t].prev
  BY <1>1, <1>2, <1>3, <1>4 DEF SameView
<1> QED  BY <1>5 DEF handled

\* FETCH, with or without \Seen.
LEMMA ClientFetch ==
    ASSUME ClientInv, ViewInv', Grows, NEW s \in Session, NEW uid \in BOOLEAN,
           NEW S \in SUBSET sess[s].uids, FetchFlags(s, uid, S) \/ FetchBody(s, uid, S)
    PROVE  ClientInv'
<1>1. Selecting(s)
  BY DEF FetchFlags, FetchBody, Writing, Selecting
<1>2. S \in SUBSET Uid /\ sess[s].uids \in SUBSET Uid /\ flags \in FlagsType
  BY <1>1, InView DEF ClientInv, ViewInv, TypeOK, FlagsType
<1>3. CASE FetchFlags(s, uid, S)
  <2> DEFINE own == FetchEach(s, uid, S, flags)
  <2>1. own \in Seq(FetchType)
    BY <1>1, <1>2, FetchEachType
  <2>2. Complete(s, Hiding(s, uid), own, client[s])
    BY <1>3 DEF FetchFlags
  <2> HIDE DEF own
  <2>3. Gives(s, Hiding(s, uid), own, client[s])
    BY <2>1, HidingGives
  <2> QED  BY <2>2, <2>3, CommandTells
<1>4. CASE FetchBody(s, uid, S)
  <2> DEFINE own == [i \in DOMAIN Ascending(S) |->
                        FetchResponse(Rank(sess[s].uids, Ascending(S)[i]), NoData)]
  <2>1. own \in Seq(FetchType)
    BY <1>2, SeenFetches
  <2>2. Complete(s, Hiding(s, uid), own, client[s])
    BY <1>4 DEF FetchBody
  <2> HIDE DEF own
  <2>3. Gives(s, Hiding(s, uid), own, client[s])
    BY <2>1, HidingGives
  <2> QED  BY <2>2, <2>3, CommandTells
<1> QED  BY <1>3, <1>4

\* STORE, silent or not.
LEMMA ClientStore ==
    ASSUME ClientInv, ViewInv', Grows, NEW s \in Session, NEW uid \in BOOLEAN,
           NEW silent \in BOOLEAN, NEW S \in SUBSET sess[s].uids, NEW op \in FlagOp,
           NEW operand \in Operand, StoreFlags(s, uid, silent, S, op, operand)
    PROVE  ClientInv'
<1> DEFINE given == [sess EXCEPT ![s] = StoreHandled(s, uid, silent, S, op, operand)]
           answers == IF silent THEN S \ messages ELSE S
           shown == [u \in Uid |-> Apply(op, flags[u], operand)]
           own == FetchEach(s, uid, answers, shown)
           told == IF silent THEN Assume(client[s], S, op, operand) ELSE client[s]
<1>1. Selecting(s) /\ Complete(s, given, own, told)
  BY DEF StoreFlags, Writing, Selecting
<1>2. S \in SUBSET Uid /\ operand \in SUBSET Flag /\ flags \in FlagsType
  BY <1>1, InView, SessionAssumption DEF ClientInv, ViewInv, TypeOK, FlagsType
<1>3. /\ given \in [Session -> SelectedType]
      /\ \A t \in Session : SameView(given[t], sess[t]) /\ given[t].prev = sess[t].prev
  BY <1>2, HandledTold
<1>4. shown \in FlagsType
  BY <1>2, ApplyType DEF FlagsType
<1>5. answers \in SUBSET Uid
  BY <1>2
<1> HIDE DEF given, answers, shown
<1>6. own \in Seq(FetchType)
  BY <1>1, <1>4, <1>5, FetchEachType
<1>7. client[s] \in ClientType
  BY ClientAsIs
<1>8. told \in ClientType /\ Uids(told) = Uids(client[s]) /\ told.recent = client[s].recent
  BY <1>2, <1>7, AssumeType
<1> HIDE DEF own, told
<1>9. Gives(s, given, own, told)
  BY <1>3, <1>6, <1>8 DEF Gives
<1> QED  BY <1>1, <1>9, CommandTells

\* A STORE that is refused tells the client nothing.
LEMMA ClientRefused ==
    ASSUME ClientInv, ViewInv', Grows, NEW s \in Session, NEW uid \in BOOLEAN,
           NEW silent \in BOOLEAN, NEW S \in SUBSET sess[s].uids, NEW op \in FlagOp,
           NEW operand \in Operand, StoreRefused(s, uid, silent, S, op, operand)
    PROVE  ClientInv'
<1> DEFINE given == [sess EXCEPT ![s] = StoreHandled(s, uid, silent, S, op, operand)]
<1>1. sess' = given /\ client' = client
  BY DEF StoreRefused
<1>2. S \in SUBSET Uid /\ operand \in SUBSET Flag
  BY InView, SessionAssumption DEF ClientInv, StoreRefused, Selecting
<1>3. \A t \in Session : SameView(given[t], sess[t]) /\ given[t].prev = sess[t].prev
  BY <1>2, HandledTold
<1> HIDE DEF given
<1>4. DOMAIN client' = Session
  BY <1>1 DEF ClientInv
<1> QED  BY <1>1, <1>3, <1>4, ClientKept

\* The mailbox is empty and nobody has it selected.
LEMMA ClientInit == Init => ClientInv
<1> SUFFICES ASSUME Init PROVE ClientInv
  OBVIOUS
<1>1. NoClient \in ClientType
  BY DEF NoClient, ClientType
<1>2. \A s \in Session : sess[s].mode = "none" /\ client[s] \in ClientType
  BY <1>1 DEF Init, NotSelected, NewSelected
<1>3. DOMAIN client = Session
  BY DEF Init
<1> QED  BY <1>2, <1>3, ViewInit
         DEF ClientInv, ClientNumbersAgree, RecentCountTold, Selecting, Writing

\* Every command leaves every client with its session's numbers.
LEMMA ClientStep == ClientInv /\ [Next]_vars => ClientInv'
<1> SUFFICES ASSUME ClientInv, [Next]_vars PROVE ClientInv'
  OBVIOUS
<1>0. ViewInv' /\ Grows
  BY ViewStep, NextGrows DEF ClientInv
<1>1. ASSUME NEW s \in Session, NEW mode \in Mode, Select(s, mode) PROVE ClientInv'
  BY <1>0, <1>1, ClientSelect
<1>2. ASSUME NEW s \in Session, Deselect(s) \/ Close(s) PROVE ClientInv'
  <2>1. sess' = [sess EXCEPT ![s] = NotSelected] /\ client' = [client EXCEPT ![s] = NoClient]
    BY <1>2 DEF Deselect, Close
  <2> QED  BY <1>0, <2>1, ClientLeaves
<1>3. ASSUME NEW s \in Session, NEW newFlags \in Operand \cup {{}}, AppendMessage(s, newFlags)
      PROVE  ClientInv'
  <2>1. PICK to \in SUBSET Recipients(s) :
            /\ Add(messages, newFlags, to)
            /\ Complete(s, AddRecent(to), <<>>, client[s])
    BY <1>3 DEF AppendMessage
  <2>2. to \in SUBSET Session
    BY DEF Recipients
  <2> QED  BY <1>0, <2>1, <2>2, ClientAdd
<1>4. ASSUME NEW s \in Session, NEW u \in Uid, CopyMessage(s, u) \/ MoveWithin(s, u)
      PROVE  ClientInv'
  <2>1. PICK msgs : /\ Add(msgs, flags[u], {s})
                    /\ Complete(s, AddRecent({s}), <<>>, client[s])
    BY <1>4 DEF CopyMessage, MoveWithin
  <2> QED  BY <1>0, <2>1, ClientAdd
<1>5. ASSUME NEW s \in Session, Complete(s, sess, <<>>, client[s]) PROVE ClientInv'
  BY <1>0, <1>5, SessGives, CommandTells
<1>6. ASSUME NEW s \in Session, NEW u \in Uid, MoveOut(s, u) PROVE ClientInv'
  BY <1>5, <1>6 DEF MoveOut
<1>7. ASSUME NEW s \in Session, Noop(s) PROVE ClientInv'
  BY <1>5, <1>7 DEF Noop
<1>8. ASSUME NEW s \in Session, NEW S \in SUBSET sess[s].uids, Expunge(s, S) PROVE ClientInv'
  BY <1>5, <1>8 DEF Expunge
<1>9. ASSUME NEW s \in Session, Search(s) PROVE ClientInv'
  <2>1. Complete(s, Hiding(s, FALSE), <<>>, client[s])
    BY <1>9 DEF Search
  <2>2. Gives(s, Hiding(s, FALSE), <<>>, client[s])
    BY NoFetches, HidingGives
  <2> QED  BY <1>0, <2>1, <2>2, CommandTells
<1>10. ASSUME NEW s \in Session, FlagCommand(s) PROVE ClientInv'
  <2>1. PICK uid \in BOOLEAN, S \in SUBSET sess[s].uids :
            \/ FetchFlags(s, uid, S)
            \/ FetchBody(s, uid, S)
            \/ \E silent \in BOOLEAN, op \in FlagOp, operand \in Operand :
                   \/ StoreFlags(s, uid, silent, S, op, operand)
                   \/ StoreRefused(s, uid, silent, S, op, operand)
    BY <1>10, SessionAssumption DEF FlagCommand
  <2>2. CASE FetchFlags(s, uid, S) \/ FetchBody(s, uid, S)
    BY <1>0, <2>2, ClientFetch
  <2>3. ASSUME NEW silent \in BOOLEAN, NEW op \in FlagOp, NEW operand \in Operand,
               \/ StoreFlags(s, uid, silent, S, op, operand)
               \/ StoreRefused(s, uid, silent, S, op, operand)
        PROVE  ClientInv'
    BY <1>0, <2>3, ClientStore, ClientRefused
  <2> QED  BY <2>1, <2>2, <2>3
<1>11. CASE UNCHANGED vars
  BY <1>11 DEF vars, ClientInv, ViewInv, TypeOK, SessionsOK, Selecting, Writing,
               ClientNumbersAgree, RecentCountTold
<1>12. CASE Next
  BY <1>1, <1>2, <1>3, <1>4, <1>6, <1>7, <1>8, <1>9, <1>10, <1>12 DEF Next
<1> QED  BY <1>11, <1>12

\* SEARCH and FETCH hide expunges, so no message leaves the client's list.
LEMMA SearchStep ==
    ASSUME ClientInv, ClientInv', Grows, NEW s \in Session, Search(s)
    PROVE  IsPrefix(Uids(client[s]), Uids(client'[s]))
<1> DEFINE given == Hiding(s, FALSE)
           sel == UpdateSelected(given[s], log', messages', flags')
           T == sess[s].uids
           V == sess'[s].uids
<1>1. ViewInv /\ ViewInv' /\ Selecting(s) /\ Complete(s, given, <<>>, client[s])
  BY DEF ClientInv, Search
<1>2. sess \in [Session -> SelectedType]
  BY <1>1 DEF ViewInv, TypeOK
<1>3. /\ log' \in LogType /\ messages' \in SUBSET Uid /\ flags' \in FlagsType
      /\ T \in SUBSET Uid /\ V \in SUBSET Uid
  BY <1>1 DEF ViewInv, TypeOK, FlagsType, SelectedType
<1>4. /\ given \in [Session -> SelectedType] /\ given[s].hide
      /\ given[s].mode = sess[s].mode /\ given[s].uids = T
  BY <1>2 DEF Hiding, SelectedType
<1>5. sess' = [given EXCEPT ![s] = Fork(sel)]
  BY <1>1 DEF Complete
<1> HIDE DEF given
<1>6. /\ sel \in SelectedType /\ sel.mode = given[s].mode
      /\ sel.uids \subseteq given[s].uids \cup messages' /\ given[s].uids \subseteq sel.uids
  BY <1>3, <1>4, SyncTold
<1> HIDE DEF sel
<1>7. Fork(sel).mode = sel.mode /\ Fork(sel).uids = sel.uids
  BY <1>6, ForkType
<1>8. sess'[s] = Fork(sel)
  BY <1>4, <1>5
<1>9. sess'[s].mode = sess[s].mode /\ T \in SUBSET V /\ V \subseteq T \cup messages'
  BY <1>4, <1>6, <1>7, <1>8
<1>10. Uids(client[s]) = Ascending(T) /\ Uids(client'[s]) = Ascending(V)
  BY <1>1, <1>9 DEF ClientInv, ClientNumbersAgree, Selecting
<1>11. \A u \in V \ T, v \in T : v < u
  BY <1>1, <1>9, Newer
<1> HIDE DEF T, V
<1> DEFINE a == Ascending(T)
           b == Ascending(V)
<1>12. /\ a \in Seq(Uid) /\ b \in Seq(Uid)
       /\ Len(a) <= Len(b) /\ \A i \in 1..Len(a) : b[i] = a[i]
  BY <1>3, <1>9, <1>11, AscendingRank, AscendingExtends
<1> HIDE DEF a, b
<1>13. SubSeq(b, 1, Len(a)) = SubSeq(a, 1, Len(a))
  BY <1>12
<1> QED  BY <1>10, <1>12, <1>13 DEF IsPrefix, a, b

\* The invariant the clients' properties follow from, for any number of
\* sessions, whatever they do to the mailbox and in whatever order.
THEOREM ClientInvCorrect == Spec => []ClientInv
<1> QED  BY ClientInit, ClientStep, PTL DEF Spec

\* After every command the client and its session number the same messages the
\* same way: the untagged responses of fork() add up to the new view.
THEOREM ClientNumbersCorrect == Spec => []ClientNumbersAgree
<1>1. ClientInv => ClientNumbersAgree
  BY DEF ClientInv
<1> QED  BY <1>1, ClientInvCorrect, PTL

\* A read-write session's client knows the number of its recent messages after
\* every command, though fork() sends RECENT only if the number has changed.
THEOREM RecentCountCorrect == Spec => []RecentCountTold
<1>1. ClientInv => RecentCountTold
  BY DEF ClientInv
<1> QED  BY <1>1, ClientInvCorrect, PTL

\* SEARCH, and any command that hides expunges, takes no number from the client.
THEOREM SearchKeepsCorrect == Spec => SearchKeepsNumbers
<1> DEFINE Keeps == \A s \in Session :
                        Search(s) => IsPrefix(Uids(client[s]), Uids(client'[s]))
<1>1. ClientInv /\ ClientInv' /\ [Next]_vars => Keeps
  BY NextGrows, SearchStep DEF ClientInv
<1>2. ClientInv /\ ClientInv' /\ [Next]_vars => [Keeps]_vars
  BY <1>1
<1> QED  BY <1>2, ClientInvCorrect, PTL DEF Spec, SearchKeepsNumbers

-----------------------------------------------------------------------------
(* What a list of untagged responses tells of the flags of one message, by *)
(* its sequence number.                                                    *)

\* A FETCH of sequence number n.
Fetches(r, n) == r.type = "FETCH" /\ r.seq = n

\* No EXPUNGE after a FETCH: numbers mean the same from the first FETCH on.
Ordered(R) ==
    \A i, j \in 1..Len(R) : i < j /\ R[i].type = "FETCH" => R[j].type # "EXPUNGE"

\* A FETCH of n has no data, or the flags w.
Says(R, n, w) == \A i \in 1..Len(R) : Fetches(R[i], n) => R[i].flags \in {NoData, w}

\* There is a FETCH of n with the flags w.
Mentions(R, n, w) == \E i \in 1..Len(R) : Fetches(R[i], n) /\ R[i].flags = w

\* A list in which there is a FETCH.
AnyFetch(R) == \E i \in 1..Len(R) : R[i].type = "FETCH"

\* What FetchResponse.merge makes of two responses.
LEMMA MergeShows ==
    ASSUME NEW q \in FetchType, NEW r \in FetchType
    PROVE  /\ MergeFetch(q, r) \in FetchType /\ MergeFetch(q, r).seq = q.seq
           /\ MergeFetch(q, r).type = "FETCH"
           /\ MergeFetch(q, r).flags = IF r.flags = NoData THEN q.flags ELSE r.flags
BY DEF FetchType, MergeFetch

\* add_untagged, response by response: each stays or is merged with the new one,
\* which is at the end or in all of its number.
LEMMA AddShows ==
    ASSUME NEW R \in Seq(ResponseType), NEW r \in ResponseType
    PROVE  /\ AddUntagged(R, r) \in Seq(ResponseType)
           /\ \/ /\ Len(AddUntagged(R, r)) = Len(R) + 1
                 /\ \A i \in 1..Len(R) : AddUntagged(R, r)[i] = R[i]
                 /\ AddUntagged(R, r)[Len(R) + 1] = r
              \/ /\ r \in FetchType
                 /\ Len(AddUntagged(R, r)) = Len(R)
                 /\ \E i \in 1..Len(R) : Fetches(R[i], r.seq)
                 /\ \A i \in 1..Len(R) :
                        IF Fetches(R[i], r.seq)
                        THEN R[i] \in FetchType /\ AddUntagged(R, r)[i] = MergeFetch(R[i], r)
                        ELSE AddUntagged(R, r)[i] = R[i]
<1> DEFINE same == {i \in DOMAIN R : /\ r.type = "FETCH" /\ R[i].type = "FETCH"
                                     /\ R[i].seq = r.seq}
           Q == [i \in DOMAIN R |-> IF i \in same THEN MergeFetch(R[i], r) ELSE R[i]]
<1>1. Len(R) \in Nat /\ DOMAIN R = 1..Len(R) /\ \A i \in 1..Len(R) : R[i] \in ResponseType
  OBVIOUS
<1>2. CASE same = {}
  <2>1. AddUntagged(R, r) = Append(R, r)
    BY <1>2 DEF AddUntagged
  <2>2. /\ Append(R, r) \in Seq(ResponseType) /\ Len(Append(R, r)) = Len(R) + 1
        /\ \A i \in 1..Len(R) : Append(R, r)[i] = R[i]
        /\ Append(R, r)[Len(R) + 1] = r
    OBVIOUS
  <2> QED  BY <2>1, <2>2
<1>3. CASE same # {}
  <2>1. AddUntagged(R, r) = Q
    BY <1>3 DEF AddUntagged
  <2>2. r \in FetchType /\ r.type = "FETCH"
    BY <1>3 DEF ResponseType, FetchType
  <2>3. \A i \in 1..Len(R) : i \in same <=> Fetches(R[i], r.seq)
    BY <1>1, <2>2 DEF Fetches
  <2>4. \E i \in 1..Len(R) : Fetches(R[i], r.seq)
    BY <1>1, <1>3, <2>3
  <2>5. \A i \in 1..Len(R) : Fetches(R[i], r.seq) => R[i] \in FetchType
    BY <1>1 DEF Fetches, ResponseType, FetchType
  <2>6. \A i \in 1..Len(R) : Q[i] = IF i \in same THEN MergeFetch(R[i], r) ELSE R[i]
    BY <1>1
  <2>7. \A i \in 1..Len(R) : Q[i] \in ResponseType
    BY <1>1, <2>2, <2>3, <2>5, <2>6, MergeShows DEF ResponseType
  <2>8. Q \in Seq(ResponseType) /\ Len(Q) = Len(R)
    BY <1>1, <2>7
  <2> HIDE DEF Q, same
  <2>9. \A i \in 1..Len(R) :
            IF Fetches(R[i], r.seq)
            THEN R[i] \in FetchType /\ Q[i] = MergeFetch(R[i], r)
            ELSE Q[i] = R[i]
    BY <2>3, <2>5, <2>6
  <2> QED  BY <2>1, <2>2, <2>4, <2>8, <2>9
<1> QED  BY <1>2, <1>3

\* So it keeps the order, invents nothing, and loses nothing that was told.
LEMMA AddTells ==
    ASSUME NEW R \in Seq(ResponseType), NEW r \in ResponseType, NEW n, NEW w, w # NoData,
           Ordered(R), AnyFetch(R) => r.type # "EXPUNGE",
           Says(R, n, w), Fetches(r, n) => r.flags \in {NoData, w}
    PROVE  /\ AddUntagged(R, r) \in Seq(ResponseType) /\ Ordered(AddUntagged(R, r))
           /\ AnyFetch(AddUntagged(R, r)) => AnyFetch(R) \/ r.type = "FETCH"
           /\ Says(AddUntagged(R, r), n, w)
           /\ Mentions(R, n, w) \/ (Fetches(r, n) /\ r.flags = w)
                  => Mentions(AddUntagged(R, r), n, w)
<1> DEFINE Q == AddUntagged(R, r)
           m == Len(R)
<1>1. m \in Nat /\ Q \in Seq(ResponseType)
  BY AddShows
<1> HIDE DEF Q, m
<1>2. CASE /\ Len(Q) = m + 1 /\ Q[m + 1] = r
           /\ \A i \in 1..m : Q[i] = R[i]
  <2>1. \A i \in 1..m + 1 : i \in 1..m \/ i = m + 1
    BY <1>1
  <2>2. m + 1 \in 1..m + 1 /\ \A i \in 1..m : i \in 1..m + 1
    BY <1>1
  <2>3. Ordered(Q)
    <3> SUFFICES ASSUME NEW i \in 1..m + 1, NEW j \in 1..m + 1, i < j, Q[i].type = "FETCH"
                 PROVE  Q[j].type # "EXPUNGE"
      BY <1>2 DEF Ordered
    <3>1. i \in 1..m
      BY <1>1
    <3>2. R[i].type = "FETCH" /\ AnyFetch(R)
      BY <1>2, <3>1 DEF AnyFetch, m
    <3>3. CASE j \in 1..m
      BY <1>2, <3>1, <3>2, <3>3 DEF Ordered, m
    <3>4. CASE j = m + 1
      BY <1>2, <3>2, <3>4
    <3> QED  BY <2>1, <3>3, <3>4
  <2>4. AnyFetch(Q) => AnyFetch(R) \/ r.type = "FETCH"
    BY <1>2, <2>1 DEF AnyFetch, m
  <2>5. Says(Q, n, w)
    BY <1>2, <2>1 DEF Says, m
  <2>6. Mentions(R, n, w) \/ (Fetches(r, n) /\ r.flags = w) => Mentions(Q, n, w)
    BY <1>2, <2>2 DEF Mentions, m
  <2> QED  BY <1>1, <2>3, <2>4, <2>5, <2>6 DEF Q
<1>3. CASE /\ r \in FetchType /\ Len(Q) = m
           /\ \E i \in 1..m : Fetches(R[i], r.seq)
           /\ \A i \in 1..m : IF Fetches(R[i], r.seq)
                              THEN R[i] \in FetchType /\ Q[i] = MergeFetch(R[i], r)
                              ELSE Q[i] = R[i]
  <2>1. \A i \in 1..m : Q[i].type = R[i].type
    BY <1>3, MergeShows DEF Fetches
  <2>2. \A i \in 1..m : Fetches(Q[i], n) <=> Fetches(R[i], n)
    BY <1>3, <2>1, MergeShows DEF Fetches
  <2>3. ASSUME NEW i \in 1..m, Fetches(R[i], n)
        PROVE  /\ Q[i].flags \in {NoData, w}
               /\ R[i].flags = w \/ (Fetches(r, n) /\ r.flags = w) => Q[i].flags = w
    <3>1. R[i].flags \in {NoData, w}
      BY <2>3 DEF Says, m
    <3>2. CASE Fetches(R[i], r.seq)
      <4>1. Q[i].flags = IF r.flags = NoData THEN R[i].flags ELSE r.flags
        BY <1>3, <3>2, MergeShows
      <4>2. Fetches(r, n)
        BY <1>3, <2>3, <3>2 DEF Fetches, FetchType
      <4> QED  BY <3>1, <4>1, <4>2
    <3>3. CASE ~ Fetches(R[i], r.seq)
      <4>1. Q[i] = R[i]
        BY <1>3, <3>3
      <4>2. ~ Fetches(r, n)
        BY <2>3, <3>3 DEF Fetches
      <4> QED  BY <3>1, <4>1, <4>2
    <3> QED  BY <3>2, <3>3
  <2>4. Ordered(Q) /\ (AnyFetch(Q) => AnyFetch(R))
    BY <1>3, <2>1 DEF Ordered, AnyFetch, m
  <2>5. Says(Q, n, w)
    BY <1>3, <2>2, <2>3 DEF Says
  <2>6. Mentions(R, n, w) => Mentions(Q, n, w)
    BY <1>3, <2>2, <2>3 DEF Mentions, m
  <2>7. Fetches(r, n) /\ r.flags = w => Mentions(Q, n, w)
    <3> SUFFICES ASSUME Fetches(r, n), r.flags = w PROVE Mentions(Q, n, w)
      OBVIOUS
    <3>1. PICK i \in 1..m : Fetches(R[i], n)
      BY <1>3 DEF Fetches
    <3> QED  BY <1>3, <2>2, <2>3, <3>1 DEF Mentions
  <2> QED  BY <1>1, <2>4, <2>5, <2>6, <2>7 DEF Q
<1> QED  BY <1>2, <1>3, AddShows DEF Q, m

\* The responses of a command tell of a message what its own and those of fork()
\* tell, as long as no EXPUNGE comes after a FETCH.
LEMMA ResponseTells ==
    ASSUME NEW own, NEW untagged, own \o untagged \in Seq(ResponseType), NEW n, NEW w,
           w # NoData, Ordered(own \o untagged), Says(own \o untagged, n, w)
    PROVE  /\ Ordered(Response(own, untagged)) /\ Says(Response(own, untagged), n, w)
           /\ Mentions(own \o untagged, n, w) => Mentions(Response(own, untagged), n, w)
<1> DEFINE all == own \o untagged
           m == Len(all)
           added == CHOOSE f : f = [i \in 0..m |->
                        IF i = 0 THEN <<>> ELSE AddUntagged(f[i - 1], all[i])]
<1>1. Response(own, untagged) = added[m]
  BY DEF Response
<1>2. all \in Seq(ResponseType) /\ m \in Nat /\ \A i \in 1..m : all[i] \in ResponseType
  OBVIOUS
<1>3. Ordered(all) /\ Says(all, n, w)
  OBVIOUS
<1> HIDE DEF all, m
<1>4. added = [i \in 0..m |-> IF i = 0 THEN <<>> ELSE AddUntagged(added[i - 1], all[i])]
  BY <1>2, AddedExists
<1> HIDE DEF added
<1> DEFINE Right(k) == /\ added[k] \in Seq(ResponseType) /\ Ordered(added[k])
                       /\ AnyFetch(added[k]) => \E i \in 1..k : all[i].type = "FETCH"
                       /\ Says(added[k], n, w)
                       /\ (\E i \in 1..k : Fetches(all[i], n) /\ all[i].flags = w)
                              => Mentions(added[k], n, w)
           T == {k \in 0..m : Right(k)}
<1>5. 0 \in T
  <2>1. added[0] = <<>>
    BY <1>2, <1>4
  <2>2. /\ <<>> \in Seq(ResponseType) /\ Ordered(<<>>) /\ ~ AnyFetch(<<>>)
        /\ Says(<<>>, n, w)
    BY DEF Ordered, AnyFetch, Says
  <2>3. ~ \E i \in 1..0 : Fetches(all[i], n) /\ all[i].flags = w
    OBVIOUS
  <2>4. Right(0)
    BY <2>1, <2>2, <2>3
  <2> QED  BY <1>2, <2>4
<1>6. ASSUME NEW k \in 1..m, k - 1 \in T
      PROVE  k \in T
  <2>0. Right(k - 1)
    BY <1>6
  <2> DEFINE R == added[k - 1]
             r == all[k]
  <2>1. added[k] = AddUntagged(R, r)
    BY <1>2, <1>4
  <2>2. r \in ResponseType /\ R \in Seq(ResponseType) /\ Ordered(R) /\ Says(R, n, w)
    BY <1>2, <2>0
  <2>3. AnyFetch(R) => r.type # "EXPUNGE"
    <3> SUFFICES ASSUME AnyFetch(R) PROVE r.type # "EXPUNGE"
      OBVIOUS
    <3>1. PICK i \in 1..k - 1 : all[i].type = "FETCH"
      BY <2>0
    <3>2. i \in 1..m /\ i < k
      BY <1>2
    <3> QED  BY <1>3, <3>1, <3>2 DEF Ordered, m
  <2>4. Fetches(r, n) => r.flags \in {NoData, w}
    BY <1>2, <1>3 DEF Says, m
  <2>5. \A i \in 1..k : i = k \/ i \in 1..k - 1
    BY <1>2
  <2>6. k \in 1..k /\ \A i \in 1..k - 1 : i \in 1..k
    BY <1>2
  <2>7. AnyFetch(R) => \E i \in 1..k - 1 : all[i].type = "FETCH"
    BY <2>0
  <2>8. (\E i \in 1..k - 1 : Fetches(all[i], n) /\ all[i].flags = w) => Mentions(R, n, w)
    BY <2>0
  <2> HIDE DEF R
  <2>9. /\ added[k] \in Seq(ResponseType) /\ Ordered(added[k])
        /\ AnyFetch(added[k]) => AnyFetch(R) \/ r.type = "FETCH"
        /\ Says(added[k], n, w)
        /\ Mentions(R, n, w) \/ (Fetches(r, n) /\ r.flags = w) => Mentions(added[k], n, w)
    BY <2>1, <2>2, <2>3, <2>4, AddTells
  <2>10. AnyFetch(added[k]) => \E i \in 1..k : all[i].type = "FETCH"
    BY <2>6, <2>7, <2>9
  <2>11. (\E i \in 1..k : Fetches(all[i], n) /\ all[i].flags = w) => Mentions(added[k], n, w)
    BY <2>5, <2>8, <2>9
  <2> QED  BY <2>9, <2>10, <2>11
<1> HIDE DEF T
<1>7. \A k \in 0..m : k \in T
  BY <1>2, <1>5, <1>6, UpTo
<1>8. Right(m)
  BY <1>2, <1>7 DEF T
<1>9. Mentions(all, n, w) => \E i \in 1..m : Fetches(all[i], n) /\ all[i].flags = w
  BY DEF Mentions, m
<1> QED  BY <1>1, <1>8, <1>9 DEF all

-----------------------------------------------------------------------------
(* What a client knows of the flags of one message.                        *)

\* An entry that is right if w are the message's flags: the client has not heard
\* of them, or has itself changed them with .SILENT since it did.
Heard(e, w) == e.flags = NotHeard \/ e.silent \/ e.flags = w

Knows(c, u, w) == \A i \in 1..Len(c.msgs) : c.msgs[i].uid = u => Heard(c.msgs[i], w)

\* One response, where a FETCH of the message has no data or the right ones.
LEMMA HearTells ==
    ASSUME NEW a \in Numbering, NEW b \in Numbering, NEW c, Has(c, a),
           NEW r \in ResponseType, Renumbers(a, r, b), NEW u, NEW n, NEW w, w # NoData,
           r.type = "FETCH" => \A i \in 1..Len(c.msgs) : c.msgs[i].uid = u => i = n,
           Fetches(r, n) => r.flags \in {NoData, w},
           Knows(c, u, w) \/ (Fetches(r, n) /\ r.flags = w)
    PROVE  Knows(Hear(c, r), u, w)
<1> DEFINE d == Hear(c, r)
<1>1. Hears(c, r, d)
  BY HearRight
<1> HIDE DEF d
<1> SUFFICES ASSUME NEW i \in 1..Len(d.msgs), d.msgs[i].uid = u
             PROVE  Heard(d.msgs[i], w)
  BY DEF Knows, d
<1>2. CASE r.type # "FETCH"
  <2>1. d.msgs[i].flags = NotHeard \/ \E j \in 1..Len(c.msgs) : d.msgs[i] = c.msgs[j]
    BY <1>1, <1>2 DEF Hears
  <2>2. Knows(c, u, w)
    BY <1>2 DEF Fetches
  <2> QED  BY <2>1, <2>2 DEF Knows, Heard
<1>3. CASE r.type = "FETCH"
  <2>1. /\ i \in 1..Len(c.msgs)
        /\ IF i = r.seq /\ r.flags # NoData
           THEN d.msgs[i].uid = c.msgs[i].uid /\ d.msgs[i].flags = r.flags
           ELSE d.msgs[i] = c.msgs[i]
    BY <1>1, <1>3 DEF Hears
  <2>2. c.msgs[i].uid = u /\ i = n
    BY <1>3, <2>1
  <2>3. CASE i = r.seq /\ r.flags # NoData
    <3>1. Fetches(r, n)
      BY <1>3, <2>2, <2>3 DEF Fetches
    <3> QED  BY <2>1, <2>3, <3>1 DEF Heard
  <2>4. CASE ~ (i = r.seq /\ r.flags # NoData)
    <3>1. ~ (Fetches(r, n) /\ r.flags = w)
      BY <2>2, <2>4 DEF Fetches
    <3> QED  BY <2>1, <2>2, <2>4, <3>1 DEF Knows
  <2> QED  BY <2>3, <2>4
<1> QED  BY <1>2, <1>3

\* Without an EXPUNGE a numbering is only continued.
LEMMA Continues ==
    ASSUME NEW a \in Numbering, NEW b \in Numbering, NEW r, Renumbers(a, r, b),
           r.type # "EXPUNGE"
    PROVE  Len(a.uids) <= Len(b.uids) /\ \A i \in 1..Len(a.uids) : b.uids[i] = a.uids[i]
<1>1. a.uids \in Seq(Uid) /\ Len(a.uids) \in Nat
  BY DEF Numbering
<1>2. CASE r.type = "EXISTS"
  BY <1>1, <1>2 DEF Renumbers, Numbering
<1>3. CASE r.type # "EXISTS"
  <2>1. b.uids = a.uids
    BY <1>3 DEF Renumbers, Numbering
  <2> QED  BY <1>1, <2>1
<1> QED  BY <1>2, <1>3

\* A client that is right about a message, or is told of it in a list that has no
\* EXPUNGE after a FETCH, ends up right about it: from the first FETCH on the
\* numbers are those it ends with.
LEMMA HearAllTells ==
    ASSUME NEW a \in Numbering, NEW b \in Numbering, NEW c, Has(c, a), NEW R, Runs(R, a, b),
           NEW u, NEW n, \A i \in 1..Len(b.uids) : b.uids[i] = u => i = n,
           NEW w, w # NoData, Ordered(R), Says(R, n, w), Knows(c, u, w) \/ Mentions(R, n, w)
    PROVE  Knows(HearAll(c, R), u, w)
<1> DEFINE m == Len(R)
<1>1. R \in Seq(ResponseType) /\ m \in Nat
  BY DEF Runs
<1>2. m \in Nat /\ \A i \in 1..m : R[i] \in ResponseType
  BY <1>1
<1>3. PICK g \in [0..m -> Numbering] :
          g[0] = a /\ g[m] = b /\ \A i \in 1..m : Renumbers(g[i - 1], R[i], g[i])
  BY DEF Runs
<1>4. /\ \A i, j \in 1..m : i < j /\ R[i].type = "FETCH" => R[j].type # "EXPUNGE"
      /\ \A i \in 1..m : Fetches(R[i], n) => R[i].flags \in {NoData, w}
      /\ Mentions(R, n, w) => \E i \in 1..m : Fetches(R[i], n) /\ R[i].flags = w
  BY DEF Ordered, Says, Mentions
<1> HIDE DEF m
<1>5. PICK heard : Listens(heard, c, R)
  BY <1>2, HeardAll DEF m
<1>6. /\ heard[0] = c /\ HearAll(c, R) = heard[m]
      /\ \A i \in 1..m : heard[i] = Hear(heard[i - 1], R[i])
  BY <1>5 DEF Listens, m
<1>7. \A k \in 1..m : k - 1 \in 0..m /\ k \in 0..m
  BY <1>2
<1>8. \A k \in 0..m : Has(heard[k], g[k])
  BY <1>2, <1>3, <1>6, HasUpTo
<1>9. ASSUME NEW k \in 1..m, R[k].type = "FETCH"
      PROVE  \A i \in 1..Len(heard[k - 1].msgs) : heard[k - 1].msgs[i].uid = u => i = n
  <2> DEFINE old == g[k - 1].uids
             Same(j) == Len(old) <= Len(g[j].uids) /\ \A i \in 1..Len(old) : g[j].uids[i] = old[i]
             T == {j \in 0..m : k <= j => Same(j)}
  <2>1. Len(old) \in Nat /\ \A j \in 0..m : Len(g[j].uids) \in Nat
    <3>1. \A j \in 0..m : g[j] \in Numbering
      BY <1>3
    <3>2. \A x \in Numbering : Len(x.uids) \in Nat
      BY DEF Numbering
    <3> QED  BY <1>7, <3>1, <3>2
  <2>2. 0 \in T
    BY <1>2
  <2>3. Same(k - 1)
    BY <2>1
  <2>4. ASSUME NEW j \in 1..m, j - 1 \in T
        PROVE  j \in T
    <3> SUFFICES ASSUME k <= j PROVE Same(j)
      BY <1>7
    <3>1. Same(j - 1)
      <4>1. CASE k <= j - 1
        BY <2>4, <4>1
      <4>2. CASE ~ (k <= j - 1)
        <5>1. k = j
          BY <1>2, <4>2
        <5> QED  BY <2>3, <5>1
      <4> QED  BY <4>1, <4>2
    <3>2. R[j].type # "EXPUNGE"
      <4>1. CASE k = j
        BY <1>9, <4>1
      <4>2. CASE k # j
        <5>1. k < j
          BY <1>2, <4>2
        <5> QED  BY <1>4, <1>9, <5>1
      <4> QED  BY <4>1, <4>2
    <3>3. Renumbers(g[j - 1], R[j], g[j]) /\ g[j] \in Numbering /\ g[j - 1] \in Numbering
      BY <1>3, <1>7
    <3>4. /\ Len(g[j - 1].uids) <= Len(g[j].uids)
          /\ \A i \in 1..Len(g[j - 1].uids) : g[j].uids[i] = g[j - 1].uids[i]
      BY <3>2, <3>3, Continues
    <3>5. Len(g[j - 1].uids) \in Nat /\ Len(g[j].uids) \in Nat
      BY <1>7, <2>1
    <3> HIDE DEF old
    <3>6. \A i \in 1..Len(old) : i \in 1..Len(g[j - 1].uids)
      BY <2>1, <3>1, <3>5
    <3> QED  BY <2>1, <3>1, <3>4, <3>5, <3>6
  <2> HIDE DEF T
  <2>5. \A j \in 0..m : j \in T
    BY <1>2, <2>2, <2>4, UpTo
  <2>6. m \in 0..m /\ k <= m
    BY <1>2
  <2>7. Same(m)
    BY <2>5, <2>6 DEF T
  <2>8. Len(b.uids) \in Nat /\ \A i \in 1..Len(old) : i \in 1..Len(b.uids) /\ b.uids[i] = old[i]
    <3>1. g[m] = b /\ Len(g[m].uids) \in Nat
      BY <1>3, <2>1, <2>6
    <3> HIDE DEF old
    <3> QED  BY <2>1, <2>7, <3>1
  <2>9. Has(heard[k - 1], g[k - 1])
    BY <1>7, <1>8
  <2>10. /\ Len(heard[k - 1].msgs) = Len(old)
         /\ \A i \in 1..Len(heard[k - 1].msgs) : heard[k - 1].msgs[i].uid = old[i]
    BY <2>9, UidsType DEF Has
  <2> HIDE DEF old
  <2> QED  BY <2>8, <2>10
<1> DEFINE ToCome(k) == \E i \in 1..m : k < i /\ Fetches(R[i], n) /\ R[i].flags = w
           T == {k \in 0..m : Knows(heard[k], u, w) \/ ToCome(k)}
<1>10. 0 \in T
  <2>1. \A i \in 1..m : 0 < i
    BY <1>2
  <2> QED  BY <1>2, <1>4, <1>6, <2>1
<1>11. ASSUME NEW k \in 1..m, k - 1 \in T
       PROVE  k \in T
  <2>1. CASE ToCome(k)
    BY <1>7, <2>1
  <2>2. CASE ~ ToCome(k)
    <3> DEFINE before == heard[k - 1]
               r == R[k]
    <3>1. Knows(before, u, w) \/ (Fetches(r, n) /\ r.flags = w)
      <4>1. CASE Knows(before, u, w)
        BY <4>1
      <4>2. CASE ToCome(k - 1)
        <5>1. PICK i \in 1..m : k - 1 < i /\ Fetches(R[i], n) /\ R[i].flags = w
          BY <4>2
        <5>2. ~ (k < i)
          BY <2>2, <5>1
        <5>3. i = k
          BY <1>2, <5>1, <5>2
        <5> QED  BY <5>1, <5>3
      <4> QED  BY <1>11, <4>1, <4>2
    <3>2. /\ Has(before, g[k - 1]) /\ Renumbers(g[k - 1], r, g[k])
          /\ g[k] \in Numbering /\ g[k - 1] \in Numbering /\ r \in ResponseType
      BY <1>2, <1>3, <1>7, <1>8
    <3>3. r.type = "FETCH" => \A i \in 1..Len(before.msgs) : before.msgs[i].uid = u => i = n
      BY <1>9
    <3>4. Fetches(r, n) => r.flags \in {NoData, w}
      BY <1>4
    <3> HIDE DEF before, r
    <3>5. Knows(Hear(before, r), u, w)
      BY <3>1, <3>2, <3>3, <3>4, HearTells
    <3> QED  BY <1>6, <1>7, <3>5 DEF before, r
  <2> QED  BY <2>1, <2>2
<1> HIDE DEF T
<1>12. \A k \in 0..m : k \in T
  BY <1>2, <1>10, <1>11, UpTo
<1>13. m \in T
  BY <1>2, <1>12
<1>14. ~ ToCome(m)
  BY <1>2
<1> QED  BY <1>6, <1>13, <1>14 DEF T

-----------------------------------------------------------------------------
(* What the responses of fork() tell of the flags of one message.          *)

AnyExpunge(R) == \E i \in 1..Len(R) : R[i].type = "EXPUNGE"

\* One list after the other.
LEMMA BothTell ==
    ASSUME NEW P \in Seq(ResponseType), NEW Q \in Seq(ResponseType), NEW n, NEW w
    PROVE  /\ P \o Q \in Seq(ResponseType)
           /\ AnyFetch(P \o Q) => AnyFetch(P) \/ AnyFetch(Q)
           /\ AnyExpunge(P \o Q) => AnyExpunge(P) \/ AnyExpunge(Q)
           /\ Ordered(P) /\ Ordered(Q) /\ ~ (AnyFetch(P) /\ AnyExpunge(Q)) => Ordered(P \o Q)
           /\ Says(P, n, w) /\ Says(Q, n, w) => Says(P \o Q, n, w)
           /\ Mentions(P, n, w) \/ Mentions(Q, n, w) => Mentions(P \o Q, n, w)
<1> DEFINE R == P \o Q
           k == Len(P)
           m == Len(Q)
<1>1. /\ R \in Seq(ResponseType) /\ Len(R) = k + m /\ k \in Nat /\ m \in Nat
      /\ \A i \in 1..k + m : R[i] = IF i <= k THEN P[i] ELSE Q[i - k]
  BY ConcatProperties
<1> HIDE DEF R, k, m
<1>2. \A i \in 1..k + m : \/ i \in 1..k /\ R[i] = P[i]
                          \/ i - k \in 1..m /\ R[i] = Q[i - k]
  BY <1>1
<1>3. /\ \A i \in 1..k : i \in 1..k + m /\ R[i] = P[i]
      /\ \A i \in 1..m : i + k \in 1..k + m /\ R[i + k] = Q[i]
  BY <1>1
<1>4. AnyFetch(R) => AnyFetch(P) \/ AnyFetch(Q)
  BY <1>1, <1>2 DEF AnyFetch, k, m
<1>5. AnyExpunge(R) => AnyExpunge(P) \/ AnyExpunge(Q)
  BY <1>1, <1>2 DEF AnyExpunge, k, m
<1>6. ASSUME Ordered(P), Ordered(Q), ~ (AnyFetch(P) /\ AnyExpunge(Q))
      PROVE  Ordered(R)
  <2> SUFFICES ASSUME NEW i \in 1..k + m, NEW j \in 1..k + m, i < j, R[i].type = "FETCH"
               PROVE  R[j].type # "EXPUNGE"
    BY <1>1 DEF Ordered
  <2>1. CASE i \in 1..k /\ R[i] = P[i]
    <3>1. AnyFetch(P)
      BY <2>1 DEF AnyFetch, k
    <3>2. CASE j \in 1..k /\ R[j] = P[j]
      BY <1>6, <2>1, <3>2 DEF Ordered, k
    <3>3. CASE j - k \in 1..m /\ R[j] = Q[j - k]
      BY <1>6, <3>1, <3>3 DEF AnyExpunge, m
    <3> QED  BY <1>2, <3>2, <3>3
  <2>2. CASE i - k \in 1..m /\ R[i] = Q[i - k]
    <3>1. i - k < j - k /\ ~ (j \in 1..k)
      BY <1>1, <2>2
    <3>2. j - k \in 1..m /\ R[j] = Q[j - k]
      BY <1>2, <3>1
    <3> QED  BY <1>6, <2>2, <3>1, <3>2 DEF Ordered, m
  <2> QED  BY <1>2, <2>1, <2>2
<1>7. Says(P, n, w) /\ Says(Q, n, w) => Says(R, n, w)
  BY <1>1, <1>2 DEF Says, k, m
<1>8. Mentions(P, n, w) \/ Mentions(Q, n, w) => Mentions(R, n, w)
  <2>1. Mentions(P, n, w) => Mentions(R, n, w)
    BY <1>1, <1>3 DEF Mentions, k
  <2>2. Mentions(Q, n, w) => Mentions(R, n, w)
    BY <1>1, <1>3 DEF Mentions, m
  <2> QED  BY <2>1, <2>2
<1> QED  BY <1>1, <1>4, <1>5, <1>6, <1>7, <1>8 DEF R

\* EXPUNGE, EXISTS and RECENT say nothing of flags, and FETCH expunges nothing.
LEMMA OneKind ==
    ASSUME NEW R, NEW n, NEW w
    PROVE  /\ ~ AnyFetch(R) => Ordered(R) /\ Says(R, n, w)
           /\ ~ AnyExpunge(R) => Ordered(R)
           /\ R \in Seq(FetchType) => R \in Seq(ResponseType) /\ ~ AnyExpunge(R)
<1>1. ASSUME R \in Seq(FetchType)
      PROVE  R \in Seq(ResponseType) /\ ~ AnyExpunge(R)
  <2>1. R \in Seq(ResponseType)
    BY <1>1, SeqMonotonic DEF ResponseType
  <2>2. \A i \in 1..Len(R) : R[i] \in FetchType
    BY <1>1
  <2> QED  BY <2>1, <2>2 DEF AnyExpunge, FetchType
<1> QED  BY <1>1 DEF AnyFetch, AnyExpunge, Ordered, Says, Fetches

\* The parts of _compare before its FETCH responses.
LEMMA CompareStarts ==
    ASSUME NEW before, NEW after, before.uids \in SUBSET Uid, after.uids \in SUBSET Uid,
           Cardinality(after.recent) \in Nat
    PROVE  /\ Expunges(before, after) \in Seq(ResponseType) /\ ~ AnyFetch(Expunges(before, after))
           /\ Exists(before, after) \in Seq(ResponseType) /\ ~ AnyFetch(Exists(before, after))
           /\ ~ AnyExpunge(Exists(before, after))
           /\ Recents(before, after) \in Seq(ResponseType) /\ ~ AnyFetch(Recents(before, after))
           /\ ~ AnyExpunge(Recents(before, after))
<1>0. /\ <<>> \in Seq(ResponseType) /\ ~ AnyFetch(<<>>) /\ ~ AnyExpunge(<<>>)
  BY DEF AnyFetch, AnyExpunge
<1>1. Expunges(before, after) \in Seq(ResponseType)
  BY RunsExpunges DEF Runs
<1>2. ~ AnyFetch(Expunges(before, after))
  <2> DEFINE gone == Reverse(Ascending(before.uids \ after.uids))
             R == [i \in DOMAIN gone |-> ExpungeResponse(Rank(before.uids, gone[i]))]
  <2>1. Expunges(before, after) = R
    BY DEF Expunges
  <2>2. \A i \in DOMAIN R : R[i].type = "EXPUNGE"
    BY DEF ExpungeResponse
  <2> HIDE DEF R
  <2>3. DOMAIN R = 1..Len(R)
    BY <1>1, <2>1
  <2> QED  BY <2>1, <2>2, <2>3 DEF AnyFetch
<1>3. ASSUME NEW r \in ResponseType, r.type # "FETCH", r.type # "EXPUNGE"
      PROVE  <<r>> \in Seq(ResponseType) /\ ~ AnyFetch(<<r>>) /\ ~ AnyExpunge(<<r>>)
  <2>1. <<r>> \in Seq(ResponseType) /\ Len(<<r>>) = 1 /\ <<r>>[1] = r
    OBVIOUS
  <2>2. \A i \in 1..1 : i = 1
    OBVIOUS
  <2> QED  BY <1>3, <2>1, <2>2 DEF AnyFetch, AnyExpunge
<1>4. /\ Exists(before, after) \in Seq(ResponseType) /\ ~ AnyFetch(Exists(before, after))
      /\ ~ AnyExpunge(Exists(before, after))
  <2> DEFINE r == ExistsResponse(after.uids)
  <2>1. r \in ResponseType /\ r.type = "EXISTS"
    BY AscendingRank DEF ExistsResponse, ResponseType
  <2> HIDE DEF r
  <2>2. <<r>> \in Seq(ResponseType) /\ ~ AnyFetch(<<r>>) /\ ~ AnyExpunge(<<r>>)
    BY <1>3, <2>1
  <2>3. Exists(before, after) = <<>> \/ Exists(before, after) = <<r>>
    BY DEF Exists, r
  <2> QED  BY <1>0, <2>2, <2>3
<1>5. /\ Recents(before, after) \in Seq(ResponseType) /\ ~ AnyFetch(Recents(before, after))
      /\ ~ AnyExpunge(Recents(before, after))
  <2> DEFINE r == RecentResponse(Cardinality(after.recent))
  <2>1. r \in ResponseType /\ r.type = "RECENT"
    BY DEF RecentResponse, ResponseType
  <2> HIDE DEF r
  <2>2. <<r>> \in Seq(ResponseType) /\ ~ AnyFetch(<<r>>) /\ ~ AnyExpunge(<<r>>)
    BY <1>3, <2>1
  <2>3. Recents(before, after) = <<>> \/ Recents(before, after) = <<r>>
    BY DEF Recents, r
  <2> QED  BY <1>0, <2>2, <2>3
<1> QED  BY <1>1, <1>2, <1>4, <1>5

\* The flags of a message that were told last.
LastTold(sel, u) ==
    sel.prev.keys[u] \cup (IF u \in sel.prev.recent THEN {Recent} ELSE {})

\* Of a message in view whose flags are cached as they are, fork() tells no other
\* flags, and it tells them if they are not those told last.
LEMMA CompareTells ==
    ASSUME NEW sel \in SelectedType, NEW fl \in FlagsType, NEW own \in Seq(FetchType),
           own = <<>> \/ sel.hide, NEW u \in sel.uids, sel.keys[u] = fl[u],
           NEW n, n = Rank(sel.uids, u), NEW w, w = ShownFlags(sel, u, fl)
    PROVE  /\ Compare(sel, fl) \in Seq(ResponseType)
           /\ Ordered(own \o Compare(sel, fl)) /\ Says(Compare(sel, fl), n, w)
           /\ /\ LastTold(sel, u) # w /\ <<u, fl[u]>> \notin sel.silenced
              /\ u \in sel.prev.recent => u \in sel.recent
              => Mentions(Compare(sel, fl), n, w)
<1> DEFINE before == sel.prev
           after == Freeze(sel)
           fetch == (after.recent \ before.recent)
                    \cup {k[1] : k \in FlagsKeys(after) \ (FlagsKeys(before) \cup sel.silenced)}
           changed == Ascending(fetch)
           one == IF sel.hide THEN <<>> ELSE Expunges(before, after)
           two == Exists(before, after)
           three == Recents(before, after)
           four == [i \in DOMAIN changed |->
                       FetchResponse(Rank(after.uids, changed[i]), ShownFlags(sel, changed[i], fl))]
<1>1. Compare(sel, fl) = one \o two \o three \o four
  BY DEF Compare
<1>2. /\ before.uids \in SUBSET Uid /\ after.uids = sel.uids /\ after.uids \in SUBSET Uid
      /\ after.recent = sel.recent \cap sel.uids /\ after.recent \in SUBSET Uid
      /\ after.keys = sel.keys
  BY DEF SelectedType, FrozenType, Freeze
<1>3. fetch \in SUBSET sel.uids
  BY <1>2 DEF FlagsKeys
<1>4. ASSUME LastTold(sel, u) # w, <<u, fl[u]>> \notin sel.silenced,
             u \in sel.prev.recent => u \in sel.recent
      PROVE  u \in fetch
  <2>1. CASE u \in after.recent \ before.recent
    BY <2>1
  <2>2. CASE u \notin after.recent \ before.recent
    <3>1. u \in before.recent <=> u \in sel.recent
      BY <1>2, <1>4, <2>2
    <3>2. before.keys[u] # fl[u]
      BY <1>4, <3>1 DEF LastTold, ShownFlags
    <3>3. <<u, fl[u]>> \in FlagsKeys(after) /\ <<u, fl[u]>> \notin FlagsKeys(before)
      BY <1>2, <3>2 DEF FlagsKeys
    <3>4. <<u, fl[u]>>[1] = u
      OBVIOUS
    <3> QED  BY <1>4, <3>3, <3>4
  <2> QED  BY <2>1, <2>2
<1>5. Cardinality(after.recent) \in Nat
  BY <1>2, UidFinite
<1> HIDE DEF fetch, after, before
<1>6. /\ one \in Seq(ResponseType) /\ ~ AnyFetch(one) /\ (sel.hide => ~ AnyExpunge(one))
  <2>1. <<>> \in Seq(ResponseType) /\ ~ AnyFetch(<<>>) /\ ~ AnyExpunge(<<>>)
    BY DEF AnyFetch, AnyExpunge
  <2>2. Expunges(before, after) \in Seq(ResponseType) /\ ~ AnyFetch(Expunges(before, after))
    BY <1>2, <1>5, CompareStarts
  <2> QED  BY <2>1, <2>2
<1>7. /\ two \in Seq(ResponseType) /\ ~ AnyFetch(two) /\ ~ AnyExpunge(two)
      /\ three \in Seq(ResponseType) /\ ~ AnyFetch(three) /\ ~ AnyExpunge(three)
  BY <1>2, <1>5, CompareStarts
<1>8. four \in Seq(FetchType)
  BY <1>2, <1>3, ForkFetches
<1>9. /\ fetch \in SUBSET Uid /\ DOMAIN four = DOMAIN changed
      /\ DOMAIN changed = 1..Len(changed) /\ DOMAIN four = 1..Len(four)
  BY <1>2, <1>3, <1>8, AscendingRank
<1>10. /\ \A i \in 1..Len(changed) : changed[i] \in fetch
       /\ \A v \in fetch : Rank(fetch, v) \in 1..Len(changed) /\ changed[Rank(fetch, v)] = v
  BY <1>9, AscendingRank
<1> HIDE DEF changed
<1>11. \A i \in 1..Len(four) : /\ four[i].type = "FETCH"
                               /\ four[i].seq = Rank(sel.uids, changed[i])
                               /\ four[i].flags = ShownFlags(sel, changed[i], fl)
  BY <1>2, <1>9 DEF FetchResponse
<1> HIDE DEF four
<1>12. \A v \in sel.uids : Rank(sel.uids, v) = Rank(sel.uids, u) => v = u
  <2>1. \A v \in sel.uids : Ascending(sel.uids)[Rank(sel.uids, v)] = v
    BY <1>2, AscendingRank
  <2> QED  BY <2>1
<1>13. Says(four, n, w)
  BY <1>3, <1>9, <1>10, <1>11, <1>12 DEF Says, Fetches
<1>14. u \in fetch => Mentions(four, n, w)
  BY <1>9, <1>10, <1>11 DEF Mentions, Fetches
<1>15. four \in Seq(ResponseType) /\ ~ AnyExpunge(four) /\ Ordered(four)
  BY <1>8, OneKind
<1> HIDE DEF one, two, three
<1> DEFINE P == (one \o two) \o three
<1>16. /\ one \o two \in Seq(ResponseType) /\ ~ AnyFetch(one \o two)
       /\ sel.hide => ~ AnyExpunge(one \o two)
  BY <1>6, <1>7, BothTell
<1>17. P \in Seq(ResponseType) /\ ~ AnyFetch(P) /\ (sel.hide => ~ AnyExpunge(P))
  <2> DEFINE Q == one \o two
  <2> HIDE DEF Q
  <2>1. Q \in Seq(ResponseType) /\ ~ AnyFetch(Q) /\ (sel.hide => ~ AnyExpunge(Q))
    BY <1>16 DEF Q
  <2>2. Q \o three \in Seq(ResponseType) /\ ~ AnyFetch(Q \o three)
        /\ (sel.hide => ~ AnyExpunge(Q \o three))
    BY <1>7, <2>1, BothTell
  <2> QED  BY <2>2 DEF Q
<1> HIDE DEF P
<1>18. Ordered(P) /\ Says(P, n, w)
  BY <1>17, OneKind
<1> DEFINE all == P \o four
<1>19. /\ all \in Seq(ResponseType) /\ Ordered(all) /\ (sel.hide => ~ AnyExpunge(all))
       /\ Says(all, n, w) /\ (u \in fetch => Mentions(all, n, w))
  BY <1>13, <1>14, <1>15, <1>17, <1>18, BothTell
<1>20. Compare(sel, fl) = all
  BY <1>1 DEF P
<1> HIDE DEF all
<1>21. Ordered(own \o all)
  <2>1. own \in Seq(ResponseType) /\ Ordered(own)
    BY OneKind
  <2>2. ~ (AnyFetch(own) /\ AnyExpunge(all))
    BY <1>19 DEF AnyFetch
  <2> QED  BY <1>19, <2>1, <2>2, BothTell
<1> QED  BY <1>4, <1>19, <1>20, <1>21

-----------------------------------------------------------------------------
(* The flags the clients were told, where every session is read-write and  *)
(* no command names UIDs.                                                  *)

\* What a client was told last is its session's view, the marks included, and it
\* is right about every message that still exists.
FlagsKnown(sel, c, msgs) ==
    /\ IF sel.mode = "none" THEN c.msgs = <<>>
       ELSE sel.mode = "rw" /\ sel.silenced = {} /\ sel.prev = Freeze(sel)
    /\ \A i \in 1..Len(c.msgs) : c.msgs[i].uid \in msgs =>
           Heard(c.msgs[i], LastTold(sel, c.msgs[i].uid))

FlagsInv == ClientInv /\ \A s \in Session : FlagsKnown(sess[s], client[s], messages)

\* Nothing of the view changes that its client was told, or silence() has noted.
SameTold(a, b) ==
    /\ a.mode = b.mode
    /\ a.mode # "none" => a.silenced = b.silenced /\ a.prev = b.prev /\ Freeze(a) = Freeze(b)

\* A client has no entry of a message that is new.
LEMMA OldEntries ==
    ASSUME FlagsInv, Grows, NEW t \in Session, NEW i \in 1..Len(client[t].msgs),
           client[t].msgs[i].uid \in messages'
    PROVE  Selecting(t) /\ client[t].msgs[i].uid \in messages
<1> DEFINE u == client[t].msgs[i].uid
<1>1. ClientInv /\ ViewInv /\ client[t] \in ClientType
  BY DEF FlagsInv, ClientInv
<1>2. Len(client[t].msgs) # 0
  BY <1>1, UidsType
<1>3. Selecting(t)
  <2>1. Len(<<>>) = 0
    OBVIOUS
  <2> QED  BY <1>2, <2>1 DEF FlagsInv, FlagsKnown, Selecting
<1>4. Uids(client[t]) = Ascending(sess[t].uids) /\ sess[t].uids \in SUBSET Uid
  BY <1>1, <1>3, InView DEF ClientInv, ClientNumbersAgree
<1>5. u \in sess[t].uids
  <2>1. /\ Uids(client[t])[i] = u /\ Len(Uids(client[t])) = Len(client[t].msgs)
    BY <1>1, UidsType
  <2>2. /\ Len(Ascending(sess[t].uids)) = Cardinality(sess[t].uids)
        /\ \A k \in 1..Cardinality(sess[t].uids) : Ascending(sess[t].uids)[k] \in sess[t].uids
    BY <1>4, AscendingRank
  <2> QED  BY <1>4, <2>1, <2>2
<1> HIDE DEF u
<1>6. u \in Int /\ maxUid \in Int /\ u <= maxUid
  BY <1>1, <1>3, <1>4, <1>5, InView, UidAssumption DEF ViewInv, TypeOK, Uid
<1>7. u \in messages
  <2>1. ~ (u > maxUid)
    BY <1>6
  <2>2. u \in messages'
    BY DEF u
  <2> QED  BY <2>1, <2>2 DEF Grows
<1> QED  BY <1>3, <1>7 DEF u

\* The clients of other sessions were told of theirs as before.
LEMMA FlagsKept ==
    ASSUME FlagsInv, ClientInv', Grows,
           \A t \in Session :
               \/ SameTold(sess'[t], sess[t]) /\ client'[t] = client[t]
               \/ FlagsKnown(sess'[t], client'[t], messages')
    PROVE  FlagsInv'
<1> SUFFICES ASSUME NEW t \in Session, SameTold(sess'[t], sess[t]), client'[t] = client[t]
             PROVE  FlagsKnown(sess'[t], client'[t], messages')
  BY DEF FlagsInv
<1>1. FlagsKnown(sess[t], client[t], messages)
  BY DEF FlagsInv
<1>2. IF sess'[t].mode = "none" THEN client[t].msgs = <<>>
      ELSE sess'[t].mode = "rw" /\ sess'[t].silenced = {} /\ sess'[t].prev = Freeze(sess'[t])
  BY <1>1 DEF FlagsKnown, SameTold
<1>3. ASSUME NEW i \in 1..Len(client[t].msgs), client[t].msgs[i].uid \in messages'
      PROVE  Heard(client[t].msgs[i], LastTold(sess'[t], client[t].msgs[i].uid))
  <2>1. Selecting(t) /\ client[t].msgs[i].uid \in messages
    BY <1>3, OldEntries
  <2>2. Heard(client[t].msgs[i], LastTold(sess[t], client[t].msgs[i].uid))
    BY <1>1, <2>1 DEF FlagsKnown
  <2>3. sess'[t].prev = sess[t].prev
    BY <2>1 DEF SameTold, Selecting
  <2> QED  BY <2>2, <2>3 DEF LastTold
<1> QED  BY <1>2, <1>3 DEF FlagsKnown

\* update_selected takes \Recent from no message that was not expunged, and from
\* none at all while expunges are hidden.
LEMMA SyncMarks ==
    ASSUME NEW sel \in SelectedType, NEW lg \in LogType, NEW msgs \in SUBSET Uid,
           NEW fl \in FlagsType
    PROVE  /\ UpdateSelected(sel, lg, msgs, fl).silenced = sel.silenced
           /\ sel.hide => UpdateSelected(sel, lg, msgs, fl).recent = sel.recent
           /\ \A u \in sel.recent : lg.last[u].kind = "update" =>
                  u \in UpdateSelected(sel, lg, msgs, fl).recent
<1> DEFINE numbered == [sel EXCEPT !.modseq = lg.highest]
           U == Since(lg, "update", sel.modseq) \cap msgs
           E == Since(lg, "expunge", sel.modseq)
           upd == UpdateMessages(numbered, U, fl)
<1>1. /\ numbered \in SelectedType /\ numbered.recent = sel.recent
      /\ numbered.silenced = sel.silenced /\ numbered.hide = sel.hide
  BY DEF LogType, SelectedType
<1>2. U \in SUBSET Uid /\ E \in SUBSET Uid
  BY DEF Since
<1>3. UpdateSelected(sel, lg, msgs, fl) = RemoveMessages(upd, E)
  BY DEF UpdateSelected, AddUpdates
<1>4. \A u \in E : lg.last[u].kind = "expunge"
  BY DEF Since
<1> HIDE DEF numbered, U, E
<1>5. /\ upd \in SelectedType /\ upd.recent = numbered.recent
      /\ upd.silenced = numbered.silenced /\ upd.hide = numbered.hide
  <2>1. upd \in SelectedType
    BY <1>1, <1>2, UpdateMessagesTold
  <2> QED  BY <1>1, <2>1 DEF UpdateMessages, SelectedType
<1> HIDE DEF upd
<1>6. CASE upd.hide
  <2>1. RemoveMessages(upd, E) = [upd EXCEPT !.pending = E \cup upd.pending]
    BY <1>6 DEF RemoveMessages
  <2>2. RemoveMessages(upd, E).silenced = upd.silenced /\ RemoveMessages(upd, E).recent = upd.recent
    BY <1>5, <2>1 DEF SelectedType
  <2> QED  BY <1>1, <1>3, <1>5, <2>2
<1>7. CASE ~ upd.hide
  <2>1. /\ RemoveMessages(upd, E).silenced = upd.silenced
        /\ RemoveMessages(upd, E).recent = upd.recent \ E
    BY <1>5, <1>7 DEF RemoveMessages, SelectedType
  <2>2. \A u \in sel.recent : lg.last[u].kind = "update" => u \notin E
    BY <1>4
  <2> QED  BY <1>1, <1>3, <1>5, <1>7, <2>1, <2>2
<1> QED  BY <1>6, <1>7

\* What the command of s gives to Complete that matters for the flags: it takes no
\* \Recent away, its own responses hide expunges and tell the flags of messages
\* as they are, and what the client knows by itself is right or not silenced.
GivesFlags(s, given, own, told) ==
    /\ \A t \in Session : t # s \/ ~ Selecting(s) => SameTold(given[t], sess[t])
    /\ Selecting(s) =>
           /\ sess[s].recent \subseteq given[s].recent
           /\ own = <<>> \/ given[s].hide
           /\ \A u \in messages' \cap Synced(given[s]).uids :
                  Says(own, Rank(Synced(given[s]).uids, u), ShownFlags(Synced(given[s]), u, flags'))
           /\ \A i \in 1..Len(told.msgs) : told.msgs[i].uid \in messages' =>
                  \/ told.msgs[i].flags = NotHeard \/ told.msgs[i].silent
                  \/ /\ told.msgs[i].flags = LastTold(sess[s], told.msgs[i].uid)
                     /\ \A F : <<told.msgs[i].uid, F>> \notin given[s].silenced

\* At the end of every command the client has been told the flags as they are.
LEMMA CommandShows ==
    ASSUME FlagsInv, ClientInv', Grows, NEW s \in Session,
           NEW given, NEW own, NEW told, Gives(s, given, own, told),
           GivesFlags(s, given, own, told), Complete(s, given, own, told)
    PROVE  FlagsInv'
<1> DEFINE sel == Synced(given[s])
           R == Response(own, Compare(sel, flags'))
           new == HearAll(told, R)
<1>1. /\ DOMAIN client = Session /\ given \in [Session -> SelectedType]
      /\ \A t \in Session : SameView(given[t], sess[t]) /\ given[t].prev = sess[t].prev
      /\ own \in Seq(FetchType)
  BY DEF FlagsInv, ClientInv, Gives
<1>2. CASE ~ Selecting(s)
  <2>1. sess' = given /\ client' = client
    BY <1>2 DEF Complete
  <2> QED  BY <1>2, <2>1, FlagsKept DEF GivesFlags
<1>3. CASE Selecting(s)
  <2>1. sess' = [given EXCEPT ![s] = Fork(sel)] /\ client' = [client EXCEPT ![s] = new]
    BY <1>3 DEF Complete, Synced
  <2>2. sess'[s] = Fork(sel) /\ \A t \in Session \ {s} : sess'[t] = given[t]
    BY <1>1, <2>1
  <2>3. client'[s] = new /\ \A t \in Session \ {s} : client'[t] = client[t]
    BY <1>1, <2>1
  <2>4. /\ ViewInv' /\ ClientInv /\ messages' \in SUBSET Uid /\ flags' \in FlagsType
        /\ log' \in LogType /\ FlagsKnown(sess[s], client[s], messages)
    BY DEF ViewInv, ClientInv, TypeOK, FlagsType, FlagsInv
  <2> DEFINE n == client[s].recent
             m == RecentTold(sel.prev, Freeze(sel), n)
             a == Tells(sel.prev.uids, n)
             b == Tells(sel.uids, m)
  <2>5. /\ sel \in SelectedType /\ sel.mode = sess[s].mode /\ sel.modseq = log'.highest
        /\ sel.prev = sess[s].prev /\ sel.hide = given[s].hide
        /\ a \in Numbering /\ b \in Numbering /\ Has(told, a) /\ Runs(R, a, b)
    <3> HIDE DEF sel
    <3> QED  BY <1>3, <2>4, CommandRuns DEF sel
  <2>6. /\ sel.silenced = given[s].silenced
        /\ \A u \in given[s].recent : log'.last[u].kind = "update" => u \in sel.recent
    <3>1. given[s] \in SelectedType
      BY <1>1
    <3> QED  BY <2>4, <3>1, SyncMarks DEF Synced
  <2>7. /\ sess[s].recent \subseteq given[s].recent /\ (own = <<>> \/ given[s].hide)
        /\ \A u \in messages' \cap sel.uids :
               Says(own, Rank(sel.uids, u), ShownFlags(sel, u, flags'))
        /\ \A i \in 1..Len(told.msgs) : told.msgs[i].uid \in messages' =>
               \/ told.msgs[i].flags = NotHeard \/ told.msgs[i].silent
               \/ /\ told.msgs[i].flags = LastTold(sess[s], told.msgs[i].uid)
                  /\ \A F : <<told.msgs[i].uid, F>> \notin given[s].silenced
    BY <1>3 DEF GivesFlags
  <2> HIDE DEF sel
  <2>8. /\ Fork(sel).mode = sel.mode /\ Fork(sel).modseq = sel.modseq
        /\ Fork(sel).uids = sel.uids /\ Fork(sel).keys = sel.keys
        /\ Fork(sel).recent = sel.recent /\ Fork(sel).prev = Freeze(sel)
        /\ Fork(sel).silenced = {}
    <3>1. Fork(sel).silenced = {}
      BY <2>5 DEF Fork, SelectedType
    <3> QED  BY <2>5, <3>1, ForkType, ForkTold
  <2>9. sel.mode = "rw" /\ Fork(sel).prev = Freeze(Fork(sel))
    <3>1. sess[s].mode = "rw"
      BY <1>3, <2>4 DEF FlagsKnown, Selecting
    <3> QED  BY <2>5, <2>8, <3>1 DEF Freeze
  <2>10. ASSUME NEW u \in messages'
         PROVE  /\ u \in Uid /\ u \in sel.uids /\ sel.keys[u] = flags'[u]
                /\ log'.last[u].kind = "update"
                /\ LastTold(Fork(sel), u) = ShownFlags(sel, u, flags')
    <3>1. u \in Uid /\ log'.last[u].seq <= log'.highest /\ log'.last[u].kind = "update"
      BY <2>4 DEF ViewInv, LogOK
    <3>2. View(sess'[s], log', messages', flags')
      BY <2>2, <2>4, <2>5, <2>8, <2>9 DEF ViewInv, SessionsOK, Selecting
    <3>3. u \in sel.uids /\ sel.keys[u] = flags'[u]
      BY <2>2, <2>5, <2>8, <3>1, <3>2 DEF View
    <3>4. LastTold(Fork(sel), u) = ShownFlags(sel, u, flags')
      BY <2>8, <3>3 DEF LastTold, Freeze, ShownFlags
    <3> QED  BY <3>1, <3>3, <3>4
  <2> HIDE DEF R, a, b, m, n, new
  <2>11. ASSUME NEW u \in messages'
         PROVE  Knows(new, u, LastTold(Fork(sel), u))
    <3> DEFINE w == ShownFlags(sel, u, flags')
               k == Rank(sel.uids, u)
               cmp == Compare(sel, flags')
    <3>1. w # NoData
      <4>1. w \subseteq Flag \cup {Recent}
        BY <2>4, <2>10 DEF ShownFlags, FlagsType
      <4>2. "no data" \notin Flag \cup {Recent}
        BY NoDataAssumption DEF NoData, Recent
      <4> QED  BY <4>1, <4>2 DEF NoData
    <3>2. u \in sel.prev.recent => u \in sel.recent
      <4>1. sel.prev.recent \subseteq sess[s].recent
        BY <1>3, <2>4, <2>5 DEF FlagsKnown, Freeze, Selecting
      <4> QED  BY <2>6, <2>7, <2>10, <4>1
    <3>3. /\ cmp \in Seq(ResponseType) /\ Ordered(own \o cmp) /\ Says(cmp, k, w)
          /\ LastTold(sel, u) # w /\ <<u, flags'[u]>> \notin sel.silenced => Mentions(cmp, k, w)
      BY <1>1, <2>4, <2>5, <2>7, <2>10, <3>2, CompareTells
    <3>4. Says(own, k, w) /\ own \in Seq(ResponseType)
      BY <1>1, <2>7, <2>10, OneKind
    <3>5. Knows(told, u, w) \/ Mentions(cmp, k, w)
      <4>1. LastTold(sel, u) = LastTold(sess[s], u)
        BY <2>5 DEF LastTold
      <4>2. CASE LastTold(sel, u) = w
        BY <2>7, <4>1, <4>2 DEF Knows, Heard
      <4>3. CASE <<u, flags'[u]>> \in sel.silenced
        BY <2>6, <2>7, <4>3 DEF Knows, Heard
      <4> QED  BY <3>3, <4>2, <4>3
    <3>6. \A j \in 1..Len(b.uids) : b.uids[j] = u => j = k
      <4>1. sel.uids \in SUBSET Uid /\ b.uids = Ascending(sel.uids)
        BY <2>5 DEF SelectedType, b, Tells
      <4> QED  BY <4>1, AscendingRank
    <3> HIDE DEF w, k, cmp
    <3>7. /\ own \o cmp \in Seq(ResponseType) /\ Says(own \o cmp, k, w)
          /\ Mentions(cmp, k, w) => Mentions(own \o cmp, k, w)
      BY <3>3, <3>4, BothTell
    <3>8. /\ Ordered(R) /\ Says(R, k, w)
          /\ Mentions(own \o cmp, k, w) => Mentions(R, k, w)
      BY <3>1, <3>3, <3>7, ResponseTells DEF R, cmp
    <3>9. Knows(told, u, w) \/ Mentions(R, k, w)
      BY <3>5, <3>7, <3>8
    <3>10. Knows(HearAll(told, R), u, w)
      BY <2>5, <3>1, <3>6, <3>8, <3>9, HearAllTells
    <3> QED  BY <2>10, <3>10 DEF new, w
  <2>12. FlagsKnown(sess'[s], client'[s], messages')
    BY <2>2, <2>3, <2>8, <2>9, <2>11 DEF FlagsKnown, Knows
  <2>13. \A t \in Session \ {s} : SameTold(sess'[t], sess[t]) /\ client'[t] = client[t]
    BY <2>2, <2>3 DEF GivesFlags
  <2> QED  BY <2>12, <2>13, FlagsKept
<1> QED  BY <1>2, <1>3

\* A client as it is knows what it was told.
LEMMA AsTold ==
    ASSUME FlagsInv, Grows, NEW s \in Session, Selecting(s),
           NEW given, given[s].silenced = sess[s].silenced
    PROVE  \A i \in 1..Len(client[s].msgs) : client[s].msgs[i].uid \in messages' =>
               \/ client[s].msgs[i].flags = NotHeard \/ client[s].msgs[i].silent
               \/ /\ client[s].msgs[i].flags = LastTold(sess[s], client[s].msgs[i].uid)
                  /\ \A F : <<client[s].msgs[i].uid, F>> \notin given[s].silenced
<1> SUFFICES ASSUME NEW i \in 1..Len(client[s].msgs), client[s].msgs[i].uid \in messages'
             PROVE  \/ client[s].msgs[i].flags = NotHeard \/ client[s].msgs[i].silent
                    \/ /\ client[s].msgs[i].flags = LastTold(sess[s], client[s].msgs[i].uid)
                       /\ \A F : <<client[s].msgs[i].uid, F>> \notin given[s].silenced
  OBVIOUS
<1>1. client[s].msgs[i].uid \in messages
  BY OldEntries
<1>2. FlagsKnown(sess[s], client[s], messages)
  BY DEF FlagsInv
<1>3. Heard(client[s].msgs[i], LastTold(sess[s], client[s].msgs[i].uid))
  BY <1>1, <1>2 DEF FlagsKnown
<1>4. given[s].silenced = {}
  BY <1>2 DEF FlagsKnown, Selecting
<1> QED  BY <1>3, <1>4 DEF Heard

\* A command without responses of its own, which gives away no more than \Recent.
LEMMA QuietGives ==
    ASSUME FlagsInv, Grows, NEW s \in Session, NEW given,
           \A t \in Session : /\ SameTold(given[t], sess[t])
                              /\ sess[t].recent \subseteq given[t].recent
    PROVE  GivesFlags(s, given, <<>>, client[s])
<1>1. ASSUME Selecting(s)
      PROVE  given[s].silenced = sess[s].silenced
  BY <1>1 DEF SameTold, Selecting, FlagsInv, ClientInv
<1>2. \A n, w : Says(<<>>, n, w)
  BY DEF Says
<1> QED  BY <1>1, <1>2, AsTold DEF GivesFlags

\* A new message is in nobody's view.
LEMMA NewRecentTold ==
    ASSUME FlagsInv, NEW t \in Session, NEW to \in SUBSET Session
    PROVE  SameTold(AddRecent(to)[t], sess[t]) /\ sess[t].recent \subseteq AddRecent(to)[t].recent
<1>1. sess[t] \in SelectedType /\ ViewInv
  BY DEF FlagsInv, ClientInv, ViewInv, TypeOK
<1>2. CASE t \notin to
  BY <1>2 DEF AddRecent, SameTold
<1>3. CASE t \in to
  <2> DEFINE x == AddRecent(to)[t]
  <2>1. x = [sess[t] EXCEPT !.recent = @ \cup {maxUid + 1}]
    BY <1>3 DEF AddRecent
  <2>2. /\ x.mode = sess[t].mode /\ x.silenced = sess[t].silenced /\ x.prev = sess[t].prev
        /\ x.uids = sess[t].uids /\ x.keys = sess[t].keys
        /\ x.recent = sess[t].recent \cup {maxUid + 1}
    BY <1>1, <2>1 DEF SelectedType
  <2> HIDE DEF x
  <2>3. ASSUME Selecting(t) PROVE maxUid + 1 \notin sess[t].uids
    <3>1. \A u \in sess[t].uids : u <= maxUid
      BY <1>1, <2>3, InView
    <3>2. maxUid \in Nat
      BY <1>1, UidAssumption DEF ViewInv, TypeOK
    <3>3. ~ (maxUid + 1 <= maxUid)
      BY <3>2
    <3> QED  BY <3>1, <3>3
  <2>4. Selecting(t) => Freeze(x) = Freeze(sess[t])
    <3>1. Selecting(t) => x.recent \cap x.uids = sess[t].recent \cap sess[t].uids
      BY <2>2, <2>3
    <3> QED  BY <2>2, <3>1 DEF Freeze
  <2>5. SameTold(x, sess[t])
    BY <2>2, <2>4 DEF SameTold, Selecting
  <2> QED  BY <2>2, <2>5 DEF x
<1> QED  BY <1>2, <1>3

\* What hide_expunged leaves.
LEMMA HidingTold ==
    ASSUME FlagsInv, NEW s \in Session
    PROVE  \A t \in Session : /\ SameTold(Hiding(s, FALSE)[t], sess[t])
                              /\ Hiding(s, FALSE)[t].recent = sess[t].recent
                              /\ Hiding(s, FALSE)[s].hide
                              /\ Hiding(s, FALSE)[s].silenced = sess[s].silenced
<1>1. sess \in [Session -> SelectedType]
  BY DEF FlagsInv, ClientInv, ViewInv, TypeOK
<1>2. Hiding(s, FALSE) = [sess EXCEPT ![s].hide = TRUE]
  BY DEF Hiding
<1> DEFINE x == Hiding(s, FALSE)[s]
<1>3. /\ x.mode = sess[s].mode /\ x.silenced = sess[s].silenced /\ x.prev = sess[s].prev
      /\ x.uids = sess[s].uids /\ x.keys = sess[s].keys /\ x.recent = sess[s].recent /\ x.hide
  BY <1>1, <1>2 DEF SelectedType
<1>4. \A t \in Session \ {s} : Hiding(s, FALSE)[t] = sess[t]
  BY <1>1, <1>2
<1> HIDE DEF x
<1>5. SameTold(x, sess[s])
  BY <1>3 DEF SameTold, Freeze
<1>6. \A t \in Session \ {s} : SameTold(Hiding(s, FALSE)[t], sess[t])
  BY <1>4 DEF SameTold
<1> QED  BY <1>3, <1>4, <1>5, <1>6 DEF x

\* The responses of do_fetch and do_store, by the numbers before the command, tell
\* the flags of a message that is there as they are after it.
LEMMA OwnSays ==
    ASSUME FlagsInv, ClientInv', Grows, NEW s \in Session, Selecting(s),
           NEW g \in SelectedType, g.hide, g.uids = sess[s].uids, g.recent = sess[s].recent,
           NEW S \in SUBSET sess[s].uids, NEW fl,
           NEW u \in messages' \cap Synced(g).uids, u \in S => fl[u] = flags'[u]
    PROVE  Says(FetchEach(s, FALSE, S, fl), Rank(Synced(g).uids, u),
                ShownFlags(Synced(g), u, flags'))
<1> DEFINE V == sess[s].uids
           sel == Synced(g)
           h == Hiding(s, FALSE)[s]
           hid == Synced(h)
           own == [i \in DOMAIN Ascending(S) |->
                      FetchResponse(Rank(V, Ascending(S)[i]), ShownFlags(hid, Ascending(S)[i], fl))]
<1>1. FetchEach(s, FALSE, S, fl) = own
  BY Zenon DEF FetchEach, Synced
<1>2. /\ log' \in LogType /\ messages' \in SUBSET Uid /\ flags' \in FlagsType
      /\ V \in SUBSET Uid /\ S \in SUBSET Uid /\ ClientInv /\ ViewInv /\ ViewInv'
  BY DEF FlagsInv, ClientInv, ViewInv, TypeOK, FlagsType, SelectedType
<1>3. h \in SelectedType /\ h.hide /\ h.recent = sess[s].recent
  BY <1>2, HidingView, HidingTold
<1> HIDE DEF h
<1>4. hid.recent = sess[s].recent
  BY <1>2, <1>3, SyncMarks DEF Synced
<1>5. sel.recent = sess[s].recent
  BY <1>2, SyncMarks DEF Synced
<1>6. sel.uids \subseteq V \cup messages' /\ V \subseteq sel.uids /\ sel \in SelectedType
  BY <1>2, SyncTold DEF Synced
<1>7. \A x \in sel.uids \ V, v \in V : v < x
  BY <1>2, <1>6, Newer
<1> HIDE DEF sel, hid, V
<1>8. sel.uids \in SUBSET Uid
  BY <1>6 DEF SelectedType
<1>9. \A v \in V : Rank(V, v) = Rank(sel.uids, v)
  BY <1>6, <1>7, <1>8, RankOfOlder
<1>10. \A i \in DOMAIN Ascending(S) : Ascending(S)[i] \in S
  BY <1>2, AscendingRank
<1>11. u \in sel.uids
  BY DEF sel
<1>12. \A v \in sel.uids : Rank(sel.uids, v) = Rank(sel.uids, u) => v = u
  <2>1. \A v \in sel.uids : Ascending(sel.uids)[Rank(sel.uids, v)] = v
    BY <1>8, AscendingRank
  <2> QED  BY <1>11, <2>1
<1>13. ASSUME NEW i \in 1..Len(own), Fetches(own[i], Rank(sel.uids, u))
       PROVE  own[i].flags = ShownFlags(sel, u, flags')
  <2> DEFINE v == Ascending(S)[i]
  <2>1. i \in DOMAIN Ascending(S)
    <3> DEFINE d == Ascending(S)
    <3>1. d \in Seq(S)
      BY <1>2, AscendingRank
    <3> HIDE DEF d
    <3>2. Len(d) \in Nat /\ DOMAIN d = 1..Len(d)
      BY <3>1
    <3>3. own = [j \in DOMAIN d |-> FetchResponse(Rank(V, d[j]), ShownFlags(hid, d[j], fl))]
      BY DEF d
    <3> HIDE DEF own
    <3>4. DOMAIN own = 1..Len(d)
      BY <3>2, <3>3
    <3>5. Len(own) = Len(d)
      BY <3>2, <3>3, <3>4
    <3> QED  BY <3>2, <3>5 DEF d
  <2>2. own[i] = FetchResponse(Rank(V, v), ShownFlags(hid, v, fl)) /\ v \in S
    BY <1>10, <2>1
  <2> HIDE DEF own, v
  <2>3. Rank(V, v) = Rank(sel.uids, u) /\ own[i].flags = ShownFlags(hid, v, fl)
    BY <1>13, <2>2 DEF Fetches, FetchResponse
  <2>4. v \in V /\ v \in sel.uids
    BY <1>6, <2>2 DEF V
  <2>5. v = u
    BY <1>9, <1>12, <2>3, <2>4
  <2> QED  BY <1>4, <1>5, <2>2, <2>3, <2>5 DEF ShownFlags
<1> HIDE DEF own
<1>14. Says(own, Rank(sel.uids, u), ShownFlags(sel, u, flags'))
  BY <1>13 DEF Says
<1> QED  BY <1>1, <1>14 DEF sel

\* APPEND, COPY and MOVE.
LEMMA FlagsAdd ==
    ASSUME FlagsInv, ClientInv', Grows, NEW s \in Session, NEW to \in SUBSET Session,
           NEW msgs, NEW fl, Add(msgs, fl, to), Complete(s, AddRecent(to), <<>>, client[s])
    PROVE  FlagsInv'
<1>1. ClientInv /\ maxUid + 1 \in Uid
  BY UidAssumption DEF FlagsInv, ClientInv, ViewInv, TypeOK, Add, Uid
<1>2. Gives(s, AddRecent(to), <<>>, client[s])
  BY <1>1, AddRecentGives
<1>3. GivesFlags(s, AddRecent(to), <<>>, client[s])
  BY NewRecentTold, QuietGives
<1> QED  BY <1>2, <1>3, CommandShows

\* Every command that only synchronises, UID commands among them.
LEMMA FlagsSync ==
    ASSUME FlagsInv, ClientInv', Grows, NEW s \in Session, Complete(s, sess, <<>>, client[s])
    PROVE  FlagsInv'
<1>1. Gives(s, sess, <<>>, client[s])
  BY SessGives DEF FlagsInv
<1>2. \A t \in Session : SameTold(sess[t], sess[t]) /\ sess[t].recent \subseteq sess[t].recent
  BY DEF SameTold
<1>3. GivesFlags(s, sess, <<>>, client[s])
  BY <1>2, QuietGives
<1> QED  BY <1>1, <1>3, CommandShows

\* SEARCH, and a FETCH of nothing but immutable data.
LEMMA FlagsSearch ==
    ASSUME FlagsInv, ClientInv', Grows, NEW s \in Session, Search(s)
    PROVE  FlagsInv'
<1>1. Complete(s, Hiding(s, FALSE), <<>>, client[s])
  BY DEF Search
<1>2. Gives(s, Hiding(s, FALSE), <<>>, client[s])
  BY NoFetches, HidingGives DEF FlagsInv
<1>3. GivesFlags(s, Hiding(s, FALSE), <<>>, client[s])
  BY HidingTold, QuietGives
<1> QED  BY <1>1, <1>2, <1>3, CommandShows

\* FETCH by sequence numbers, with or without \Seen.
LEMMA FlagsFetch ==
    ASSUME FlagsInv, ClientInv', Grows, NEW s \in Session,
           NEW S \in SUBSET sess[s].uids, FetchFlags(s, FALSE, S) \/ FetchBody(s, FALSE, S)
    PROVE  FlagsInv'
<1> DEFINE given == Hiding(s, FALSE)
<1>1. /\ Selecting(s) /\ ClientInv /\ ViewInv /\ ViewInv' /\ FALSE \in BOOLEAN
  BY DEF FetchFlags, FetchBody, Writing, Selecting, FlagsInv, ClientInv
<1>2. S \in SUBSET Uid /\ sess[s].uids \in SUBSET Uid /\ flags \in FlagsType
  BY <1>1, InView DEF ViewInv, TypeOK, FlagsType
<1>3. /\ \A t \in Session : SameTold(given[t], sess[t]) /\ given[t].recent = sess[t].recent
      /\ given[s].hide /\ given[s].silenced = sess[s].silenced
  BY HidingTold
<1>4. given[s] \in SelectedType /\ given[s].uids = sess[s].uids
  BY <1>1, HidingView DEF SameView
<1>5. \A own \in Seq(FetchType) : Gives(s, given, own, client[s])
  BY <1>1, HidingGives
<1> HIDE DEF given
<1>6. \A i \in 1..Len(client[s].msgs) : client[s].msgs[i].uid \in messages' =>
          \/ client[s].msgs[i].flags = NotHeard \/ client[s].msgs[i].silent
          \/ /\ client[s].msgs[i].flags = LastTold(sess[s], client[s].msgs[i].uid)
             /\ \A F : <<client[s].msgs[i].uid, F>> \notin given[s].silenced
  BY <1>1, <1>3, AsTold
<1>7. ASSUME NEW own,
             \A u \in messages' \cap Synced(given[s]).uids :
                 Says(own, Rank(Synced(given[s]).uids, u), ShownFlags(Synced(given[s]), u, flags'))
      PROVE  GivesFlags(s, given, own, client[s])
  BY <1>1, <1>3, <1>6, <1>7 DEF GivesFlags
<1>8. CASE FetchFlags(s, FALSE, S)
  <2> DEFINE own == FetchEach(s, FALSE, S, flags)
  <2>1. own \in Seq(FetchType)
    BY <1>1, <1>2, FetchEachType
  <2>2. Complete(s, given, own, client[s]) /\ flags' = flags
    BY <1>8 DEF FetchFlags, given, store
  <2>3. ASSUME NEW u \in messages' \cap Synced(given[s]).uids
        PROVE  Says(own, Rank(Synced(given[s]).uids, u), ShownFlags(Synced(given[s]), u, flags'))
    BY <1>1, <1>3, <1>4, <2>2, OwnSays
  <2> HIDE DEF own
  <2> QED  BY <1>5, <1>7, <2>1, <2>2, <2>3, CommandShows
<1>9. CASE FetchBody(s, FALSE, S)
  <2> DEFINE q == Ascending(S)
             own == [i \in DOMAIN q |-> FetchResponse(Rank(sess[s].uids, q[i]), NoData)]
  <2>1. own \in Seq(FetchType)
    BY <1>2, SeenFetches
  <2>2. Complete(s, given, own, client[s])
    BY <1>9 DEF FetchBody, given
  <2> HIDE DEF q
  <2>3. \A i \in DOMAIN own : own[i].flags = NoData
    BY DEF FetchResponse
  <2> HIDE DEF own
  <2>4. DOMAIN own = 1..Len(own)
    BY <2>1
  <2>5. \A n, w : Says(own, n, w)
    BY <2>3, <2>4 DEF Says
  <2> QED  BY <1>5, <1>7, <2>1, <2>2, <2>5, CommandShows
<1> QED  BY <1>8, <1>9

\* An entry after a .SILENT store: marked if the store named it, else as it was.
LEMMA AssumeTold ==
    ASSUME NEW c \in ClientType, NEW S, NEW op \in FlagOp, NEW operand \in SUBSET Flag
    PROVE  /\ Len(Assume(c, S, op, operand).msgs) = Len(c.msgs)
           /\ \A i \in 1..Len(c.msgs) :
                  /\ Assume(c, S, op, operand).msgs[i].uid = c.msgs[i].uid
                  /\ IF c.msgs[i].uid \in S
                     THEN Assume(c, S, op, operand).msgs[i].silent
                     ELSE Assume(c, S, op, operand).msgs[i] = c.msgs[i]
<1> DEFINE n == Len(c.msgs)
           Entry(e) == IF e.uid \in S THEN StoredEntry(e, op, operand) ELSE e
           M == [i \in 1..n |-> Entry(c.msgs[i])]
           d == Assume(c, S, op, operand)
<1>1. /\ n \in Nat /\ DOMAIN c.msgs = 1..n /\ \A i \in 1..n : c.msgs[i] \in EntryType
  BY DEF ClientType
<1>2. ASSUME NEW e \in EntryType
      PROVE  /\ Entry(e).uid = e.uid
             /\ IF e.uid \in S THEN Entry(e).silent ELSE Entry(e) = e
  BY DEF EntryType, StoredEntry
<1>3. d = [c EXCEPT !.msgs = M]
  <2>1. d = [c EXCEPT !.msgs = [i \in DOMAIN c.msgs |-> Entry(c.msgs[i])]]
    BY DEF Assume
  <2> HIDE DEF Entry
  <2>2. M = [i \in DOMAIN c.msgs |-> Entry(c.msgs[i])]
    BY <1>1
  <2> QED  BY <2>1, <2>2
<1> HIDE DEF Entry
<1>4. Len(M) = n /\ \A i \in 1..n : M[i] = Entry(c.msgs[i])
  BY <1>1
<1> HIDE DEF M
<1>5. d.msgs = M
  BY <1>3 DEF ClientType
<1> HIDE DEF d
<1>6. Len(d.msgs) = n /\ \A i \in 1..n : d.msgs[i] = Entry(c.msgs[i])
  BY <1>4, <1>5
<1> QED  BY <1>1, <1>2, <1>6 DEF d

\* A selected mailbox that hides expunges, with the same messages as before, and
\* silences none but those of S.
Storing(g, sel, S) ==
    /\ g \in SelectedType /\ g.hide /\ g.recent = sel.recent /\ g.uids = sel.uids
    /\ \A u \in Uid \ S : \A F : <<u, F>> \notin g.silenced

\* What do_store leaves of the selected mailbox: silence() notes the flags of the
\* messages that were named.
LEMMA StoringTold ==
    ASSUME FlagsInv, NEW s \in Session, Selecting(s), NEW silent \in BOOLEAN,
           NEW S \in SUBSET Uid, NEW op \in FlagOp, NEW operand \in SUBSET Flag
    PROVE  Storing(StoreHandled(s, FALSE, silent, S, op, operand), sess[s], S)
<1> DEFINE g == StoreHandled(s, FALSE, silent, S, op, operand)
           hid == Hiding(s, FALSE)[s]
           noted == {<<u, Apply(op, flags[u], operand)>> :
                         u \in {v \in S : Apply(op, flags[v], operand) # flags[v]}}
<1>1. ViewInv /\ sess[s].silenced = {} /\ FALSE \in BOOLEAN
  BY DEF FlagsInv, ClientInv, FlagsKnown, Selecting
<1>2. g \in SelectedType /\ SameView(g, sess[s]) /\ g.recent = sess[s].recent
  BY <1>1, HandledView, Zenon
<1>3. hid \in SelectedType
  BY <1>1, HidingView
<1>4. hid.hide /\ hid.silenced = {}
  BY <1>1, HidingTold
<1>5. g = IF silent THEN [hid EXCEPT !.silenced = @ \cup noted] ELSE hid
  BY DEF StoreHandled, Silence
<1>6. \A u \in Uid \ S : \A F : <<u, F>> \notin noted
  OBVIOUS
<1> HIDE DEF g, hid, noted
<1>7. ASSUME silent PROVE g.hide /\ \A u \in Uid \ S : \A F : <<u, F>> \notin g.silenced
  <2>1. g.hide /\ g.silenced = hid.silenced \cup noted
    BY <1>3, <1>4, <1>5, <1>7 DEF SelectedType
  <2> QED  BY <1>4, <1>6, <2>1
<1>8. ASSUME ~ silent PROVE g.hide /\ \A u \in Uid \ S : \A F : <<u, F>> \notin g.silenced
  BY <1>4, <1>5, <1>8
<1> QED  BY <1>2, <1>7, <1>8 DEF Storing, SameView, g

\* STORE by sequence numbers, silent or not.
LEMMA FlagsStore ==
    ASSUME FlagsInv, ClientInv', Grows, NEW s \in Session,
           NEW silent \in BOOLEAN, NEW S \in SUBSET sess[s].uids, NEW op \in FlagOp,
           NEW operand \in Operand, StoreFlags(s, FALSE, silent, S, op, operand)
    PROVE  FlagsInv'
<1> DEFINE g == StoreHandled(s, FALSE, silent, S, op, operand)
           given == [sess EXCEPT ![s] = g]
           answers == IF silent THEN S \ messages ELSE S
           shown == [u \in Uid |-> Apply(op, flags[u], operand)]
           own == FetchEach(s, FALSE, answers, shown)
           told == IF silent THEN Assume(client[s], S, op, operand) ELSE client[s]
<1>1. /\ Selecting(s) /\ Complete(s, given, own, told) /\ messages' = messages
      /\ flags' = [u \in Uid |-> IF u \in S \cap messages THEN Apply(op, flags[u], operand)
                                 ELSE flags[u]]
  BY DEF StoreFlags, UpdateFlags, Writing, Selecting
<1>2. /\ ClientInv /\ ViewInv /\ ViewInv' /\ FALSE \in BOOLEAN
      /\ sess \in [Session -> SelectedType]
  BY DEF FlagsInv, ClientInv, ViewInv, TypeOK
<1>3. S \in SUBSET Uid /\ operand \in SUBSET Flag /\ flags \in FlagsType
  BY <1>1, <1>2, InView, SessionAssumption DEF ViewInv, TypeOK, FlagsType
<1>4. /\ given \in [Session -> SelectedType]
      /\ \A t \in Session : SameView(given[t], sess[t]) /\ given[t].prev = sess[t].prev
  <2>1. \A uid \in BOOLEAN :
            LET after == [sess EXCEPT ![s] = StoreHandled(s, uid, silent, S, op, operand)]
            IN  /\ after \in [Session -> SelectedType]
                /\ \A t \in Session : SameView(after[t], sess[t]) /\ after[t].prev = sess[t].prev
    BY <1>2, <1>3, HandledTold
  <2> QED  BY <1>2, <2>1, Zenon
<1>5. /\ g \in SelectedType /\ g.hide /\ g.recent = sess[s].recent /\ g.uids = sess[s].uids
      /\ \A u \in Uid \ S : \A F : <<u, F>> \notin g.silenced
  <2>1. Storing(g, sess[s], S)
    BY <1>1, <1>3, StoringTold, Zenon
  <2> HIDE DEF g
  <2> QED  BY <2>1 DEF Storing
<1>6. given[s] = g /\ \A t \in Session \ {s} : given[t] = sess[t]
  BY <1>2
<1>7. shown \in FlagsType
  BY <1>3, ApplyType DEF FlagsType
<1>8. \A u \in S \cap messages' : shown[u] = flags'[u]
  BY <1>1, <1>3
<1>9. answers \in SUBSET sess[s].uids /\ answers \in SUBSET Uid /\ answers \subseteq S
  BY <1>3
<1> HIDE DEF g, given, answers, shown
<1>10. own \in Seq(FetchType)
  BY <1>1, <1>2, <1>7, <1>9, FetchEachType
<1>11. ASSUME NEW u \in messages' \cap Synced(g).uids
       PROVE  Says(own, Rank(Synced(g).uids, u), ShownFlags(Synced(g), u, flags'))
  <2>1. u \in answers => shown[u] = flags'[u]
    BY <1>8, <1>9
  <2> QED  BY <1>1, <1>5, <1>9, <2>1, OwnSays
<1>12. client[s] \in ClientType
  BY <1>2, ClientAsIs
<1>13. told \in ClientType /\ Uids(told) = Uids(client[s]) /\ told.recent = client[s].recent
  BY <1>3, <1>12, AssumeType
<1>14. ASSUME NEW i \in 1..Len(told.msgs), told.msgs[i].uid \in messages'
       PROVE  \/ told.msgs[i].flags = NotHeard \/ told.msgs[i].silent
              \/ /\ told.msgs[i].flags = LastTold(sess[s], told.msgs[i].uid)
                 /\ \A F : <<told.msgs[i].uid, F>> \notin g.silenced
  <2>1. CASE ~ silent
    <3>1. told = client[s] /\ given[s].silenced = sess[s].silenced
      <4>1. g = Hiding(s, FALSE)[s]
        BY <2>1 DEF g, StoreHandled
      <4> QED  BY <1>2, <1>6, <2>1, <4>1, HidingTold
    <3> HIDE DEF told
    <3> QED  BY <1>1, <1>6, <1>14, <3>1, AsTold
  <2>2. CASE silent
    <3>1. /\ i \in 1..Len(client[s].msgs) /\ told.msgs[i].uid = client[s].msgs[i].uid
          /\ IF client[s].msgs[i].uid \in S THEN told.msgs[i].silent
                                            ELSE told.msgs[i] = client[s].msgs[i]
      BY <1>3, <1>12, <1>14, <2>2, AssumeTold
    <3> HIDE DEF told
    <3>2. CASE client[s].msgs[i].uid \in S
      BY <3>1, <3>2
    <3>3. CASE client[s].msgs[i].uid \notin S
      <4>1. told.msgs[i] = client[s].msgs[i] /\ client[s].msgs[i].uid \in messages
        BY <1>1, <1>14, <3>1, <3>3
      <4>2. Heard(client[s].msgs[i], LastTold(sess[s], client[s].msgs[i].uid))
        BY <3>1, <4>1 DEF FlagsInv, FlagsKnown
      <4>3. \A F : <<client[s].msgs[i].uid, F>> \notin g.silenced
        <5>1. client[s].msgs[i].uid \in Uid
          BY <1>2, <4>1 DEF ViewInv, TypeOK
        <5> QED  BY <1>5, <3>3, <5>1
      <4> QED  BY <4>1, <4>2, <4>3 DEF Heard
    <3> QED  BY <3>2, <3>3
  <2> QED  BY <2>1, <2>2
<1> HIDE DEF own, told
<1>15. Gives(s, given, own, told)
  BY <1>4, <1>10, <1>13 DEF Gives
<1>16. GivesFlags(s, given, own, told)
  <2>1. \A t \in Session \ {s} : SameTold(given[t], sess[t])
    BY <1>6 DEF SameTold
  <2> QED  BY <1>1, <1>5, <1>6, <1>11, <1>14, <2>1 DEF GivesFlags
<1> QED  BY <1>1, <1>15, <1>16, CommandShows

\* SELECT: the client has not heard of any flags.
LEMMA FlagsSelect ==
    ASSUME FlagsInv, ClientInv', Grows, NEW s \in Session, Select(s, "rw")
    PROVE  FlagsInv'
<1> DEFINE fresh == [NewSelected("rw") EXCEPT !.recent = recent, !.modseq = log'.highest]
           sel == UpdateMessages(fresh, messages, flags)
           new == [msgs |-> Announced(Ascending(messages)), recent |-> Cardinality(recent)]
<1>1. sess' = [sess EXCEPT ![s] = Fork(sel)] /\ client' = [client EXCEPT ![s] = new]
  BY DEF Select
<1>2. /\ messages \in SUBSET Uid /\ flags \in FlagsType /\ recent \subseteq messages
      /\ log'.highest \in Nat /\ DOMAIN client = Session /\ DOMAIN sess = Session
  BY DEF FlagsInv, ClientInv, ViewInv, TypeOK, FlagsType, LogType
<1>3. fresh \in SelectedType /\ fresh.mode = "rw"
  BY <1>2, NewSelectedType DEF NewSelected, SelectedType
<1> HIDE DEF fresh
<1>4. sel \in SelectedType /\ sel.mode = "rw"
  BY <1>2, <1>3, UpdateMessagesTold
<1> HIDE DEF sel
<1>5. Fork(sel).mode = "rw" /\ Fork(sel).silenced = {} /\ Fork(sel).prev = Freeze(Fork(sel))
  <2>1. Fork(sel).mode = sel.mode /\ Fork(sel).silenced = {}
    BY <1>4 DEF Fork, SelectedType
  <2>2. /\ Fork(sel).prev = Freeze(sel) /\ Fork(sel).uids = sel.uids
        /\ Fork(sel).keys = sel.keys /\ Fork(sel).recent = sel.recent
    BY <1>4, ForkType, ForkTold
  <2> QED  BY <1>4, <2>1, <2>2 DEF Freeze
<1>6. \A i \in 1..Len(new.msgs) : new.msgs[i].flags = NotHeard
  <2>1. Ascending(messages) \in Seq(Uid)
    BY <1>2, AscendingRank
  <2> QED  BY <2>1, AnnouncedRight
<1> HIDE DEF new
<1>7. FlagsKnown(Fork(sel), new, messages')
  BY <1>5, <1>6 DEF FlagsKnown, Heard
<1>8. /\ sess'[s] = Fork(sel) /\ client'[s] = new
      /\ \A t \in Session \ {s} : sess'[t] = sess[t] /\ client'[t] = client[t]
  BY <1>1, <1>2
<1> QED  BY <1>7, <1>8, FlagsKept DEF SameTold

\* LOGOUT and CLOSE: there is no client any more.
LEMMA FlagsLeaves ==
    ASSUME FlagsInv, ClientInv', Grows, NEW s \in Session,
           sess' = [sess EXCEPT ![s] = NotSelected], client' = [client EXCEPT ![s] = NoClient]
    PROVE  FlagsInv'
<1>1. FlagsKnown(NotSelected, NoClient, messages')
  BY DEF FlagsKnown, NotSelected, NewSelected, NoClient
<1>2. DOMAIN client = Session /\ DOMAIN sess = Session
  BY DEF FlagsInv, ClientInv, ViewInv, TypeOK
<1>3. /\ FlagsKnown(sess'[s], client'[s], messages')
      /\ \A t \in Session \ {s} : sess'[t] = sess[t] /\ client'[t] = client[t]
  BY <1>1, <1>2
<1> QED  BY <1>3, FlagsKept DEF SameTold

\* Nobody has the mailbox selected.
LEMMA FlagsInit == Init => FlagsInv
<1> SUFFICES ASSUME Init PROVE FlagsInv
  OBVIOUS
<1>1. FlagsKnown(NotSelected, NoClient, messages)
  BY DEF FlagsKnown, NotSelected, NewSelected, NoClient
<1>2. \A s \in Session : sess[s] = NotSelected /\ client[s] = NoClient
  BY DEF Init
<1> QED  BY <1>1, <1>2, ClientInit DEF FlagsInv

\* No command leaves a client with other flags than those it was told, as long as
\* no command names UIDs and every session may write.
LEMMA FlagsStep ==
    ASSUME UidCommand \subseteq {FALSE}, Mode \subseteq {"rw"}, FlagsInv, [Next]_vars
    PROVE  FlagsInv'
<1>0. ClientInv' /\ Grows
  BY ClientStep, NextGrows DEF FlagsInv, ClientInv
<1>1. ASSUME NEW s \in Session, NEW mode \in Mode, Select(s, mode) PROVE FlagsInv'
  <2>1. mode = "rw"
    OBVIOUS
  <2> QED  BY <1>0, <1>1, <2>1, FlagsSelect
<1>2. ASSUME NEW s \in Session, Deselect(s) \/ Close(s) PROVE FlagsInv'
  <2>1. sess' = [sess EXCEPT ![s] = NotSelected] /\ client' = [client EXCEPT ![s] = NoClient]
    BY <1>2 DEF Deselect, Close
  <2> QED  BY <1>0, <2>1, FlagsLeaves
<1>3. ASSUME NEW s \in Session, NEW newFlags \in Operand \cup {{}}, AppendMessage(s, newFlags)
      PROVE  FlagsInv'
  <2>1. PICK to \in SUBSET Recipients(s) :
            /\ Add(messages, newFlags, to)
            /\ Complete(s, AddRecent(to), <<>>, client[s])
    BY <1>3 DEF AppendMessage
  <2>2. to \in SUBSET Session
    BY DEF Recipients
  <2> QED  BY <1>0, <2>1, <2>2, FlagsAdd
<1>4. ASSUME NEW s \in Session, NEW u \in Uid, CopyMessage(s, u) \/ MoveWithin(s, u)
      PROVE  FlagsInv'
  <2>1. PICK msgs : /\ Add(msgs, flags[u], {s})
                    /\ Complete(s, AddRecent({s}), <<>>, client[s])
    BY <1>4 DEF CopyMessage, MoveWithin
  <2> QED  BY <1>0, <2>1, FlagsAdd
<1>5. ASSUME NEW s \in Session, Complete(s, sess, <<>>, client[s]) PROVE FlagsInv'
  BY <1>0, <1>5, FlagsSync
<1>6. ASSUME NEW s \in Session, NEW u \in Uid, MoveOut(s, u) PROVE FlagsInv'
  BY <1>5, <1>6 DEF MoveOut
<1>7. ASSUME NEW s \in Session, Noop(s) PROVE FlagsInv'
  BY <1>5, <1>7 DEF Noop
<1>8. ASSUME NEW s \in Session, NEW S \in SUBSET sess[s].uids, Expunge(s, S) PROVE FlagsInv'
  BY <1>5, <1>8 DEF Expunge
<1>9. ASSUME NEW s \in Session, Search(s) PROVE FlagsInv'
  BY <1>0, <1>9, FlagsSearch
<1>10. ASSUME NEW s \in Session, FlagCommand(s) PROVE FlagsInv'
  <2>1. PICK uid \in UidCommand, S \in SUBSET sess[s].uids :
            \/ FetchFlags(s, uid, S)
            \/ FetchBody(s, uid, S)
            \/ \E silent \in BOOLEAN, op \in FlagOp, operand \in Operand :
                   \/ StoreFlags(s, uid, silent, S, op, operand)
                   \/ StoreRefused(s, uid, silent, S, op, operand)
    BY <1>10 DEF FlagCommand
  <2>2. uid = FALSE
    OBVIOUS
  <2>3. CASE FetchFlags(s, uid, S) \/ FetchBody(s, uid, S)
    <3>1. FetchFlags(s, FALSE, S) \/ FetchBody(s, FALSE, S)
      BY <2>2, <2>3
    <3> QED  BY <1>0, <3>1, FlagsFetch
  <2>4. ASSUME NEW silent \in BOOLEAN, NEW op \in FlagOp, NEW operand \in Operand,
               StoreFlags(s, uid, silent, S, op, operand)
        PROVE  FlagsInv'
    <3>1. StoreFlags(s, FALSE, silent, S, op, operand)
      BY <2>2, <2>4
    <3> QED  BY <1>0, <3>1, FlagsStore
  <2>5. ASSUME NEW silent \in BOOLEAN, NEW op \in FlagOp, NEW operand \in Operand,
               StoreRefused(s, uid, silent, S, op, operand)
        PROVE  FALSE
    BY <2>5 DEF StoreRefused, FlagsInv, FlagsKnown
  <2> QED  BY <2>1, <2>3, <2>4, <2>5
<1>11. CASE UNCHANGED vars
  BY <1>0, <1>11 DEF vars, FlagsInv, FlagsKnown, LastTold
<1>12. CASE Next
  BY <1>1, <1>2, <1>3, <1>4, <1>6, <1>7, <1>8, <1>9, <1>10, <1>12 DEF Next
<1> QED  BY <1>11, <1>12

\* Where no command names UIDs and every session is read-write, the flags a client
\* heard last are those its session takes for told: fork() loses no change and
\* misplaces none, for any number of sessions.  With UID commands, or with EXAMINE
\* and .SILENT, the code does not keep that promise, and the theorem says nothing.
THEOREM ClientFlagsCorrect ==
    UidCommand \subseteq {FALSE} /\ Mode \subseteq {"rw"} => (Spec => []ClientFlagsCurrent)
<1> SUFFICES ASSUME UidCommand \subseteq {FALSE}, Mode \subseteq {"rw"}
             PROVE  Spec => []ClientFlagsCurrent
  OBVIOUS
<1>1. FlagsInv /\ [Next]_vars => FlagsInv'
  BY FlagsStep
<1>2. FlagsInv => ClientFlagsCurrent
  <2> SUFFICES ASSUME FlagsInv, NEW s \in Session, NEW i \in DOMAIN client[s].msgs,
                      client[s].msgs[i].uid \in messages,
                      client[s].msgs[i].flags # NotHeard, ~ client[s].msgs[i].silent
               PROVE  client[s].msgs[i].flags = Told(s, client[s].msgs[i].uid)
    BY DEF ClientFlagsCurrent
  <2>1. client[s] \in ClientType /\ FlagsKnown(sess[s], client[s], messages)
    BY DEF FlagsInv, ClientInv
  <2>2. i \in 1..Len(client[s].msgs)
    BY <2>1 DEF ClientType
  <2> QED  BY <2>1, <2>2 DEF FlagsKnown, Heard, LastTold, Told
<1> QED  BY <1>1, <1>2, FlagsInit, PTL DEF Spec

=============================================================================
