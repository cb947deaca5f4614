---------------------------- MODULE AccountProofs ----------------------------
(***************************************************************************)
(* Proofs about what the connections of a user share besides messages: the *)
(* lock file, for any set of processes and any number of retries; the      *)
(* Sieve scripts, for any names and any number of scripts stored; the      *)
(* user, for any set of requests and any number of versions; and the       *)
(* mailboxes by name, for any names and sessions.                          *)
(***************************************************************************)
EXTENDS FileLock, Names, Filters, Users, FiniteSetTheorems, FunctionTheorems,
        SequenceTheorems, WellFoundedInduction, TLAPS

-----------------------------------------------------------------------------
(* The lock file. *)

\* No process is in a new lock, and there is no file.
LEMMA LockInit == Init => LockFileInv
<1> SUFFICES ASSUME Init PROVE LockFileInv
  OBVIOUS
<1>1. Inside = {}
  BY DEF Init, Inside
<1>2. TypeOK
  <2>1. tries \in [Process -> 0..Retries]
    BY RetriesAssumption DEF Init
  <2>2. pc \in [Process -> Place] /\ kind \in [Process -> {"read", "write"}]
    BY DEF Init, Place
  <2>3. file \in FileType /\ crashed \in BOOLEAN /\ raced \in BOOLEAN
    BY DEF Init, FileType
  <2> QED  BY <2>1, <2>2, <2>3 DEF TypeOK
<1> QED  BY <1>1, <1>2 DEF Init, LockFileInv, OnlyWritersTry, FileHasHolder, NoFile

\* stat() changes no file and lets no writer in.
LEMMA CallStep ==
    ASSUME LockFileInv, NEW p \in Process, NEW k \in {"read", "write"}, Call(p, k)
    PROVE  LockFileInv'
<1>1. PICK to \in {"in", "try", "stale", "sleep"} :
          /\ pc' = [pc EXCEPT ![p] = to] /\ kind' = [kind EXCEPT ![p] = k]
          /\ to = "in" => k = "read"
          /\ to = "try" => k = "write"
          /\ to = "stale" => file.state = "expired"
  BY DEF Call, Goto, Absent
<1>2. TypeOK'
  BY <1>1, RetriesAssumption DEF LockFileInv, TypeOK, Call, Place
<1>3. Inside' = Inside /\ file' = file /\ raced' = raced /\ crashed' = crashed
  BY <1>1 DEF Call, Inside, LockFileInv, TypeOK
<1>4. ~crashed => \A q \in Process : pc'[q] # "stale"
  BY <1>1 DEF LockFileInv, TypeOK
<1>5. OnlyWritersTry'
  BY <1>1 DEF LockFileInv, OnlyWritersTry, TypeOK
<1> QED  BY <1>2, <1>3, <1>4, <1>5 DEF LockFileInv, FileHasHolder

\* A file is broken only after a crash, and if it is a live writer's the lock
\* has been raced.
LEMMA BreakStep ==
    ASSUME LockFileInv, NEW p \in Process, Break(p)
    PROVE  LockFileInv'
<1>1. PICK to \in {"in", "try"} :
          pc' = [pc EXCEPT ![p] = to] /\ (to = "in" <=> kind[p] = "read")
  BY DEF Break, Goto, Absent
<1>2. TypeOK'
  BY <1>1 DEF LockFileInv, TypeOK, Break, Place, FileType
<1>3. Inside' = Inside
  BY <1>1 DEF Break, Inside, LockFileInv, TypeOK
<1>4. crashed /\ crashed' = crashed
  BY DEF LockFileInv, Break
<1>5. ~raced' => Inside' = {}
  <2>1. ~raced' => ~raced /\ file.state # "held"
    BY DEF Break
  <2>2. ~raced /\ file.state # "held" => Inside = {}
    BY DEF LockFileInv
  <2> QED  BY <1>3, <2>1, <2>2
<1>6. OnlyWritersTry'
  BY <1>1 DEF LockFileInv, OnlyWritersTry, TypeOK, Break
<1> QED  BY <1>2, <1>4, <1>5, <1>6 DEF LockFileInv, FileHasHolder, Break, NoFile

\* Where the file is made, whether by the first attempt or a later one, there is
\* none: nobody else is inside unless the lock has been raced.
LEMMA MadeStep ==
    ASSUME LockFileInv, NEW p \in Process,
           pc[p] \in {"try", "sleep"}, kind[p] = "write", file = NoFile,
           file' = [by |-> p, state |-> "held"], pc' = [pc EXCEPT ![p] = "in"],
           UNCHANGED <<kind, tries, crashed, raced>>
    PROVE  LockFileInv'
<1>1. TypeOK'
  BY DEF LockFileInv, TypeOK, Place, FileType
<1>2. Inside' = Inside \cup {p}
  BY DEF Inside, LockFileInv, TypeOK
<1>3. ~raced => Inside = {}
  BY DEF LockFileInv, NoFile
<1>4. FileHasHolder'
  BY <1>2 DEF FileHasHolder
<1>5. ~crashed => \A q \in Process : pc'[q] # "stale"
  BY DEF LockFileInv, TypeOK
<1>6. OnlyWritersTry'
  BY DEF LockFileInv, OnlyWritersTry, TypeOK
<1> QED  BY <1>1, <1>2, <1>3, <1>4, <1>5, <1>6 DEF LockFileInv

\* Waiting, giving up and a reader's steps leave the file and the writers alone.
LEMMA OtherStep ==
    ASSUME LockFileInv, NEW p \in Process, NEW to \in Place \ {"stale", "try"},
           pc' = [pc EXCEPT ![p] = to], p \notin Inside,
           to = "in" => kind[p] = "read", tries' \in [Process -> 0..Retries],
           UNCHANGED <<kind, file, crashed, raced>>
    PROVE  LockFileInv'
<1>1. TypeOK'
  BY DEF LockFileInv, TypeOK
<1>2. Inside' = Inside
  BY DEF Inside, LockFileInv, TypeOK
<1>3. ~crashed => \A q \in Process : pc'[q] # "stale"
  BY DEF LockFileInv, TypeOK
<1>4. OnlyWritersTry'
  BY DEF LockFileInv, OnlyWritersTry, TypeOK
<1> QED  BY <1>1, <1>2, <1>3, <1>4 DEF LockFileInv, FileHasHolder

\* A writer that leaves its block, alive or dead, was alone in it and takes its
\* own file away, or leaves it behind, unless the lock has been raced.
LEMMA LeaveStep ==
    ASSUME LockFileInv, NEW p \in Process, p \in Inside, Release(p) \/ Crash(p)
    PROVE  LockFileInv'
<1>1. pc' = [pc EXCEPT ![p] = "out"] /\ kind' = kind /\ tries' = tries
  BY DEF Release, Crash, Goto
<1>2. Inside' = Inside \ {p}
  BY <1>1 DEF Inside, LockFileInv, TypeOK
<1>3. ~raced => file = [by |-> p, state |-> "held"] /\ Inside' = {}
  BY <1>2 DEF LockFileInv
<1>0. OnlyWritersTry'
  BY <1>1 DEF LockFileInv, OnlyWritersTry, TypeOK
<1>4. CASE Release(p)
  <2>1. /\ file' = NoFile /\ crashed' = crashed
        /\ raced' = (raced \/ (file.state = "held" /\ file.by # p))
    BY <1>4 DEF Release, Inside
  <2>2. raced' = raced
    BY <1>3, <2>1 DEF LockFileInv, TypeOK
  <2>3. TypeOK'
    BY <1>1, <2>1 DEF LockFileInv, TypeOK, Place, FileType
  <2>4. ~crashed => \A q \in Process : pc'[q] # "stale"
    BY <1>1 DEF LockFileInv, TypeOK
  <2> QED  BY <1>0, <1>3, <2>1, <2>2, <2>3, <2>4 DEF LockFileInv, FileHasHolder, NoFile
<1>5. CASE Crash(p)
  <2>1. /\ file' = IF file.by = p THEN [file EXCEPT !.state = "left"] ELSE file
        /\ crashed' = TRUE /\ raced' = raced
    BY <1>5 DEF Crash
  <2>2. file' \in FileType
    BY <2>1 DEF LockFileInv, TypeOK, FileType, NoFile
  <2>3. TypeOK'
    BY <1>1, <2>1, <2>2 DEF LockFileInv, TypeOK, Place
  <2>4. FileHasHolder'
    BY <1>2, <2>1 DEF LockFileInv, TypeOK, FileType, FileHasHolder, NoFile
  <2> QED  BY <1>0, <1>3, <2>1, <2>3, <2>4 DEF LockFileInv
<1> QED  BY <1>4, <1>5

\* Only a file that is left over ages.
LEMMA ExpireStep == ASSUME LockFileInv, Expire PROVE LockFileInv'
<1>1. file.state = "left" /\ file'.state = "expired" /\ file' \in FileType
  BY DEF Expire, LockFileInv, TypeOK, FileType, NoFile
<1>2. Inside' = Inside /\ pc' = pc /\ UNCHANGED <<kind, tries, crashed, raced>>
  BY DEF Expire, Inside
<1>3. crashed /\ (~raced => Inside = {})
  BY <1>1 DEF LockFileInv
<1> QED  BY <1>1, <1>2, <1>3 DEF LockFileInv, TypeOK, OnlyWritersTry, FileHasHolder

\* A writer at its first attempt makes the file if there is none.
LEMMA TryStep ==
    ASSUME LockFileInv, NEW p \in Process, Try(p)
    PROVE  LockFileInv'
<1>1. pc[p] = "try" /\ kind[p] = "write" /\ p \notin Inside /\ TypeOK /\ tries' \in [Process -> 0..Retries]
  BY DEF Try, Inside, LockFileInv, TypeOK, OnlyWritersTry
<1>2. CASE file = NoFile
  BY <1>1, <1>2, MadeStep DEF Try, Goto
<1>3. CASE file # NoFile
  <2>1. pc' = [pc EXCEPT ![p] = "sleep"] /\ UNCHANGED <<kind, file, crashed, raced>>
    BY <1>3 DEF Try, Goto
  <2>2. "sleep" \in Place \ {"stale", "try"} /\ "sleep" # "in"
    BY DEF Place
  <2> QED  BY <1>1, <2>1, <2>2, OtherStep
<1> QED  BY <1>2, <1>3

\* Each round of the loop makes the file, lets a reader in, or changes nothing.
LEMMA RetryStep ==
    ASSUME LockFileInv, NEW p \in Process, Retry(p)
    PROVE  LockFileInv'
<1>1. pc[p] = "sleep" /\ p \notin Inside /\ kind[p] \in {"read", "write"}
  BY DEF Retry, Inside, LockFileInv, TypeOK
<1>2. tries \in [Process -> 0..Retries] /\ TypeOK
  BY DEF LockFileInv, TypeOK
<1>3. CASE tries[p] > 0 /\ file = NoFile
  <2>1. pc' = [pc EXCEPT ![p] = "in"] /\ UNCHANGED <<kind, tries, crashed, raced>>
    BY <1>2, <1>3 DEF Retry, Goto
  <2>2. file' = IF kind[p] = "read" THEN NoFile ELSE [by |-> p, state |-> "held"]
    BY <1>2, <1>3 DEF Retry
  <2>3. CASE kind[p] = "read"
    BY <1>1, <1>2, <1>3, <2>1, <2>2, <2>3, OtherStep DEF Place
  <2>4. CASE kind[p] = "write"
    BY <1>1, <1>3, <2>1, <2>2, <2>4, MadeStep
  <2> QED  BY <1>1, <2>3, <2>4
<1>4. CASE tries[p] > 0 /\ file # NoFile
  <2>1. tries' = [tries EXCEPT ![p] = @ - 1] /\ UNCHANGED <<pc, kind, file, crashed, raced>>
    BY <1>2, <1>4 DEF Retry
  <2>2. tries' \in [Process -> 0..Retries]
    <3>1. tries[p] - 1 \in 0..Retries
      BY <1>2, <1>4, RetriesAssumption
    <3> QED  BY <1>2, <2>1, <3>1
  <2>3. TypeOK'
    BY <1>2, <2>1, <2>2 DEF TypeOK
  <2> QED  BY <2>1, <2>3 DEF LockFileInv, OnlyWritersTry, FileHasHolder, Inside
<1>5. CASE tries[p] = 0
  <2>1. pc' = [pc EXCEPT ![p] = "out"] /\ UNCHANGED <<kind, tries, file, crashed, raced>>
    BY <1>2, <1>5 DEF Retry, Goto
  <2> QED  BY <1>1, <1>2, <2>1, OtherStep DEF Place
<1>6. tries[p] \in Nat
  BY <1>2, RetriesAssumption
<1> QED  BY <1>3, <1>4, <1>5, <1>6

\* Every system call keeps the invariant.
LEMMA LockStep == LockFileInv /\ [Next]_vars => LockFileInv'
<1> SUFFICES ASSUME LockFileInv, [Next]_vars PROVE LockFileInv'
  OBVIOUS
<1>1. CASE UNCHANGED vars
  BY <1>1 DEF vars, LockFileInv, TypeOK, OnlyWritersTry, FileHasHolder, Inside
<1>2. CASE Expire
  BY <1>2, ExpireStep
<1>3. CASE \E p \in Process, k \in {"read", "write"} : Call(p, k)
  BY <1>3, CallStep
<1>4. CASE \E p \in Process : Break(p) \/ Try(p) \/ Retry(p)
  BY <1>4, BreakStep, TryStep, RetryStep
<1>5. CASE \E p \in Process : Release(p) /\ kind[p] = "read"
  <2>1. PICK p \in Process : Release(p) /\ kind[p] = "read"
    BY <1>5
  <2>2. pc' = [pc EXCEPT ![p] = "out"] /\ UNCHANGED <<kind, tries, file, crashed, raced>>
    BY <2>1 DEF Release, Goto
  <2>3. p \notin Inside /\ tries' \in [Process -> 0..Retries]
    BY <2>1, <2>2 DEF Inside, LockFileInv, TypeOK
  <2>4. "out" \in Place \ {"stale", "try"} /\ "out" # "in"
    BY DEF Place
  <2> QED  BY <2>2, <2>3, <2>4, OtherStep
<1>6. CASE \E p \in Process : (Release(p) \/ Crash(p)) /\ kind[p] = "write"
  BY <1>6, LeaveStep DEF Release, Crash, Inside
<1>7. \A p \in Process : kind[p] \in {"read", "write"} /\ (Crash(p) => kind[p] = "write")
  BY DEF LockFileInv, TypeOK, Crash, Inside
<1> QED  BY <1>1, <1>2, <1>3, <1>4, <1>5, <1>6, <1>7 DEF Next

\* Whatever the processes do, and whenever they die, a lock file that is not left
\* over has a living holder.
THEOREM LockFileCorrect == Spec => []LockFileInv
<1> QED  BY LockInit, LockStep, PTL DEF Spec

\* Writers in different processes exclude each other until the file of a live
\* one is unlinked; no file is while no writer has died.
THEOREM FileExclusionCorrect == Spec => [](ExclusiveUnlessRaced /\ ExclusiveWithoutCrash)
<1>1. LockFileInv => ExclusiveUnlessRaced /\ ExclusiveWithoutCrash
  <2> SUFFICES ASSUME LockFileInv, ~raced \/ ~crashed
               PROVE  Cardinality(Inside) <= 1
    BY DEF ExclusiveUnlessRaced, ExclusiveWithoutCrash
  <2>1. \A p \in Inside : file.by = p
    BY DEF LockFileInv
  <2>2. Inside = {} \/ Inside = {file.by}
    BY <2>1
  <2>3. Cardinality({}) = 0 /\ Cardinality({file.by}) = 1
    BY FS_EmptySet, FS_Singleton
  <2> QED  BY <2>2, <2>3
<1> QED  BY <1>1, LockFileCorrect, PTL

-----------------------------------------------------------------------------
(* The Sieve scripts. *)

\* No script, and none active.
LEMMA ScriptsStart == ScriptsInit => ScriptsInv
<1> SUFFICES ASSUME ScriptsInit PROVE ScriptsInv
  OBVIOUS
<1>1. DOMAIN names = {}
  BY DEF ScriptsInit
<1>2. store \in {"dict", "redis"} /\ active = {} /\ puts = 0 /\ outdated = FALSE
  BY DEF ScriptsInit
<1> QED  BY <1>1, <1>2 DEF ScriptsInv

\* PUTSCRIPT stores a script under a key that no name has.
LEMMA PutStep == ASSUME ScriptsInv, NEW n \in ScriptName, Put(n) PROVE ScriptsInv'
<1>1. /\ puts' = puts + 1 /\ puts \in Nat
      /\ names' = [m \in DOMAIN names \cup {n} |-> IF m = n THEN puts' ELSE names[m]]
      /\ scripts' = IF store = "dict" THEN Range(names') ELSE scripts \cup {puts'}
      /\ outdated' = (outdated \/ IsActive(n))
      /\ UNCHANGED <<store, active>> /\ store \in {"dict", "redis"}
  BY DEF Put, ScriptsInv
<1>2. \A m \in DOMAIN names' : names'[m] \in 1..puts' /\ names'[m] \in scripts'
  BY <1>1 DEF ScriptsInv, Range
<1>3. \A l, m \in DOMAIN names' : names'[l] = names'[m] => l = m
  BY <1>1 DEF ScriptsInv
<1>4. store = "dict" => active' \subseteq DOMAIN names'
  BY <1>1 DEF ScriptsInv
<1>5. outdated' \in BOOLEAN
  BY <1>1 DEF ScriptsInv, IsActive
<1>6. ASSUME store = "redis"
      PROVE  /\ active' \subseteq scripts'
             /\ outdated' \/ \A k \in active' : \E m \in DOMAIN names' : names'[m] = k
  <2>1. active' \subseteq scripts'
    BY <1>1, <1>6 DEF ScriptsInv
  <2>2. ASSUME ~outdated', NEW k \in active'
        PROVE  \E m \in DOMAIN names' : names'[m] = k
    <3>1. ~outdated /\ ~IsActive(n) /\ k \in active
      BY <1>1, <2>2
    <3>2. PICK m \in DOMAIN names : names[m] = k
      BY <1>6, <3>1 DEF ScriptsInv
    <3>3. m # n
      BY <1>6, <3>1, <3>2 DEF IsActive
    <3> QED  BY <1>1, <3>2, <3>3
  <2> QED  BY <2>1, <2>2
<1>7. store' \in {"dict", "redis"} /\ puts' \in Nat /\ store' = store
  BY <1>1
<1> QED  BY <1>2, <1>3, <1>4, <1>5, <1>6, <1>7 DEF ScriptsInv

\* DELETESCRIPT takes a script away that is not active, and that no other name
\* has.
LEMMA DeleteScriptStep == ASSUME ScriptsInv, NEW n \in ScriptName, DeleteScript(n) PROVE ScriptsInv'
<1>1. /\ n \in DOMAIN names /\ ~IsActive(n)
      /\ names' = [m \in DOMAIN names \ {n} |-> names[m]]
      /\ scripts' = scripts \ {names[n]}
      /\ UNCHANGED <<store, active, puts, outdated>>
  BY DEF DeleteScript
<1>2. \A m \in DOMAIN names' : names'[m] \in 1..puts' /\ names'[m] \in scripts'
  BY <1>1 DEF ScriptsInv
<1>3. store = "dict" => active' \subseteq DOMAIN names'
  BY <1>1 DEF ScriptsInv, IsActive
<1>4. store = "redis" => /\ active' \subseteq scripts'
                         /\ outdated' \/ \A k \in active' : \E m \in DOMAIN names' : names'[m] = k
  BY <1>1 DEF ScriptsInv, IsActive
<1> QED  BY <1>1, <1>2, <1>3, <1>4 DEF ScriptsInv

\* RENAMESCRIPT moves a key to a name that is not there, and the active name of
\* the dict backend with it.
LEMMA RenameStep ==
    ASSUME ScriptsInv, NEW before \in ScriptName, NEW after \in ScriptName, Rename(before, after)
    PROVE  ScriptsInv'
<1>1. /\ before \in DOMAIN names /\ after \notin DOMAIN names
      /\ names' = [n \in (DOMAIN names \ {before}) \cup {after} |->
                     IF n = after THEN names[before] ELSE names[n]]
      /\ active' = IF store = "dict" /\ before \in active THEN {after} ELSE active
      /\ UNCHANGED <<store, scripts, puts, outdated>>
  BY DEF Rename
<1>2. \A m \in DOMAIN names' : names'[m] \in 1..puts' /\ names'[m] \in scripts'
  BY <1>1 DEF ScriptsInv
<1>3. \A l, m \in DOMAIN names' : names'[l] = names'[m] => l = m
  BY <1>1 DEF ScriptsInv
<1>4. store = "dict" => active' \subseteq DOMAIN names'
  BY <1>1 DEF ScriptsInv
<1>5. ASSUME store = "redis", NEW k \in active, NEW m \in DOMAIN names, names[m] = k
      PROVE  \E l \in DOMAIN names' : names'[l] = k
  <2>1. CASE m = before
    BY <1>1, <1>5, <2>1
  <2>2. CASE m # before
    BY <1>1, <1>5, <2>2
  <2> QED  BY <2>1, <2>2
<1>6. store = "redis" => /\ active' \subseteq scripts'
                         /\ outdated' \/ \A k \in active' : \E m \in DOMAIN names' : names'[m] = k
  BY <1>1, <1>5 DEF ScriptsInv
<1> QED  BY <1>1, <1>2, <1>3, <1>4, <1>6 DEF ScriptsInv

\* Every operation on scripts keeps the invariant.
LEMMA ScriptsStep == ScriptsInv /\ [ScriptsNext]_scriptVars => ScriptsInv'
<1> SUFFICES ASSUME ScriptsInv, [ScriptsNext]_scriptVars PROVE ScriptsInv'
  OBVIOUS
<1>1. CASE UNCHANGED scriptVars
  BY <1>1 DEF scriptVars, ScriptsInv
<1>2. CASE \E n \in ScriptName : Put(n) \/ DeleteScript(n)
  BY <1>2, PutStep, DeleteScriptStep
<1>3. CASE \E n \in ScriptName : SetActive(n)
  BY <1>3 DEF SetActive, ScriptsInv
<1>4. CASE \E before, after \in ScriptName : Rename(before, after)
  BY <1>4, RenameStep
<1>5. CASE ClearActive
  BY <1>5 DEF ClearActive, ScriptsInv
<1> QED  BY <1>1, <1>2, <1>3, <1>4, <1>5 DEF ScriptsNext

\* In both backends the active script is there whenever a message is delivered.
THEOREM DeliveryFindsScript == ScriptsSpec => []ActiveReadable
<1>1. ScriptsInv => ActiveReadable
  BY DEF ScriptsInv, ActiveReadable, GetActive
<1> QED  BY <1>1, ScriptsStart, ScriptsStep, PTL DEF ScriptsSpec

\* The script that delivery runs is the one that is listed as active, but for a
\* script of the redis backend put again since it was made active.
THEOREM ListedScriptRuns == ScriptsSpec => []ActiveShown
<1>1. ScriptsInv => ActiveShown
  BY DEF ScriptsInv, ActiveShown, GetActive, ActiveName, IsActive
<1> QED  BY <1>1, ScriptsStart, ScriptsStep, PTL DEF ScriptsSpec

-----------------------------------------------------------------------------
(* The user and its version. *)

\* There is no user and no request.
LEMMA WatchInit == UsersInit => WatchInv
BY DEF UsersInit, WatchInv, NoLostUpdate

\* What a write leaves of the requests: they all know of it.
LEMMA BrokenType ==
    ASSUME WatchInv, NEW a \in Admin
    PROVE  Broken[a] \in SUBSET [named : Named, broken : {TRUE}]
<1> SUFFICES ASSUME NEW p \in pending[a]
             PROVE  [p EXCEPT !.broken = TRUE] \in [named : Named, broken : {TRUE}]
  BY DEF Broken
<1>1. p \in [named : Named, broken : BOOLEAN]
  BY DEF WatchInv
<1> QED  BY <1>1

\* A write, by whatever request, breaks every WATCH there is.
LEMMA WriteStep ==
    ASSUME WatchInv, NEW named, version # 0 => CanReplace(named, version), Store(named),
           NEW S \in SUBSET Admin,
           pending' = [a \in Admin |-> IF a \in S THEN {} ELSE Broken[a]],
           users' = "redis"
    PROVE  WatchInv'
<1>1. replaced' = <<version, named>>
  BY DEF Store
<1>2. NoLostUpdate'
  BY <1>1 DEF NoLostUpdate, CanReplace, ReplaceAny
<1>3. \A a \in Admin : pending'[a] \in SUBSET [named : Named, broken : {TRUE}]
  BY BrokenType
<1> QED  BY <1>2, <1>3 DEF WatchInv

\* set of the redis backend, up to its transaction: the version is compared.
LEMMA WatchStep ==
    ASSUME WatchInv, NEW a \in Admin, NEW named \in Named, Watch(a, named)
    PROVE  WatchInv'
BY DEF WatchInv, Watch, NoLostUpdate, CanReplace, ReplaceAny

\* EXEC: a write if the WATCH is not broken.
LEMMA ExecuteStep ==
    ASSUME WatchInv, NEW a \in Admin, Execute(a)
    PROVE  WatchInv'
<1>1. PICK p \in pending[a] :
         IF p.broken
         THEN pending' = [pending EXCEPT ![a] = {}] /\ UNCHANGED <<version, tag, replaced>>
         ELSE Store(p.named) /\ pending' = [Broken EXCEPT ![a] = {}]
  BY DEF Execute
<1>2. CASE p.broken
  BY <1>1, <1>2 DEF Execute, WatchInv, NoLostUpdate, CanReplace, ReplaceAny
<1>3. CASE ~p.broken
  <2>1. pending' = [b \in Admin |-> IF b \in {a} THEN {} ELSE Broken[b]]
    BY <1>1, <1>3 DEF Broken
  <2>2. version # 0 => CanReplace(p.named, version)
    BY <1>3 DEF WatchInv
  <2>3. users' = "redis"
    BY DEF Execute, WatchInv
  <2> QED  BY <1>1, <1>3, <2>1, <2>2, <2>3, WriteStep
<1> QED  BY <1>2, <1>3

\* A deletion breaks every WATCH, too.
LEMMA DeleteUserStep == ASSUME WatchInv, DeleteUser PROVE WatchInv'
<1>1. \A a \in Admin : pending'[a] \in SUBSET [named : Named, broken : {TRUE}]
  BY BrokenType DEF DeleteUser
<1>2. pending' \in [Admin -> SUBSET [named : Named, broken : BOOLEAN]]
  BY <1>1 DEF DeleteUser, Broken
<1>3. NoLostUpdate'
  BY DEF DeleteUser, NoLostUpdate, CanReplace, ReplaceAny, WatchInv
<1>4. users' # "redis" => \A a \in Admin : pending'[a] = {}
  BY DEF DeleteUser, Broken, WatchInv
<1> QED  BY <1>1, <1>2, <1>3, <1>4 DEF WatchInv

\* The requests of the backends without WATCH have none pending.
LEMMA StepKeeps == WatchInv /\ [UsersNext]_userVars => WatchInv'
<1> SUFFICES ASSUME WatchInv, [UsersNext]_userVars PROVE WatchInv'
  OBVIOUS
<1>1. CASE UNCHANGED userVars
  BY <1>1 DEF userVars, WatchInv, NoLostUpdate, CanReplace, ReplaceAny
<1>2. CASE \E a \in Admin : Execute(a)
  BY <1>2, ExecuteStep
<1>3. CASE \E a \in Admin, named \in Named : Watch(a, named)
  BY <1>3, WatchStep
<1>4. CASE DeleteUser
  BY <1>4, DeleteUserStep
<1>5. CASE \E a \in Admin : Lose(a)
  BY <1>5 DEF Lose, WatchInv, NoLostUpdate, CanReplace, ReplaceAny
<1>6. CASE Overwrite \/ \E named \in Named : Set(named)
  <2>1. PICK named : CanReplace(named, version) /\ replaced' = <<version, named>>
    BY <1>6 DEF Overwrite, Set, Store, CanReplace
  <2>2. UNCHANGED <<users, pending>> /\ users # "redis"
    BY <1>6 DEF Overwrite, Set
  <2>3. NoLostUpdate'
    BY <2>1 DEF NoLostUpdate, CanReplace, ReplaceAny
  <2> QED  BY <2>2, <2>3 DEF WatchInv
<1> QED  BY <1>1, <1>2, <1>3, <1>4, <1>5, <1>6 DEF UsersNext

\* Two SetUser requests that name the same version do not undo one another: the
\* second finds that the version is not the one it names.
THEOREM UpdatesKept == UsersSpec => []NoLostUpdate
<1>1. WatchInv => NoLostUpdate
  BY DEF WatchInv
<1> QED  BY <1>1, WatchInit, StepKeeps, PTL DEF UsersSpec

-----------------------------------------------------------------------------
(* The mailboxes by name. *)

\* A client's knowledge stays true if the names whose mailbox changes are given
\* new numbers.
LEMMA SeenKeeps ==
    ASSUME NamesInv, backend = "redis", NEW G \in SUBSET Name,
           backend' = backend, seen' = seen \cup Get',
           validity' = [n \in Name |-> IF n \in G THEN validity[n] + 1 ELSE validity[n]],
           DOMAIN boxes' \subseteq Name,
           \A n \in DOMAIN boxes' \ G : n \in DOMAIN boxes /\ boxes'[n] = boxes[n]
    PROVE  validity' \in [Name -> Nat] /\ SeenOK' /\ ValidityNamesOne'
<1>1. NamesOK /\ SeenOK /\ ValidityNamesOne /\ validity \in [Name -> Nat]
  BY DEF NamesInv, NamesOK
<1>2. validity' \in [Name -> Nat]
  BY <1>1
<1>3. ASSUME NEW x \in Get'
      PROVE  /\ x[1] \in DOMAIN boxes' /\ x[1] \in Name
             /\ x[2] = validity'[x[1]] /\ x[3] = boxes'[x[1]]
             /\ x[1] \in G \/ x \in seen
  <2>1. PICK n \in DOMAIN boxes' : x = <<n, validity'[n], boxes'[n]>>
    BY DEF Get
  <2>2. x[1] = n /\ x[2] = validity'[n] /\ x[3] = boxes'[n] /\ n \in Name
    BY <2>1
  <2>3. ASSUME n \notin G PROVE x \in seen
    <3>1. n \in DOMAIN boxes /\ boxes'[n] = boxes[n] /\ validity'[n] = validity[n]
      BY <2>2, <2>3
    <3>2. <<n, validity[n], boxes[n]>> \in Get
      BY <3>1 DEF Get
    <3> QED  BY <1>1, <2>1, <3>1, <3>2 DEF SeenOK
  <2> QED  BY <2>2, <2>3
<1>4. ASSUME NEW x \in seen
      PROVE  /\ x[1] \in Name /\ x[2] \in Nat /\ x[2] <= validity'[x[1]]
             /\ x[1] \in DOMAIN boxes' /\ x[2] = validity'[x[1]] => x[3] = boxes'[x[1]]
  <2>1. /\ x[1] \in Name /\ x[2] \in Nat /\ x[2] <= validity[x[1]]
        /\ x[1] \in DOMAIN boxes /\ x[2] = validity[x[1]] => x[3] = boxes[x[1]]
    BY <1>1 DEF SeenOK
  <2>2. validity[x[1]] \in Nat
    BY <1>1, <2>1
  <2>3. CASE x[1] \in G
    <3>1. validity'[x[1]] = validity[x[1]] + 1
      BY <2>1, <2>3
    <3> QED  BY <2>1, <2>2, <3>1
  <2>4. CASE x[1] \notin G
    <3>1. validity'[x[1]] = validity[x[1]]
      BY <2>1, <2>4
    <3>2. x[1] \in DOMAIN boxes' => x[1] \in DOMAIN boxes /\ boxes'[x[1]] = boxes[x[1]]
      BY <2>4
    <3> QED  BY <2>1, <3>1, <3>2
  <2> QED  BY <2>3, <2>4
<1>5. \A x \in seen' :
          /\ x[1] \in Name /\ x[2] \in Nat /\ x[2] <= validity'[x[1]]
          /\ x[1] \in DOMAIN boxes' /\ x[2] = validity'[x[1]] => x[3] = boxes'[x[1]]
  <2>1. ASSUME NEW x \in Get' PROVE x[1] \in Name /\ x[2] \in Nat /\ x[2] <= validity'[x[1]]
    <3>1. x[1] \in Name /\ x[2] = validity'[x[1]]
      BY <1>3
    <3>2. validity'[x[1]] \in Nat
      BY <1>2, <3>1
    <3> QED  BY <3>1, <3>2
  <2>2. ASSUME NEW x \in Get' PROVE x[3] = boxes'[x[1]]
    BY <1>3
  <2> QED  BY <1>4, <2>1, <2>2
<1>6. SeenOK'
  BY <1>5 DEF SeenOK
<1>7. ASSUME NEW x \in seen', NEW y \in seen', x[1] = y[1], x[2] = y[2] PROVE x[3] = y[3]
  <2>1. CASE x \in seen /\ y \in seen
    BY <1>1, <1>7, <2>1 DEF ValidityNamesOne
  <2>2. CASE x \in Get'
    BY <1>3, <1>5, <1>7, <2>2
  <2>3. CASE y \in Get'
    BY <1>3, <1>5, <1>7, <2>3
  <2> QED  BY <2>1, <2>2, <2>3
<1> QED  BY <1>2, <1>6, <1>7 DEF ValidityNamesOne

\* HINCRBY of the numbers of names.
LEMMA RenumberGives ==
    ASSUME backend = "redis", NEW G, Renumber(G), validity \in [Name -> Nat]
    PROVE  validity' = [n \in Name |-> IF n \in G THEN validity[n] + 1 ELSE validity[n]]
<1>1. \A n \in Name : validity[n] + (IF backend = "redis" /\ n \in G THEN 1 ELSE 0)
                          = IF n \in G THEN validity[n] + 1 ELSE validity[n]
  OBVIOUS
<1> QED  BY <1>1 DEF Renumber

\* The new name of a mailbox is made of one old name.
LEMMA MovedFrom ==
    ASSUME NEW r, NEW n \in DOMAIN New(r)
    PROVE  \E m \in DOMAIN r.moved : Renamed(m, r.before, r.after) = n /\ New(r)[n] = r.moved[m]
<1> DEFINE moved == DOMAIN r.moved
           From(k) == CHOOSE m \in moved : Renamed(m, r.before, r.after) = k
           new == {Renamed(m, r.before, r.after) : m \in moved}
<1>1. New(r) = [k \in (DOMAIN r.moved \ moved) \cup new |-> IF k \in new THEN r.moved[From(k)] ELSE r.moved[k]]
  BY DEF New, Moved
<1>2. n \in new /\ New(r)[n] = r.moved[From(n)]
  BY <1>1
<1>3. From(n) \in moved /\ Renamed(From(n), r.before, r.after) = n
  BY <1>2
<1> QED  BY <1>2, <1>3

LEMMA CreateKeeps ==
    ASSUME NamesInv, backend = "redis", NEW n \in Name, Create(n), seen' = seen \cup Get'
    PROVE  NamesInv'
<1>1. NamesOK /\ ReadingOK /\ OrderOK
  BY DEF NamesInv
<1>2. /\ n \notin DOMAIN boxes /\ made' = made + 1 /\ order' = order \cup {made'}
      /\ boxes' = [m \in DOMAIN boxes \cup {n} |-> IF m = n THEN made' ELSE boxes[m]]
      /\ Renumber({n})
      /\ backend' = backend /\ reading' = reading /\ remade' = remade /\ overtaken' = overtaken
  BY DEF Create
<1>3. validity' = [m \in Name |-> IF m \in {n} THEN validity[m] + 1 ELSE validity[m]]
  BY <1>1, <1>2, RenumberGives DEF NamesOK
<1>4. DOMAIN boxes' = DOMAIN boxes \cup {n} /\ boxes'[n] = made + 1
      /\ \A m \in DOMAIN boxes : boxes'[m] = boxes[m]
  BY <1>2
<1>5. validity' \in [Name -> Nat] /\ SeenOK' /\ ValidityNamesOne'
  <2>1. DOMAIN boxes' \subseteq Name
    BY <1>1, <1>4 DEF NamesOK
  <2>2. \A m \in DOMAIN boxes' \ {n} : m \in DOMAIN boxes /\ boxes'[m] = boxes[m]
    BY <1>4
  <2>3. {n} \in SUBSET Name
    OBVIOUS
  <2> QED  BY <1>2, <1>3, <2>1, <2>2, <2>3, SeenKeeps
<1>6. made \in Nat /\ made' \in Nat /\ made' \in 1..made' /\ 1..made \subseteq 1..made' /\ made' \notin 1..made
  BY <1>1, <1>2 DEF NamesOK
<1>7. NamesOK'
  BY <1>1, <1>2, <1>4, <1>5, <1>6 DEF NamesOK
<1>8. ReadingOK'
  BY <1>1, <1>2, <1>6 DEF ReadingOK
<1>9. OrderOK'
  <2> SUFFICES ASSUME ~overtaken
               PROVE  /\ \A k, m \in DOMAIN boxes' : boxes'[k] = boxes'[m] => k = m
                      /\ \A m \in DOMAIN boxes' : boxes'[m] \in order' \cup remade'
    BY <1>2 DEF OrderOK
  <2>1. /\ \A k, m \in DOMAIN boxes : boxes[k] = boxes[m] => k = m
        /\ \A m \in DOMAIN boxes : boxes[m] \in order \cup remade /\ boxes[m] # made'
    BY <1>1, <1>6 DEF OrderOK, NamesOK
  <2>2. boxes'[n] = made'
    BY <1>2
  <2> QED  BY <1>2, <1>4, <2>1, <2>2
<1> QED  BY <1>2, <1>5, <1>7, <1>8, <1>9 DEF NamesInv

LEMMA DeleteKeeps ==
    ASSUME NamesInv, backend = "redis", NEW n \in Name, Delete(n), seen' = seen \cup Get'
    PROVE  NamesInv'
<1>1. NamesOK /\ ReadingOK /\ OrderOK
  BY DEF NamesInv
<1>2. /\ n \in DOMAIN boxes /\ n # Inbox /\ made' = made /\ order' = order \ {boxes[n]}
      /\ boxes' = [m \in DOMAIN boxes \ {n} |-> boxes[m]]
      /\ backend' = backend /\ reading' = reading /\ remade' = remade /\ overtaken' = overtaken
      /\ validity' = validity
  BY DEF Delete
<1>3. validity' = [m \in Name |-> IF m \in {} THEN validity[m] + 1 ELSE validity[m]]
  BY <1>1, <1>2 DEF NamesOK
<1>4. DOMAIN boxes' = DOMAIN boxes \ {n} /\ \A m \in DOMAIN boxes' : boxes'[m] = boxes[m]
  BY <1>2
<1>5. validity' \in [Name -> Nat] /\ SeenOK' /\ ValidityNamesOne'
  <2>1. DOMAIN boxes' \subseteq Name
    BY <1>1, <1>4 DEF NamesOK
  <2>2. \A m \in DOMAIN boxes' \ {} : m \in DOMAIN boxes /\ boxes'[m] = boxes[m]
    BY <1>4
  <2>3. {} \in SUBSET Name
    OBVIOUS
  <2> QED  BY <1>2, <1>3, <2>1, <2>2, <2>3, SeenKeeps
<1>6. NamesOK'
  BY <1>1, <1>2, <1>4, <1>5 DEF NamesOK
<1>7. ReadingOK'
  BY <1>1, <1>2 DEF ReadingOK
<1>8. OrderOK'
  BY <1>1, <1>2, <1>4 DEF OrderOK
<1> QED  BY <1>2, <1>5, <1>6, <1>7, <1>8 DEF NamesInv

LEMMA RenameReadKeeps ==
    ASSUME NamesInv, NEW s \in Session, NEW before \in Name, NEW after \in Name,
           RenameRead(s, before, after), seen' = seen \cup Get'
    PROVE  NamesInv'
<1> DEFINE moved == Restrict(boxes, Below(DOMAIN boxes, before))
           r == [before |-> before, after |-> after, moved |-> moved]
<1>1. /\ backend = "redis" /\ Placed(after, Below(DOMAIN boxes, before), before)
      /\ reading' = [reading EXCEPT ![s] = r]
      /\ UNCHANGED <<backend, boxes, made, validity, order, remade, overtaken>>
  BY DEF RenameRead
<1>2. NamesOK /\ ReadingOK /\ SeenOK /\ ValidityNamesOne /\ OrderOK
  BY <1>1 DEF NamesInv
<1>3. DOMAIN moved = Below(DOMAIN boxes, before) /\ \A n \in DOMAIN moved : n \in DOMAIN boxes /\ moved[n] = boxes[n]
  BY DEF Restrict, Below
<1>4. DOMAIN New(r) \subseteq Name
  <2>1. r.before = before /\ r.after = after /\ r.moved = moved
    OBVIOUS
  <2> HIDE DEF r
  <2>2. \A n \in DOMAIN New(r) : \E m \in Below(DOMAIN boxes, before) : Renamed(m, before, after) = n
    BY <1>3, <2>1, MovedFrom
  <2> QED  BY <1>1, <2>2 DEF Placed
<1>5. ASSUME Inbox \in DOMAIN moved PROVE before = Inbox
  BY <1>3, <1>5, NamesAssumption DEF Below
<1>6. Get' = Get /\ seen' = seen
  <2>1. Get' = Get
    BY <1>1 DEF Get
  <2> QED  BY <1>2, <2>1 DEF SeenOK
<1>7. ReadingOK'
  <2> SUFFICES ASSUME NEW t \in Session, reading'[t] # None
               PROVE  /\ DOMAIN New(reading'[t]) \subseteq Name
                      /\ \A n \in DOMAIN reading'[t].moved : reading'[t].moved[n] \in 1..made
                      /\ Inbox \in DOMAIN reading'[t].moved => reading'[t].before = Inbox
    BY <1>1 DEF ReadingOK
  <2>1. CASE reading'[t] = reading[t]
    BY <1>2, <2>1 DEF ReadingOK
  <2>2. CASE reading'[t] = r
    <3>1. r.before = before /\ r.moved = moved
      OBVIOUS
    <3> HIDE DEF r, moved
    <3> QED  BY <1>2, <1>3, <1>4, <1>5, <2>2, <3>1 DEF NamesOK
  <2>3. reading'[t] = reading[t] \/ reading'[t] = r
    BY <1>1
  <2> QED  BY <2>1, <2>2, <2>3
<1>8. NamesOK' /\ OrderOK' /\ ValidityNamesOne' /\ SeenOK'
  BY <1>1, <1>2, <1>6 DEF NamesOK, OrderOK, ValidityNamesOne, SeenOK
<1> QED  BY <1>1, <1>7, <1>8 DEF NamesInv

LEMMA RenameWriteKeeps ==
    ASSUME NamesInv, backend = "redis", NEW s \in Session, RenameWrite(s), seen' = seen \cup Get'
    PROVE  NamesInv'
<1> DEFINE r == reading[s]
           moved == r.moved
           new == New(r)
           kept == DOMAIN boxes \ DOMAIN moved
           full == [n \in DOMAIN new \cup kept |-> IF n \in DOMAIN new THEN new[n] ELSE boxes[n]]
<1>1. NamesOK /\ ReadingOK /\ OrderOK
  BY DEF NamesInv
<1>2. /\ r # None /\ reading' = [reading EXCEPT ![s] = None]
      /\ boxes' = WithInbox(full) /\ Renumber(Given(r))
      /\ r.before = Inbox => made' = made + 1 /\ remade' = remade \cup {made'}
      /\ r.before # Inbox => made' = made /\ remade' = remade
      /\ ~overtaken' => ~overtaken /\ moved = Restrict(boxes, Below(DOMAIN boxes, r.before))
      /\ backend' = backend /\ order' = order
  BY DEF RenameWrite
<1>3. /\ DOMAIN new \subseteq Name
      /\ \A n \in DOMAIN moved : moved[n] \in 1..made
      /\ Inbox \in DOMAIN moved => r.before = Inbox
  BY <1>1, <1>2 DEF ReadingOK
<1>4. \A n \in DOMAIN new : \E m \in DOMAIN moved : Renamed(m, r.before, r.after) = n /\ new[n] = moved[m]
  BY MovedFrom
<1>5. /\ DOMAIN full = DOMAIN new \cup (DOMAIN boxes \ DOMAIN moved)
      /\ \A n \in DOMAIN new : full[n] = new[n]
      /\ \A n \in DOMAIN full \ DOMAIN new : n \in DOMAIN boxes \ DOMAIN moved /\ full[n] = boxes[n]
  OBVIOUS
<1>6. DOMAIN boxes' = DOMAIN full \cup {Inbox}
      /\ \A n \in DOMAIN boxes' : boxes'[n] = IF n \in DOMAIN full THEN full[n] ELSE made + 1
  BY <1>2 DEF WithInbox
<1> HIDE DEF r, moved, new, kept, full
<1>7. ASSUME NEW n \in DOMAIN boxes'
      PROVE  \/ n \in DOMAIN new /\ boxes'[n] = new[n]
             \/ n \in DOMAIN boxes \ DOMAIN moved /\ boxes'[n] = boxes[n]
             \/ n = Inbox /\ r.before = Inbox /\ n \notin DOMAIN new /\ boxes'[n] = made + 1
  <2>1. CASE n \in DOMAIN full
    BY <1>5, <1>6, <2>1
  <2>2. CASE n \notin DOMAIN full
    BY <1>1, <1>3, <1>5, <1>6, <2>2 DEF NamesOK
  <2> QED  BY <2>1, <2>2
<1>8. Given(r) = DOMAIN new \cup (IF r.before = Inbox THEN {Inbox} ELSE {})
  BY DEF Given, new
<1>9. made \in Nat /\ made' \in Nat /\ 1..made \subseteq 1..made' /\ made + 1 \notin 1..made
      /\ (r.before = Inbox => made + 1 \in 1..made')
  BY <1>1, <1>2 DEF NamesOK
<1>10. DOMAIN boxes' \subseteq Name /\ Inbox \in DOMAIN boxes'
  BY <1>1, <1>3, <1>5, <1>6, NamesAssumption DEF NamesOK
<1>11. validity' \in [Name -> Nat] /\ SeenOK' /\ ValidityNamesOne'
  <2>1. Given(r) \in SUBSET Name
    BY <1>3, <1>8, NamesAssumption
  <2>2. validity' = [n \in Name |-> IF n \in Given(r) THEN validity[n] + 1 ELSE validity[n]]
    BY <1>1, <1>2, RenumberGives DEF NamesOK
  <2>3. \A n \in DOMAIN boxes' \ Given(r) : n \in DOMAIN boxes /\ boxes'[n] = boxes[n]
    BY <1>7, <1>8
  <2> QED  BY <1>2, <1>10, <2>1, <2>2, <2>3, SeenKeeps
<1>12. NamesOK'
  <2>1. \A n \in DOMAIN boxes' : boxes'[n] \in 1..made'
    <3> SUFFICES ASSUME NEW n \in DOMAIN boxes' PROVE boxes'[n] \in 1..made'
      OBVIOUS
    <3>1. ASSUME n \in DOMAIN new PROVE new[n] \in 1..made
      BY <1>3, <1>4, <3>1
    <3>2. ASSUME n \in DOMAIN boxes PROVE boxes[n] \in 1..made
      BY <1>1, <3>2 DEF NamesOK
    <3> QED  BY <1>7, <1>9, <3>1, <3>2
  <2> QED  BY <1>9, <1>10, <1>11, <2>1 DEF NamesOK
<1>13. ReadingOK'
  <2> SUFFICES ASSUME NEW t \in Session, reading'[t] # None
               PROVE  /\ DOMAIN New(reading'[t]) \subseteq Name
                      /\ \A n \in DOMAIN reading'[t].moved : reading'[t].moved[n] \in 1..made'
                      /\ Inbox \in DOMAIN reading'[t].moved => reading'[t].before = Inbox
    BY DEF ReadingOK
  <2>1. reading'[t] = reading[t]
    BY <1>2
  <2> QED  BY <1>1, <1>9, <2>1 DEF ReadingOK
<1>14. OrderOK'
  <2> SUFFICES ASSUME ~overtaken'
               PROVE  /\ \A n, m \in DOMAIN boxes' : boxes'[n] = boxes'[m] => n = m
                      /\ \A n \in DOMAIN boxes' : boxes'[n] \in order' \cup remade'
    BY DEF OrderOK
  <2>1. /\ \A n, m \in DOMAIN boxes : boxes[n] = boxes[m] => n = m
        /\ \A n \in DOMAIN boxes : boxes[n] \in order \cup remade /\ boxes[n] \in 1..made
    BY <1>1, <1>2 DEF OrderOK, NamesOK
  <2>2. \A n \in DOMAIN moved : n \in DOMAIN boxes /\ moved[n] = boxes[n]
    BY <1>2 DEF Restrict, Below
  <2>3. \A n \in DOMAIN new : \E m \in DOMAIN moved : /\ Renamed(m, r.before, r.after) = n
                                                      /\ new[n] = boxes[m] /\ m \in DOMAIN boxes
    BY <1>4, <2>2
  <2>4. ASSUME NEW n \in DOMAIN boxes', NEW m \in DOMAIN boxes', boxes'[n] = boxes'[m] PROVE n = m
    <3>1. ASSUME NEW x \in DOMAIN new PROVE new[x] \in 1..made
      BY <2>1, <2>3
    <3>2. ASSUME NEW x \in DOMAIN new, NEW y \in DOMAIN boxes \ DOMAIN moved PROVE new[x] # boxes[y]
      BY <2>1, <2>3
    <3>3. ASSUME NEW x \in DOMAIN new, NEW y \in DOMAIN new, new[x] = new[y] PROVE x = y
      <4>1. PICK a \in DOMAIN boxes : Renamed(a, r.before, r.after) = x /\ new[x] = boxes[a]
        BY <2>3
      <4>2. PICK b \in DOMAIN boxes : Renamed(b, r.before, r.after) = y /\ new[y] = boxes[b]
        BY <2>3
      <4>3. a = b
        BY <2>1, <3>3, <4>1, <4>2
      <4> QED  BY <4>1, <4>2, <4>3
    <3>4. CASE n \in DOMAIN new /\ boxes'[n] = new[n]
      BY <1>7, <1>9, <2>4, <3>1, <3>2, <3>3, <3>4
    <3>5. CASE n \in DOMAIN boxes \ DOMAIN moved /\ boxes'[n] = boxes[n]
      BY <1>7, <1>9, <2>1, <2>4, <3>2, <3>5
    <3>6. CASE n = Inbox /\ boxes'[n] = made + 1
      BY <1>7, <1>9, <2>1, <2>4, <3>1, <3>6
    <3> QED  BY <1>7, <3>4, <3>5, <3>6
  <2>5. ASSUME NEW n \in DOMAIN boxes' PROVE boxes'[n] \in order' \cup remade'
    <3>1. order' = order /\ remade \subseteq remade' /\ (r.before = Inbox => made + 1 \in remade')
      BY <1>2
    <3>2. ASSUME n \in DOMAIN new PROVE new[n] \in order \cup remade
      BY <2>1, <2>3, <3>2
    <3> QED  BY <1>7, <2>1, <3>1, <3>2
  <2> QED  BY <2>4, <2>5
<1> QED  BY <1>2, <1>11, <1>12, <1>13, <1>14 DEF NamesInv

\* One INBOX, in the order, and its number.
LEMMA NamesStart == NamesInit => NamesInv
<1> SUFFICES ASSUME NamesInit PROVE NamesInv
  OBVIOUS
<1>1. DOMAIN boxes = {Inbox} /\ boxes[Inbox] = 1 /\ made = 1 /\ order = {1} /\ seen = Get
      /\ validity = [n \in Name |-> IF n = Inbox THEN 1 ELSE 0] /\ \A s \in Session : reading[s] = None
  BY DEF NamesInit
<1>2. backend # "redis" => seen = {}
  BY <1>1 DEF Get
<1>3. NamesOK
  BY <1>1, NamesAssumption DEF NamesOK
<1>4. ReadingOK
  BY <1>1 DEF ReadingOK
<1>5. OrderOK
  BY <1>1 DEF OrderOK
<1>6. \A x \in seen : x = <<Inbox, 1, 1>>
  BY <1>1, NamesAssumption DEF Get
<1>7. SeenOK /\ ValidityNamesOne
  BY <1>1, <1>6, NamesAssumption DEF SeenOK, ValidityNamesOne
<1> QED  BY <1>2, <1>3, <1>4, <1>5, <1>7 DEF NamesInv

LEMMA NamesStep == NamesInv /\ [NamesNext]_nameVars => NamesInv'
<1> SUFFICES ASSUME NamesInv, [NamesNext]_nameVars PROVE NamesInv'
  OBVIOUS
<1>1. CASE UNCHANGED nameVars
  <2>1. Get' = Get
    BY <1>1 DEF nameVars, Get
  <2> QED  BY <1>1, <2>1 DEF nameVars, NamesInv, NamesOK, ReadingOK, SeenOK, ValidityNamesOne, OrderOK
<1>2. CASE NamesNext
  <2>1. Command /\ seen' = seen \cup Get'
    BY <1>2 DEF NamesNext
  <2>2. CASE backend # "redis"
    <3>1. backend' = backend
      BY <2>1 DEF Command, Create, Delete, RenameAtOnce, RenameEach, RenameTree, RenameRead, RenameWrite
    <3>2. Get' = {}
      BY <2>2, <3>1 DEF Get
    <3> QED  BY <2>1, <2>2, <3>1, <3>2 DEF NamesInv
  <2>3. CASE backend = "redis"
    <3>1. ASSUME NEW n \in Name, Create(n) PROVE NamesInv'
      BY <2>1, <2>3, <3>1, CreateKeeps
    <3>2. ASSUME NEW n \in Name, Delete(n) PROVE NamesInv'
      BY <2>1, <2>3, <3>2, DeleteKeeps
    <3>3. ASSUME NEW before \in Name, NEW after \in Name PROVE ~RenameAtOnce(before, after)
      BY <2>3 DEF RenameAtOnce
    <3>4. ASSUME NEW before \in Name, NEW after \in Name PROVE ~RenameEach(before, after)
      BY <2>3 DEF RenameEach
    <3>5. ASSUME NEW before \in Name, NEW after \in Name PROVE ~RenameTree(before, after)
      BY <2>3 DEF RenameTree
    <3>6. ASSUME NEW before \in Name, NEW after \in Name, NEW s \in Session, RenameRead(s, before, after)
          PROVE  NamesInv'
      BY <2>1, <3>6, RenameReadKeeps
    <3>7. ASSUME NEW s \in Session, RenameWrite(s) PROVE NamesInv'
      BY <2>1, <2>3, <3>7, RenameWriteKeeps
    <3> QED  BY <2>1, <3>1, <3>2, <3>3, <3>4, <3>5, <3>6, <3>7 DEF Command
  <2> QED  BY <2>2, <2>3
<1> QED  BY <1>1, <1>2

LEMMA NamesAlways == NamesSpec => []NamesInv
  BY NamesStart, NamesStep, PTL DEF NamesSpec

\* A name and a UIDVALIDITY are never those of two mailboxes, for any names and
\* sessions, also where another session has changed the names that RENAME read.
THEOREM NumbersNameOne == NamesSpec => []ValidityNamesOne
<1>1. NamesInv => ValidityNamesOne
  <2>1. seen = {} => ValidityNamesOne
    BY DEF ValidityNamesOne
  <2> QED  BY <2>1 DEF NamesInv
<1> QED  BY <1>1, NamesAlways, PTL

\* LIST shows every mailbox but for INBOXes made by RENAME and renamed again,
\* until a RENAME writes names that have changed.
THEOREM AllAreListed == NamesSpec => []AllListed
<1>1. NamesInv => AllListed
  <2>1. CASE backend = "redis"
    BY <2>1 DEF NamesInv, OrderOK, AllListed, Listed
  <2>2. CASE backend # "redis"
    BY <2>2 DEF AllListed, Listed
  <2> QED  BY <2>1, <2>2
<1> QED  BY <1>1, NamesAlways, PTL

-----------------------------------------------------------------------------
(* Every mailbox has one name (Names): the names of OneNameInv, step by     *)
(* step.  Names are compared as sequences of parts.                        *)

\* Names as sequences of the parts there are.
Part == UNION {Range(n) : n \in Name}

\* A name has a part.
LEMMA NamesAreLists ==
    ASSUME NEW n \in Name
    PROVE  n \in Seq(Part) /\ Len(n) \in Nat /\ 1 <= Len(n)
<1>1. n \in Seq(Range(n)) /\ (IsPrefix(n, Inbox) => n = Inbox)
  BY NamesAssumption
<1>2. Range(n) \subseteq Part
  BY DEF Part
<1>3. n \in Seq(Part)
  BY <1>1, <1>2, SeqMonotonic
<1>4. CASE Len(n) = 0
  <2>1. n = <<>>
    BY <1>3, <1>4
  <2>2. IsPrefix(n, Inbox)
    BY <2>1 DEF IsPrefix, Inbox
  <2>3. n = Inbox
    BY <1>1, <2>2
  <2> QED  BY <2>1, <2>3 DEF Inbox
<1> QED  BY <1>3, <1>4

\* A name is superior to another if it starts it.
LEMMA PrefixIs ==
    ASSUME NEW b \in Seq(Part), NEW n \in Seq(Part)
    PROVE  IsPrefix(b, n) <=> Len(b) <= Len(n) /\ \A i \in 1..Len(b) : n[i] = b[i]
<1>1. Len(b) \in Nat /\ Len(n) \in Nat
  OBVIOUS
<1>2. SubSeq(b, 1, Len(b)) = b
  OBVIOUS
<1>3. ASSUME Len(b) <= Len(n)
      PROVE  b = SubSeq(n, 1, Len(b)) <=> \A i \in 1..Len(b) : n[i] = b[i]
  <2> DEFINE c == SubSeq(n, 1, Len(b))
  <2>1. c \in Seq(Part) /\ Len(c) = Len(b) /\ \A i \in 1..Len(b) : c[i] = n[i]
    BY <1>1, <1>3
  <2> HIDE DEF c
  <2>2. (\A i \in 1..Len(b) : n[i] = b[i]) => b = c
    BY <2>1, SeqEqual
  <2> QED  BY <2>1, <2>2 DEF c
<1> QED  BY <1>2, <1>3 DEF IsPrefix

\* A new name is the new beginning with the old end.
LEMMA RenamedIs ==
    ASSUME NEW a \in Seq(Part), NEW b \in Seq(Part), NEW n \in Seq(Part), IsPrefix(b, n)
    PROVE  /\ Renamed(n, b, a) \in Seq(Part)
           /\ Len(Renamed(n, b, a)) = Len(a) + (Len(n) - Len(b)) /\ Len(b) <= Len(n)
           /\ \A i \in 1..Len(a) : Renamed(n, b, a)[i] = a[i]
           /\ \A i \in 1..Len(n) - Len(b) : Renamed(n, b, a)[Len(a) + i] = n[Len(b) + i]
<1> DEFINE rest == SubSeq(n, Len(b) + 1, Len(n))
<1>1. Len(a) \in Nat /\ Len(b) \in Nat /\ Len(n) \in Nat /\ Len(b) <= Len(n)
  BY PrefixIs
<1>2. /\ rest \in Seq(Part) /\ Len(rest) = Len(n) - Len(b)
      /\ \A i \in 1..Len(n) - Len(b) : rest[i] = n[Len(b) + i]
  BY <1>1
<1>3. Renamed(n, b, a) = a \o rest
  BY DEF Renamed
<1> HIDE DEF rest
<1>4. /\ a \o rest \in Seq(Part) /\ Len(a \o rest) = Len(a) + Len(rest)
      /\ \A i \in 1..Len(a) + Len(rest) :
             (a \o rest)[i] = IF i <= Len(a) THEN a[i] ELSE rest[i - Len(a)]
  BY <1>2, ConcatProperties
<1>5. \A i \in 1..Len(n) - Len(b) :
          /\ Len(a) + i \in 1..Len(a) + Len(rest) /\ ~(Len(a) + i <= Len(a))
          /\ (Len(a) + i) - Len(a) = i
  BY <1>1, <1>2
<1>6. \A i \in 1..Len(n) - Len(b) : (a \o rest)[Len(a) + i] = n[Len(b) + i]
  BY <1>2, <1>4, <1>5
<1>7. \A i \in 1..Len(a) : (a \o rest)[i] = a[i]
  BY <1>1, <1>2, <1>4
<1> QED  BY <1>1, <1>2, <1>3, <1>4, <1>6, <1>7

\* Names are renamed to different names.
LEMMA RenamedOnce ==
    ASSUME NEW a \in Seq(Part), NEW b \in Seq(Part), NEW n \in Seq(Part), NEW m \in Seq(Part),
           IsPrefix(b, n), IsPrefix(b, m), Renamed(n, b, a) = Renamed(m, b, a)
    PROVE  n = m
<1> DEFINE x == Renamed(n, b, a)
<1>1. /\ Len(x) = Len(a) + (Len(n) - Len(b)) /\ Len(b) <= Len(n)
      /\ \A i \in 1..Len(n) - Len(b) : x[Len(a) + i] = n[Len(b) + i]
  BY RenamedIs
<1>2. /\ Len(x) = Len(a) + (Len(m) - Len(b)) /\ Len(b) <= Len(m)
      /\ \A i \in 1..Len(m) - Len(b) : x[Len(a) + i] = m[Len(b) + i]
  <2>1. /\ Len(Renamed(m, b, a)) = Len(a) + (Len(m) - Len(b)) /\ Len(b) <= Len(m)
        /\ \A i \in 1..Len(m) - Len(b) : Renamed(m, b, a)[Len(a) + i] = m[Len(b) + i]
    BY RenamedIs
  <2> QED  BY <2>1
<1> HIDE DEF x
<1>3. Len(a) \in Nat /\ Len(b) \in Nat /\ Len(n) \in Nat /\ Len(m) \in Nat
  OBVIOUS
<1>4. Len(n) = Len(m)
  BY <1>1, <1>2, <1>3
<1>5. \A i \in 1..Len(b) : n[i] = m[i]
  BY PrefixIs
<1>6. ASSUME NEW i \in 1..Len(n) PROVE n[i] = m[i]
  <2>1. CASE i <= Len(b)
    BY <1>3, <1>5, <2>1
  <2>2. CASE i > Len(b)
    <3>1. i - Len(b) \in 1..Len(n) - Len(b) /\ Len(b) + (i - Len(b)) = i
      BY <1>3, <2>2
    <3> QED  BY <1>1, <1>2, <1>4, <3>1
  <2> QED  BY <1>3, <2>1, <2>2
<1> QED  BY <1>4, <1>6, SeqEqual

\* A new name is the new name of the mailbox or below it.
LEMMA RenamedBelow ==
    ASSUME NEW a \in Seq(Part), NEW b \in Seq(Part), NEW n \in Seq(Part), IsPrefix(b, n)
    PROVE  IsPrefix(a, Renamed(n, b, a))
<1> DEFINE x == Renamed(n, b, a)
<1>1. /\ x \in Seq(Part) /\ Len(x) = Len(a) + (Len(n) - Len(b)) /\ Len(b) <= Len(n)
      /\ \A i \in 1..Len(a) : x[i] = a[i]
  BY RenamedIs
<1> HIDE DEF x
<1>2. Len(a) \in Nat /\ Len(b) \in Nat /\ Len(n) \in Nat
  OBVIOUS
<1>3. IsPrefix(a, x)
  BY <1>1, <1>2, PrefixIs
<1> QED  BY <1>3 DEF x

\* What starts a name is it or one of its superiors.
LEMMA SuperiorIs ==
    ASSUME NEW a \in Seq(Part), NEW n \in Seq(Part), IsPrefix(a, n), 1 <= Len(a)
    PROVE  a = n \/ a \in Superiors(n)
<1>1. Len(a) \in Nat /\ Len(n) \in Nat /\ Len(a) <= Len(n)
  BY PrefixIs
<1>2. a = SubSeq(n, 1, Len(a))
  BY DEF IsPrefix
<1>3. CASE Len(a) = Len(n)
  BY <1>2, <1>3
<1>4. CASE Len(a) # Len(n)
  <2>1. Len(a) \in 1..Len(n) - 1
    BY <1>1, <1>4
  <2> QED  BY <1>2, <2>1 DEF Superiors
<1> QED  BY <1>3, <1>4

\* And a superior starts it.
LEMMA SuperiorStarts ==
    ASSUME NEW n \in Seq(Part), NEW x \in Superiors(n)
    PROVE  /\ x \in Seq(Part) /\ IsPrefix(x, n) /\ 1 <= Len(x) /\ Len(x) < Len(n)
<1>1. PICK i \in 1..Len(n) - 1 : x = SubSeq(n, 1, i)
  BY DEF Superiors
<1>2. Len(n) \in Nat /\ i \in Nat /\ 1 <= i /\ i < Len(n)
  OBVIOUS
<1>3. x \in Seq(Part) /\ Len(x) = i /\ \A j \in 1..i : x[j] = n[j]
  BY <1>1, <1>2
<1> QED  BY <1>2, <1>3, PrefixIs

\* get_renames: the names below a name start with it.
LEMMA BelowIs ==
    ASSUME NEW b \in Name, NEW ns \in SUBSET Name
    PROVE  Below(ns, b) \subseteq ns /\ \A n \in Below(ns, b) : IsPrefix(b, n)
BY DEF Below

\* RENAME of mailboxes to names that no other has keeps one name for each.
LEMMA MovedKeeps ==
    ASSUME NEW old, NEW S, OneEach(old, S), NEW before \in Name, NEW after \in Name,
           NEW moved \in SUBSET DOMAIN old,
           \A n \in moved : /\ IsPrefix(before, n) /\ Renamed(n, before, after) \in Name
                            /\ Renamed(n, before, after) \notin DOMAIN old \ moved,
           NEW b, b = Moved(old, moved, before, after)
    PROVE  /\ OneEach(b, S)
           /\ \A n \in DOMAIN old \ moved : n \in DOMAIN b /\ b[n] = old[n]
           /\ \A x \in DOMAIN b : \/ x \in DOMAIN old \ moved
                                  \/ \E n \in moved : x = Renamed(n, before, after)
           /\ \A n \in moved : Renamed(n, before, after) \in DOMAIN b
<1>1. \A n, m \in moved : Renamed(n, before, after) = Renamed(m, before, after) => n = m
  <2> SUFFICES ASSUME NEW n \in moved, NEW m \in moved,
                      Renamed(n, before, after) = Renamed(m, before, after)
               PROVE  n = m
    OBVIOUS
  <2>1. n \in Name /\ m \in Name
    BY DEF OneEach
  <2>2. n \in Seq(Part) /\ m \in Seq(Part) /\ before \in Seq(Part) /\ after \in Seq(Part)
    BY <2>1, NamesAreLists
  <2> QED  BY <2>2, RenamedOnce
<1> DEFINE To(n) == Renamed(n, before, after)
<1>2. /\ \A n \in DOMAIN old \ moved : n \in DOMAIN b /\ b[n] = old[n]
      /\ \A n \in moved : To(n) \in DOMAIN b /\ b[To(n)] = old[n]
      /\ \A x \in DOMAIN b : x \in DOMAIN old \ moved \/ \E n \in moved : x = To(n)
  <2> DEFINE new == {To(n) : n \in moved}
             From(x) == CHOOSE m \in moved : To(m) = x
             all == (DOMAIN old \ moved) \cup new
  <2>1. b = [x \in all |-> IF x \in new THEN old[From(x)] ELSE old[x]]
    BY DEF Moved
  <2>2. \A n \in moved : From(To(n)) = n
    BY <1>1
  <2>3. \A n \in moved : To(n) \notin DOMAIN old \ moved
    OBVIOUS
  <2> HIDE DEF To
  <2>4. /\ \A n \in moved : To(n) \in new
        /\ \A x \in new : \E n \in moved : x = To(n)
        /\ \A n \in DOMAIN old \ moved : n \notin new
    BY <2>3
  <2> HIDE DEF new, From
  <2>5. \A n \in DOMAIN old \ moved : n \in DOMAIN b /\ b[n] = old[n]
    BY <2>1, <2>4
  <2>6. \A n \in moved : To(n) \in DOMAIN b /\ b[To(n)] = old[n]
    BY <2>1, <2>2, <2>4
  <2>7. \A x \in DOMAIN b : x \in DOMAIN old \ moved \/ \E n \in moved : x = To(n)
    BY <2>1, <2>4
  <2> QED  BY <2>5, <2>6, <2>7
<1>3. /\ DOMAIN old \subseteq Name /\ \A n \in moved : To(n) \in Name
      /\ \A n, m \in DOMAIN old : old[n] = old[m] => n = m
  BY DEF OneEach
<1>4. \A v : v \in Range(old) <=> \E n \in DOMAIN old : v = old[n]
  BY DEF Range
<1>5. \A v : v \in Range(b) <=> \E x \in DOMAIN b : v = b[x]
  BY DEF Range
<1> HIDE DEF To
<1>6. DOMAIN b \subseteq Name
  BY <1>2, <1>3
<1>7. ASSUME NEW x \in DOMAIN b
      PROVE  \E n \in DOMAIN old : b[x] = old[n] /\ (n \in moved => x = To(n)) /\ (n \notin moved => x = n)
  BY <1>2
<1>8. Range(b) = Range(old)
  <2>1. ASSUME NEW v \in Range(b) PROVE v \in Range(old)
    BY <1>4, <1>5, <1>7, <2>1
  <2>2. ASSUME NEW v \in Range(old) PROVE v \in Range(b)
    <3>1. PICK n \in DOMAIN old : v = old[n]
      BY <1>4, <2>2
    <3> QED  BY <1>2, <1>5, <3>1
  <2> QED  BY <2>1, <2>2
<1>9. ASSUME NEW x \in DOMAIN b, NEW y \in DOMAIN b, b[x] = b[y] PROVE x = y
  <2>1. PICK n \in DOMAIN old : b[x] = old[n] /\ (n \in moved => x = To(n)) /\ (n \notin moved => x = n)
    BY <1>7
  <2>2. PICK m \in DOMAIN old : b[y] = old[m] /\ (m \in moved => y = To(m)) /\ (m \notin moved => y = m)
    BY <1>7
  <2>3. n = m
    BY <1>3, <1>9, <2>1, <2>2
  <2> QED  BY <2>1, <2>2, <2>3
<1>10. OneEach(b, S)
  BY <1>6, <1>8, <1>9 DEF OneEach
<1> QED  BY <1>2, <1>10 DEF To

\* INBOX has a name of its own, and RENAME moves no mailbox there.
LEMMA InboxStays ==
    ASSUME NEW before \in Name, NEW after \in Name \ {Inbox}, NEW n \in Name, IsPrefix(before, n)
    PROVE  (n = Inbox => before = Inbox) /\ Renamed(n, before, after) # Inbox
<1>1. n = Inbox => before = Inbox
  BY NamesAssumption
<1>2. IsPrefix(after, Renamed(n, before, after))
  BY NamesAreLists, RenamedBelow
<1> QED  BY <1>1, <1>2, NamesAssumption

\* What Moved and WithInbox make of the names together.
LEMMA RenamedAll ==
    ASSUME OneNames, NEW before \in Name, NEW after \in Name \ {Inbox},
           \A n \in Below(DOMAIN boxes, before) :
               /\ Renamed(n, before, after) \in Name
               /\ Renamed(n, before, after) \notin DOMAIN boxes \ Below(DOMAIN boxes, before),
           NEW b, b = WithInbox(Moved(boxes, Below(DOMAIN boxes, before), before, after)),
           NEW max, max = IF before = Inbox THEN made + 1 ELSE made
    PROVE  /\ OneEach(b, (1..max) \ gone) /\ Inbox \in DOMAIN b
           /\ max \in Nat /\ gone \subseteq 1..max
<1> DEFINE moved == Below(DOMAIN boxes, before)
           m == Moved(boxes, moved, before, after)
<1>1. /\ OneEach(boxes, (1..made) \ gone) /\ Inbox \in DOMAIN boxes /\ made \in Nat
      /\ gone \subseteq 1..made
  BY DEF OneNames
<1>2. moved \in SUBSET DOMAIN boxes /\ \A n \in moved : n \in Name /\ IsPrefix(before, n)
  BY <1>1, BelowIs DEF OneEach
<1>3. /\ OneEach(m, (1..made) \ gone)
      /\ \A n \in DOMAIN boxes \ moved : n \in DOMAIN m
      /\ \A x \in DOMAIN m : x \in DOMAIN boxes \ moved
                             \/ \E n \in moved : x = Renamed(n, before, after)
  <2> HIDE DEF moved
  <2>1. after \in Name
    OBVIOUS
  <2>2. \A n \in moved : /\ IsPrefix(before, n) /\ Renamed(n, before, after) \in Name
                         /\ Renamed(n, before, after) \notin DOMAIN boxes \ moved
    BY <1>2 DEF moved
  <2> QED  BY <1>1, <1>2, <2>1, <2>2, MovedKeeps
<1>4. \A n \in moved : (n = Inbox => before = Inbox) /\ Renamed(n, before, after) # Inbox
  BY <1>2, InboxStays
<1>5. Inbox \in DOMAIN m <=> before # Inbox
  <2>1. ASSUME before = Inbox PROVE Inbox \in moved
    <3>1. IsPrefix(Inbox, Inbox)
      BY DEF IsPrefix, Inbox
    <3> QED  BY <1>1, <2>1, <3>1 DEF Below
  <2> HIDE DEF moved
  <2> QED  BY <1>1, <1>3, <1>4, <2>1
<1> HIDE DEF m, moved
<1>6. /\ DOMAIN b = DOMAIN m \cup {Inbox}
      /\ \A n \in DOMAIN m : b[n] = m[n]
      /\ Inbox \notin DOMAIN m => b[Inbox] = made + 1
  BY DEF WithInbox, m, moved
<1>7. \A v : v \in Range(m) <=> \E n \in DOMAIN m : v = m[n]
  BY DEF Range
<1>8. \A v : v \in Range(b) <=> \E n \in DOMAIN b : v = b[n]
  BY DEF Range
<1>9. CASE before # Inbox
  <2>1. DOMAIN b = DOMAIN m
    BY <1>5, <1>6, <1>9
  <2>2. \A v : v \in Range(b) <=> v \in Range(m)
    BY <1>6, <1>7, <1>8, <2>1
  <2>3. Range(b) = Range(m)
    BY <2>2
  <2> QED  BY <1>1, <1>3, <1>5, <1>6, <1>9, <2>1, <2>3 DEF OneEach
<1>10. CASE before = Inbox
  <2>1. Inbox \notin DOMAIN m /\ max = made + 1
    BY <1>5, <1>10
  <2>2. \A v : v \in Range(b) <=> v \in Range(m) \cup {made + 1}
    BY <1>6, <1>7, <1>8, <2>1
  <2>3. Range(b) = Range(m) \cup {made + 1}
    BY <2>2
  <2>4. made + 1 \notin Range(m) /\ (1..max) \ gone = ((1..made) \ gone) \cup {made + 1}
    BY <1>1, <1>3, <2>1 DEF OneEach
  <2>5. \A n \in DOMAIN m : m[n] # made + 1
    BY <1>7, <2>4
  <2>6. \A x, y \in DOMAIN b : b[x] = b[y] => x = y
    BY <1>3, <1>6, <2>1, <2>5 DEF OneEach
  <2>7. OneEach(b, (1..max) \ gone)
    BY <1>3, <1>6, <2>3, <2>4, <2>6, NamesAssumption DEF OneEach
  <2> QED  BY <1>1, <1>6, <2>1, <2>7
<1> QED  BY <1>9, <1>10

\* A RENAME that has been read stays as it is.
LEMMA ReadStays ==
    ASSUME RenamesRead, UNCHANGED <<backend, reading>>
    PROVE  RenamesRead'
BY DEF RenamesRead

\* One more mailbox has a name that there was none of.
LEMMA CreateOne ==
    ASSUME OneNames, FoldersWhole, RenamesRead, NEW n \in Name, Create(n)
    PROVE  OneNames' /\ FoldersWhole' /\ RenamesRead'
<1>1. /\ made \in Nat /\ gone \subseteq 1..made /\ Inbox \in DOMAIN boxes
      /\ DOMAIN boxes \subseteq Name /\ Range(boxes) = (1..made) \ gone
      /\ \A x, y \in DOMAIN boxes : boxes[x] = boxes[y] => x = y
  BY DEF OneNames, OneEach
<1>2. /\ n \notin DOMAIN boxes /\ CanAdd(n) /\ made' = made + 1
      /\ boxes' = [m \in DOMAIN boxes \cup {n} |-> IF m = n THEN made' ELSE boxes[m]]
      /\ UNCHANGED <<backend, reading, gone>>
  BY DEF Create
<1>3. /\ DOMAIN boxes' = DOMAIN boxes \cup {n} /\ boxes'[n] = made + 1
      /\ \A m \in DOMAIN boxes : boxes'[m] = boxes[m]
  BY <1>2
<1>4. \A v : v \in Range(boxes) <=> \E x \in DOMAIN boxes : v = boxes[x]
  BY DEF Range
<1>5. \A v : v \in Range(boxes') <=> \E x \in DOMAIN boxes' : v = boxes'[x]
  BY DEF Range
<1>6. \A v : v \in Range(boxes') <=> v \in Range(boxes) \cup {made + 1}
  BY <1>3, <1>4, <1>5
<1>7. (1..made') \ gone' = ((1..made) \ gone) \cup {made + 1} /\ made + 1 \notin Range(boxes)
  BY <1>1, <1>2
<1>8. Range(boxes') = (1..made') \ gone'
  BY <1>1, <1>6, <1>7
<1>9. \A x, y \in DOMAIN boxes' : boxes'[x] = boxes'[y] => x = y
  BY <1>1, <1>3, <1>4, <1>7
<1>10. OneNames'
  BY <1>1, <1>2, <1>3, <1>8, <1>9 DEF OneNames, OneEach
<1>11. FoldersWhole'
  BY <1>2, <1>3 DEF FoldersWhole, CanAdd
<1> QED  BY <1>2, <1>10, <1>11, ReadStays

\* A mailbox that is gone has no name.
LEMMA DeleteOne ==
    ASSUME OneNames, FoldersWhole, RenamesRead, NEW n \in Name, Delete(n)
    PROVE  OneNames' /\ FoldersWhole' /\ RenamesRead'
<1>1. /\ made \in Nat /\ gone \subseteq 1..made /\ Inbox \in DOMAIN boxes
      /\ DOMAIN boxes \subseteq Name /\ Range(boxes) = (1..made) \ gone
      /\ \A x, y \in DOMAIN boxes : boxes[x] = boxes[y] => x = y
  BY DEF OneNames, OneEach
<1>2. /\ n # Inbox /\ n \in DOMAIN boxes
      /\ backend = "fs" => Below(DOMAIN boxes, n) = {n}
      /\ boxes' = [m \in DOMAIN boxes \ {n} |-> boxes[m]]
      /\ gone' = gone \cup {boxes[n]}
      /\ UNCHANGED <<backend, made, reading>>
  BY DEF Delete
<1>3. DOMAIN boxes' = DOMAIN boxes \ {n} /\ \A m \in DOMAIN boxes \ {n} : boxes'[m] = boxes[m]
  BY <1>2
<1>4. \A v : v \in Range(boxes) <=> \E x \in DOMAIN boxes : v = boxes[x]
  BY DEF Range
<1>5. \A v : v \in Range(boxes') <=> \E x \in DOMAIN boxes' : v = boxes'[x]
  BY DEF Range
<1>6. \A v : v \in Range(boxes') <=> v \in Range(boxes) \ {boxes[n]}
  BY <1>1, <1>2, <1>3, <1>4, <1>5
<1>7. boxes[n] \in (1..made) \ gone /\ (1..made') \ gone' = ((1..made) \ gone) \ {boxes[n]}
  BY <1>1, <1>2, <1>4
<1>8. Range(boxes') = (1..made') \ gone'
  BY <1>1, <1>6, <1>7
<1>9. OneNames'
  BY <1>1, <1>2, <1>3, <1>7, <1>8 DEF OneNames, OneEach
<1>10. FoldersWhole'
  <2> SUFFICES ASSUME backend = "fs", NEW x \in DOMAIN boxes'
               PROVE  Superiors(x) \subseteq DOMAIN boxes'
    BY <1>2 DEF FoldersWhole
  <2>1. x \in DOMAIN boxes /\ x # n /\ Superiors(x) \subseteq DOMAIN boxes
    BY <1>3 DEF FoldersWhole
  <2>2. n \notin Superiors(x)
    <3>1. x \notin Below(DOMAIN boxes, n)
      BY <1>2, <2>1
    <3> QED  BY <1>1, <2>1, <3>1, NamesAreLists, SuperiorStarts DEF Below
  <2> QED  BY <1>3, <2>1, <2>2
<1> QED  BY <1>2, <1>9, <1>10, ReadStays

\* RENAME in the dict backend: no name of the tree is taken.
LEMMA RenameAtOnceOne ==
    ASSUME OneNames, FoldersWhole, RenamesRead, NEW before \in Name, NEW after \in Name,
           RenameAtOnce(before, after)
    PROVE  OneNames' /\ FoldersWhole' /\ RenamesRead'
<1> DEFINE moved == Below(DOMAIN boxes, before)
<1>1. /\ backend = "dict" /\ Allowed(before, after) /\ Placed(after, moved, before)
      /\ boxes' = WithInbox(Moved(boxes, moved, before, after))
      /\ made' = IF before = Inbox THEN made + 1 ELSE made
      /\ UNCHANGED <<backend, reading, gone>>
  BY DEF RenameAtOnce
<1>2. after # Inbox /\ after \notin Tree(DOMAIN boxes) /\ DOMAIN boxes \subseteq Name
  BY <1>1 DEF Allowed, OneNames, OneEach
<1>3. moved \subseteq DOMAIN boxes /\ \A n \in moved : n \in Name /\ IsPrefix(before, n)
  BY <1>2, BelowIs
<1> HIDE DEF moved
<1>4. ASSUME NEW n \in moved
      PROVE  Renamed(n, before, after) \in Name /\ Renamed(n, before, after) \notin DOMAIN boxes
  <2> DEFINE x == Renamed(n, before, after)
  <2>1. x \in Name
    BY <1>1 DEF Placed
  <2>2. IsPrefix(after, x)
    BY <1>3, NamesAreLists, RenamedBelow
  <2> HIDE DEF x
  <2>3. after = x \/ after \in Superiors(x)
    BY <2>1, <2>2, NamesAreLists, SuperiorIs
  <2>4. x \notin DOMAIN boxes
    BY <1>2, <2>3 DEF Tree
  <2> QED  BY <2>1, <2>4 DEF x
<1>5. after \in Name \ {Inbox}
  BY <1>2
<1>6. \A n \in moved : /\ Renamed(n, before, after) \in Name
                       /\ Renamed(n, before, after) \notin DOMAIN boxes \ moved
  BY <1>4
<1>7. /\ OneEach(boxes', (1..made') \ gone) /\ Inbox \in DOMAIN boxes'
      /\ made' \in Nat /\ gone \subseteq 1..made'
  BY <1>1, <1>5, <1>6, RenamedAll DEF moved
<1>8. OneNames' /\ FoldersWhole'
  BY <1>1, <1>7 DEF OneNames, OneEach, FoldersWhole
<1> QED  BY <1>1, <1>8, ReadStays

\* RENAME in the redis backend reads what there is.
LEMMA RenameReadOne ==
    ASSUME OneNames, FoldersWhole, RenamesRead, NEW s \in Session,
           NEW before \in Name, NEW after \in Name, RenameRead(s, before, after)
    PROVE  OneNames' /\ FoldersWhole' /\ RenamesRead'
<1> DEFINE moved == Restrict(boxes, Below(DOMAIN boxes, before))
           r == [before |-> before, after |-> after, moved |-> moved]
<1>1. /\ backend = "redis" /\ Placed(after, Below(DOMAIN boxes, before), before) /\ after # Inbox
      /\ reading' = [reading EXCEPT ![s] = r]
      /\ UNCHANGED <<backend, boxes, made, gone>>
  BY DEF RenameRead, Allowed
<1>2. DOMAIN New(r) \subseteq Name
  <2>1. r.before = before /\ r.after = after /\ r.moved = moved
    OBVIOUS
  <2>2. DOMAIN moved = Below(DOMAIN boxes, before)
    BY DEF Restrict, Below
  <2> HIDE DEF r
  <2>3. \A n \in DOMAIN New(r) : \E m \in Below(DOMAIN boxes, before) : Renamed(m, before, after) = n
    BY <2>1, <2>2, MovedFrom
  <2> QED  BY <1>1, <2>3 DEF Placed
<1>3. r.before \in Name /\ r.after \in Name \ {Inbox}
  BY <1>1
<1> HIDE DEF r
<1>4. RenamesRead'
  <2> SUFFICES ASSUME NEW t \in Session, reading'[t] # None
               PROVE  /\ backend' = "redis" /\ DOMAIN New(reading'[t]) \subseteq Name
                      /\ reading'[t].before \in Name /\ reading'[t].after \in Name \ {Inbox}
    BY DEF RenamesRead
  <2>1. reading'[t] = reading[t] \/ reading'[t] = r
    BY <1>1
  <2> QED  BY <1>1, <1>2, <1>3, <2>1 DEF RenamesRead
<1>5. OneNames' /\ FoldersWhole'
  BY <1>1 DEF OneNames, OneEach, FoldersWhole
<1> QED  BY <1>4, <1>5

\* What RENAME in the redis backend writes is a move of all the names, if they
\* are still as they were read.
LEMMA WrittenIs ==
    ASSUME NEW r, NEW moved, r.moved = Restrict(boxes, moved), moved \subseteq DOMAIN boxes,
           NEW b, b = [n \in DOMAIN New(r) \cup (DOMAIN boxes \ DOMAIN r.moved) |->
                         IF n \in DOMAIN New(r) THEN New(r)[n] ELSE boxes[n]]
    PROVE  /\ b = Moved(boxes, moved, r.before, r.after)
           /\ \A n \in moved : Renamed(n, r.before, r.after) \in DOMAIN New(r)
<1> DEFINE From(k) == CHOOSE m \in moved : Renamed(m, r.before, r.after) = k
           new == {Renamed(m, r.before, r.after) : m \in moved}
           f == [k \in new |-> boxes[From(k)]]
<1>1. DOMAIN r.moved = moved /\ \A n \in moved : r.moved[n] = boxes[n]
  BY DEF Restrict
<1>2. New(r) = [k \in (DOMAIN r.moved \ moved) \cup new |->
                   IF k \in new THEN r.moved[From(k)] ELSE r.moved[k]]
  BY <1>1 DEF New, Moved
<1>3. \A k \in new : From(k) \in moved
  OBVIOUS
<1>4. Moved(boxes, moved, r.before, r.after) =
          [k \in (DOMAIN boxes \ moved) \cup new |-> IF k \in new THEN boxes[From(k)] ELSE boxes[k]]
  BY DEF Moved
<1>5. \A n \in moved : Renamed(n, r.before, r.after) \in new
  OBVIOUS
<1> HIDE DEF new, From
<1>6. DOMAIN New(r) = new /\ \A k \in new : New(r)[k] = boxes[From(k)]
  BY <1>1, <1>2, <1>3
<1>7. b = [k \in (DOMAIN boxes \ moved) \cup new |-> IF k \in new THEN boxes[From(k)] ELSE boxes[k]]
  <2>1. DOMAIN New(r) \cup (DOMAIN boxes \ DOMAIN r.moved) = (DOMAIN boxes \ moved) \cup new
    BY <1>1, <1>6
  <2>2. b = [k \in (DOMAIN boxes \ moved) \cup new |-> IF k \in DOMAIN New(r) THEN New(r)[k] ELSE boxes[k]]
    BY <2>1
  <2> QED  BY <1>6, <2>2
<1> QED  BY <1>4, <1>5, <1>6, <1>7

\* It leaves a name for each if no other session took one of the new names.
LEMMA RenameWriteOne ==
    ASSUME OneNames, FoldersWhole, RenamesRead, NEW s \in Session, RenameWrite(s), ~overtaken'
    PROVE  OneNames' /\ FoldersWhole' /\ RenamesRead'
<1> DEFINE r == reading[s]
           moved == Below(DOMAIN boxes, r.before)
           written == [n \in DOMAIN New(r) \cup (DOMAIN boxes \ DOMAIN r.moved) |->
                          IF n \in DOMAIN New(r) THEN New(r)[n] ELSE boxes[n]]
<1>1. /\ r # None /\ reading' = [reading EXCEPT ![s] = None]
      /\ boxes' = WithInbox(written)
      /\ made' = IF r.before = Inbox THEN made + 1 ELSE made
      /\ r.moved = Restrict(boxes, moved) /\ DOMAIN New(r) \cap DOMAIN boxes = {}
      /\ backend' = backend /\ gone' = gone
  BY DEF RenameWrite
<1>2. /\ backend = "redis" /\ DOMAIN New(r) \subseteq Name
      /\ r.before \in Name /\ r.after \in Name \ {Inbox}
  BY <1>1 DEF RenamesRead
<1>3. moved \subseteq DOMAIN boxes
  BY DEF Below
<1> HIDE DEF r
<1>4. /\ written = Moved(boxes, moved, r.before, r.after)
      /\ \A n \in moved : Renamed(n, r.before, r.after) \in DOMAIN New(r)
  <2> HIDE DEF moved
  <2> QED  BY <1>1, <1>3, WrittenIs
<1> HIDE DEF written
<1>5. \A n \in moved : /\ Renamed(n, r.before, r.after) \in Name
                       /\ Renamed(n, r.before, r.after) \notin DOMAIN boxes \ moved
  BY <1>1, <1>2, <1>4
<1>6. boxes' = WithInbox(Moved(boxes, moved, r.before, r.after))
  BY <1>1, <1>4
<1> DEFINE before == r.before
           after == r.after
<1>7. before \in Name /\ after \in Name \ {Inbox}
  BY <1>2
<1>8. /\ OneEach(boxes', (1..made') \ gone) /\ Inbox \in DOMAIN boxes'
      /\ made' \in Nat /\ gone \subseteq 1..made'
  <2>1. /\ boxes' = WithInbox(Moved(boxes, Below(DOMAIN boxes, before), before, after))
        /\ made' = IF before = Inbox THEN made + 1 ELSE made
        /\ \A n \in Below(DOMAIN boxes, before) :
               /\ Renamed(n, before, after) \in Name
               /\ Renamed(n, before, after) \notin DOMAIN boxes \ Below(DOMAIN boxes, before)
    BY <1>1, <1>5, <1>6
  <2> HIDE DEF before, after, moved
  <2> QED  BY <1>7, <2>1, RenamedAll
<1>9. OneNames' /\ FoldersWhole'
  BY <1>1, <1>2, <1>8 DEF OneNames, OneEach, FoldersWhole
<1>10. RenamesRead'
  <2> SUFFICES ASSUME NEW t \in Session, reading'[t] # None
               PROVE  /\ backend' = "redis" /\ DOMAIN New(reading'[t]) \subseteq Name
                      /\ reading'[t].before \in Name /\ reading'[t].after \in Name \ {Inbox}
    BY DEF RenamesRead
  <2>1. reading'[t] = reading[t]
    BY <1>1
  <2> QED  BY <1>1, <2>1 DEF RenamesRead
<1> QED  BY <1>9, <1>10

\* What starts a name that starts another starts that.
LEMMA PrefixOf ==
    ASSUME NEW a \in Seq(Part), NEW b \in Seq(Part), NEW n \in Seq(Part),
           IsPrefix(a, b), IsPrefix(b, n)
    PROVE  IsPrefix(a, n)
<1>1. Len(a) \in Nat /\ Len(b) \in Nat /\ Len(n) \in Nat /\ Len(a) <= Len(b) /\ Len(b) <= Len(n)
  BY PrefixIs
<1>2. \A i \in 1..Len(a) : b[i] = a[i]
  BY PrefixIs
<1>3. \A i \in 1..Len(b) : n[i] = b[i]
  BY PrefixIs
<1>4. \A i \in 1..Len(a) : n[i] = a[i]
  BY <1>1, <1>2, <1>3
<1> QED  BY <1>1, <1>4, PrefixIs

\* A superior of a new name is superior to the new name of the mailbox, or is the
\* new name of it or of one of its inferiors.
LEMMA SuperiorOfRenamed ==
    ASSUME NEW a \in Seq(Part), NEW b \in Seq(Part), NEW n \in Seq(Part), IsPrefix(b, n),
           1 <= Len(b), NEW y \in Superiors(Renamed(n, b, a))
    PROVE  \/ y \in Superiors(a)
           \/ \E m \in Superiors(n) : IsPrefix(b, m) /\ y = Renamed(m, b, a)
<1> DEFINE x == Renamed(n, b, a)
<1>1. /\ x \in Seq(Part) /\ Len(x) = Len(a) + (Len(n) - Len(b)) /\ Len(b) <= Len(n)
      /\ \A i \in 1..Len(a) : x[i] = a[i]
      /\ \A i \in 1..Len(n) - Len(b) : x[Len(a) + i] = n[Len(b) + i]
  BY RenamedIs
<1>2. PICK k \in 1..Len(x) - 1 : y = SubSeq(x, 1, k)
  BY DEF Superiors
<1> HIDE DEF x
<1>3. Len(a) \in Nat /\ Len(b) \in Nat /\ Len(n) \in Nat /\ k \in Nat /\ 1 <= k /\ k < Len(x)
  BY <1>1
<1>4. y \in Seq(Part) /\ Len(y) = k /\ \A i \in 1..k : y[i] = x[i]
  BY <1>1, <1>2, <1>3
<1>5. CASE k < Len(a)
  <2>1. k \in 1..Len(a) - 1
    BY <1>3, <1>5
  <2> DEFINE z == SubSeq(a, 1, k)
  <2>2. z \in Seq(Part) /\ Len(z) = k /\ \A i \in 1..k : z[i] = a[i]
    BY <1>3, <1>5
  <2>3. \A i \in 1..k : y[i] = a[i]
    <3>1. \A i \in 1..k : i \in 1..Len(a)
      BY <1>3, <1>5
    <3>2. \A i \in 1..Len(a) : x[i] = a[i]
      BY <1>1
    <3>3. \A i \in 1..k : y[i] = x[i]
      BY <1>4
    <3> QED  BY <3>1, <3>2, <3>3
  <2>4. z \in Superiors(a)
    BY <2>1 DEF Superiors
  <2> HIDE DEF z
  <2>5. y = z
    BY <1>4, <2>2, <2>3, SeqEqual
  <2> QED  BY <2>4, <2>5
<1>6. CASE k >= Len(a)
  <2> DEFINE j == Len(b) + (k - Len(a))
             m == SubSeq(n, 1, j)
  <2>1. j \in 1..Len(n) - 1 /\ j \in Nat /\ Len(b) <= j /\ j - Len(b) = k - Len(a)
    BY <1>1, <1>3, <1>6
  <2>2. m \in Seq(Part) /\ Len(m) = j /\ \A i \in 1..j : m[i] = n[i]
    <3> HIDE DEF j
    <3> QED  BY <1>3, <2>1
  <2>3. m \in Superiors(n)
    BY <2>1 DEF Superiors
  <2> HIDE DEF m, j
  <2>4. \A i \in 1..Len(b) : n[i] = b[i]
    BY PrefixIs
  <2>5. IsPrefix(b, m)
    <3>1. \A i \in 1..Len(b) : m[i] = b[i]
      BY <1>3, <2>1, <2>2, <2>4
    <3> QED  BY <2>1, <2>2, <3>1, PrefixIs
  <2> DEFINE z == Renamed(m, b, a)
  <2>6. /\ z \in Seq(Part) /\ Len(z) = Len(a) + (Len(m) - Len(b))
        /\ \A i \in 1..Len(a) : z[i] = a[i]
        /\ \A i \in 1..Len(m) - Len(b) : z[Len(a) + i] = m[Len(b) + i]
    BY <2>2, <2>5, RenamedIs
  <2> HIDE DEF z
  <2>7. Len(z) = k
    BY <1>3, <2>1, <2>2, <2>6
  <2>8. ASSUME NEW i \in 1..k PROVE y[i] = z[i]
    <3>1. CASE i <= Len(a)
      <4>1. i \in 1..Len(a)
        BY <1>3, <3>1
      <4>2. x[i] = a[i]
        BY <1>1, <4>1
      <4>3. z[i] = a[i]
        BY <2>6, <4>1
      <4>4. y[i] = x[i]
        BY <1>4
      <4> QED  BY <4>2, <4>3, <4>4
    <3>2. CASE i > Len(a)
      <4> DEFINE d == i - Len(a)
      <4>1. /\ d \in 1..Len(m) - Len(b) /\ d \in 1..Len(n) - Len(b) /\ Len(a) + d = i
            /\ Len(b) + d \in 1..j
        <5>1. i \in Nat /\ i <= k /\ d \in Nat /\ 1 <= d /\ Len(a) + d = i /\ d <= k - Len(a)
          BY <1>3, <3>2
        <5> HIDE DEF d
        <5>2. Len(m) = j /\ Len(x) = Len(a) + (Len(n) - Len(b))
          BY <1>1, <2>2
        <5> QED  BY <1>3, <2>1, <5>1, <5>2
      <4> HIDE DEF d
      <4>2. z[i] = m[Len(b) + d]
        BY <2>6, <4>1
      <4>3. m[Len(b) + d] = n[Len(b) + d]
        BY <2>2, <4>1
      <4>4. x[i] = n[Len(b) + d]
        BY <1>1, <4>1
      <4> QED  BY <1>4, <4>2, <4>3, <4>4
    <3> QED  BY <1>3, <3>1, <3>2
  <2>9. y = z
    BY <1>4, <2>6, <2>7, <2>8, SeqEqual
  <2> QED  BY <2>3, <2>5, <2>9 DEF z
<1> QED  BY <1>3, <1>5, <1>6

\* RENAME of a directory of the "fs" layout: nothing is below the new name, as a
\* folder has its superiors; and that stays so.
LEMMA RenameTreeOne ==
    ASSUME OneNames, FoldersWhole, RenamesRead, NEW before \in Name, NEW after \in Name,
           RenameTree(before, after)
    PROVE  OneNames' /\ FoldersWhole' /\ RenamesRead'
<1> DEFINE moved == Below(DOMAIN boxes, before)
<1>1. /\ backend = "fs" /\ before \in DOMAIN boxes \ {Inbox} /\ after # Inbox
      /\ after \notin DOMAIN boxes /\ ~IsPrefix(before, after)
      /\ Superiors(after) \subseteq DOMAIN boxes /\ Placed(after, moved, before)
      /\ boxes' = Moved(boxes, moved, before, after)
      /\ UNCHANGED <<backend, made, reading, gone>>
  BY DEF RenameTree
<1>2. /\ OneEach(boxes, (1..made) \ gone) /\ Inbox \in DOMAIN boxes /\ made \in Nat
      /\ gone \subseteq 1..made /\ DOMAIN boxes \subseteq Name
  BY DEF OneNames, OneEach
<1>3. \A n \in DOMAIN boxes : Superiors(n) \subseteq DOMAIN boxes
  BY <1>1 DEF FoldersWhole
<1>4. /\ moved \subseteq DOMAIN boxes /\ \A n \in moved : n \in Name /\ IsPrefix(before, n)
      /\ \A n \in DOMAIN boxes : IsPrefix(before, n) => n \in moved
  BY <1>2 DEF Below
<1>5. \A n \in moved : Renamed(n, before, after) \in Name
  BY <1>1 DEF Placed
<1> HIDE DEF moved
<1>6. ASSUME NEW n \in moved PROVE Renamed(n, before, after) \notin DOMAIN boxes
  <2> DEFINE x == Renamed(n, before, after)
  <2>1. x \in Name
    BY <1>5
  <2>2. IsPrefix(after, x)
    BY <1>4, NamesAreLists, RenamedBelow
  <2> HIDE DEF x
  <2>3. after = x \/ after \in Superiors(x)
    BY <2>1, <2>2, NamesAreLists, SuperiorIs
  <2>4. x \notin DOMAIN boxes
    BY <1>1, <1>3, <2>3
  <2> QED  BY <2>4 DEF x
<1>7. /\ OneEach(boxes', (1..made) \ gone)
      /\ \A n \in DOMAIN boxes \ moved : n \in DOMAIN boxes'
      /\ \A x \in DOMAIN boxes' : \/ x \in DOMAIN boxes \ moved
                                  \/ \E n \in moved : x = Renamed(n, before, after)
      /\ \A n \in moved : Renamed(n, before, after) \in DOMAIN boxes'
  <2>1. moved \in SUBSET DOMAIN boxes
    BY <1>4
  <2>2. \A n \in moved : /\ IsPrefix(before, n) /\ Renamed(n, before, after) \in Name
                         /\ Renamed(n, before, after) \notin DOMAIN boxes \ moved
    BY <1>4, <1>5, <1>6
  <2> QED  BY <1>1, <1>2, <2>1, <2>2, MovedKeeps
<1>8. Inbox \in DOMAIN boxes'
  <2>1. Inbox \notin moved
    BY <1>1, <1>4, NamesAssumption
  <2> QED  BY <1>2, <1>7, <2>1
<1>9. OneNames'
  BY <1>1, <1>2, <1>7, <1>8 DEF OneNames
<1>10. ASSUME NEW x \in DOMAIN boxes', NEW y \in Superiors(x) PROVE y \in DOMAIN boxes'
  <2>1. before \in Seq(Part) /\ 1 <= Len(before) /\ after \in Seq(Part)
    BY NamesAreLists
  <2>2. CASE x \in DOMAIN boxes \ moved
    <3>1. x \in Seq(Part) /\ y \in DOMAIN boxes
      BY <1>2, <1>3, <2>2, NamesAreLists
    <3>2. y \in Seq(Part) /\ IsPrefix(y, x)
      BY <3>1, SuperiorStarts
    <3>3. y \notin moved
      BY <1>4, <2>1, <2>2, <3>1, <3>2, PrefixOf
    <3> QED  BY <1>7, <3>1, <3>3
  <2>3. ASSUME NEW n \in moved, x = Renamed(n, before, after) PROVE y \in DOMAIN boxes'
    <3>1. n \in Seq(Part) /\ IsPrefix(before, n) /\ n \in DOMAIN boxes
      BY <1>4, NamesAreLists
    <3>2. CASE y \in Superiors(after)
      <4>1. y \in Seq(Part) /\ IsPrefix(y, after) /\ y \in DOMAIN boxes
        BY <1>1, <2>1, <3>2, SuperiorStarts
      <4>2. y \notin moved
        BY <1>1, <1>4, <2>1, <4>1, PrefixOf
      <4> QED  BY <1>7, <4>1, <4>2
    <3>3. ASSUME NEW m \in Superiors(n), IsPrefix(before, m), y = Renamed(m, before, after)
          PROVE  y \in DOMAIN boxes'
      <4>1. m \in moved
        BY <1>3, <1>4, <3>1, <3>3
      <4> QED  BY <1>7, <3>3, <4>1
    <3>4. \/ y \in Superiors(after)
          \/ \E m \in Superiors(n) : IsPrefix(before, m) /\ y = Renamed(m, before, after)
      <4>1. y \in Superiors(Renamed(n, before, after))
        BY <2>3
      <4> QED  BY <2>1, <3>1, <4>1, SuperiorOfRenamed
    <3> QED  BY <3>2, <3>3, <3>4
  <2> QED  BY <1>7, <2>2, <2>3
<1>11. FoldersWhole'
  BY <1>10 DEF FoldersWhole
<1> QED  BY <1>1, <1>9, <1>11, ReadStays

\* What holds at 0 and is handed on holds up to n: the least number at which
\* it does not would have one before it at which it does.
LEMMA UpTo ==
    ASSUME NEW n \in Nat, NEW T, 0 \in T, \A i \in 1..n : i - 1 \in T => i \in T
    PROVE  \A i \in 0..n : i \in T
<1> DEFINE Bad == {i \in 0..n : i \notin T}
<1> SUFFICES ASSUME Bad # {} PROVE FALSE
  OBVIOUS
<1>1. Bad \subseteq Nat
  OBVIOUS
<1>2. PICK x \in Bad : \A y \in Bad : ~ (<<y, x>> \in OpToRel(<, Nat))
  <2> HIDE DEF Bad
  <2> QED  BY <1>1, NatLessThanWellFounded, WFMin
<1>3. \A y \in Bad : ~ (y < x)
  BY <1>1, <1>2 DEF OpToRel
<1>4. x \in 1..n /\ x - 1 \in 0..n /\ x - 1 < x
  OBVIOUS
<1>5. x - 1 \in T
  BY <1>3, <1>4
<1> QED  BY <1>4, <1>5

\* What each rename of a folder leaves: f[i] after the first i of them.
Moves(f, n, first, elems, before, after) ==
    f = [i \in 0..n |-> IF i = 0 THEN first ELSE MoveOne(f[i - 1], elems[i], before, after)]

\* There is such a function.
LEMMA MovesExist ==
    ASSUME NEW n \in Nat, NEW first, NEW elems, NEW before, NEW after
    PROVE  \E f : Moves(f, n, first, elems, before, after)
<1> DEFINE Upto(f, k) ==
               f = [i \in 0..k |-> IF i = 0 THEN first ELSE MoveOne(f[i - 1], elems[i], before, after)]
           T == {k \in 0..n : \E f : Upto(f, k)}
<1>1. 0 \in T
  <2>1. Upto([i \in 0..0 |-> first], 0)
    OBVIOUS
  <2> HIDE DEF Upto
  <2> QED  BY <2>1
<1>2. ASSUME NEW k \in 1..n, k - 1 \in T
      PROVE  k \in T
  <2>1. PICK f : Upto(f, k - 1)
    BY <1>2
  <2> DEFINE g == [i \in 0..k |-> IF i = k THEN MoveOne(f[k - 1], elems[k], before, after) ELSE f[i]]
  <2>2. \A i \in 0..k - 1 : g[i] = f[i]
    OBVIOUS
  <2>3. \A i \in 0..k - 1 : f[i] = IF i = 0 THEN first ELSE MoveOne(f[i - 1], elems[i], before, after)
    BY <2>1
  <2>4. \A i \in 0..k : g[i] = IF i = 0 THEN first ELSE MoveOne(g[i - 1], elems[i], before, after)
    <3> SUFFICES ASSUME NEW i \in 0..k
                 PROVE  g[i] = IF i = 0 THEN first ELSE MoveOne(g[i - 1], elems[i], before, after)
      OBVIOUS
    <3>1. CASE i = k
      BY <2>2, <3>1
    <3>2. CASE i # k
      <4>1. i \in 0..k - 1 /\ (i # 0 => i - 1 \in 0..k - 1)
        BY <3>2
      <4> HIDE DEF g
      <4> QED  BY <2>2, <2>3, <4>1
    <3> QED  BY <3>1, <3>2
  <2>5. DOMAIN g = 0..k /\ g = [i \in 0..k |-> g[i]]
    OBVIOUS
  <2> HIDE DEF g
  <2>6. g = [i \in 0..k |-> IF i = 0 THEN first ELSE MoveOne(g[i - 1], elems[i], before, after)]
    BY <2>4, <2>5
  <2> QED  BY <2>6
<1> HIDE DEF Upto
<1>3. \A k \in 0..n : k \in T
  <2> HIDE DEF T
  <2> QED  BY <1>1, <1>2, UpTo
<1> QED  BY <1>3 DEF Upto, Moves

\* The folders after some renames: each mailbox of S has one name.
Halfway(r, S) ==
    r = [boxes |-> r.boxes, ok |-> r.ok] /\ OneEach(r.boxes, S) /\ Inbox \in DOMAIN r.boxes

\* Each rename leaves the mailboxes their names but one, or all of them.
LEMMA MoveOneKeeps ==
    ASSUME NEW S, NEW before \in Name, NEW after \in Name, NEW e \in Name,
           IsPrefix(before, e), Renamed(e, before, after) \in Name, before # Inbox,
           NEW old, Halfway(old, S), e \in DOMAIN old.boxes,
           NEW new, new = MoveOne(old, e, before, after)
    PROVE  /\ Halfway(new, S)
           /\ \A x \in DOMAIN old.boxes \ {e} : x \in DOMAIN new.boxes
<1> USE DEF Halfway
<1> DEFINE stop == ~old.ok \/ Renamed(e, before, after) \in DOMAIN old.boxes \ {e}
           b == Moved(old.boxes, {e}, before, after)
<1>1. CASE stop
  <2>1. new = [old EXCEPT !.ok = FALSE]
    BY <1>1 DEF MoveOne
  <2>2. new.boxes = old.boxes /\ new = [boxes |-> new.boxes, ok |-> new.ok]
    BY <2>1
  <2> QED  BY <2>2
<1>2. CASE ~stop
  <2>1. new = [old EXCEPT !.boxes = b]
    BY <1>2 DEF MoveOne
  <2> HIDE DEF b
  <2>2. new.boxes = b /\ new = [boxes |-> new.boxes, ok |-> new.ok]
    BY <2>1
  <2>3. \A n \in {e} : /\ IsPrefix(before, n) /\ Renamed(n, before, after) \in Name
                       /\ Renamed(n, before, after) \notin DOMAIN old.boxes \ {e}
    BY <1>2
  <2>4. {e} \in SUBSET DOMAIN old.boxes
    OBVIOUS
  <2>5. OneEach(b, S) /\ \A x \in DOMAIN old.boxes \ {e} : x \in DOMAIN b
    <3> DEFINE ob == old.boxes
               moved == {e}
    <3>1. /\ OneEach(ob, S) /\ moved \in SUBSET DOMAIN ob /\ b = Moved(ob, moved, before, after)
          /\ \A n \in moved : /\ IsPrefix(before, n) /\ Renamed(n, before, after) \in Name
                              /\ Renamed(n, before, after) \notin DOMAIN ob \ moved
      BY <2>3 DEF b
    <3> HIDE DEF ob, moved
    <3>2. OneEach(b, S) /\ \A x \in DOMAIN ob \ moved : x \in DOMAIN b
      BY <3>1, MovedKeeps
    <3> QED  BY <3>2 DEF ob, moved
  <2>6. e # Inbox
    BY NamesAssumption
  <2> QED  BY <2>2, <2>5, <2>6
<1> QED  BY <1>1, <1>2

\* The folders of a maildir are finitely many.
LEMMA NamesFinite ==
    ASSUME OneNames, NEW ns \in SUBSET DOMAIN boxes
    PROVE  IsFiniteSet(ns) /\ Cardinality(ns) \in Nat
<1>1. /\ made \in Nat /\ \A n \in DOMAIN boxes : boxes[n] \in Range(boxes)
      /\ Range(boxes) \subseteq 1..made /\ \A n, m \in DOMAIN boxes : boxes[n] = boxes[m] => n = m
  BY DEF OneNames, OneEach, Range
<1> DEFINE f == [n \in ns |-> boxes[n]]
<1>2. f \in [ns -> 1..made] /\ \A n, m \in ns : f[n] = f[m] => n = m
  BY <1>1
<1>3. f \in Injection(ns, 1..made)
  BY <1>2 DEF Injection, IsInjective
<1>4. IsFiniteSet(1..made)
  BY <1>1, FS_Interval
<1>5. IsFiniteSet(ns)
  BY <1>3, <1>4, FS_Injection
<1> QED  BY <1>5, FS_CardinalityType

\* RENAME of the folders of the "++" layout one by one, wherever it stops.
LEMMA RenameEachOne ==
    ASSUME OneNames, FoldersWhole, RenamesRead, NEW before \in Name, NEW after \in Name,
           RenameEach(before, after)
    PROVE  OneNames' /\ FoldersWhole' /\ RenamesRead'
<1> DEFINE moved == Below(DOMAIN boxes, before)
           S == (1..made) \ gone
           first == [boxes |-> boxes, ok |-> TRUE]
<1>1. /\ backend = "++" /\ before # Inbox /\ Placed(after, moved, before)
      /\ UNCHANGED <<backend, made, reading, gone>>
  BY DEF RenameEach
<1>2. /\ OneEach(boxes, S) /\ Inbox \in DOMAIN boxes /\ made \in Nat
      /\ gone \subseteq 1..made /\ DOMAIN boxes \subseteq Name
  BY DEF OneNames, OneEach
<1>3. moved \in SUBSET DOMAIN boxes /\ \A n \in moved : n \in Name /\ IsPrefix(before, n)
  BY <1>2 DEF Below
<1>4. \A n \in moved : Renamed(n, before, after) \in Name
  BY <1>1 DEF Placed
<1>5. IsFiniteSet(moved) /\ Cardinality(moved) \in Nat
  <2> HIDE DEF moved
  <2> QED  BY <1>3, NamesFinite
<1>6. PICK elems \in SetToSeqs(moved) :
          LET done[i \in 0..Len(elems)] ==
                  IF i = 0 THEN first ELSE MoveOne(done[i - 1], elems[i], before, after)
          IN boxes' = done[Len(elems)].boxes
  BY DEF RenameEach
<1> DEFINE n == Len(elems)
           done == CHOOSE f : f = [i \in 0..n |->
                       IF i = 0 THEN first ELSE MoveOne(f[i - 1], elems[i], before, after)]
<1>7. boxes' = done[n].boxes
  BY <1>6
<1> HIDE DEF moved, S, first
<1>8. /\ elems \in [1..Cardinality(moved) -> moved] /\ n = Cardinality(moved)
      /\ \A i, j \in 1..n : i # j => elems[i] # elems[j]
  <2>1. /\ elems \in [1..Cardinality(moved) -> moved]
        /\ \A i, j \in 1..Cardinality(moved) : i # j => elems[i] # elems[j]
    BY <1>6 DEF SetToSeqs
  <2>2. n = Cardinality(moved)
    BY <1>5, <2>1
  <2> QED  BY <2>1, <2>2
<1>9. n \in Nat /\ \A i \in 1..n : elems[i] \in moved
  BY <1>5, <1>8
<1> HIDE DEF n
<1>10. done = [i \in 0..n |-> IF i = 0 THEN first ELSE MoveOne(done[i - 1], elems[i], before, after)]
  <2> HIDE DEF first
  <2>1. \E f : Moves(f, n, first, elems, before, after)
    BY <1>9, MovesExist
  <2> QED  BY <2>1, Zenon DEF Moves
<1> HIDE DEF done
<1>11. done[0] = first /\ \A i \in 1..n : done[i] = MoveOne(done[i - 1], elems[i], before, after)
  <2>1. 0 \in 0..n /\ \A i \in 1..n : i \in 0..n /\ i # 0
    BY <1>9
  <2> QED  BY <1>10, <2>1
<1> DEFINE T == {k \in 0..n : /\ Halfway(done[k], S)
                              /\ \A j \in k + 1..n : elems[j] \in DOMAIN done[k].boxes}
<1>12. 0 \in T
  <2>1. done[0].boxes = boxes /\ done[0] = [boxes |-> done[0].boxes, ok |-> done[0].ok]
    BY <1>11 DEF first
  <2> QED  BY <1>2, <1>3, <1>9, <2>1 DEF Halfway
<1>13. ASSUME NEW k \in 1..n, k - 1 \in T PROVE k \in T
  <2> DEFINE old == done[k - 1]
             new == done[k]
             e == elems[k]
  <2>1. /\ Halfway(old, S)
        /\ \A j \in (k - 1) + 1..n : elems[j] \in DOMAIN old.boxes
    BY <1>13
  <2>2. new = MoveOne(old, e, before, after) /\ e \in moved
    BY <1>9, <1>11
  <2>3. e \in Name /\ IsPrefix(before, e) /\ Renamed(e, before, after) \in Name
    BY <1>3, <1>4, <2>2
  <2>4. e \in DOMAIN old.boxes
    <3>1. k \in (k - 1) + 1..n
      BY <1>9
    <3> QED  BY <2>1, <3>1
  <2>5. /\ Halfway(new, S)
        /\ \A x \in DOMAIN old.boxes \ {e} : x \in DOMAIN new.boxes
    <3>1. Halfway(old, S) /\ e \in DOMAIN old.boxes
      BY <2>1, <2>4
    <3>2. new = MoveOne(old, e, before, after)
      BY <2>2
    <3>3. before # Inbox
      BY <1>1
    <3> HIDE DEF old, new, e
    <3> QED  BY <2>3, <3>1, <3>2, <3>3, MoveOneKeeps
  <2>6. ASSUME NEW j \in k + 1..n PROVE elems[j] \in DOMAIN new.boxes
    <3>1. j \in (k - 1) + 1..n /\ j \in 1..n /\ j # k
      BY <1>9
    <3>2. elems[j] \in DOMAIN old.boxes /\ elems[j] # e
      BY <1>8, <2>1, <3>1
    <3> QED  BY <2>5, <3>2
  <2>7. k \in 0..n
    BY <1>9
  <2> QED  BY <2>5, <2>6, <2>7
<1>14. n \in T
  <2> HIDE DEF T
  <2>1. \A k \in 0..n : k \in T
    BY <1>9, <1>12, <1>13, UpTo
  <2> QED  BY <1>9, <2>1
<1>15. OneEach(boxes', S) /\ Inbox \in DOMAIN boxes'
  BY <1>7, <1>14 DEF Halfway
<1>16. OneNames' /\ FoldersWhole'
  BY <1>1, <1>2, <1>15 DEF OneNames, FoldersWhole, S
<1> QED  BY <1>1, <1>16, ReadStays

LEMMA OneNameStart == NamesInit => OneNameInv
<1> SUFFICES ASSUME NamesInit PROVE OneNames /\ FoldersWhole /\ RenamesRead
  BY DEF OneNameInv
<1>1. /\ boxes = [n \in {Inbox} |-> 1] /\ made = 1 /\ gone = {}
      /\ reading = [s \in Session |-> None]
  BY DEF NamesInit
<1>2. DOMAIN boxes = {Inbox} /\ boxes[Inbox] = 1
  BY <1>1
<1>3. \A v : v \in Range(boxes) <=> \E x \in DOMAIN boxes : v = boxes[x]
  BY DEF Range
<1>4. (1..made) \ gone = {1}
  BY <1>1
<1>5. Range(boxes) = {1}
  BY <1>2, <1>3
<1>6. OneNames
  BY <1>1, <1>2, <1>4, <1>5, NamesAssumption DEF OneNames, OneEach
<1>7. FoldersWhole
  <2>1. Superiors(Inbox) = {}
    BY DEF Superiors, Inbox
  <2> QED  BY <1>2, <2>1 DEF FoldersWhole
<1>8. RenamesRead
  BY <1>1 DEF RenamesRead
<1> QED  BY <1>6, <1>7, <1>8

LEMMA OneNameStep == OneNameInv /\ [NamesNext]_nameVars => OneNameInv'
<1> SUFFICES ASSUME OneNameInv, [NamesNext]_nameVars, ~overtaken'
             PROVE  OneNames' /\ FoldersWhole' /\ RenamesRead'
  BY DEF OneNameInv
<1>1. CASE UNCHANGED nameVars
  <2>1. UNCHANGED <<backend, boxes, made, gone, reading, overtaken>>
    BY <1>1 DEF nameVars
  <2>2. OneNames /\ FoldersWhole /\ RenamesRead
    BY <2>1 DEF OneNameInv
  <2> QED  BY <2>1, <2>2, ReadStays DEF OneNames, OneEach, FoldersWhole
<1>2. CASE Command
  <2>1. ASSUME NEW n \in Name, Create(n) \/ Delete(n)
        PROVE  OneNames' /\ FoldersWhole' /\ RenamesRead'
    <3>1. OneNames /\ FoldersWhole /\ RenamesRead
      BY <2>1 DEF OneNameInv, Create, Delete
    <3> QED  BY <2>1, <3>1, CreateOne, DeleteOne
  <2>2. ASSUME NEW before \in Name, NEW after \in Name,
               \/ RenameAtOnce(before, after) \/ RenameEach(before, after)
               \/ RenameTree(before, after)
        PROVE  OneNames' /\ FoldersWhole' /\ RenamesRead'
    <3>1. overtaken' = overtaken
      BY <2>2 DEF RenameAtOnce, RenameEach, RenameTree
    <3>2. OneNames /\ FoldersWhole /\ RenamesRead
      BY <3>1 DEF OneNameInv
    <3> QED  BY <2>2, <3>2, RenameAtOnceOne, RenameEachOne, RenameTreeOne
  <2>3. ASSUME NEW before \in Name, NEW after \in Name, NEW s \in Session,
               RenameRead(s, before, after)
        PROVE  OneNames' /\ FoldersWhole' /\ RenamesRead'
    <3>1. OneNames /\ FoldersWhole /\ RenamesRead
      BY <2>3 DEF OneNameInv, RenameRead
    <3> QED  BY <2>3, <3>1, RenameReadOne
  <2>4. ASSUME NEW s \in Session, RenameWrite(s)
        PROVE  OneNames' /\ FoldersWhole' /\ RenamesRead'
    <3>1. ~overtaken
      BY <2>4 DEF RenameWrite
    <3>2. OneNames /\ FoldersWhole /\ RenamesRead
      BY <3>1 DEF OneNameInv
    <3> QED  BY <2>4, <3>2, RenameWriteOne
  <2> QED  BY <1>2, <2>1, <2>2, <2>3, <2>4 DEF Command
<1> QED  BY <1>1, <1>2 DEF NamesNext

\* The mailboxes of a name, counted.
LEMMA OneNameCounts == OneNameInv => EachHasOneName
<1> SUFFICES ASSUME OneNameInv, ~overtaken, NEW id \in 1..made
             PROVE  Cardinality({n \in DOMAIN boxes : boxes[n] = id}) = IF id \in gone THEN 0 ELSE 1
  BY DEF EachHasOneName
<1> DEFINE ns == {n \in DOMAIN boxes : boxes[n] = id}
<1>1. /\ \A v \in (1..made) \ gone : \E n \in DOMAIN boxes : boxes[n] = v
      /\ \A n \in DOMAIN boxes : boxes[n] \in (1..made) \ gone
      /\ \A n, m \in DOMAIN boxes : boxes[n] = boxes[m] => n = m
  <2>1. \A v : v \in Range(boxes) <=> \E x \in DOMAIN boxes : v = boxes[x]
    BY DEF Range
  <2>2. /\ Range(boxes) = (1..made) \ gone
        /\ \A n, m \in DOMAIN boxes : boxes[n] = boxes[m] => n = m
    BY DEF OneNameInv, OneNames, OneEach
  <2> QED  BY <2>1, <2>2
<1>2. CASE id \in gone
  <2>1. ns = {}
    BY <1>1, <1>2
  <2> QED  BY <1>2, <2>1, FS_EmptySet
<1>3. CASE id \notin gone
  <2>1. PICK n \in DOMAIN boxes : boxes[n] = id
    BY <1>1, <1>3
  <2>2. ns = {n}
    BY <1>1, <2>1
  <2> QED  BY <1>3, <2>2, FS_Singleton
<1> QED  BY <1>2, <1>3

\* In every backend, each mailbox that was made has one name until it is deleted,
\* and none after, unless another session changed the names between the two halves
\* of a redis RENAME; a RENAME of folders that stops half way included.
THEOREM EachIsNamedOnce == NamesSpec => []EachHasOneName
<1>1. NamesSpec => []OneNameInv
  BY OneNameStart, OneNameStep, PTL DEF NamesSpec
<1> QED  BY <1>1, OneNameCounts, PTL

=============================================================================
