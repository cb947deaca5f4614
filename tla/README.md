# A TLA+ model of pymap

pymap is an IMAP server in Python. It serves many connections from one event
loop (or from threads) and keeps its mailboxes in memory ("dict"), in Maildir
directories or in Redis. This directory holds specifications of the parts of it
that are hard to test, TLC configurations that check them on small instances,
and proofs that TLAPS checks for every instance.

Paths below are relative to `pymap/` in the source tree.

## 1. The system

| Part | Source | State it keeps | Operations |
|---|---|---|---|
| Flags | `flags.py` | the `\Recent` messages of a session | `FlagOp.apply`, `add_recent`, `remove` |
| Selected mailbox | `selected.py` | a session's view: UIDs, flags, pending expunges, silenced flags, the last frozen state | `add_updates`, `set_messages`, `silence`, `hide_expunged`, `fork` |
| Responses | `parsing/response/` | the untagged responses of one command | `add_untagged`, `merge` |
| Dict mailbox | `backend/dict/mailbox.py` | messages, the next UID, modification sequences, an event, a lock | `append`, `copy`, `move`, `get`, `update`, `delete`, `claim_recent`, `update_selected` |
| Modification sequences | same, `_ModSequenceMapping` | numbers of updates and expunges | `update`, `expunge`, `find_updated` |
| Sessions | `backend/session.py`, `imap/state.py` | the selected mailbox of a connection | one method and one handler per IMAP command |
| IDLE | `imap/__init__.py` | two tasks and the `done` event | `idle`, `handle_updates` |
| Locks and events | `concurrent.py` | counter and locks; listeners; lock files | `read_lock`, `write_lock`, `or_event`, `set`, `wait` |
| Maildir backend | `backend/maildir/` | directory and UID list file | as the dict mailbox, over files |
| Redis backend | `backend/redis/` | hashes, a change stream, a cleanup queue | as the dict mailbox, by Lua scripts |
| Mailbox sets | `*/mailbox.py`, `listtree.py` | names, subscriptions | create, delete, rename, list |
| Connections | `imap/` | greeting, session, selection, bad commands | `_run_state`, `do_command` |
| Sieve, filters | `sieve/`, `filter.py` | scripts and the active one | ManageSieve commands |
| Health | `health.py` | a graph of statuses | `set`, `register`, `new_dependency` |
| Parsing, MIME, search, fetch | `parsing/`, `mime/`, `search.py`, `fetch.py` | none | pure functions |
| Start-up, admin, cluster, tokens, users | the rest | configuration | wiring, and calls into libraries |

How they interact. A command arrives at a connection, whose handler
(`do_store`, say) prepares the selected mailbox (`hide_expunged`, `silence`) and
calls the session; the session calls the mailbox for every message, and then
`update_selected`, which puts what has changed since the session's number into
the selected mailbox. `do_command` finally calls `fork()`: it compares the view
with the one at the last fork, answers the untagged responses of the difference,
and makes the copy for the next command. Sessions meet in the mailbox, in the
`Message` objects they share, and in `SelectedSet`, through which a new message's
`\Recent` may be given to another session. In the maildir backend they share no
objects, only files; in the redis backend only keys, which also other servers
and the background task of each server change.

What is hard, and what must be right:

* *Views from partial updates.* A session only looks at the changes since its
  number, in the dict backend and in redis, where the stream of changes is
  trimmed. The view must still follow the mailbox (`ViewFollowsMailbox`).
* *Numbers.* Client and server count messages separately. EXPUNGE, EXISTS, and
  the expunges that commands with sequence numbers hide must keep the two
  numberings the same (`ClientNumbersAgree`, `SearchKeepsNumbers`).
* *Told once and told all.* Comparing frozen states, silencing and merging must
  lose no change of flags (`ClientFlagsCurrent`), leaving IDLE no change at all
  (`SeenIsTold`).
* *Recent.* A message is recent for one session only (`RecentOnce`).
* *UIDs.* Across processes, crashes and scripts that fail, a UID is given once
  and means one message for ever (`LedgerSpec` of `Redis`, `LedgerUnlessRaced` of
  `Maildir`).
* *Names.* RENAME moves a tree of mailboxes in several steps (`EachHasOneName`),
  and a client's cache must stay true (`ValidityNamesOne`).
* *References.* Messages share contents that a queue counts down later
  (`ContentKept`).
* *Connections.* Any command may fail, time out or be cancelled anywhere: one
  answer each (`AnsweredOnce`), and both sides agree on what is selected and who
  is logged in (`SelectedAsTold`, `OwnerAsTold`).
* *Locks and waits.* Exclusion, no lost wake-up, no command without an answer,
  lock files that outlive their owner.
* *Reading and loading.* A command with literals is parsed anew with every line
  (`InStep`); SEARCH and FETCH load what they are believed to need
  (`SearchFinds`, `FetchShowsMessage`).

`PROJECT.json` lists each hazard at its line with the properties that watch it,
and each definition with the lines it stands for.

## 2. Modules

| Module | Models | Run | Proofs |
|---|---|---|---|
| `Flags`, `Uids` | flag operations; UIDs and sequence numbers | `mailbox` | |
| `SelectedMailbox` | a session's view, `fork()`, the responses, a client | `mailbox` | |
| `ChangeLog`, `ChangeLogSpec` | what a mailbox remembers of its changes, abstractly | `mod_sequence` | |
| `ModSequence` | `_ModSequenceMapping`; implements `ChangeLogSpec` | `mod_sequence` | `ModSequenceProofs` |
| `DictMailbox` | one dict mailbox with its sessions; uses `ChangeLog` and `SelectedMailbox` | `mailbox`, `mailbox_uid`, `lost_expunge` | `DictMailboxProofs` |
| `ReadWriteLock` | the read-write lock | `rwlock` | `ReadWriteLockProofs` |
| `Idle` | IDLE and its two tasks | `idle` | `IdleProofs` |
| `UidLedger` | what every backend promises of UIDs, abstractly | `maildir`, `redis` | |
| `Maildir` | one maildir mailbox with sessions in several processes, and the lock file of its UID list; implements `UidLedger` until the lock is lost | `maildir` | `MaildirProofs` |
| `Redis` | one redis mailbox, shared contents, the background task; implements `UidLedger` | `redis` | `RedisProofs` |
| `FileLock` | the lock file | `account` | `AccountProofs` |
| `Names` | a user's mailboxes by name, in all backends | `account` | `AccountProofs` |
| `Filters` | Sieve scripts and the active one | `account` | `AccountProofs` |
| `Users` | a user's metadata with entity tags | `account` | `AccountProofs` |
| `Connection` | one IMAP connection | `connection` | `ConnectionProofs` |
| `ManageSieve` | one ManageSieve connection | `connection` | `ConnectionProofs` |
| `Search` | sequence sets, SEARCH | `values` | |
| `Mime`, `Fetch` | the parts of a message, FETCH | `values`, `hollow_body` | |
| `Commands` | reading and parsing a command with literals | `values` | |

`MCAccount`, `MCConnection` and `MCValues` put components with no state in common
side by side: each behaviour changes one of them, so that a run checks all of them
and the state spaces add up instead of multiplying.

### DictMailbox

| Variable | Code |
|---|---|
| `messages`, `maxUid` | `_messages`, `_max_uid` (from 0 here, from 100 there) |
| `flags`, `recent` | `permanent_flags` and `recent` of the `Message` objects |
| `log` | `_mod_sequences` |
| `sess[s]` | the connection's `_selected`; mode `"none"` without one |
| `client[s]` | not in the code: what the client works out from the responses |

Each action is one command: handler, session method, mailbox methods,
`update_selected` and `fork()`. In the dict backend none of its awaits
suspends: no lock is held across a suspension, so an `asyncio.Lock` is always
free, and a task that does not suspend is not interrupted. The granularity is
that of the asyncio subsystem; under the threading subsystem commands could
interleave inside, and `update_selected` takes no lock there.

`Complete` is the end of `do_command`. `StoreRefused` is the path on which
`update_flags` raises and the selected mailbox is *not* forked. The two halves
of MOVE within a mailbox, the recording of an update for a message that is gone,
and the numbers that changes of no message use up are all as in the code.

Flags cached by a session are the ones of the mailbox's own object (`flags[u]`),
because the caches hold the very objects; `keys` holds what `_flags_key_map`
copied at the last update. This difference is what `silence()` gets wrong.

The client in `SelectedMailbox` follows RFC 3501: EXPUNGE removes a number and
shifts the higher ones, EXISTS adds entries at the end, FETCH sets flags. An
EXISTS response in the model carries the view it counts, only so that an entry
can be compared with the message the server meant by it.

### ModSequence and ChangeLog

`ModSequence` keeps the two dictionaries, the list of numbers and the numbers of
the UIDs as the code does. `_remove_prev` for several UIDs is done at once;
`Removed` is what its `list.remove` leaves of the list of numbers.
`ChangeLogSpec` is what a session may rely on: for each UID its last change.
The refinement mapping reads the kind of a change off the dictionary that has
the number. `FindUpdatedIsSince` shows that `find_updated` is `Since`, and so
justifies that `DictMailbox` uses the abstract log.

### ReadWriteLock

Steps are those of the threading form: counting oneself in, acquiring the lock,
counting oneself out, releasing the lock. `_read_lock` guards a single
assignment and is folded into the step. In the asyncio form some of these steps
cannot be separated, which leaves fewer behaviours.

### Idle

Changes of the mailbox are counted, the session has `seen` some of them and the
client was `told` of some. The places at which a task suspends are waiting on
the event and writing. `registered` is a history variable for one property.

### Maildir and UidLedger

| Variable | Code |
|---|---|
| `place` | the directory: `new`, `cur`, another mailbox, or gone |
| `records`, `nextUid` | `dovecot-uidlist` and its header |
| `lock`, `gate` | `dovecot-uidlist.lock`, and where each session is in `read_lock()` or `write_lock()` |
| `copy` | the `UidList` object of a session in a `with_write()` block |
| `home`, `view`, `recent` | `_selected` of a session |
| `pc`, `keys`, `key` | the command in progress: `_load_updates` and the rest work in several accesses |

A step is one access to the directory, the list or the lock file. `Start`
begins a command, `Scan`/`Merge` are `reset()`, `Claim` is `claim_recent`, `Add`
and `RecordKey` the two halves of adding a message, `Lookup`/`Take` those of
copying or moving one, `Delete`, `Sweep` (`cleanup`) and `Look` (`messages`,
`set_messages`). `Deliver` is another program.

Those that change the list are the second of three steps. `Enter` makes the lock
file and reads the list (`_try_lock`, `__aenter__`), the step itself writes the
list back as a whole over whatever is there by now, and `Release` unlinks the lock file. A file that a
dead process has left expires (`Expire`); `Find` is the stat of `_check_lock` and
`Break` its unlink, which takes whatever file is there by the time. So two
that have found the same expired file may both get into the block: `raced` is set
when the file of a live holder is unlinked, and the second to write undoes what the
first has written. Readers look for the lock file and do not make one. `Fail` is
the `TimeoutError` of who has waited too long. `Crash` may happen between any two
steps; the session's name then goes to another. `UidLedger` has two variables and
two steps; redis implements it, and maildir until `raced`.

`twice` and `back` are history, for the two ways in which a mark can be given
again: two sessions have recorded one file, or a file has left the mailbox and come
back while a record of it was still in the list, so that another session claims
under that record what the first has as recent already.

### Redis

A Lua script or a pipeline is one step, with its failure half way where XADD
refuses a number: `Xadd`. `changes` is the stream, trimmed by any amount that
MAXLEN `~` allows. `UpdateSelected` reads the changes since `modSeq[s]`, or
everything if the trimmed stream shows too few. `refs` and `data` are the
references to a content and its expiry, `queue` and `task` the cleanup queue and
what `BackgroundTask` has popped; `Crash` loses it. The user's other mailboxes
are a count of messages for each content (`away`).

### Names

`boxes` maps names to mailboxes. `Create`, `Delete` and the RENAME of each
backend are actions of their own: at once in dict; folder by folder, up
to the first that is in the way, in the "++" layout (one step: what others do between
two folders is left out); one directory in "fs"; in
redis a reading step and a writing step. `seen` collects what clients may have
cached; it and `gone` are history. So are `remade`, the INBOXes that RENAME of INBOX
has made, and `overtaken`, set when a redis RENAME writes names that have changed
since it read them.

### FileLock

One system call a step: `Call` (stat), `Break` (unlink of an expired file), `Try`
(create), `Retry` (one delay), `Release`, `Crash`, `Expire`. `raced` remembers that
somebody has unlinked a live writer's file, which the code cannot prevent when
two processes find the same expired file.

### Filters, Users

`Filters` has one action for each operation of `FilterSet`; `store` says which
backend it is, and `outdated` that PUTSCRIPT has replaced the active script in
redis, which goes on using the former one. `Users` separates `Watch` from
`Execute` for redis, where other requests come between; the dict backend sets
in one step, maildir without comparing.

### Connection and ManageSieve

`Connection` is the loop of `_run_state` with the guards of `ConnectionState`:
`Read`, then the command's action (`Refuse` is every refusal and error),
`Continue` for continuations, `StartIdle`/`Updates`/`Done`, and the ways out
(`Leave`, `Cancel`, `TimeOut`, the error limit). Commands are represented by
class. `told` and `errors` are what a client knows from the responses alone.
`ManageSieve` is the same for the simpler loop of the Sieve server.

### Search, Fetch, Mime, Commands

Functions of their input, for inputs that are grown step by step: keys of a SEARCH
in polish notation, lines of a message, tokens of a command. `Search` compares
`search_mailbox` (which narrows by one sequence set, loads what the keys
require, evaluates the criteria) with the set a key denotes. `Fetch` compares
what is read from the content each backend loads with the ranges of a message.
`Commands` has the parser with its alternatives and backtracking as a fold over
grammar terms, and the exchange of lines, "+" and literals around it.

## 3. Runs and bounds

| Run | Instance | Shows |
|---|---|---|
| `mailbox` | 2 sessions, 2 messages, 5 changes, sequence-number commands | view, numbers, flags, recent marks |
| `mailbox_uid` | 2 sessions, read-write or read-only, 2 messages, 3 changes, UID commands | the inductive invariant `ClientInv` |
| `mod_sequence` | 3 UIDs, 4 changes of any sets of them | refinement, order of the list, search |
| `rwlock` | 4 tasks | exclusion, deadlock, progress of the first reader |
| `idle` | 4 changes, deletion, DONE at any time | no loss, an answer, no missed wake-up while waiting |
| `maildir` | 2 sessions, 2 files, 2 UIDs, 1 death at any step | UIDs kept (refinement, up to the race), `\Recent` once, one UID a file |
| `redis` | 2 sessions, 1 content, 2 UIDs, 3 changes, a stream of 2, 1 message elsewhere, 1 crash | views over a trimmed stream, indexes, references, UIDs (refinement) |
| `account` | 3 processes and 1 retry; 5 names in 2 levels, 3 mailboxes; 3 script names, 4 scripts; 2 requests, 4 versions | lock file, names, scripts, users |
| `connection` | 2 users, 2 mailboxes, a limit of 2 bad commands | one answer, selection, budget, owner |
| `values` | 3 keys over 3 messages; 7 lines; 5 tokens | search, fetch and parsing |
| `lost_expunge`, `hollow_body` | | the findings below |

`MaxUid` bounds the messages ever added, `MaxModSeq` the changes, `MaxChanges` the
changes seen by IDLE, `Key` the files, `MaxDeaths` the processes that die,
`MaxLen` the stream (1000 in the code),
`MaxAway` the messages elsewhere, `MaxCrashes` the crashes of the background task,
`MaxId` and `MaxValidity` the mailboxes and their renumberings, `MaxKey` the
scripts, `MaxTag` the versions, `MaxKeys`, `MaxLines` and `MaxTokens` the inputs;
each stands as a guard in the actions that count. That is why deadlock is not
checked in those modules: the bounds stop them; connections close, and a behaviour
of `values` ends with its input. It is checked for the lock.

Why they are enough. Properties relate a session to the mailbox or to one other
session, so two suffice, and roles are exchanged freely. Two messages are needed
for a sequence number to shift; five changes to add two, change or expunge them and
claim a mark. Four tasks allow a writer inside, a reader waiting, one inside and
one on its way out. Three processes allow two to find one expired file while the
third makes a new one. Two files and two UIDs let a file leave a mailbox, come
back and be recorded by two sessions, and two sessions with one death break the
same expired lock file, so that one undoes the other's records. A stream of two with three changes is
trimmed past a session's number. Two levels of names let RENAME move a mailbox
below another and meet a folder in the way. Two bad commands make a limit with
one that may be forgiven. Three keys make `NOT OR a b` and a group; seven lines
are a header, a multipart with a part in it that has a header and a body, and its
end, and a message in a message; five tokens hold two literals with words around.

Two bounds of `maildir` cut the behaviours down. `Contended` is FALSE: no command
times out because of a live holder, though it does because of a dead one's file.
`AfterRace` is FALSE: commands that are under way when a holder loses its file
go on to their end, and no new one begins. The run then has 6 million states. With
`AfterRace` TRUE it has 21 million and passes as well, and so does `Contended` TRUE
without deaths, with 11 million; both take too long to be run each
time. The proofs need neither bound.

The run `mailbox` leaves out UID commands, and `mailbox_uid` the properties of
the client, because of the first disagreement in the list below. So `mailbox` says
nothing of merging across an EXPUNGE; and as its sessions are read-write, what a
refused STORE leaves behind is in `mailbox_uid` and in the proofs.

Fairness. `ReadWriteLock`: whoever is inside leaves (weak fairness), and a task
that is repeatedly able to take a lock takes it (strong fairness), as
`asyncio.Lock` serves its waiters first come first served; threading locks
do not promise this. `Idle`: the event loop runs what is ready and a write ends
(weak fairness of the tasks' steps; a lost connection ends a write, too). No
fairness is assumed of clients, of other sessions, or in any other module.

### Disagreements found

Two have runs that end in a counterexample; `PROJECT.json` quotes the lines.

* `lost_expunge`: a STORE on an expunged message makes the log forget the expunge;
  sessions keep the message. `ViewFollowsMailbox` is stated so that it holds with
  this: what it allows is named `Superseded`.
* `hollow_body`: `get_raw()` takes the line numbers of an empty range for 0 and -1.
  A message without body lines has its header for a body, one without a blank line
  lacks its last byte. `FetchShowsMessage` therefore speaks of messages in which
  neither is empty (`Proper`).

The following are in the models as they are in the code, and the properties make
room for them by name. Where a definition is given, naming it in the configuration
has TLC show the behaviour.

In the mailbox of the dict backend:

* Responses are merged across an EXPUNGE (`parsing/response/__init__.py:187`), and
  flags land on another message: `ClientFlagsCurrent` with
  `UidCommand <- ByUidToo` and 6 changes.
* STORE .SILENT also silences a change that another session made meanwhile
  (`selected.py:382`, against its doc string): `ClientFlagsWithSilent` with
  `Operand <- EveryOperand`.
* A refused STORE .SILENT silences a later change, since the command is not
  forked (`imap/state.py:343`): `ClientFlagsCurrent` with `Mode <- AnyMode` and
  `MaxUid = 1`.
* After a hidden expunge the message is still counted as recent
  (`selected.py:320`): `NoopCountsRecent`.
* MOVE out of a mailbox opened with EXAMINE is not refused: `move_messages` looks
  only at the destination.

In locks and IDLE:

* Readers after the first do not wait for a writer (`concurrent.py:270`, against
  line 174): `ReadersWaitForWriters` of `ReadWriteLock`.
* A lock file can be lost to a second process that found the same expired one
  (`concurrent.py:365`): `WritersExclude` of `FileLock`.
* IDLE does not report a change made before it waits (`dict/mailbox.py:227`,
  against `interfaces/session.py:252`): `IdleNotices`.

In the other backends:

* maildir: two processes that find one expired lock file may both be in
  `with_write()`, and the UID that one has told its client is given to another file
  (`raced`): `LedgerSpec` of `Maildir`. `claim_recent` uses a generator up (`mailbox.py:372`); a file that
  comes back, or is recorded by `reset()` before its own session does so, has two
  UIDs (`twice`); MOVE within a mailbox waits for its own lock (`"stuck"`).
* redis: the expunge of a MOVE takes its number from the clock
  (`message_move.lua:36`), and later changes, with smaller numbers, fail half way
  (`broken`); RENAME writes names that may have changed since it read them
  (`overtaken`); an INBOX renamed for the second time is left out of LIST
  (`remade`); a script put again while active is not the
  one that runs (`outdated`); a user that is not there can be set by a request that
  names a tag, which the dict backend refuses.
* "++" layout: RENAME stops half way at a folder in the way.

In connections, searching and parsing:

* AUTHENTICATE bypasses the check for an existing session; the BYE of too many
  bad commands is added to a response that has been written; ManageSieve answers
  NO to a failed handshake after OK.
* The doc string of `SearchCriteriaSet` says that an empty set matches nothing; it
  matches everything. BODY searches the header, too.
* Append options of the form `UTF8 (~{n}` never parse.

## 4. Proofs

For every value of the constants:

* `ViewInvCorrect`, `TypeCorrect`, `ViewCorrect` (`DictMailboxProofs`).
  `ViewFollowsMailbox` is
  not inductive: it speaks of a session that has seen a message's last change,
  and nothing in it says what a view may contain of the others, or that UIDs are
  not used again. `ViewInv` adds: the log knows every message and has no number
  beyond its highest (`LogOK`); a view has right everything it has seen, has no
  number beyond the log's, and holds no message back that still exists (`View`);
  it knows no UID that has not been given out (`Known`). The step is proved in
  two halves: what a command does to the mailbox leaves every other view right
  about what that view has seen, as all changes get numbers beyond it; and
  `update_selected` makes a view right about everything. Every action of the
  mailbox is an instance of the two.
* `RecentCorrect`: no UID beyond `maxUid` is recent anywhere, so a new message's
  mark is the only one; SELECT takes over marks that no session has.
* `ClientInvCorrect`, `ClientNumbersCorrect`, `RecentCountCorrect`,
  `SearchKeepsCorrect` (`DictMailboxProofs`). `ClientInv` adds to `ViewInv` that the
  client was told of the view as it is, and that a message not in the view is newer
  than all in it, so that EXISTS can only add at the end. The argument is one about
  lists of responses. `Renumbers(a, r, b)` says that the response `r` takes a
  numbering (UIDs in order, and the number of recent ones) from `a` to `b`, `Runs(R, a, b)`
  that a list does. `RunsCompare`: the list that `fork()` makes runs from what was told to
  the view; it rests on EXPUNGE going from the highest number down
  (`RunsExpunges`). `RunsResponse`: merging each FETCH into an earlier one changes
  nothing of that, as a FETCH renumbers nothing. `HearAllRight`: a client that has a
  numbering and hears a list that runs from it has the numbering the list runs
  to. The folds that merge and hear the list are recursive functions, and the
  lemma `UpTo` is the induction they need: it takes a set of numbers, not a
  predicate, and follows from the least number that is not in the set. `CommandTells`
  puts these together for any command, and each command is an instance.
* `ClientFlagsCorrect` (`DictMailboxProofs`): `ClientFlagsCurrent`, if `UidCommand`
  has only `FALSE` and `Mode` only `"rw"`. Otherwise it is false (see the disagreements
  above), and the proof shows where each condition is used: a command that names
  sequence numbers hides expunges, so that in its responses no EXPUNGE comes after a
  FETCH (`Ordered`); and a session that may write has no STORE refused, so that
  nothing stays silenced after a command. `FlagsInv` adds to `ClientInv` that what
  was told last is the session's view with its \Recent marks, and that every
  entry of a client is right about it (`FlagsKnown`). Of one message and the
  flags it has at the end of a command, a list of responses may tell only those
  flags (`Says`), and does tell them (`Mentions`) if they differ from what was
  told last and silence() has not noted them. `CompareTells` says that of the list that
  `fork()` makes, `OwnSays` of the command's own, and `ResponseTells` that merging
  keeps both; `HearAllTells`: as no EXPUNGE follows the first FETCH, a number in a FETCH
  is the message's number at the end, so the client takes it for the right one.
  A silent STORE notes only messages whose entries the client itself changes
  (`StoringTold`, `AssumeTold`).
* `LockCorrect`, `ExclusionCorrect`, `ReleaseCorrect`, `ReadersCorrect`
  (`ReadWriteLockProofs`). `LockInv` says that the counter is the number of readers
  inside or waiting to be first, and that without such a first one the lock is
  theirs. The others follow: no two writers are inside, the last reader out
  releases the readers' own lock, and a writer meets readers only while the first
  of them waits. The proof needs the tasks to be finitely many.
* `OrderCorrect`, `SinceCorrect`, `MappingImplementsChangeLog`
  (`ModSequenceProofs`). That the list is ascending says nothing of what is under
  its numbers. `MappingInv` adds that a dictionary has under a number just the UIDs
  whose latest number it is, so that a number is dropped exactly when its last UID
  moves on, and that the latest number of a UID is in one of the dictionaries. The
  lemmas are about the list: `RemovedRight` (what is taken off leaves the others in
  order) rests on `Ranks`, and `BisectRightly` says what the binary search finds in
  an ascending list.
* `MaildirTyped`, `OneUid`, `RecentInOne`, `MaildirKeepsLedger`,
  `MaildirImplementsLedger` (`MaildirProofs`). Between the scan of a directory and
  the record of what it found anything may happen to the files, and between reading
  the list and writing it back the lock may be lost. `MaildirInv` has three parts.
  `ListInv` holds come what may: the list, and each copy of it that a session is
  about to write, has a file once (`EachOnce`), and a key that is unused is known
  nowhere (`UnusedUnknown`). So one UID a file does not need the lock.
  `LockInv` holds until `raced`: who is in the block is the one that has made the
  lock file, and its copy is the list (`CopyFresh`); and before any death there is
  nothing to break. `MarksInv` holds until `raced`, too: a file in the hands of a
  session that is to record it has no record, unless another session has recorded
  it meanwhile (`AddedUnseen`); a session that has a message as recent has taken its
  file out of `new` (`RecentClaimed`). The ledger follows from `LockInv`: who writes
  a copy that is the list gives UIDs from the list's next one on and changes no
  record. Where no process dies (`MaxDeaths = 0`) there is no race and no reservation.
* `RedisIndexes`, `RedisContents`, `RedisViews`, `RedisImplementsLedger`
  (`RedisProofs`). `RedisInv` says, until a script fails: the last entry of a UID in
  the stream is what has become of the message (`StreamTrue`); a session that the
  stream reaches back to is right about all messages without a newer entry
  (`ViewTrue`), so that reading those entries, or everything when the stream may
  have been trimmed past its number, makes it right about all; no \Recent mark left in the mailbox
  is one that a session has (`RecentUnclaimed`); and a content is kept while anything refers
  to it, the cleanup queue and the task included (`Counted`). That numbers ascend
  in the stream (`StreamOrdered`), and that a UID is never given again, hold also
  after a failure, and so does the ledger. The contents are counted with
  cardinalities of the sets of messages and of places in the queue, which the
  lemmas on `Holding` and `Queued` follow through each script.
* `LockFileCorrect`, `FileExclusionCorrect` (`AccountProofs`). That writers exclude
  each other says nothing of the file. `LockFileInv` adds: until a live writer's
  file is unlinked, the writer inside is the one whose file it is; and before any
  crash there is no old file, and nobody about to unlink one. From it follow
  exclusion without crashes, and with crashes up to the race.
* `DeliveryFindsScript`, `ListedScriptRuns` (`AccountProofs`). `ScriptsInv`: keys
  are not shared between names and are those given out so far, so that a deletion
  takes no other name's script.
* `UpdatesKept` (`AccountProofs`). `WatchInv`: a request whose WATCH is not broken
  may still replace the version there is, as every write breaks all others.
* `NumbersNameOne`, `AllAreListed` (`AccountProofs`). Only redis gives numbers to names,
  and only there a mailbox can miss the order. `NamesInv` adds, for redis: what a
  client knows under the latest number of a name is the mailbox of that name, and no
  number seen is above the latest (`SeenOK`), so that the lemma `SeenKeeps` needs only
  that every name whose mailbox changes is among those renumbered; a RENAME that
  has been read takes INBOX along only if it renames INBOX (`ReadingOK`); and, until
  a RENAME is overtaken, no mailbox has two names (`OrderOK`), so that a deletion
  takes no other out of the order.
* `EachIsNamedOnce` (`AccountProofs`): `EachHasOneName`, through RENAMEs that fail half
  way. It is not inductive by itself. `OneNameInv` adds that in "fs" every folder has
  its superiors, so that nothing is below a name that is not there and a renamed
  directory lands on no other; and that a redis RENAME, once read, does not rename
  to INBOX. All of it holds until a RENAME is overtaken. That the names below
  one name and below another do not overlap is about sequences of parts
  (`NamesAssumption`). RENAME in "++" goes through a list of names of
  any length; `Halfway` is what holds before each of them and `MoveOne` keeps it, by the
  same induction as above.
* `NoticedIsTold` (`IdleProofs`). `IdleInv`: only while it writes is a session
  behind with what it has taken notice of.
* `EveryCommandAnswered`, `SelectionIsTold`, `BadCommandsLimited`
  (`ConnectionProofs`). The properties look at the moments between commands; what
  is in between is `ConnectionInv`: which command each phase belongs to, that it has
  no answer yet, that each answer tells what becomes of the selected mailbox, and
  that the server never counts more errors in a row than the client can. The lemmas
  `ReturnedKeeps` and `RaisedKeeps` show it of the two ways an answer is made, and
  every command is an instance of one of them.
* `ScriptsOfTheOwner` (`ConnectionProofs`): `OwnerAsTold` of the ManageSieve
  connection is inductive.

Assumptions: those named in the modules. Bounds are natural numbers
(`UidAssumption`, `LogAssumption`, `RetriesAssumption`, `IdleAssumption`, and parts of
others); `\Recent` is not one of the permanent flags (`FlagAssumption`), and what stands for a
FETCH without flags is none either (`NoDataAssumption`); modes and
operands are those there are (`SessionAssumption`); the tasks, and the keys of a
maildir, are finitely many (`TaskAssumption`, `MaildirAssumption`); names are sequences of parts, INBOX is one of them,
and no other is a prefix of it (`NamesAssumption`); and what stands
for no user, no mailbox, no key or no content is not one (`ConnectionAssumption`,
`ManageSieveAssumption`, `MaildirAssumption`, `RedisAssumption`).

Only model-checked:

* `Search`, `Fetch`, `Mime` and `Commands` (`SearchFinds`, `FetchShowsMessage`,
  `BodyAfterHeader`, `InStep`), which are recursive;
* all liveness, for which the proof system has no rules here.

## 5. Not modelled, and what is left

* Parsing: CHARSET and RETURN of SEARCH, the two keys of its OR and the value of its
  HEADER, an attribute after a FETCH macro, an empty literal in APPEND.
* Contents: the values of headers, decoding, partial fetches, THREAD and email ids
  beyond equality; the spelling of commands and responses, character sets, and
  limits of literals.
* Maildir: what others do while RENAME goes from folder to folder
  (`layout.py:284`); the flags in file names, and `subscriptions`; the format of its files.
* Cancellation of a task that waits for the read-write lock
  (`concurrent.py:274`), and time-outs of `Event.wait`.
* A selected mailbox that is replaced under its name (`backend/session.py:75`).
* Patterns of LIST, subscriptions; roles, tokens and passwords, which are
  calls into libraries.
* Running a Sieve script on a message; the syntax of ManageSieve.
* Health statuses, cluster notifications, configuration, plugins and start-up:
  assignments and wiring without behaviour of several steps.

Left to model: cancellation in `ReadWriteLock`, flags in file names, and the mailbox
behind a name that changes.

## 6. Running

    tlc -workers 2 -config DictMailbox_view.cfg MCDictMailbox.tla
    tlapm DictMailboxProofs.tla
