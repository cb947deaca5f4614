-------------------------------- MODULE Names --------------------------------
(***************************************************************************)
(* The mailboxes of a user by name, in each of the backends: the MailboxSet *)
(* of the dict, maildir and redis backends with ListTree (listtree.py) and *)
(* the two layouts of a maildir (maildir/layout.py).  A name is the        *)
(* sequence of its parts.                                                  *)
(*                                                                         *)
(* In the dict and maildir backends a command is one step: it never waits. *)
(* In the redis backend RENAME reads all names in one step and writes in   *)
(* another; whatever happens in between is unnoticed.                      *)
(***************************************************************************)
EXTENDS Integers, FiniteSets, Sequences, SequencesExt, Functions

CONSTANTS
    Name,         \* names of mailboxes, INBOX among them
    Backend,      \* the backends, "dict", "redis", and the layouts "++" and "fs"
    Session,      \* connections of the user
    MaxId,        \* bound: the mailboxes ever made
    MaxValidity   \* bound: how often a name is given

Inbox == <<"INBOX">>

\* A name is a sequence of parts, and has at least one, so that no other is
\* superior to INBOX.
ASSUME NamesAssumption ==
    /\ Inbox \in Name
    /\ \A n \in Name : n \in Seq(Range(n)) /\ (IsPrefix(n, Inbox) => n = Inbox)

VARIABLES
    backend,      \* the backend in use, which does not change
    boxes,        \* the mailbox of each name
    made,         \* the mailboxes made so far, 1 the first INBOX
    validity,     \* redis: the UIDVALIDITY of each name, kept when it is deleted
    order,        \* redis: the mailboxes in the order of LIST
    reading,      \* redis: the RENAME that each session has read the names for
    gone,         \* history: deleted mailboxes
    seen,         \* history: what clients may know: name, UIDVALIDITY and mailbox
    remade,       \* history: INBOXes made by RENAME
    overtaken     \* history: a RENAME wrote names that had changed since it read them

nameVars == <<backend, boxes, made, validity, order, reading, gone, seen, remade, overtaken>>

\* get_mailbox, for SELECT and STATUS: what it answers for each name.  In the
\* other backends the UIDVALIDITY is made with the mailbox and stays with it.
Get == {<<n, validity[n], boxes[n]>> : n \in {m \in DOMAIN boxes : backend = "redis"}}

None == [before |-> << >>, after |-> << >>, moved |-> << >>]

NamesInit ==
    /\ backend \in Backend /\ boxes = [n \in {Inbox} |-> 1] /\ made = 1
    /\ validity = [n \in Name |-> IF n = Inbox THEN 1 ELSE 0] /\ order = {1}
    /\ reading = [s \in Session |-> None]
    /\ gone = {} /\ seen = Get /\ remade = {} /\ overtaken = FALSE

-----------------------------------------------------------------------------
(* ListTree: the names, the superior names that are missing, and INBOX.    *)

Superiors(n) == {SubSeq(n, 1, i) : i \in 1..Len(n) - 1}
Tree(names) == UNION {Superiors(n) \cup {n} : n \in names \cup {Inbox}}

Renamed(n, before, after) == after \o SubSeq(n, Len(before) + 1, Len(n))

\* get_renames: before and all names below it.
Below(names, before) == {n \in names : IsPrefix(before, n)}

\* The names after all in "moved" are renamed from before to after.
Moved(old, moved, before, after) ==
    LET new == {Renamed(n, before, after) : n \in moved}
        From(n) == CHOOSE m \in moved : Renamed(m, before, after) = n
    IN [n \in (DOMAIN old \ moved) \cup new |-> IF n \in new THEN old[From(n)] ELSE old[n]]

\* RENAME of INBOX leaves a new one behind.
WithInbox(m) == [n \in DOMAIN m \cup {Inbox} |-> IF n \in DOMAIN m THEN m[n] ELSE made + 1]

\* redis: HINCRBY of uid_validity for each name that is given.
Renumber(names) ==
    /\ \A n \in names : backend = "redis" => validity[n] < MaxValidity
    /\ validity' = [n \in Name |-> validity[n] + (IF backend = "redis" /\ n \in names THEN 1 ELSE 0)]

-----------------------------------------------------------------------------
(* The commands of a session.  The connection state refuses CREATE and     *)
(* DELETE of INBOX and RENAME to it.                                       *)

\* Only the "fs" layout needs the superior folder to be there; a layout looks
\* for the others, if not for the one just above.
CanAdd(n) ==
    /\ backend = "fs" => Superiors(n) \subseteq DOMAIN boxes
    /\ backend = "++" => Superiors(n) \ {Front(n)} \subseteq DOMAIN boxes

\* A mistake: the order is left to the redis RENAME.
CreateUnlisted(n) ==
    /\ n # Inbox /\ n \notin DOMAIN boxes /\ CanAdd(n)
    /\ made < MaxId /\ made' = made + 1
    /\ boxes' = [m \in DOMAIN boxes \cup {n} |-> IF m = n THEN made' ELSE boxes[m]]
    /\ Renumber({n})
    /\ UNCHANGED <<backend, order, reading, gone, remade, overtaken>>

\* add_mailbox.
Create(n) ==
    /\ n # Inbox /\ n \notin DOMAIN boxes /\ CanAdd(n)
    /\ made < MaxId /\ made' = made + 1
    /\ boxes' = [m \in DOMAIN boxes \cup {n} |-> IF m = n THEN made' ELSE boxes[m]]
    /\ Renumber({n})
    /\ order' = order \cup {made'}
    /\ UNCHANGED <<backend, reading, gone, remade, overtaken>>

\* delete_mailbox.  The directory of an "fs" folder must be empty.
Delete(n) ==
    /\ n # Inbox /\ n \in DOMAIN boxes
    /\ backend = "fs" => Below(DOMAIN boxes, n) = {n}
    /\ boxes' = [m \in DOMAIN boxes \ {n} |-> boxes[m]]
    /\ gone' = gone \cup {boxes[n]}
    /\ order' = order \ {boxes[n]}
    /\ UNCHANGED <<backend, made, validity, reading, remade, overtaken>>

\* A mistake: only a mailbox of the new name is in the way, not one below it.
AllowedOver(before, after) ==
    after # Inbox /\ before \in Tree(DOMAIN boxes) /\ after \notin DOMAIN boxes

\* rename_mailbox of the dict backend.
Allowed(before, after) ==
    after # Inbox /\ before \in Tree(DOMAIN boxes) /\ after \notin Tree(DOMAIN boxes)

\* A bound: the new names are among those of the instance, and no superior folder
\* has to be made for them first.
Placed(after, moved, before) ==
    /\ {Renamed(n, before, after) : n \in moved} \subseteq Name
    /\ backend \in {"++", "fs"} => Len(after) <= 2

RenameAtOnce(before, after) ==
    LET moved == Below(DOMAIN boxes, before)
    IN /\ backend = "dict" /\ Allowed(before, after) /\ Placed(after, moved, before)
       /\ before = Inbox => made < MaxId
       /\ boxes' = WithInbox(Moved(boxes, moved, before, after))
       /\ made' = IF before = Inbox THEN made + 1 ELSE made
       /\ UNCHANGED <<backend, validity, order, reading, gone, remade, overtaken>>

\* rename_folder of the "++" layout: one os.rename after the other, in the order
\* of the directory, until one finds a folder in the way.
MoveOne(old, n, before, after) ==
    IF ~old.ok \/ Renamed(n, before, after) \in DOMAIN old.boxes \ {n}
    THEN [old EXCEPT !.ok = FALSE]
    ELSE [old EXCEPT !.boxes = Moved(@, {n}, before, after)]

RenameEach(before, after) ==
    /\ backend = "++" /\ before # Inbox /\ after # Inbox
    /\ Placed(after, Below(DOMAIN boxes, before), before)
    /\ \E elems \in SetToSeqs(Below(DOMAIN boxes, before)) :
          LET done[i \in 0..Len(elems)] ==
                  IF i = 0 THEN [boxes |-> boxes, ok |-> TRUE]
                  ELSE MoveOne(done[i - 1], elems[i], before, after)
          IN boxes' = done[Len(elems)].boxes
    /\ UNCHANGED <<backend, made, validity, order, reading, gone, remade, overtaken>>

\* rename_folder of the "fs" layout: one os.rename of the directory.
RenameTree(before, after) ==
    LET moved == Below(DOMAIN boxes, before)
    IN /\ backend = "fs" /\ before \in DOMAIN boxes \ {Inbox} /\ after # Inbox
       /\ after \notin DOMAIN boxes /\ ~IsPrefix(before, after)
       /\ Superiors(after) \subseteq DOMAIN boxes /\ Placed(after, moved, before)
       /\ boxes' = Moved(boxes, moved, before, after)
       /\ UNCHANGED <<backend, made, validity, order, reading, gone, remade, overtaken>>

\* rename_mailbox of the redis backend: the names are read and checked ...
RenameRead(s, before, after) ==
    /\ backend = "redis" /\ reading[s] = None
    /\ Allowed(before, after) /\ Placed(after, Below(DOMAIN boxes, before), before)
    /\ reading' = [reading EXCEPT ![s] = [before |-> before, after |-> after,
                                               moved |-> Restrict(boxes, Below(DOMAIN boxes, before))]]
    /\ UNCHANGED <<backend, boxes, made, validity, order, gone, remade, overtaken>>

\* ... and written as they were read, to names that may have changed since then.
New(r) == Moved(r.moved, DOMAIN r.moved, r.before, r.after)

\* A mistake: a mailbox brings its number along.
GivenInbox(r) == IF r.before = Inbox THEN {Inbox} ELSE {}

Given(r) == DOMAIN New(r) \cup (IF r.before = Inbox THEN {Inbox} ELSE {})

RenameWrite(s) ==
    LET r == reading[s]
        kept == DOMAIN boxes \ DOMAIN r.moved
        written == [n \in DOMAIN New(r) \cup kept |->
                       IF n \in DOMAIN New(r) THEN New(r)[n] ELSE boxes[n]]
    IN /\ r # None /\ reading' = [reading EXCEPT ![s] = None]
       /\ boxes' = WithInbox(written)
       /\ IF r.before = Inbox
          THEN made < MaxId /\ made' = made + 1 /\ remade' = remade \cup {made'}
          ELSE UNCHANGED <<made, remade>>
       /\ Renumber(Given(r))
       /\ overtaken' = \/ overtaken
                       \/ r.moved # Restrict(boxes, Below(DOMAIN boxes, r.before))
                       \/ DOMAIN New(r) \cap DOMAIN boxes # {}
       /\ UNCHANGED <<backend, order, gone>>

Command ==
    \/ \E n \in Name : Create(n) \/ Delete(n)
    \/ \E before, after \in Name :
          \/ RenameAtOnce(before, after) \/ RenameEach(before, after) \/ RenameTree(before, after)
          \/ \E s \in Session : RenameRead(s, before, after)
    \/ \E s \in Session : RenameWrite(s)

NamesNext == Command /\ seen' = seen \cup Get'

NamesSpec == NamesInit /\ [][NamesNext]_nameVars

-----------------------------------------------------------------------------
\* list_mailboxes: the names that LIST shows as existing.
Listed ==
    {Inbox} \cup {n \in DOMAIN boxes : backend = "redis" => boxes[n] \in order}

(* RENAME of a tree of names, which may stop half way, moves mailboxes but *)
(* loses none and merges none: each that was made has one name until it is *)
(* deleted, and none after, unless another session changed the names       *)
(* between the two halves of a redis RENAME.                               *)
EachHasOneName ==
    ~overtaken => \A id \in 1..made :
        Cardinality({n \in DOMAIN boxes : boxes[n] = id}) = IF id \in gone THEN 0 ELSE 1

(* A name and its UIDVALIDITY are never those of two mailboxes, over all    *)
(* creations, deletions and renames, and also if those of several sessions *)
(* interleave: what a client has cached under them stays true.             *)
ValidityNamesOne ==
    \A x, y \in seen : x[1] = y[1] /\ x[2] = y[2] => x[3] = y[3]

(* LIST shows every mailbox, but for the INBOXes that redis makes in RENAME *)
(* and that are renamed in turn: they are in no order.                      *)
AllListed ==
    ~overtaken => \A n \in DOMAIN boxes : n \in Listed \/ boxes[n] \in remade

-----------------------------------------------------------------------------
(* What they rest on in the redis backend, for the proofs.  The names are   *)
(* given numbers there alone, and only there a mailbox can miss the order.  *)

NamesOK ==
    /\ DOMAIN boxes \subseteq Name /\ Inbox \in DOMAIN boxes
    /\ made \in Nat /\ \A n \in DOMAIN boxes : boxes[n] \in 1..made
    /\ validity \in [Name -> Nat]

\* A RENAME has read mailboxes that there were, INBOX only if it renames INBOX.
ReadingOK ==
    \A s \in Session : reading[s] # None =>
        /\ DOMAIN New(reading[s]) \subseteq Name
        /\ \A n \in DOMAIN reading[s].moved : reading[s].moved[n] \in 1..made
        /\ Inbox \in DOMAIN reading[s].moved => reading[s].before = Inbox

\* What a client knows under the latest number of a name is its mailbox.
SeenOK ==
    /\ Get \subseteq seen
    /\ \A x \in seen :
          /\ x[1] \in Name /\ x[2] \in Nat /\ x[2] <= validity[x[1]]
          /\ x[1] \in DOMAIN boxes /\ x[2] = validity[x[1]] => x[3] = boxes[x[1]]

\* No mailbox has two names, and those that RENAME did not make are in the order.
OrderOK ==
    ~overtaken => /\ \A n, m \in DOMAIN boxes : boxes[n] = boxes[m] => n = m
                  /\ \A n \in DOMAIN boxes : boxes[n] \in order \cup remade

NamesInv ==
    /\ backend # "redis" => seen = {}
    /\ backend = "redis" => NamesOK /\ ReadingOK /\ SeenOK /\ ValidityNamesOne /\ OrderOK

(* EachHasOneName, in all backends, rests on more than that no two names    *)
(* have one mailbox.  The mailboxes that there are have one name each ...   *)
OneEach(b, ids) ==
    /\ DOMAIN b \subseteq Name /\ Range(b) = ids
    /\ \A n, m \in DOMAIN b : b[n] = b[m] => n = m

OneNames ==
    /\ made \in Nat /\ gone \subseteq 1..made
    /\ OneEach(boxes, (1..made) \ gone) /\ Inbox \in DOMAIN boxes

\* ... a folder of the "fs" layout has its superiors, so that nothing is below a
\* name that is not there ...
FoldersWhole ==
    backend = "fs" => \A n \in DOMAIN boxes : Superiors(n) \subseteq DOMAIN boxes

\* ... and a RENAME of redis that has been read moves no mailbox to INBOX.
RenamesRead ==
    \A s \in Session : reading[s] # None =>
        /\ backend = "redis" /\ DOMAIN New(reading[s]) \subseteq Name
        /\ reading[s].before \in Name /\ reading[s].after \in Name \ {Inbox}

OneNameInv == ~overtaken => OneNames /\ FoldersWhole /\ RenamesRead

=============================================================================
