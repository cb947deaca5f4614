------------------------------- MODULE Search -------------------------------
(***************************************************************************)
(* SEARCH: the keys of a command as they are parsed, the content each      *)
(* message has to be loaded with, the sequence set that narrows the        *)
(* messages looked at, and the criteria.  The command is built from its    *)
(* leaves up; nothing else in the model moves.                             *)
(*                                                                         *)
(* A sequence set is a sequence of pairs, Star standing for "*"; a number  *)
(* n is the pair <<n, n>>, which _get_range() treats alike.                *)
(***************************************************************************)
EXTENDS Naturals, FiniteSets, SequencesExt

CONSTANTS
    Box,          \* the selected messages, by sequence number
    Leaf,         \* search keys without keys inside
    MaxKeys       \* bound: the leaves and operators of a command

VARIABLE keys     \* the keys parsed so far; the last ones may still be nested

Star == 0

Exists == Len(Box)
MaxUid == IF Box = <<>> THEN 0 ELSE Box[Len(Box)].uid

-----------------------------------------------------------------------------
(* Sequence sets *)

AtLeast(x, y) == IF x < y THEN y ELSE x
AtMost(x, y) == IF x < y THEN x ELSE y

\* The numbers of one element, none above max.
GetRange(elem, max) ==
    LET left == IF elem[1] = Star THEN max ELSE elem[1]
        right == IF elem[2] = Star THEN max ELSE elem[2]
    IN  AtMost(left, right) .. AtMost(AtLeast(left, right), max)

Flatten(sequences, max) == UNION {GetRange(sequences[i], max) : i \in DOMAIN sequences}

\* The fewest groups that hold the numbers: one per run of neighbours.
Build(numbers) ==
    LET Starts == {n \in numbers : n - 1 \notin numbers}
        End(n) == CHOOSE e \in numbers : n <= e /\ n..e \subseteq numbers /\ e + 1 \notin numbers
        starts == SetToSortSeq(Starts, LAMBDA x, y : x < y)
    IN  [i \in DOMAIN starts |-> <<starts[i], End(starts[i])>>]

\* The messages a set names in the selected mailbox, by sequence number.
GetAll(sequences, uid) ==
    IF uid THEN {n \in 1..Exists : Box[n].uid \in Flatten(sequences, MaxUid)}
           ELSE {n \in 1..Exists : n \in Flatten(sequences, Exists)}

-----------------------------------------------------------------------------
(* What a key needs of a message *)

HeaderKeys == {"SENTBEFORE", "SENTON", "SENTSINCE", "HEADER"}
ContentKeys == {"TEXT", "LARGER", "SMALLER"}
Groups == {"KEYSET", "OR"}

RECURSIVE Requirement(_)

\* Mutant: an OR that loads what its left key needs.
RequirementLeft(key) ==
    CASE key.name = "ALL" -> {}
      [] key.name = "KEYSET" -> UNION {Requirement(key.arg[i]) : i \in DOMAIN key.arg}
      [] key.name = "OR" -> Requirement(key.arg[1])
      [] key.name \in HeaderKeys -> {"HEADER"}
      [] key.name \in ContentKeys -> {"HEADER", "BODY"}
      [] OTHER -> {"METADATA"}

\* SearchKey.requirement: NOT changes nothing, a group needs what its keys need.
Requirement(key) ==
    CASE key.name = "ALL" -> {}
      [] key.name \in Groups -> UNION {Requirement(key.arg[i]) : i \in DOMAIN key.arg}
      [] key.name \in HeaderKeys -> {"HEADER"}
      [] key.name \in ContentKeys -> {"HEADER", "BODY"}
      [] OTHER -> {"METADATA"}

NoContent == [sent |-> 0, head |-> {}, text |-> {}, size |-> 0]

Backend == {"dict", "maildir", "redis"}

\* load_content(): dict has the content at hand, maildir reads the file if
\* any of it is needed, redis the header alone if that is enough.
LoadContent(backend, m, req) ==
    LET whole == [sent |-> m.sent, head |-> m.head, text |-> m.text, size |-> m.size] IN
    CASE backend = "dict" \/ "BODY" \in req -> whole
      [] "HEADER" \notin req -> NoContent
      [] backend = "maildir" -> whole
      [] OTHER -> [whole EXCEPT !.text = {}, !.size = m.size - 1]

-----------------------------------------------------------------------------
(* The criteria *)

Compare(op, x, y) ==
    CASE op = "<" -> x < y
      [] op = "=" -> x = y
      [] op = ">" -> x > y
      [] op = ">=" -> x >= y

Op == [BEFORE |-> "<", ON |-> "=", SINCE |-> ">=",
       SENTBEFORE |-> "<", SENTON |-> "=", SENTSINCE |-> ">=",
       SMALLER |-> "<", LARGER |-> ">"]

\* The criteria of one key on what the backend knows of message n ...
MatchesMessage(key, n) ==
    LET m == Box[n] IN
    \/ key.name = "ALL"
    \/ key.name = "SEQSET" /\ n \in GetAll(key.arg.set, key.arg.uid)
    \/ key.name = "EMAILID" /\ m.email = key.arg
    \/ key.name = "KEYWORD" /\ key.arg \in m.flags
    \/ key.name = "UNKEYWORD" /\ key.arg \notin m.flags
    \/ key.name = "NEW" /\ "Recent" \in m.flags /\ "Seen" \notin m.flags
    \/ key.name \in {"BEFORE", "ON", "SINCE"} /\ Compare(Op[key.name], m.date, key.arg)

\* ... and on the content loaded for it.
MatchesContent(key, content) ==
    \/ /\ key.name \in {"SENTBEFORE", "SENTON", "SENTSINCE"}
       /\ content.sent # 0 /\ Compare(Op[key.name], content.sent, key.arg)
    \/ key.name \in {"SMALLER", "LARGER"} /\ Compare(Op[key.name], content.size, key.arg)
    \/ key.name = "HEADER" /\ key.arg \in content.head
    \/ key.name = "TEXT" /\ key.arg \in content.head \cup content.text

MatchesLeaf(key, n, content) == MatchesMessage(key, n) \/ MatchesContent(key, content)

RECURSIVE Matches(_, _, _)

\* SearchCriteria.of() and the classes it picks from.
Matches(key, n, content) ==
    LET plain == CASE key.name = "KEYSET" -> \A i \in DOMAIN key.arg : Matches(key.arg[i], n, content)
                   [] key.name = "OR" -> \E i \in {1, 2} : Matches(key.arg[i], n, content)
                   [] OTHER -> MatchesLeaf(key, n, content)
    IN  plain # key.inverse

\* SearchCriteriaSet.sequence_set: the keys are a frozenset, so the first
\* sequence set among them may be any; without one, every message.
Narrowings ==
    LET sets == {keys[i].arg : i \in {j \in DOMAIN keys : keys[j].name = "SEQSET"
                                                          /\ ~keys[j].inverse}}
    IN  IF sets = {} THEN {[set |-> <<<<1, Star>>>>, uid |-> FALSE]} ELSE sets

\* search_mailbox(): the sequence numbers answered.
SearchMailbox(backend, narrowing) ==
    LET req == UNION {Requirement(keys[i]) : i \in DOMAIN keys}
        Passes(n) == \A i \in DOMAIN keys :
                         Matches(keys[i], n, LoadContent(backend, Box[n], req))
    IN  {n \in GetAll(narrowing.set, narrowing.uid) : Passes(n)}

-----------------------------------------------------------------------------
(* The command *)

RECURSIVE Size(_)
Size(key) == 1 + (IF key.name \in Groups
                  THEN FoldLeft(LAMBDA s, k : s + Size(k), 0, key.arg) ELSE 0)

Grown == FoldLeft(LAMBDA s, k : s + Size(k), 0, keys)

SearchInit == keys = <<>>

AddKey(leaf) ==
    /\ Grown < MaxKeys
    /\ keys' = Append(keys, leaf)

\* NOT, before the key it inverts: a second NOT does not parse.
Not ==
    /\ keys # <<>> /\ ~Last(keys).inverse
    /\ keys' = Append(Front(keys), [Last(keys) EXCEPT !.inverse = TRUE])

\* OR with two keys, or n keys in parentheses.
Nest(name, n) ==
    /\ Grown < MaxKeys /\ n \in 0..Len(keys) /\ (name = "OR" => n = 2)
    /\ keys' = Append(SubSeq(keys, 1, Len(keys) - n),
                      [name |-> name, inverse |-> FALSE,
                       arg |-> SubSeq(keys, Len(keys) - n + 1, Len(keys))])

SearchNext ==
    \/ \E leaf \in Leaf : AddKey(leaf)
    \/ Not
    \/ \E name \in Groups, n \in 0..Len(keys) : Nest(name, n)

-----------------------------------------------------------------------------
(* What a key means: a set of messages, told from the whole messages. *)

RECURSIVE Meaning(_)
Meaning(key) ==
    LET all == 1..Exists
        In(elem, x, max) ==
            LET ends == {IF elem[i] = Star THEN max ELSE elem[i] : i \in {1, 2}}
            IN  (\E e \in ends : e <= x) /\ (\E e \in ends : x <= e)
        SetOf(arg) == {n \in all : \E i \in DOMAIN arg.set :
                           IF arg.uid THEN In(arg.set[i], Box[n].uid, Box[Exists].uid)
                                      ELSE In(arg.set[i], n, Exists)}
        plain == CASE key.name = "KEYSET" -> all \ UNION {all \ Meaning(key.arg[i]) : i \in DOMAIN key.arg}
                   [] key.name = "OR" -> Meaning(key.arg[1]) \cup Meaning(key.arg[2])
                   [] key.name = "SEQSET" -> SetOf(key.arg)
                   [] OTHER -> {n \in all : MatchesLeaf(key, n, Box[n])}
    IN  IF key.inverse THEN all \ plain ELSE plain

\* SEARCH answers the messages that are in the meaning of every key, on every
\* backend and whichever of its sequence sets narrows the search, and a set
\* built of their numbers (as COPYUID and APPENDUID do) names just them:
\* search_mailbox() loads no less than its criteria read and skips no message
\* that they would accept.
SearchFinds ==
    keys # <<>> =>
        LET meant == {n \in 1..Exists : \A i \in DOMAIN keys : n \in Meaning(keys[i])}
        IN  /\ \A backend \in Backend, narrowing \in Narrowings :
                   SearchMailbox(backend, narrowing) = meant
            /\ Flatten(Build(meant), Exists) = meant

=============================================================================
