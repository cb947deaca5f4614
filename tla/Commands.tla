------------------------------ MODULE Commands ------------------------------
(***************************************************************************)
(* Reading a command that takes several exchanges.  A literal {n} stands at*)
(* the end of a line; the server asks for its data with a "+" and then has *)
(* the data and the rest of the command in one more line.  It parses anew  *)
(* from the start each time, taking the lines it has read (imap/__init__,  *)
(* parsing).  A literal {n+} does not wait, its data follow at once.       *)
(*                                                                         *)
(* A token is a record of its kind and its number in the command, spacing  *)
(* and spelling left out: "atom" is any word, "arg" one that takes an      *)
(* argument where it means something (FROM, BODY[HEADER.FIELDS), "set" a   *)
(* sequence set, "{}" and "{+}" the two literals, "data" what they announce*)
(***************************************************************************)
EXTENDS Naturals, Functions, SequencesExt

CONSTANTS
    Uses,         \* for each command, the kinds of token tried in it
    MaxTokens     \* bound: the tokens of a command

VARIABLES
    name, draft,  \* the client's command: its words, as <<"UID", "COPY">>, and
                  \* the tokens after them
    unsent,       \* the rest of it, which waits for a "+"
    wire,         \* tokens sent to the server and not read yet
    sent,         \* the commands the client has begun to send: 0, 1 or 2
    conts,        \* the lines the server has read since the first of the command
    line,         \* that first line, or nothing between commands
    replies,      \* replies that the client has not read
    understood    \* what the server made of each command

Kind == {"(", ")", "atom", "arg", "set", "{}", "{+}"}
Words == {"atom", "arg", "set"}

-----------------------------------------------------------------------------
(* The parser.  Its state is the rest of the line, the continuations and   *)
(* how many it has used, the tokens taken, and how it went: "ok", "not"    *)
(* parseable, an "unexpected" type, or interrupted for "more".             *)

Fail(s, how) == [s EXCEPT !.out = how]
Good(s) == s.out = "ok"
Failed(s) == s.out \in {"not", "unexpected"}

Next1(s) == IF s.buf = << >> THEN "none" ELSE Head(s.buf).kind

Take(s) == [s EXCEPT !.buf = Tail(@), !.got = Append(@, Head(s.buf))]
Skip(s) == [s EXCEPT !.buf = Tail(@)]

One(s, kinds) == IF Next1(s) \in kinds THEN Take(s) ELSE Fail(s, "not")

\* After a failed attempt the parser is where it was, but the continuations it
\* has used are not given back.
Back(s, attempt) == [s EXCEPT !.used = attempt.used]

\* Mutant: the last line read, whichever literal it was read for.
LiteralStringLast(s) ==
    CASE Next1(s) = "{+}" -> Take(Skip(s))
      [] Next1(s) = "{}" /\ Len(s.buf) = 1 ->
            IF s.used < Len(s.conts) THEN Take([s EXCEPT !.buf = Last(s.conts), !.used = @ + 1])
                                   ELSE Fail(s, "more")
      [] OTHER -> Fail(s, "not")

LiteralString(s) ==
    CASE Next1(s) = "{+}" -> Take(Skip(s))
      [] Next1(s) = "{}" /\ Len(s.buf) = 1 ->
            IF s.used < Len(s.conts) THEN Take([s EXCEPT !.buf = s.conts[s.used + 1], !.used = @ + 1])
                                   ELSE Fail(s, "more")
      [] OTHER -> Fail(s, "not")

\* AString: a word, or a string.
AString(s) == IF Next1(s) \in Words THEN Take(s) ELSE LiteralString(s)

RECURSIVE Parse(_, _), Many(_, _, _), Items(_, _)

Sequence(symbols, s) == FoldLeft(LAMBDA r, x : IF Good(r) THEN Parse(x, r) ELSE r, s, symbols)

\* ExpectedParseable.parse
Expected(types, s) ==
    LET Accept(attempt) == IF Failed(attempt) THEN Fail(Back(s, attempt), "unexpected") ELSE attempt
        Try(r, x) == IF r.out = "unexpected" THEN Accept(Parse(x, [r EXCEPT !.out = "ok"])) ELSE r
    IN  FoldLeft(Try, Fail(s, "unexpected"), types)

\* List.parse, behind the parenthesis.
Items(types, s) ==
    LET Rest(item) == IF Good(item) THEN Items(types, item) ELSE item
    IN  IF Next1(s) = ")" THEN Skip(s) ELSE Rest(Expected(types, s))

List(types, s) == IF Next1(s) = "(" THEN Items(types, Skip(s)) ELSE Fail(s, "not")

\* As many as parse; the one that does not is left alone.
Many(x, s, least) ==
    LET Rest(more) == CASE Good(more) -> Many(x, more, 0)
                        [] more.out = "more" \/ least > 0 -> more
                        [] OTHER -> Back(s, more)
    IN  Rest(Parse(x, s))

\* Either what parses, or nothing.
Optional(s, attempt) == IF Failed(attempt) THEN Back(s, attempt) ELSE attempt

\* ExtensionOption: a word and perhaps a number, a set or a list of strings.
Option(s) ==
    LET word == One(s, {"atom", "arg"}) IN
    IF ~Good(word) THEN word
    ELSE IF Next1(word) = "set" THEN Take(word)
    ELSE Optional(word, List(<<"astring", "strings">>, word))

\* ExtensionOptions.parse
Options(s) ==
    LET Closed(inside) == IF ~Good(inside) THEN inside
                          ELSE IF Next1(inside) = ")" THEN Skip(inside) ELSE Fail(inside, "not")
    IN  Optional(s, Closed(IF Next1(s) = "(" THEN Many("option", Skip(s), 0) ELSE Fail(s, "not")))

\* SearchKey.parse
SearchKey(s) ==
    CASE Next1(s) = "(" -> List(<<"key">>, s)
      [] Next1(s) = "arg" -> Sequence(<<"astring">>, Take(s))
      [] OTHER -> One(s, {"atom", "set"})

\* FetchAttribute.parse
FetchAttribute(s) ==
    IF Next1(s) = "arg" THEN List(<<"astring">>, Take(s)) ELSE One(s, {"atom"})

\* AppendCommand._parse_msg: flags if there are any, options, and the message,
\* which may be missing behind options.
Message(s) ==
    LET Literal(start, options, text) ==
            IF Failed(text) /\ Good(options) /\ Len(options.got) > Len(start.got)
            THEN Back(options, text) ELSE text
        Behind(start, options) ==
            Literal(start, options, IF Good(options) THEN LiteralString(options) ELSE options)
        From(start) == Behind(start, IF Good(start) THEN Many("option", start, 0) ELSE start)
        Flags(flags) == IF flags.out = "not" THEN Back(s, flags) ELSE flags
    IN  From(Flags(List(<<"flag">>, s)))

\* IdCommand: NIL, or a list of names and values.
Parameters(s) ==
    LET nil == One(s, {"atom"})
        Pairs(list) == IF Good(list) /\ (Len(list.got) - Len(s.got)) % 2 = 1
                       THEN Fail(list, "not") ELSE list
    IN  IF Good(nil) THEN nil ELSE Pairs(List(<<"astring">>, Back(s, nil)))

Parse(x, s) ==
    CASE x = "end" -> IF Next1(s) = "end" THEN Skip(s) ELSE Fail(s, "not")
      [] x = "set" -> One(s, {"set"})
      [] x \in {"word", "flag"} -> One(s, Words)
      [] x = "astring" -> AString(s)
      [] x = "strings" -> List(<<"astring", "strings">>, s)
      [] x = "option" -> Option(s)
      [] x = "options" -> Options(s)
      [] x = "parameters" -> Parameters(s)
      [] x = "words" -> List(<<"word">>, s)
      [] x = "flags" -> LET Bare(list) == IF Failed(list) THEN Many("flag", Back(s, list), 0) ELSE list
                        IN  Bare(List(<<"flag">>, s))
      [] x = "key" -> SearchKey(s)
      [] x = "keys" -> Many("key", s, 1)
      [] x = "attribute" -> FetchAttribute(s)
      [] x = "attributes" ->
            LET Several(single) == IF Failed(single) THEN List(<<"attribute">>, Back(s, single)) ELSE single
            IN  Several(FetchAttribute(s))
      [] x = "message" -> Message(s)
      [] x = "messages" -> Many("message", s, 1)

-----------------------------------------------------------------------------
(* What the commands take. *)

NoArgs == <<"end">>
Login == <<"astring", "astring", "end">>
Mailbox == <<"astring", "end">>
Append1 == <<"astring", "messages", "end">>
Create == <<"astring", "options", "end">>
Rename == <<"astring", "astring", "options", "end">>
Status == <<"astring", "words", "end">>
Copy == <<"set", "astring", "end">>
Fetch == <<"set", "attributes", "options", "end">>
Store == <<"set", "options", "word", "flags", "end">>
Search == <<"keys", "end">>
ListMailboxes == <<"astring", "astring", "end">>
Id == <<"parameters", "end">>
UidExpunge == <<"set", "end">>

\* The commands whose arguments differ; MOVE is read as COPY is, and so on.
Arguments ==
    [NOOP |-> NoArgs, ID |-> Id, LOGIN |-> Login, DELETE |-> Mailbox, APPEND |-> Append1,
     SELECT |-> Create, RENAME |-> Rename, STATUS |-> Status, LIST |-> ListMailboxes,
     COPY |-> Copy, EXPUNGE |-> NoArgs, FETCH |-> Fetch, STORE |-> Store, SEARCH |-> Search]

\* UID is a command of two words.
UidArguments ==
    [COPY |-> Copy, EXPUNGE |-> UidExpunge, FETCH |-> Fetch, STORE |-> Store, SEARCH |-> Search]

\* Commands.parse
ParseCommand(buf, lines) ==
    LET uid == Head(buf).kind = "UID"
        words == IF uid THEN 2 ELSE 1
        commands == IF uid THEN UidArguments ELSE Arguments
        s == [buf |-> SubSeq(buf, words + 1, Len(buf)), conts |-> lines, used |-> 0,
              got |-> << >>, out |-> "ok"]
    IN  IF buf[words].kind \in DOMAIN commands THEN Sequence(commands[buf[words].kind], s)
                                               ELSE Fail(s, "not")

-----------------------------------------------------------------------------
(* The client: it builds a command, sends it up to each literal that waits *)
(* for a "+", and gives up the rest if it gets another answer.  Behind the *)
(* command it sends a NOOP, before or after it has heard.                  *)

CommandsInit ==
    /\ name \in {<<verb>> : verb \in DOMAIN Uses}
                  \cup {<<"UID", verb>> : verb \in DOMAIN Uses \cap DOMAIN UidArguments}
    /\ draft = << >>
    /\ unsent = << >> /\ wire = << >> /\ sent = 0
    /\ conts = << >> /\ line = << >> /\ replies = << >> /\ understood = << >>

Token(kind, n) == [kind |-> kind, n |-> n]

\* A literal is followed by its data, which have its number.
Spelled(token) ==
    IF token.kind \in {"{}", "{+}"} THEN <<token, Token("data", token.n)>> ELSE <<token>>

Text == [i \in DOMAIN name |-> Token(name[i], 0)] \o FlattenSeq([i \in DOMAIN draft |-> Spelled(draft[i])])
            \o <<Token("end", 0)>>

\* How much of the tokens makes a line that the other side can read.
LineOf(tokens) ==
    LET ends == {i \in DOMAIN tokens : tokens[i].kind \in {"{}", "end"}}
    IN  SubSeq(tokens, 1, CHOOSE i \in ends : \A j \in ends : i <= j)

After(tokens) == SubSeq(tokens, Len(LineOf(tokens)) + 1, Len(tokens))

Draft(kind) ==
    /\ sent = 0 /\ Len(draft) < MaxTokens /\ kind \in Uses[Last(name)]
    /\ draft' = Append(draft, Token(kind, Len(draft) + 1))
    /\ UNCHANGED <<name, unsent, wire, sent, conts, line, replies, understood>>

SendLine(tokens) == wire' = wire \o LineOf(tokens) /\ unsent' = After(tokens)

Begin ==
    /\ sent = 0 /\ sent' = 1 /\ SendLine(Text)
    /\ UNCHANGED <<name, draft, conts, line, replies, understood>>

BeginNoop ==
    /\ sent = 1 /\ unsent = << >> /\ sent' = 2
    /\ SendLine(<<Token("NOOP", 0), Token("end", 0)>>)
    /\ UNCHANGED <<name, draft, conts, line, replies, understood>>

Hear ==
    /\ replies # << >> /\ replies' = Tail(replies)
    /\ IF Head(replies) = "+" /\ unsent # << >> THEN SendLine(unsent)
       ELSE unsent' = << >> /\ UNCHANGED wire
    /\ UNCHANGED <<name, draft, sent, conts, line, understood>>

-----------------------------------------------------------------------------
(* The server: read_command. *)

\* What the parsing of the lines comes to: an interrupt, or the command.
Outcome(result) ==
    IF result.out = "more"
    THEN /\ replies' = Append(replies, "+") /\ UNCHANGED understood
    ELSE /\ replies' = Append(replies, "done")
         /\ understood' = Append(understood, IF Good(result) THEN result.got ELSE <<Token("bad", 0)>>)

\* Until the next "+" is answered there is a command to go on with.
Reading == line # << >> /\ ParseCommand(line, conts).out = "more"

Complete == \E i \in DOMAIN wire : wire[i].kind \in {"{}", "end"}

\* readline(), the start of a command.
ReadLine ==
    /\ ~Reading /\ Complete
    /\ line' = LineOf(wire) /\ wire' = After(wire) /\ conts' = << >>
    /\ Outcome(ParseCommand(line', conts'))
    /\ UNCHANGED <<name, draft, unsent, sent>>

\* read_continuation(): as many bytes as the literal has, and a line.
ReadContinuation ==
    /\ Reading /\ Complete
    /\ line' = line /\ wire' = After(wire) /\ conts' = Append(conts, LineOf(wire))
    /\ Outcome(ParseCommand(line', conts'))
    /\ UNCHANGED <<name, draft, unsent, sent>>

CommandsNext ==
    \/ \E kind \in Kind : Draft(kind)
    \/ Begin \/ BeginNoop \/ Hear
    \/ ReadLine \/ ReadContinuation

-----------------------------------------------------------------------------
\* The words and the data of the command, as the client means them.
Meant == SelectSeq(Text, LAMBDA t : t.kind \in Words \cup {"data"})

\* The two sides agree where each command begins and which literal each "+" and
\* each continuation is for, however the parser backtracks: the server asks for
\* data only while the client has some to send, takes each literal's own, and
\* reads the next command as a command.
InStep ==
    /\ \A i \in DOMAIN replies :
           replies[i] = "+" => unsent # << >> /\ Head(unsent).kind = "data"
    /\ Len(understood) >= 1 => understood[1] \in {Meant, <<Token("bad", 0)>>}
    /\ Len(understood) >= 2 => understood[2] = << >>

=============================================================================
