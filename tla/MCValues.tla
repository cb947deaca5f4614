------------------------------ MODULE MCValues ------------------------------
(***************************************************************************)
(* What one connection says, apart from what changes in the mailbox: the   *)
(* keys of a SEARCH, the lines of a message that is fetched, and a command *)
(* that takes several exchanges to read.  A behaviour is about one of them.*)
(***************************************************************************)
EXTENDS Search, Fetch

VARIABLES name, draft, unsent, wire, sent, conts, line, replies, understood
VARIABLE part      \* what is looked at in this behaviour

MCBox == <<
    [uid |-> 2, flags |-> {"Recent"}, date |-> 2, sent |-> 1, email |-> "e1",
     head |-> {"a"}, text |-> {"b"}, size |-> 3],
    [uid |-> 3, flags |-> {"Recent", "Seen"}, date |-> 1, sent |-> 0, email |-> "e2",
     head |-> {}, text |-> {"a"}, size |-> 2],
    [uid |-> 5, flags |-> {"k"}, date |-> 3, sent |-> 2, email |-> "e1",
     head |-> {"b"}, text |-> {}, size |-> 4]>>

Key(word, arg) == [name |-> word, arg |-> arg, inverse |-> FALSE]

MCLeaf ==
    {Key("ALL", 0), Key("EMAILID", "e1"), Key("UNKEYWORD", "k"), Key("KEYWORD", "Seen"), Key("NEW", 0),
     Key("SINCE", 2), Key("SENTBEFORE", 2), Key("LARGER", 2), Key("HEADER", "a"), Key("TEXT", "a"),
     Key("SEQSET", [set |-> <<<<4, Star>>>>, uid |-> TRUE]),
     Key("SEQSET", [set |-> <<<<7, Star>>, <<1, 1>>>>, uid |-> FALSE])}

C == INSTANCE Commands WITH
    MaxTokens <- 5,
    Uses <- [NOOP |-> {"atom"}, ID |-> {"atom", "(", ")", "{}"}, LIST |-> {"atom", "{}"},
             EXPUNGE |-> {"set"}, LOGIN |-> {"atom", "{}", "{+}"}, DELETE |-> {"atom", "{}"},
             APPEND |-> {"atom", "(", ")", "{}", "{+}"}, SELECT |-> {"arg", "(", ")", "{}", "set"},
             RENAME |-> {"(", "{}"}, STATUS |-> {"atom", "(", ")", "{}"}, COPY |-> {"set", "{}"},
             FETCH |-> {"set", "arg", "(", ")", "{}"}, STORE |-> {"set", "atom", "(", ")"},
             SEARCH |-> {"arg", "(", ")", "{}", "{+}"}]

commandVars == <<name, draft, unsent, wire, sent, conts, line, replies, understood>>

MCInit ==
    /\ part \in {"search", "content", "command"}
    /\ SearchInit /\ MimeInit /\ C!CommandsInit
    /\ part # "content" => lines = <<"blank">>
    /\ part # "command" => name = <<"NOOP">>

MCNext ==
    /\ UNCHANGED part
    /\ \/ part = "search" /\ SearchNext /\ UNCHANGED <<lines, commandVars>>
       \/ part = "content" /\ MimeNext /\ UNCHANGED <<keys, commandVars>>
       \/ part = "command" /\ C!CommandsNext /\ UNCHANGED <<keys, lines>>

MCSpec == MCInit /\ [][MCNext]_<<part, keys, lines, commandVars>>

InStep == C!InStep

=============================================================================
