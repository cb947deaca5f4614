------------------------------- MODULE Fetch --------------------------------
(***************************************************************************)
(* FETCH: what an attribute needs loaded of a message, what each backend   *)
(* loads of it, and the value read from that (pymap/fetch.py, message.py). *)
(* An attribute is a name and a section, a path of part numbers and a      *)
(* specifier.                                                              *)
(***************************************************************************)
EXTENDS Mime

Attribute ==
    {[name |-> n, path |-> << >>, spec |-> "none"] :
        n \in {"ENVELOPE", "BODYSTRUCTURE", "RFC822.SIZE", "BINARY"}}
    \cup {[name |-> "BODY", path |-> p, spec |-> s] :
        p \in {<< >>, <<1>>, <<2>>, <<1, 1>>}, s \in {"none", "TEXT", "HEADER", "FIELDS"}}
    \cup {[name |-> "BODY", path |-> p, spec |-> "MIME"] : p \in {<<1>>, <<1, 1>>}}

HeaderSpecs == {"HEADER", "FIELDS"}

\* Mutant: the path of the section is not looked at.
BodyRequirementAtTop(attr) ==
    IF attr.spec \in HeaderSpecs THEN {"HEADER"} ELSE {"HEADER", "BODY"}

\* FetchAttribute._get_body_requirement
BodyRequirement(attr) ==
    IF attr.path = << >> /\ attr.spec \in HeaderSpecs THEN {"HEADER"} ELSE {"HEADER", "BODY"}

\* FetchAttribute.requirement; UID, FLAGS and INTERNALDATE need no content.
AttributeRequirement(attr) ==
    CASE attr.name = "ENVELOPE" -> {"HEADER"}
      [] attr.name = "BODY" -> BodyRequirement(attr)
      [] OTHER -> {"HEADER", "BODY"}

\* MessageAttributes: one requirement for all that the command asks for.
Reduce(attrs) == UNION {AttributeRequirement(attr) : attr \in attrs}

\* redis stores the header apart, with a literal of its own.
HeaderAlone(whole) ==
    LET raw == RawHeader(whole)
    IN  [whole EXCEPT !.body = <<whole.header[2] + 1, whole.header[2]>>, !.bodyType = "text",
                      !.nested = << >>, !.literal = [to |-> raw.to, lack |-> raw.lack]]

LoadedContent(whole, backend, req) ==
    IF backend = "redis" /\ "BODY" \notin req THEN HeaderAlone(whole) ELSE whole

-----------------------------------------------------------------------------
\* An IndexError: the value is empty.
NoPart == [type |-> "no part"]

\* BaseLoadedMessage._get_subpart: part 1 of what has no parts is itself.
Subpart(content, path) ==
    LET Step(c, i) ==
            IF c = NoPart THEN c
            ELSE IF c.nested # << >> THEN (IF i \in DOMAIN c.nested THEN c.nested[i] ELSE NoPart)
            ELSE IF i = 1 THEN c ELSE NoPart
    IN  FoldLeft(Step, content, path)

\* The message a path leads to: a part must be message/rfc822 to hold one.
SubMessage(content, path) ==
    LET part == Subpart(content, path) IN
    CASE path = << >> \/ part = NoPart -> part
      [] part.type # "rfc822" \/ part.nested = << >> -> NoPart
      [] OTHER -> part.nested[1]

\* The lines of the fields of a header: all but the blank one.
Fields(c) == c.header[1]..c.header[2] - 1

RECURSIVE Structure(_)
\* _get_body_structure: sizes, lines, and the structure of the parts.
Structure(c) ==
    CASE c.bodyType = "multipart" -> [type |-> c.bodyType,
                                      parts |-> [n \in DOMAIN c.nested |-> Structure(c.nested[n])]]
      [] c.bodyType = "rfc822" -> [type |-> c.bodyType, size |-> RawContent(c), lines |-> LineCount(c),
                                   envelope |-> Fields(c.nested[1]), body |-> Structure(c.nested[1])]
      [] OTHER -> [type |-> c.bodyType, size |-> RawContent(c), lines |-> LineCount(c)]

Lines(from, to) == [from |-> from, to |-> to, lack |-> 0]

\* The bytes of a content, its header and its body: as get_raw() cuts them from
\* the literal, or exactly.
Cut(how, c) ==
    IF how = "raw" THEN [whole |-> RawContent(c), header |-> RawHeader(c), body |-> RawBody(c)]
    ELSE [whole |-> Lines(c.header[1], c.body[2]), header |-> Lines(c.header[1], c.header[2]),
          body |-> Lines(c.body[1], c.body[2])]

\* DynamicLoadedFetchValue._get_data.
Section(attr, content, how) ==
    LET part == Subpart(content, attr.path)
        message == SubMessage(content, attr.path)
    IN  CASE (IF attr.spec \in {"none", "MIME"} THEN part ELSE message) = NoPart -> << >>
          [] attr.spec = "none" -> IF attr.path = << >> THEN <<Cut(how, part).whole>>
                                                        ELSE <<Cut(how, part).body>>
          [] attr.spec = "MIME" -> <<Cut(how, part).header>>
          [] attr.spec = "TEXT" -> <<Cut(how, message).body>>
          [] attr.spec = "HEADER" -> <<Cut(how, message).header>>
          [] attr.spec = "FIELDS" -> <<Fields(message)>>

\* get_value of the classes of FetchValue.
Value(attr, content, how) ==
    CASE attr.name = "ENVELOPE" -> <<Fields(content)>>
      [] attr.name = "BODYSTRUCTURE" -> <<Structure(content)>>
      [] attr.name = "RFC822.SIZE" -> <<Cut(how, content).whole>>
      [] attr.name = "BINARY" -> <<Cut(how, content).header, Cut(how, content).body>>
      [] OTHER -> Section(attr, content, how)

-----------------------------------------------------------------------------
RECURSIVE Proper(_)
\* Neither header nor body is empty, here or in any part.
Proper(c) == /\ ~Hollow(c.header) /\ ~Hollow(c.body)
             /\ \A n \in DOMAIN c.nested : Proper(c.nested[n])

\* FETCH shows of a message what it consists of, whichever backend stores it:
\* no attribute is read from less than it needs, and headers and bodies are cut
\* where they begin and end.
FetchShowsMessage ==
    LET whole == Whole IN
    Proper(whole) =>
        \A attr \in Attribute, backend \in {"dict", "redis"} :
            Value(attr, LoadedContent(whole, backend, Reduce({attr})), "raw") = Value(attr, whole, "exact")

=============================================================================
