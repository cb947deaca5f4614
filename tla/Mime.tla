-------------------------------- MODULE Mime --------------------------------
(***************************************************************************)
(* The content of a message (pymap/mime): its lines are split into header  *)
(* and body, and the body of a multipart or message/rfc822 into contents of*)
(* the same kind.  Nothing is copied: a header, a body and a content are   *)
(* ranges of lines, and get_raw() cuts their bytes from the message.       *)
(*                                                                         *)
(* A message is read line by line; what it holds is told at each one.      *)
(***************************************************************************)
EXTENDS Naturals, FiniteSetsExt, SequencesExt

CONSTANT MaxLines    \* bound: the lines of a message

VARIABLE lines

\* What can be told of a line: "blank" ends a header, "multipart" and "rfc822"
\* are Content-Type fields, "part" and "stop" the delimiters of a multipart.
\* "text" is any other, a header field among others.
LineKind == {"blank", "text", "multipart", "rfc822", "part", "stop"}

\* A range of lines is a pair; it is empty if the second is the smaller.
Within(range) == range[1]..range[2]
Hollow(range) == range[2] < range[1]

\* MessageContent._split_lines: the number of the last header line.
SplitLines(range) ==
    LET blank == {i \in Within(range) : lines[i] = "blank"}
    IN  IF blank = {} THEN range[1] - 1 ELSE Min(blank)

\* ParsedHeaders.content_type, or the default; the last line is no field.
ContentType(header) ==
    LET fields == {i \in header[1]..header[2] - 1 : lines[i] \in {"multipart", "rfc822"}}
    IN  IF fields = {} THEN "text" ELSE lines[Min(fields)]

\* MessageBody._find_parts: a part runs from one delimiter to the next.
FindParts(body) ==
    LET Stops == {i \in Within(body) : lines[i] = "stop"}
        last == IF Stops = {} THEN body[2] ELSE Min(Stops) - 1
        starts == SetToSortSeq({i \in body[1]..last : lines[i] = "part"}, LAMBDA x, y : x < y)
    IN  [n \in DOMAIN starts |->
            <<starts[n] + 1, IF n = Len(starts) THEN last ELSE starts[n + 1] - 1>>]

RECURSIVE Parse(_)

\* MessageContent._parse and MessageBody._parse.
Parse(range) ==
    LET split == SplitLines(range)
        header == <<range[1], split>>
        body == <<split + 1, range[2]>>
        type == ContentType(header)
    IN  [header |-> header, body |-> body, type |-> type, bodyType |-> type,
         literal |-> [to |-> Len(lines), lack |-> 0],
         nested |-> CASE type = "multipart" -> [n \in DOMAIN FindParts(body) |->
                                                    Parse(FindParts(body)[n])]
                      [] type = "rfc822" -> <<Parse(body)>>
                      [] OTHER -> << >>]

Whole == Parse(<<1, Len(lines)>>)

\* get_raw(): from the first line of the first range to the last line of the
\* last.  Of an empty range it knows neither: it starts at the literal's
\* beginning, or leaves off one byte before its end.
GetRaw(literal, first, last) ==
    LET from == IF Hollow(first) THEN 1 ELSE first[1]
    IN  IF Hollow(last) THEN [from |-> from, to |-> literal.to, lack |-> literal.lack + 1]
                        ELSE [from |-> from, to |-> last[2], lack |-> 0]

RawHeader(c) == GetRaw(c.literal, c.header, c.header)
RawBody(c) == GetRaw(c.literal, c.body, c.body)
RawContent(c) == GetRaw(c.literal, c.header, c.body)

\* MessageContent.lines
LineCount(c) == (c.header[2] - c.header[1] + 1) + (c.body[2] - c.body[1] + 1) - 1

-----------------------------------------------------------------------------
MimeInit == lines \in {<<kind>> : kind \in LineKind}

Line(kind) == Len(lines) < MaxLines /\ lines' = Append(lines, kind)

MimeNext == \E kind \in LineKind : Line(kind)

\* What the doc string of MessageBody says: "The message body, starting
\* immediately after the header" has none of the header's fields.
BodyAfterHeader ==
    LET body == RawBody(Whole)
    IN  \A i \in Within(Whole.header) : i \in body.from..body.to => lines[i] = "blank"

=============================================================================
