--------------------------- MODULE HeaderSection ---------------------------
(***************************************************************************)
(* The header section of a message: ParseBytes and parseHeaderSection of   *)
(* mailparser/message.go.  The input is a number of bytes; its lines are   *)
(* chosen as they are read, so every input of that size is covered.  Of a  *)
(* line only its length and what the parser makes of it are kept.  Defects *)
(* that merely describe a line which is parsed as any other (its length,   *)
(* its line ending, the bytes in it) are left out.                         *)
(***************************************************************************)
EXTENDS Integers, Sequences, FiniteSets

CONSTANTS MaxMessageBytes,   \* Limits.MaxMessageBytes
          MaxHeaderBytes,    \* Limits.MaxHeaderBytes
          MaxHeaders,        \* Limits.MaxHeaders
          MaxLine            \* longest line (a bound of the model)

ASSUME SectionAssumption ==
    /\ MaxMessageBytes \in Nat
    /\ MaxHeaderBytes \in Nat
    /\ MaxHeaders \in Nat
    /\ MaxLine \in Nat

VARIABLES
    input,      \* number of bytes read, at most one beyond the limit
    offset,     \* off: where the next line starts
    fieldStart, \* curStart of the field under construction, or None
    headers,    \* the fields: [from, to], the extent of Raw
    bodyStart,  \* where the body starts, once known
    outcome,    \* "reading", "parsed", or the limit that ended parsing
    reported,   \* the kinds of defects recorded
    lines       \* history: the lines read so far, [kind, from, to]

sectionVars == <<input, offset, fieldStart, headers, bodyStart, outcome, reported, lines>>

None == -1

\* What the parser makes of a line: empty, a continuation (first byte a space
\* or tab), a header field (a valid name before a colon), or neither.
LineKinds == {"empty", "fold", "field", "other"}

\* The shortest line of a kind; without its terminator only at the end of the input.
Shortest(kind, atEnd) ==
    CASE kind = "empty" -> 1
      [] kind = "field" -> IF atEnd THEN 2 ELSE 3
      [] OTHER -> IF atEnd THEN 1 ELSE 2

\* An empty line is LF, CRLF or, at the end, a lone CR.
Longest(kind) == IF kind = "empty" THEN 2 ELSE MaxLine

SectionTypeOK ==
    /\ input \in 0..MaxMessageBytes + 1
    /\ offset \in 0..MaxMessageBytes + 1
    /\ fieldStart \in {None} \cup (0..MaxMessageBytes + 1)
    /\ headers \in Seq([from : Nat, to : Nat])
    /\ bodyStart \in {None} \cup (0..MaxMessageBytes + 1)
    /\ outcome \in {"reading", "parsed", "message_size", "header_size", "header_count"}
    /\ reported \subseteq {"leading_continuation", "malformed_line", "no_separator"}
    /\ lines \in Seq([kind : LineKinds, from : Nat, to : Nat])

SectionInit ==
    /\ input \in 0..MaxMessageBytes + 1
    /\ offset = 0
    /\ fieldStart = None
    /\ headers = <<>>
    /\ bodyStart = None
    /\ outcome = "reading"
    /\ reported = {}
    /\ lines = <<>>

(***************************************************************************)
(* Parse reads one byte more than the limit, so that ParseBytes can refuse *)
(* the input before it looks at a line.                                    *)
(***************************************************************************)
MessageTooLarge ==
    /\ outcome = "reading"
    /\ input > MaxMessageBytes
    /\ outcome' = "message_size"
    /\ UNCHANGED <<input, offset, fieldStart, headers, bodyStart, reported, lines>>

Reading ==
    /\ outcome = "reading"
    /\ input <= MaxMessageBytes

\* Mutant: the size is only looked at once the section is complete.
WithinInput == Reading /\ offset < input
\* The head of the loop: a line is read only at an offset within the limit.
WithinLimit == Reading /\ offset < input /\ offset <= MaxHeaderBytes

\* nextLine: a line of this kind from offset to end.
LineTo(kind, end) ==
    /\ end \in offset + 1 .. input
    /\ end - offset \in Shortest(kind, end = input) .. Longest(kind)
    /\ lines' = Append(lines, [kind |-> kind, from |-> offset, to |-> end])

\* flush: the field under construction ends here.
Flushed(end) ==
    IF fieldStart = None THEN headers
                         ELSE Append(headers, [from |-> fieldStart, to |-> end])

SectionTooLarge ==
    /\ Reading
    /\ offset < input
    /\ offset > MaxHeaderBytes
    /\ outcome' = "header_size"
    /\ UNCHANGED <<input, offset, fieldStart, headers, bodyStart, reported, lines>>

\* An empty line ends the section; the body starts after it.
Separator(end) ==
    /\ WithinLimit
    /\ LineTo("empty", end)
    /\ headers' = Flushed(offset)
    /\ fieldStart' = None
    /\ bodyStart' = end
    /\ outcome' = "parsed"
    /\ UNCHANGED <<input, offset, reported>>

\* Mutant: a continuation ends the field before it.
ContinuationEndsField(end) ==
    /\ WithinLimit
    /\ LineTo("fold", end)
    /\ headers' = Flushed(offset)
    /\ fieldStart' = None
    /\ offset' = end
    /\ UNCHANGED <<input, bodyStart, outcome, reported>>

\* A continuation belongs to the field before it, if there is one.
Continuation(end) ==
    /\ WithinLimit
    /\ LineTo("fold", end)
    /\ reported' = IF fieldStart = None THEN reported \cup {"leading_continuation"}
                                        ELSE reported
    /\ offset' = end
    /\ UNCHANGED <<input, fieldStart, headers, bodyStart, outcome>>

\* A line that is no header field is taken for the first line of the body.
MalformedLine(end) ==
    /\ WithinLimit
    /\ LineTo("other", end)
    /\ headers' = Flushed(offset)
    /\ fieldStart' = None
    /\ bodyStart' = offset
    /\ outcome' = "parsed"
    /\ reported' = reported \cup {"malformed_line", "no_separator"}
    /\ UNCHANGED <<input, offset>>

FieldLine(end) ==
    /\ WithinLimit
    /\ LineTo("field", end)
    /\ headers' = Flushed(offset)
    /\ IF Len(Flushed(offset)) >= MaxHeaders
         THEN /\ outcome' = "header_count"
              /\ fieldStart' = None
              /\ UNCHANGED offset
         ELSE /\ fieldStart' = offset
              /\ offset' = end
              /\ UNCHANGED outcome
    /\ UNCHANGED <<input, bodyStart, reported>>

\* The input ends before an empty line: all of it is header section.
EndOfInput ==
    /\ Reading
    /\ offset = input
    /\ IF input > MaxHeaderBytes
         THEN /\ outcome' = "header_size"
              /\ UNCHANGED <<headers, fieldStart, bodyStart>>
         ELSE /\ outcome' = "parsed"
              /\ headers' = Flushed(input)
              /\ fieldStart' = None
              /\ bodyStart' = input
    /\ UNCHANGED <<input, offset, reported, lines>>

SectionNext ==
    \/ MessageTooLarge
    \/ SectionTooLarge
    \/ \E end \in offset + 1 .. input :
        \/ Separator(end)
        \/ Continuation(end)
        \/ MalformedLine(end)
        \/ FieldLine(end)
    \/ EndOfInput

SectionSpec == SectionInit /\ [][SectionNext]_sectionVars

----------------------------------------------------------------------------
Parsed == outcome = "parsed"

\* The lines of the section, whether or not a later one ended it.
SectionLines == {i \in DOMAIN lines : lines[i].from < bodyStart}

\* DKIM signs the exact bytes of a field.  In a parsed message each field is
\* one field line with the continuations that follow it, all of them and
\* nothing else; every other byte before the body is the separator or was
\* reported as a continuation of nothing.
FieldsExact ==
    Parsed =>
        /\ \A h \in DOMAIN headers :
             LET within == {i \in SectionLines : /\ headers[h].from <= lines[i].from
                                                 /\ lines[i].to <= headers[h].to}
             IN  /\ \E i \in within : lines[i].from = headers[h].from /\ lines[i].kind = "field"
                 /\ \A i \in within :
                      lines[i].kind = (IF lines[i].from = headers[h].from THEN "field" ELSE "fold")
                 /\ ~\E i \in SectionLines : lines[i].from = headers[h].to /\ lines[i].kind = "fold"
        /\ \A i \in SectionLines :
             \/ \E h \in DOMAIN headers : /\ headers[h].from <= lines[i].from
                                          /\ lines[i].to <= headers[h].to
             \/ lines[i].kind = "empty" /\ lines[i].to = bodyStart
             \/ lines[i].kind = "fold" /\ "leading_continuation" \in reported

\* What is kept of a header section stays within both limits, however its
\* lines straddle them; only the separator may reach beyond.
SectionBounded ==
    /\ Len(headers) <= MaxHeaders
    /\ \A h \in DOMAIN headers : headers[h].to <= MaxHeaderBytes
    /\ Parsed => bodyStart <= MaxHeaderBytes + 2
============================================================================
