----------------------------- MODULE MimeWalk -----------------------------
(***************************************************************************)
(* The MIME structure of a message: parseMIME and mimeWalker.part of       *)
(* mailparser/mime.go.  The recursion of part is the stack of multiparts   *)
(* whose children are being read.  What the multipart reader finds next in *)
(* a body is chosen as it is read, within the bytes the body has.  Values  *)
(* that are copied from part headers (charset, file name, encoding) and    *)
(* defects of such a value are left out.                                   *)
(***************************************************************************)
EXTENDS Integers, Sequences, FiniteSets

CONSTANTS MaxMIMEDepth,   \* Limits.MaxMIMEDepth
          MaxMIMEParts,   \* Limits.MaxMIMEParts
          Slack,          \* 1 MiB beyond twice the body
          Bodies          \* the sizes of bodies (a bound of the model)

ASSUME MimeAssumption ==
    /\ MaxMIMEDepth \in Nat \ {0}
    /\ MaxMIMEParts \in Nat \ {0}
    /\ Slack \in Nat
    /\ Bodies \subseteq Nat

VARIABLES
    step,         \* what the walker does next
    bodySize,     \* len(m.Body)
    stack,        \* open multiparts, innermost last: [left, children, broken]
    entering,     \* the part that is entered next: [size, depth]
    parts,        \* w.parts
    examined,     \* w.examined
    stopped,      \* w.stopped
    defects,      \* kinds of defects recorded
    limitReports, \* history: how many of them name a limit of the walker
    deepest,      \* history: the depth of the deepest part
    skipped,      \* history: bytes of a multipart remain that nobody examined
    lost          \* history: a part was given up because the body ends in its header

mimeVars == <<step, bodySize, stack, entering, parts, examined, stopped,
              defects, limitReports, deepest, skipped, lost>>

\* w.maxExamined
MaxExamined == 2 * bodySize + Slack

LimitDefects == {"depth_exceeded", "parts_exceeded", "size_exceeded"}
MimeDefects == LimitDefects \cup {"missing_boundary", "no_parts", "unterminated"}

\* A multipart has a delimiter before its first child and one after each child;
\* a child that is cut off takes the rest of the body instead.
Delimiter == 1

Fits(size, unterminated, left) ==
    IF unterminated THEN size = left ELSE size + Delimiter <= left

Top == stack[Len(stack)]
Depth == Len(stack)

Part == [size : Nat, depth : 0..MaxMIMEDepth]

MimeTypeOK ==
    /\ step \in {"start", "enter", "children", "return", "done"}
    /\ bodySize \in Bodies
    /\ stack \in Seq([left : Nat, children : Nat, broken : BOOLEAN])
    /\ entering \in Part
    /\ parts \in Nat
    /\ examined \in Nat
    /\ stopped \in BOOLEAN
    /\ defects \subseteq MimeDefects
    /\ limitReports \in Nat
    /\ deepest \in 0..MaxMIMEDepth
    /\ skipped \in BOOLEAN
    /\ lost \in BOOLEAN

MimeInit ==
    /\ step = "start"
    /\ bodySize \in Bodies
    /\ stack = <<>>
    /\ entering = [size |-> bodySize, depth |-> 0]
    /\ parts = 0
    /\ examined = 0
    /\ stopped = FALSE
    /\ defects = {}
    /\ limitReports = 0
    /\ deepest = 0
    /\ skipped = FALSE
    /\ lost = FALSE

\* parseMIME: without Content-Type there is no walk.
NoContentType ==
    /\ step = "start"
    /\ step' = "done"
    /\ UNCHANGED <<bodySize, stack, entering, parts, examined, stopped, defects,
                   limitReports, deepest, skipped, lost>>

StartWalk ==
    /\ step = "start"
    /\ step' = "enter"
    /\ UNCHANGED <<bodySize, stack, entering, parts, examined, stopped, defects,
                   limitReports, deepest, skipped, lost>>

----------------------------------------------------------------------------
(* part: the new part, and what becomes of it before its children are read *)

\* The part is entered; it is complete if it has no children to read.
EnterPart(next) ==
    /\ step = "enter"
    /\ parts' = parts + 1
    /\ deepest' = IF entering.depth > deepest THEN entering.depth ELSE deepest
    /\ step' = next
    /\ UNCHANGED <<bodySize, entering, examined, lost>>

Leaf ==
    /\ EnterPart("return")
    /\ UNCHANGED <<stack, stopped, defects, limitReports, skipped>>

\* Mutant: the limit is kept without a word.
TooDeepSilently ==
    /\ EnterPart("return")
    /\ entering.depth >= MaxMIMEDepth
    /\ stopped' = TRUE
    /\ skipped' = TRUE
    /\ UNCHANGED <<stack, defects, limitReports>>

TooDeep ==
    /\ EnterPart("return")
    /\ entering.depth >= MaxMIMEDepth
    /\ stopped' = TRUE
    /\ IF stopped
         THEN UNCHANGED <<defects, limitReports>>
         ELSE /\ defects' = defects \cup {"depth_exceeded"}
              /\ limitReports' = limitReports + 1
    /\ skipped' = TRUE
    /\ UNCHANGED stack

\* A multipart without a usable boundary: nothing in it can be told apart.
NoBoundary(defect) ==
    /\ EnterPart("return")
    /\ entering.depth < MaxMIMEDepth
    /\ defects' = defects \cup {defect}
    /\ skipped' = TRUE
    /\ UNCHANGED <<stack, stopped, limitReports>>

OpenMultipart ==
    /\ EnterPart("children")
    /\ entering.depth < MaxMIMEDepth
    /\ entering.size >= Delimiter
    /\ stack' = Append(stack, [left |-> entering.size - Delimiter, children |-> 0, broken |-> FALSE])
    /\ UNCHANGED <<stopped, defects, limitReports, skipped>>

----------------------------------------------------------------------------
(* The loop over the children of the innermost multipart                   *)

\* The guard of the loop and the check it begins with.
MayReadChild == step = "children" /\ ~stopped /\ ~Top.broken /\ parts < MaxMIMEParts

PartsExceeded ==
    /\ step = "children"
    /\ ~stopped
    /\ ~Top.broken
    /\ parts >= MaxMIMEParts
    /\ defects' = defects \cup {"parts_exceeded"}
    /\ limitReports' = limitReports + 1
    /\ stopped' = TRUE
    /\ skipped' = (skipped \/ Top.left > 0)
    /\ UNCHANGED <<step, bodySize, stack, entering, parts, examined, deepest, lost>>

\* The closing delimiter.  What follows it belongs to no part.
EndOfParts ==
    /\ MayReadChild
    /\ step' = "return"
    /\ defects' = IF Top.children = 0 THEN defects \cup {"no_parts"} ELSE defects
    /\ stack' = SubSeq(stack, 1, Depth - 1)
    /\ UNCHANGED <<bodySize, entering, parts, examined, stopped, limitReports, deepest, skipped, lost>>

\* The body ends before the next part begins: in its delimiter, in its header,
\* or in the lines before the first one. That is an io.EOF to the loop like the
\* closing delimiter.
EndOfBody ==
    /\ MayReadChild
    /\ step' = "return"
    /\ IF Top.children = 0
         THEN /\ defects' = defects \cup {"no_parts"}
              /\ skipped' = (skipped \/ Top.left > 0)
              /\ UNCHANGED lost
         ELSE /\ lost' = (lost \/ Top.left > 0)
              /\ UNCHANGED <<defects, skipped>>
    /\ stack' = SubSeq(stack, 1, Depth - 1)
    /\ UNCHANGED <<bodySize, entering, parts, examined, stopped, limitReports, deepest>>

\* The reader fails otherwise before it finds another part: a line of its header
\* or the line where its delimiter should be is malformed or too long.
MalformedBody ==
    /\ MayReadChild
    /\ step' = "return"
    /\ defects' = defects \cup {"unterminated"} \cup (IF Top.children = 0 THEN {"no_parts"} ELSE {})
    /\ skipped' = TRUE
    /\ stack' = SubSeq(stack, 1, Depth - 1)
    /\ UNCHANGED <<bodySize, entering, parts, examined, stopped, limitReports, deepest, lost>>

\* Mutant: a part is read whole before its size is compared.
CopiedWhole(size) == size
\* One byte more than the budget allows is read, never the whole part.
Copied(size) == IF size > MaxExamined - examined THEN MaxExamined - examined + 1 ELSE size

SizeExceeded(size) ==
    /\ MayReadChild
    /\ size <= Top.left
    /\ examined' = examined + Copied(size)
    /\ examined' > MaxExamined
    /\ defects' = defects \cup {"size_exceeded"}
    /\ limitReports' = limitReports + 1
    /\ stopped' = TRUE
    /\ skipped' = TRUE
    /\ UNCHANGED <<step, bodySize, stack, entering, parts, deepest, lost>>

\* A child within the budget; the last one if the body ends before its delimiter.
ReadChild(size, unterminated) ==
    /\ MayReadChild
    /\ Fits(size, unterminated, Top.left)
    /\ examined' = examined + Copied(size)
    /\ examined' <= MaxExamined
    /\ step' = "enter"
    /\ entering' = [size |-> size, depth |-> Depth]
    /\ stack' = [stack EXCEPT ![Depth] = [left |-> IF unterminated THEN 0 ELSE Top.left - size - Delimiter,
                                          children |-> Top.children + 1,
                                          broken |-> unterminated]]
    /\ defects' = IF unterminated THEN defects \cup {"unterminated"} ELSE defects
    /\ UNCHANGED <<bodySize, parts, stopped, limitReports, deepest, skipped, lost>>

\* Mutant: a loop that was not the one to hit the limit goes on waiting for parts.
LeaveLoopIfBroken ==
    /\ step = "children"
    /\ Top.broken
    /\ step' = "return"
    /\ stack' = SubSeq(stack, 1, Depth - 1)
    /\ UNCHANGED <<bodySize, entering, parts, examined, stopped, defects, limitReports,
                   deepest, skipped, lost>>

\* The loop ends because a limit was hit or the last child was cut off.
LeaveLoop ==
    /\ step = "children"
    /\ stopped \/ Top.broken
    /\ step' = "return"
    /\ defects' = IF Top.children = 0 /\ ~stopped THEN defects \cup {"no_parts"} ELSE defects
    /\ skipped' = (skipped \/ (stopped /\ Top.left > 0))
    /\ stack' = SubSeq(stack, 1, Depth - 1)
    /\ UNCHANGED <<bodySize, entering, parts, examined, stopped, limitReports, deepest, lost>>

\* part returns to the loop that called it, or the walk is over.
Return ==
    /\ step = "return"
    /\ step' = IF stack = <<>> THEN "done" ELSE "children"
    /\ UNCHANGED <<bodySize, stack, entering, parts, examined, stopped, defects,
                   limitReports, deepest, skipped, lost>>

MimeNext ==
    \/ NoContentType
    \/ StartWalk
    \/ Leaf
    \/ TooDeep
    \/ \E defect \in {"missing_boundary", "no_parts"} : NoBoundary(defect)
    \/ OpenMultipart
    \/ PartsExceeded
    \/ EndOfParts
    \/ EndOfBody
    \/ MalformedBody
    \/ \E size \in 0..bodySize :
        \/ SizeExceeded(size)
        \/ \E unterminated \in BOOLEAN : ReadChild(size, unterminated)
    \/ LeaveLoop
    \/ Return

MimeSpec == MimeInit /\ [][MimeNext]_mimeVars

\* The walk is a loop without waiting: it runs until it is done.
MimeFairSpec == MimeSpec /\ WF_mimeVars(MimeNext)

----------------------------------------------------------------------------
\* The work done on a message is bounded, whatever its structure: parts,
\* nesting and the bytes copied, of which at most one goes beyond the budget.
WorkBounded ==
    /\ parts <= MaxMIMEParts
    /\ deepest <= MaxMIMEDepth
    /\ examined <= MaxExamined + 1

\* Whatever part of the structure was not examined, a defect tells so, except
\* for a part after others in whose header the body ends (lost); a limit is
\* reported once however many loops it ends, and it ends them all.
NothingSkippedSilently ==
    /\ skipped => defects # {}
    /\ limitReports = (IF stopped THEN 1 ELSE 0)
    /\ stopped <=> defects \cap LimitDefects # {}

\* A walk that has begun ends, for every body.
WalkEnds == (step = "enter") ~> (step = "done")
============================================================================
