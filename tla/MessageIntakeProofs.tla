------------------------ MODULE MessageIntakeProofs ------------------------
(***************************************************************************)
(* What holds of the readers of a message for every message and every      *)
(* value of the limits: of the walk over the MIME parts, of the header     *)
(* section, of the ARC sets, and of the inputs of SPF.                     *)
(***************************************************************************)
EXTENDS HeaderSection, MimeWalk, ArcChain, SmtpInputs, FiniteSetTheorems,
        SequenceTheorems, WellFoundedInduction, TLAPS

-----------------------------------------------------------------------------
(* The walk over the MIME parts                                            *)

OpenPart == [left : Nat, children : Nat, broken : BOOLEAN]

\* The stack is the path to the part that is entered next; only a walk that no
\* limit has stopped enters one, and the loop has left room for it.
WalkShape ==
    /\ step \in {"start", "enter"} => entering.depth = Len(stack)
    /\ step = "children" => stack # <<>>
    /\ Len(stack) <= MaxMIMEDepth
    /\ step = "start" => parts = 0
    /\ step \in {"start", "enter"} => ~stopped /\ parts < MaxMIMEParts

WorkInv ==
    /\ WorkBounded
    /\ ~stopped => examined <= MaxExamined

WalkInv == MimeTypeOK /\ WalkShape

\* What the steps do to the stack: nothing, or they open, leave or read from
\* the innermost multipart.
LEMMA StackAfter ==
    ASSUME MimeTypeOK
    PROVE  /\ \A p \in OpenPart : /\ Append(stack, p) \in Seq(OpenPart)
                                  /\ Len(Append(stack, p)) = Len(stack) + 1
                                  /\ Append(stack, p) # <<>>
           /\ stack # <<>> =>
                /\ Top \in OpenPart /\ Depth \in Nat \ {0}
                /\ SubSeq(stack, 1, Depth - 1) \in Seq(OpenPart)
                /\ Len(SubSeq(stack, 1, Depth - 1)) = Len(stack) - 1
                /\ \A p \in OpenPart : /\ [stack EXCEPT ![Depth] = p] \in Seq(OpenPart)
                                       /\ Len([stack EXCEPT ![Depth] = p]) = Len(stack)
<1>1. stack \in Seq(OpenPart)
  BY DEF MimeTypeOK, OpenPart
<1>2. ASSUME NEW p \in OpenPart
      PROVE  /\ Append(stack, p) \in Seq(OpenPart)
             /\ Len(Append(stack, p)) = Len(stack) + 1
             /\ Append(stack, p) # <<>>
  BY <1>1, AppendProperties
<1>3. ASSUME stack # <<>>
      PROVE  /\ Top \in OpenPart /\ Depth \in Nat \ {0}
             /\ SubSeq(stack, 1, Depth - 1) \in Seq(OpenPart)
             /\ Len(SubSeq(stack, 1, Depth - 1)) = Len(stack) - 1
             /\ \A p \in OpenPart : /\ [stack EXCEPT ![Depth] = p] \in Seq(OpenPart)
                                    /\ Len([stack EXCEPT ![Depth] = p]) = Len(stack)
  <2>1. Len(stack) \in Nat \ {0}
    BY <1>1, <1>3, EmptySeq, LenProperties
  <2>2. Top \in OpenPart /\ Depth \in Nat \ {0}
    BY <1>1, <2>1, ElementOfSeq DEF Top, Depth
  <2>3. /\ SubSeq(stack, 1, Depth - 1) \in Seq(OpenPart)
        /\ Len(SubSeq(stack, 1, Depth - 1)) = Len(stack) - 1
    <3>1. PICK n \in Nat : n = Len(stack) - 1
      BY <2>1
    <3>2. \A i \in 1..n : stack[i] \in OpenPart
      BY <1>1, <2>1, <3>1, ElementOfSeq
    <3>3. SubSeq(stack, 1, n) \in Seq(OpenPart) /\ Len(SubSeq(stack, 1, n)) = n
      <4>1. n \in Int /\ 1 \in Int /\ (IF 1 <= n THEN n - 1 + 1 ELSE 0) = n
        OBVIOUS
      <4>2. QED
        BY <3>2, <4>1, SubSeqProperties
    <3>4. QED
      BY <3>1, <3>3 DEF Depth
  <2>4. ASSUME NEW p \in OpenPart
        PROVE  /\ [stack EXCEPT ![Depth] = p] \in Seq(OpenPart)
               /\ Len([stack EXCEPT ![Depth] = p]) = Len(stack)
    BY <1>1, <2>1, ExceptSeq DEF Depth
  <2>5. QED
    BY <2>2, <2>3, <2>4
<1>4. QED
  BY <1>2, <1>3

\* One part is entered, or the loop over the children of one goes on or ends.
LEMMA WalkStep ==
    ASSUME WalkInv, MimeNext, MimeAssumption
    PROVE  WalkInv'
<1> USE DEF WalkInv, MimeTypeOK, OpenPart, MimeDefects, LimitDefects, WalkShape, Part
<1>0. /\ Len(stack) \in Nat /\ bodySize \in Nat
      /\ MaxMIMEDepth \in Nat \ {0} /\ MaxMIMEParts \in Nat \ {0} /\ Slack \in Nat
  <2>1. Len(stack) \in Nat
    BY LenProperties
  <2>2. QED
    BY <2>1, MimeAssumption
<1>1. CASE NoContentType \/ StartWalk
  <2>1. /\ step' \in {"done", "enter"} /\ step = "start"
        /\ UNCHANGED <<bodySize, stack, entering, parts, examined, stopped, defects,
                       limitReports, deepest, skipped, lost>>
    BY <1>1 DEF NoContentType, StartWalk
  <2>2. MimeTypeOK'
    BY <2>1
  <2>3. WalkShape'
    BY <2>1
  <2>4. QED
    BY <2>2, <2>3
<1>2. ASSUME NEW next, EnterPart(next)
      PROVE  /\ step = "enter" /\ step' = next
             /\ parts' = parts + 1 /\ parts' \in Nat
             /\ deepest' \in 0..MaxMIMEDepth
             /\ UNCHANGED <<bodySize, entering, examined, lost>>
  BY <1>2, <1>0 DEF EnterPart
<1>3. CASE Leaf \/ TooDeep \/ \E defect \in {"missing_boundary", "no_parts"} : NoBoundary(defect)
  <2>1. EnterPart("return") /\ stack' = stack
    BY <1>3 DEF Leaf, TooDeep, NoBoundary
  <2>2. /\ step = "enter" /\ step' = "return"
        /\ parts' \in Nat /\ deepest' \in 0..MaxMIMEDepth
        /\ UNCHANGED <<bodySize, entering, examined, lost>>
    BY <1>2, <2>1
  <2>3. defects' \subseteq MimeDefects /\ limitReports' \in Nat
    <3>1. \/ UNCHANGED <<defects, limitReports>>
          \/ defects' = defects \cup {"depth_exceeded"} /\ limitReports' = limitReports + 1
          \/ \E d \in {"missing_boundary", "no_parts"} :
               defects' = defects \cup {d} /\ UNCHANGED limitReports
      <4>1. CASE Leaf
        BY <4>1 DEF Leaf
      <4>2. CASE TooDeep
        BY <4>2, Zenon DEF TooDeep
      <4>3. CASE \E d \in {"missing_boundary", "no_parts"} : NoBoundary(d)
        BY <4>3, Zenon DEF NoBoundary
      <4>4. QED
        BY <1>3, <4>1, <4>2, <4>3, Zenon
    <3>2. \A d \in MimeDefects : defects \cup {d} \subseteq MimeDefects
      OBVIOUS
    <3>3. defects' \subseteq MimeDefects
      <4>1. "depth_exceeded" \in MimeDefects /\ {"missing_boundary", "no_parts"} \subseteq MimeDefects
        OBVIOUS
      <4>2. QED
        BY <3>1, <3>2, <4>1
    <3>4. limitReports' \in Nat
      BY <3>1
    <3>5. QED
      BY <3>3, <3>4
  <2>4. /\ stopped' = stopped \/ stopped' = TRUE
        /\ skipped' = skipped \/ skipped' = TRUE
    <3>1. CASE Leaf
      BY <3>1, Zenon DEF Leaf
    <3>2. CASE TooDeep
      BY <3>2, Zenon DEF TooDeep
    <3>3. CASE \E defect \in {"missing_boundary", "no_parts"} : NoBoundary(defect)
      BY <3>3, Zenon DEF NoBoundary
    <3>4. QED
      BY <1>3, <3>1, <3>2, <3>3, Zenon
  <2>5. stopped' \in BOOLEAN /\ skipped' \in BOOLEAN
    BY <2>4, Zenon
  <2>6. QED
    BY <1>0, <2>1, <2>2, <2>3, <2>5
<1>4. CASE OpenMultipart
  <2>1. [left |-> entering.size - Delimiter, children |-> 0, broken |-> FALSE] \in OpenPart
    BY <1>0, <1>4 DEF OpenMultipart, Delimiter
  <2>2. stack' \in Seq(OpenPart) /\ Len(stack') = Len(stack) + 1 /\ stack' # <<>>
    BY <2>1, <1>4, StackAfter DEF OpenMultipart
  <2>3. entering.depth = Len(stack) /\ entering.depth < MaxMIMEDepth
    BY <1>4, <1>2 DEF OpenMultipart
  <2>4. /\ step' = "children" /\ parts' \in Nat /\ deepest' \in 0..MaxMIMEDepth
        /\ UNCHANGED <<bodySize, entering, examined, stopped, defects, limitReports, skipped, lost>>
    BY <1>2, <1>4 DEF OpenMultipart
  <2>5. MimeTypeOK'
    BY <2>2, <2>4
  <2>6. WalkShape'
    BY <1>0, <2>2, <2>3, <2>4
  <2>7. QED
    BY <2>5, <2>6
<1>5. CASE PartsExceeded
  BY <1>0, <1>5 DEF PartsExceeded
<1>6. ASSUME step = "children"
      PROVE  /\ stack # <<>> /\ Top \in OpenPart /\ Depth = Len(stack)
             /\ SubSeq(stack, 1, Depth - 1) \in Seq(OpenPart)
             /\ Len(SubSeq(stack, 1, Depth - 1)) = Len(stack) - 1
  BY <1>6, StackAfter DEF Depth
<1>7. CASE EndOfParts \/ EndOfBody \/ MalformedBody \/ LeaveLoop
  <2>1. /\ step = "children" /\ stack' = SubSeq(stack, 1, Depth - 1) /\ step' = "return"
        /\ UNCHANGED <<bodySize, entering, parts, examined, stopped, limitReports, deepest>>
    <3>1. CASE EndOfParts
      BY <3>1, Zenon DEF EndOfParts, MayReadChild
    <3>2. CASE EndOfBody
      BY <3>2, Zenon DEF EndOfBody, MayReadChild
    <3>3. CASE MalformedBody
      BY <3>3, Zenon DEF MalformedBody, MayReadChild
    <3>4. CASE LeaveLoop
      BY <3>4, Zenon DEF LeaveLoop
    <3>5. QED
      BY <1>7, <3>1, <3>2, <3>3, <3>4
  <2>2. stack' \in Seq(OpenPart) /\ Len(stack') = Len(stack) - 1
    BY <2>1, <1>6
  <2>3. defects' \in {defects, defects \cup {"no_parts"}, defects \cup {"unterminated"} \cup {"no_parts"},
                      defects \cup {"unterminated"} \cup {}}
    <3>1. CASE EndOfParts
      BY <3>1, Zenon DEF EndOfParts
    <3>2. CASE EndOfBody
      BY <3>2, Zenon DEF EndOfBody
    <3>3. CASE MalformedBody
      BY <3>3, Zenon DEF MalformedBody
    <3>4. CASE LeaveLoop
      BY <3>4, Zenon DEF LeaveLoop
    <3>5. QED
      BY <1>7, <3>1, <3>2, <3>3, <3>4
  <2>4. defects' \subseteq MimeDefects
    BY <2>3
  <2>5. skipped' \in BOOLEAN /\ lost' \in BOOLEAN
    <3>1. CASE EndOfParts
      BY <3>1, Zenon DEF EndOfParts
    <3>2. CASE EndOfBody
      BY <3>2, Zenon DEF EndOfBody
    <3>3. CASE MalformedBody
      BY <3>3, Zenon DEF MalformedBody
    <3>4. CASE LeaveLoop
      BY <3>4, Zenon DEF LeaveLoop
    <3>5. QED
      BY <1>7, <3>1, <3>2, <3>3, <3>4
  <2>6. MimeTypeOK'
    BY <1>0, <2>1, <2>2, <2>4, <2>5
  <2>7. WalkShape'
    BY <1>0, <2>1, <2>2
  <2>8. QED
    BY <2>6, <2>7
<1>8. ASSUME NEW size \in 0..bodySize, MayReadChild
      PROVE  examined + Copied(size) \in Nat
  BY <1>0, <1>8 DEF Copied, MaxExamined
<1>9. CASE \E size \in 0..bodySize : SizeExceeded(size)
  BY <1>0, <1>8, <1>9 DEF SizeExceeded, MayReadChild
<1>10. ASSUME NEW size \in 0..bodySize, NEW unterminated \in BOOLEAN, ReadChild(size, unterminated)
       PROVE  WalkInv'
  <2> DEFINE rest == [left |-> IF unterminated THEN 0 ELSE Top.left - size - Delimiter,
                      children |-> Top.children + 1, broken |-> unterminated]
  <2>1. MayReadChild /\ step = "children" /\ ~stopped /\ parts < MaxMIMEParts
    BY <1>10 DEF ReadChild, MayReadChild
  <2>2. rest \in OpenPart
    <3>1. Top \in OpenPart
      BY <1>6, <2>1
    <3>2. IF unterminated THEN size = Top.left ELSE size + 1 <= Top.left
      BY <1>10 DEF ReadChild, Fits, Delimiter
    <3>3. Top.left \in Nat /\ Top.children \in Nat /\ size \in Nat
      BY <1>0, <3>1
    <3>4. rest.left \in Nat
      BY <3>2, <3>3 DEF Delimiter
    <3>5. QED
      BY <3>3, <3>4
  <2>3. stack' = [stack EXCEPT ![Depth] = rest]
    BY <1>10 DEF ReadChild
  <2>4. stack' \in Seq(OpenPart) /\ Len(stack') = Len(stack)
    BY <1>6, <2>1, <2>2, <2>3, StackAfter
  <2>5. entering' = [size |-> size, depth |-> Depth] /\ step' = "enter"
        /\ UNCHANGED <<bodySize, parts, stopped, limitReports, deepest, skipped, lost>>
    BY <1>10 DEF ReadChild
  <2>6. examined' \in Nat /\ defects' \subseteq MimeDefects
    BY <1>8, <1>10, <2>1 DEF ReadChild
  <2>7. QED
    BY <1>0, <1>6, <2>1, <2>4, <2>5, <2>6
<1>11. CASE Return
  BY <1>0, <1>11, EmptySeq DEF Return
<1>12. QED
  BY <1>1, <1>3, <1>4, <1>5, <1>7, <1>9, <1>10, <1>11 DEF MimeNext

\* The variables of the walk keep their types, and a part is entered only
\* where its parent was left and while a limit allows it.
THEOREM WalkIsTyped == MimeSpec => []WalkInv
<1>1. MimeInit => WalkInv
  <2> SUFFICES ASSUME MimeInit PROVE WalkInv
    OBVIOUS
  <2>1. stack = <<>> /\ stack \in Seq(OpenPart) /\ Len(stack) = 0
    BY EmptySeq DEF MimeInit
  <2>2. MimeTypeOK
    <3>1. entering \in Part /\ bodySize \in Bodies
      BY MimeAssumption DEF MimeInit, Part
    <3>2. stopped \in BOOLEAN /\ skipped \in BOOLEAN /\ lost \in BOOLEAN /\ defects \subseteq MimeDefects
      BY Zenon DEF MimeInit
    <3>3. step = "start" /\ parts = 0 /\ examined = 0 /\ limitReports = 0 /\ deepest = 0
      BY DEF MimeInit
    <3>4. QED
      BY <2>1, <3>1, <3>2, <3>3, MimeAssumption DEF MimeTypeOK, OpenPart
  <2>3. WalkShape
    BY <2>1, MimeAssumption DEF MimeInit, WalkShape
  <2>4. QED
    BY <2>2, <2>3 DEF WalkInv
<1>2. WalkInv /\ [MimeNext]_mimeVars => WalkInv'
  <2>1. WalkInv /\ MimeNext => WalkInv'
    BY WalkStep, MimeAssumption
  <2>2. ASSUME WalkInv, UNCHANGED mimeVars PROVE WalkInv'
    <3>1. UNCHANGED <<bodySize, step, stack, entering, parts, examined, stopped, defects,
                      limitReports, deepest, skipped, lost>>
      BY <2>2 DEF mimeVars
    <3>2. QED
      BY <2>2, <3>1 DEF WalkInv, MimeTypeOK, WalkShape
  <2>3. QED
    BY <2>1, <2>2
<1>3. QED
  BY <1>1, <1>2, PTL DEF MimeSpec

\* A step hits no limit, or it is the one that does.
NoLimit ==
    /\ stopped' = stopped /\ limitReports' = limitReports
    /\ \E D \in SUBSET (MimeDefects \ LimitDefects) : defects' = defects \cup D
HitsLimit ==
    /\ ~stopped /\ stopped' = TRUE /\ limitReports' = limitReports + 1
    /\ \E d \in LimitDefects : defects' = defects \cup {d}

LEMMA LimitSteps == ASSUME WalkInv, MimeNext PROVE NoLimit \/ HitsLimit
<1>1. /\ \A d \in {"missing_boundary", "no_parts", "unterminated"} : {d} \subseteq MimeDefects \ LimitDefects
      /\ {"unterminated"} \cup {"no_parts"} \subseteq MimeDefects \ LimitDefects
      /\ {} \subseteq MimeDefects \ LimitDefects
      /\ \A d \in {"depth_exceeded", "parts_exceeded", "size_exceeded"} : d \in LimitDefects
  BY DEF MimeDefects, LimitDefects
<1>2. ASSUME defects' = defects, stopped' = stopped, limitReports' = limitReports PROVE NoLimit
  <2>1. defects' = defects \cup {}
    BY <1>2
  <2>2. QED
    BY <1>1, <1>2, <2>1, Zenon DEF NoLimit
<1>3. ASSUME NEW d \in {"missing_boundary", "no_parts", "unterminated"}, defects' = defects \cup {d},
             stopped' = stopped, limitReports' = limitReports
      PROVE  NoLimit
  BY <1>1, <1>3, Zenon DEF NoLimit
<1>4. ASSUME NEW d \in {"depth_exceeded", "parts_exceeded", "size_exceeded"}, ~stopped,
             stopped' = TRUE, defects' = defects \cup {d}, limitReports' = limitReports + 1
      PROVE  HitsLimit
  BY <1>1, <1>4, Zenon DEF HitsLimit
<1>5. CASE NoContentType \/ StartWalk \/ Leaf \/ OpenMultipart \/ Return
  BY <1>2, <1>5, Zenon DEF NoContentType, StartWalk, Leaf, OpenMultipart, Return
<1>6. CASE TooDeep
  <2>1. ~stopped
    BY <1>6 DEF WalkInv, WalkShape, TooDeep, EnterPart
  <2>2. QED
    BY <1>4, <1>6, <2>1, Zenon DEF TooDeep
<1>7. ASSUME NEW d \in {"missing_boundary", "no_parts"}, NoBoundary(d) PROVE NoLimit
  <2>1. d \in {"missing_boundary", "no_parts", "unterminated"}
    OBVIOUS
  <2>2. QED
    BY <1>3, <1>7, <2>1, Zenon DEF NoBoundary
<1>8. CASE PartsExceeded
  BY <1>4, <1>8, Zenon DEF PartsExceeded
<1>9. CASE EndOfParts \/ EndOfBody \/ LeaveLoop
  <2>1. defects' = defects \/ defects' = defects \cup {"no_parts"}
    BY <1>9, Zenon DEF EndOfParts, EndOfBody, LeaveLoop
  <2>2. stopped' = stopped /\ limitReports' = limitReports
    BY <1>9, Zenon DEF EndOfParts, EndOfBody, LeaveLoop
  <2>3. "no_parts" \in {"missing_boundary", "no_parts", "unterminated"}
    OBVIOUS
  <2>4. QED
    BY <1>2, <1>3, <2>1, <2>2, <2>3, Zenon
<1>10. CASE MalformedBody
  <2>1. \E D \in {{"unterminated"}, {"unterminated"} \cup {"no_parts"}} : defects' = defects \cup D
    BY <1>10 DEF MalformedBody
  <2>2. stopped' = stopped /\ limitReports' = limitReports
    BY <1>10, Zenon DEF MalformedBody
  <2>3. QED
    BY <1>1, <2>1, <2>2, Zenon DEF NoLimit
<1>11. ASSUME NEW size \in 0..bodySize, SizeExceeded(size) PROVE HitsLimit
  BY <1>4, <1>11, Zenon DEF SizeExceeded, MayReadChild
<1>12. ASSUME NEW size \in 0..bodySize, NEW unterminated \in BOOLEAN, ReadChild(size, unterminated)
       PROVE  NoLimit
  <2>1. defects' = defects \/ defects' = defects \cup {"unterminated"}
    BY <1>12, Zenon DEF ReadChild
  <2>2. stopped' = stopped /\ limitReports' = limitReports
    BY <1>12, Zenon DEF ReadChild
  <2>3. "unterminated" \in {"missing_boundary", "no_parts", "unterminated"}
    OBVIOUS
  <2>4. QED
    BY <1>2, <1>3, <2>1, <2>2, <2>3, Zenon
<1>13. QED
  BY <1>5, <1>6, <1>7, <1>8, <1>9, <1>10, <1>11, <1>12, Zenon DEF MimeNext

\* Whatever the structure of a message, a part of it that was not examined is
\* told by a defect, but for a part after others in whose header the body ends;
\* and a limit is reported exactly once.
THEOREM SkippedIsReported == MimeSpec => []NothingSkippedSilently
<1>1. MimeInit => NothingSkippedSilently
  BY Zenon DEF MimeInit, NothingSkippedSilently, LimitDefects
<1>2. ASSUME NothingSkippedSilently, WalkInv, MimeNext PROVE NothingSkippedSilently'
  <2>1. skipped' => skipped \/ defects' # {}
    <3>1. CASE \/ NoContentType \/ StartWalk \/ Leaf \/ OpenMultipart \/ Return \/ EndOfParts
      BY <3>1, Zenon DEF NoContentType, StartWalk, Leaf, OpenMultipart, Return, EndOfParts
    <3>2. CASE TooDeep
      <4>1. ~stopped
        BY <1>2, <3>2 DEF WalkInv, WalkShape, TooDeep, EnterPart
      <4>2. "depth_exceeded" \in defects'
        BY <3>2, <4>1, Zenon DEF TooDeep
      <4>3. QED
        BY <4>2
    <3>3. CASE \E d \in {"missing_boundary", "no_parts"} : NoBoundary(d)
      <4>1. \E d \in {"missing_boundary", "no_parts"} : d \in defects'
        BY <3>3, Zenon DEF NoBoundary
      <4>2. QED
        BY <4>1
    <3>4. CASE PartsExceeded \/ (\E size \in 0..bodySize : SizeExceeded(size)) \/ MalformedBody
      <4>1. \E d \in MimeDefects : d \in defects'
        BY <3>4 DEF PartsExceeded, SizeExceeded, MalformedBody, MimeDefects, LimitDefects
      <4>2. QED
        BY <4>1
    <3>5. CASE LeaveLoop
      <4>1. skipped' => skipped \/ stopped
        BY <3>5, Zenon DEF LeaveLoop
      <4>2. stopped => defects # {}
        BY <1>2, Zenon DEF NothingSkippedSilently
      <4>3. defects \subseteq defects'
        BY <1>2, LimitSteps, Zenon DEF NoLimit, HitsLimit
      <4>4. QED
        BY <4>1, <4>2, <4>3, Zenon
    <3>6. CASE \E size \in 0..bodySize, unterminated \in BOOLEAN : ReadChild(size, unterminated)
      <4>1. skipped' = skipped
        BY <3>6 DEF ReadChild
      <4>2. QED
        BY <4>1, Zenon
    <3>7. CASE EndOfBody
      <4>1. skipped' = skipped \/ defects' = defects \cup {"no_parts"}
        BY <3>7, Zenon DEF EndOfBody
      <4>2. QED
        BY <4>1
    <3>8. QED
      BY <1>2, <3>1, <3>2, <3>3, <3>4, <3>5, <3>6, <3>7, Zenon DEF MimeNext
  <2>2. defects \subseteq defects'
    BY <1>2, LimitSteps, Zenon DEF NoLimit, HitsLimit
  <2>3. skipped' => defects' # {}
    BY <1>2, <2>1, <2>2, Zenon DEF NothingSkippedSilently
  <2>4. CASE NoLimit
    <3>1. defects' \cap LimitDefects = defects \cap LimitDefects
      BY <2>4 DEF NoLimit
    <3>2. QED
      BY <1>2, <2>3, <2>4, <3>1, Zenon DEF NoLimit, NothingSkippedSilently
  <2>5. CASE HitsLimit
    <3>1. defects' \cap LimitDefects # {}
      BY <2>5 DEF HitsLimit
    <3>2. ~stopped /\ stopped' = TRUE
      BY <2>5, Zenon DEF HitsLimit
    <3>3. limitReports = 0
      BY <1>2, <3>2, Zenon DEF NothingSkippedSilently
    <3>4. limitReports' = 1
      BY <2>5, <3>3 DEF HitsLimit
    <3>5. QED
      BY <2>3, <3>1, <3>2, <3>4, Zenon DEF NothingSkippedSilently
  <2>6. QED
    BY <1>2, <2>4, <2>5, LimitSteps
<1>3. ASSUME NothingSkippedSilently, UNCHANGED mimeVars PROVE NothingSkippedSilently'
  BY <1>3, Zenon DEF mimeVars, NothingSkippedSilently
<1>4. QED
  BY <1>1, <1>2, <1>3, WalkIsTyped, PTL DEF MimeSpec

\* What is spent of the budgets, step by step.
LEMMA WorkSteps ==
    ASSUME WalkInv, WorkInv, MimeNext, MimeAssumption
    PROVE  WorkInv'
<1>1. /\ parts \in Nat /\ examined \in Nat /\ bodySize \in Nat /\ Slack \in Nat
      /\ MaxMIMEParts \in Nat /\ MaxExamined \in Nat /\ MaxExamined' = MaxExamined
  <2>1. bodySize \in Nat /\ Slack \in Nat /\ bodySize' = bodySize
    BY MimeAssumption DEF WalkInv, MimeTypeOK, MimeNext, NoContentType, StartWalk, Leaf, TooDeep,
       NoBoundary, OpenMultipart, EnterPart, PartsExceeded, EndOfParts, EndOfBody, MalformedBody, SizeExceeded,
       ReadChild, LeaveLoop, Return
  <2>2. QED
    BY <2>1, MimeAssumption DEF WalkInv, MimeTypeOK, MaxExamined
<1>2. deepest' <= MaxMIMEDepth
  <2>1. deepest' \in 0..MaxMIMEDepth
    BY WalkStep, Zenon DEF WalkInv, MimeTypeOK
  <2>2. QED
    BY <2>1, MimeAssumption
<1>3. \/ UNCHANGED <<parts, examined>> /\ (stopped => stopped' = TRUE)
      \/ step = "enter" /\ parts' = parts + 1 /\ examined' = examined
      \/ \E size \in 0..bodySize :
           /\ parts' = parts /\ examined' = examined + Copied(size)
           /\ ~stopped /\ (examined' <= MaxExamined \/ stopped' = TRUE)
  <2>1. CASE \/ NoContentType \/ StartWalk \/ EndOfParts \/ EndOfBody \/ MalformedBody \/ LeaveLoop
             \/ Return \/ PartsExceeded
    BY <2>1, Zenon DEF NoContentType, StartWalk, EndOfParts, EndOfBody, MalformedBody, LeaveLoop, Return,
                       PartsExceeded
  <2>2. CASE Leaf \/ TooDeep \/ OpenMultipart
             \/ \E d \in {"missing_boundary", "no_parts"} : NoBoundary(d)
    BY <2>2, Zenon DEF Leaf, TooDeep, OpenMultipart, NoBoundary, EnterPart
  <2>3. CASE \E size \in 0..bodySize : SizeExceeded(size)
    BY <2>3, Zenon DEF SizeExceeded, MayReadChild
  <2>4. CASE \E size \in 0..bodySize, unterminated \in BOOLEAN : ReadChild(size, unterminated)
    BY <2>4, Zenon DEF ReadChild, MayReadChild
  <2>5. QED
    BY <2>1, <2>2, <2>3, <2>4, Zenon DEF MimeNext
<1>4. CASE UNCHANGED <<parts, examined>> /\ (stopped => stopped' = TRUE)
  BY <1>1, <1>2, <1>4, Zenon DEF WorkInv, WorkBounded
<1>5. CASE step = "enter" /\ parts' = parts + 1 /\ examined' = examined
  <2>1. ~stopped /\ parts < MaxMIMEParts
    BY <1>5 DEF WalkInv, WalkShape
  <2>2. examined <= MaxExamined
    BY <2>1, Zenon DEF WorkInv
  <2>3. QED
    BY <1>1, <1>2, <1>5, <2>1, <2>2 DEF WorkInv, WorkBounded
<1>6. ASSUME NEW size \in 0..bodySize, parts' = parts, examined' = examined + Copied(size),
             ~stopped, examined' <= MaxExamined \/ stopped' = TRUE
      PROVE  WorkInv'
  <2>1. examined <= MaxExamined
    BY <1>6, Zenon DEF WorkInv
  <2>2. examined' <= MaxExamined + 1
    BY <1>1, <1>6, <2>1 DEF Copied
  <2>3. ~stopped' => examined' <= MaxExamined
    BY <1>6, Zenon
  <2>4. QED
    BY <1>1, <1>2, <1>6, <2>2, <2>3, Zenon DEF WorkInv, WorkBounded
<1>7. QED
  BY <1>3, <1>4, <1>5, <1>6, Zenon

\* The work done on a message is bounded whatever it contains.
THEOREM WorkIsBounded == MimeSpec => []WorkBounded
<1>1. MimeInit => WorkInv
  BY MimeAssumption DEF MimeInit, WorkInv, WorkBounded, MaxExamined
<1>2. ASSUME WorkInv, WalkInv, [MimeNext]_mimeVars PROVE WorkInv'
  <2>1. CASE MimeNext
    BY <1>2, <2>1, WorkSteps, MimeAssumption
  <2>2. CASE UNCHANGED mimeVars
    BY <1>2, <2>2, Zenon DEF mimeVars, WorkInv, WorkBounded, MaxExamined
  <2>3. QED
    BY <1>2, <2>1, <2>2
<1>3. WorkInv => WorkBounded
  BY DEF WorkInv
<1>4. QED
  BY <1>1, <1>2, <1>3, WalkIsTyped, PTL DEF MimeSpec

-----------------------------------------------------------------------------
(* The header section                                                      *)

Extent == [from : Nat, to : Nat]
Line == [kind : LineKinds, from : Nat, to : Nat]

Open == fieldStart # None

\* The field under construction has its place among MaxHeaders.
SectionInv ==
    /\ SectionTypeOK
    /\ outcome = "reading" => bodyStart = None /\ offset <= input
    /\ Open => Len(headers) + 1 <= MaxHeaders
    /\ SectionBounded

LEMMA FlushedType ==
    ASSUME SectionTypeOK, NEW end \in Nat
    PROVE  /\ Flushed(end) \in Seq(Extent)
           /\ Len(Flushed(end)) = IF Open THEN Len(headers) + 1 ELSE Len(headers)
           /\ \A h \in DOMAIN Flushed(end) :
                \/ h \in DOMAIN headers /\ Flushed(end)[h] = headers[h]
                \/ Open /\ Flushed(end)[h] = [from |-> fieldStart, to |-> end]
           /\ \A h \in DOMAIN headers : h \in DOMAIN Flushed(end) /\ Flushed(end)[h] = headers[h]
           /\ Open => \E h \in DOMAIN Flushed(end) : Flushed(end)[h] = [from |-> fieldStart, to |-> end]
<1> DEFINE new == [from |-> fieldStart, to |-> end]
<1>1. headers \in Seq(Extent) /\ Len(headers) \in Nat /\ DOMAIN headers = 1..Len(headers)
  BY LenProperties DEF SectionTypeOK, Extent
<1>2. CASE ~Open
  BY <1>1, <1>2 DEF Flushed, Open
<1>3. CASE Open
  <2>1. new \in Extent
    BY <1>3, SectionAssumption DEF Open, SectionTypeOK, None, Extent
  <2>2. Flushed(end) = Append(headers, new)
    BY <1>3 DEF Flushed, Open
  <2>3. /\ Append(headers, new) \in Seq(Extent)
        /\ Len(Append(headers, new)) = Len(headers) + 1
        /\ \A i \in 1..Len(headers) : Append(headers, new)[i] = headers[i]
        /\ Append(headers, new)[Len(headers) + 1] = new
    BY <1>1, <2>1, AppendProperties
  <2>4. DOMAIN Append(headers, new) = 1..Len(headers) + 1
    BY <2>3, LenProperties
  <2>5. QED
    BY <1>1, <1>3, <2>2, <2>3, <2>4
<1>4. QED
  BY <1>2, <1>3

\* Of a line that is read, its extent and what bounds it.
LEMMA LineRead ==
    ASSUME SectionTypeOK, SectionAssumption, NEW kind \in LineKinds, NEW end \in offset + 1 .. input,
           LineTo(kind, end)
    PROVE  /\ end \in Nat /\ offset < end /\ end <= input /\ end \in 0..MaxMessageBytes + 1
           /\ kind = "empty" => end <= offset + 2
           /\ [kind |-> kind, from |-> offset, to |-> end] \in Line
           /\ lines' = Append(lines, [kind |-> kind, from |-> offset, to |-> end])
           /\ lines' \in Seq(Line)
<1>1. offset \in Nat /\ input \in Nat /\ input <= MaxMessageBytes + 1
  BY SectionAssumption DEF SectionTypeOK
<1>2. end \in Nat /\ offset < end /\ end <= input /\ end \in 0..MaxMessageBytes + 1
  BY <1>1, SectionAssumption
<1>3. kind = "empty" => end <= offset + 2
  <2>1. kind = "empty" => end - offset \in 1..2
    BY DEF LineTo, Shortest, Longest
  <2>2. QED
    BY <1>1, <1>2, <2>1
<1>4. [kind |-> kind, from |-> offset, to |-> end] \in Line
  BY <1>1, <1>2 DEF Line
<1>5. lines' = Append(lines, [kind |-> kind, from |-> offset, to |-> end])
  BY DEF LineTo
<1>6. lines \in Seq(Line)
  BY DEF SectionTypeOK, Line
<1>7. QED
  BY <1>2, <1>3, <1>4, <1>5, <1>6, AppendProperties

LEMMA SectionStep ==
    ASSUME SectionInv, SectionNext, SectionAssumption
    PROVE  SectionInv'
<1>1. /\ offset \in Nat /\ input \in Nat /\ input \in 0..MaxMessageBytes + 1
      /\ headers \in Seq(Extent) /\ Len(headers) \in Nat /\ DOMAIN headers = 1..Len(headers)
      /\ MaxHeaderBytes \in Nat /\ MaxHeaders \in Nat /\ MaxMessageBytes \in Nat
      /\ Len(headers) <= MaxHeaders
  BY SectionAssumption, LenProperties DEF SectionInv, SectionTypeOK, SectionBounded, Extent
<1>2. ASSUME NEW end \in Nat, end <= MaxHeaderBytes
      PROVE  /\ Flushed(end) \in Seq(Extent) /\ Len(Flushed(end)) <= MaxHeaders
             /\ \A h \in DOMAIN Flushed(end) : Flushed(end)[h].to <= MaxHeaderBytes
  <2>1. Len(Flushed(end)) <= MaxHeaders
    BY <1>1, FlushedType DEF SectionInv
  <2>2. ASSUME NEW h \in DOMAIN Flushed(end) PROVE Flushed(end)[h].to <= MaxHeaderBytes
    <3>1. \/ h \in DOMAIN headers /\ Flushed(end)[h] = headers[h]
          \/ Flushed(end)[h] = [from |-> fieldStart, to |-> end]
      BY FlushedType DEF SectionInv
    <3>2. QED
      BY <1>2, <3>1 DEF SectionInv, SectionBounded
  <2>3. QED
    BY <2>1, <2>2, FlushedType DEF SectionInv
<1>3. CASE MessageTooLarge \/ SectionTooLarge
  <2>1. /\ outcome' \in {"message_size", "header_size"}
        /\ UNCHANGED <<input, offset, fieldStart, headers, bodyStart, reported, lines>>
    BY <1>3 DEF MessageTooLarge, SectionTooLarge
  <2>2. QED
    BY <2>1 DEF SectionInv, SectionTypeOK, SectionBounded, Parsed, Open
<1>4. ASSUME NEW kind \in LineKinds, NEW end \in offset + 1 .. input, LineTo(kind, end), WithinLimit
      PROVE  /\ end \in 0..MaxMessageBytes + 1 /\ end \in Nat /\ end <= input
             /\ lines' \in Seq(Line) /\ offset <= MaxHeaderBytes
             /\ outcome = "reading" /\ bodyStart = None
             /\ kind = "empty" => end <= MaxHeaderBytes + 2
  <2>1. offset <= MaxHeaderBytes /\ outcome = "reading"
    BY <1>4 DEF WithinLimit, Reading
  <2>2. kind = "empty" => end <= offset + 2
    BY <1>4, LineRead DEF SectionInv
  <2>3. /\ end \in 0..MaxMessageBytes + 1 /\ end \in Nat /\ end <= input
        /\ lines' \in Seq(Line)
    BY <1>4, LineRead, SectionAssumption DEF SectionInv
  <2>4. bodyStart = None
    BY <2>1 DEF SectionInv
  <2>5. kind = "empty" => end <= MaxHeaderBytes + 2
    BY <1>1, <2>1, <2>2, <2>3
  <2>6. QED
    BY <2>1, <2>3, <2>4, <2>5
<1>5. ASSUME NEW end \in offset + 1 .. input, Separator(end) PROVE SectionInv'
  <2>1. WithinLimit /\ LineTo("empty", end) /\ "empty" \in LineKinds
    BY <1>5 DEF Separator, LineKinds
  <2>2. /\ end \in 0..MaxMessageBytes + 1 /\ end \in Nat /\ lines' \in Seq(Line)
        /\ offset <= MaxHeaderBytes /\ end <= MaxHeaderBytes + 2
    BY <1>4, <2>1
  <2>3. /\ headers' = Flushed(offset) /\ fieldStart' = None /\ bodyStart' = end
        /\ outcome' = "parsed" /\ UNCHANGED <<input, offset, reported>>
    BY <1>5 DEF Separator
  <2>4. SectionBounded'
    BY <1>1, <1>2, <2>2, <2>3 DEF SectionBounded, Parsed
  <2>5. SectionTypeOK'
    BY <1>1, <1>2, <2>2, <2>3 DEF SectionInv, SectionTypeOK, Line, Extent
  <2>6. QED
    BY <2>3, <2>4, <2>5 DEF SectionInv, Open
<1>6. ASSUME NEW end \in offset + 1 .. input, Continuation(end) PROVE SectionInv'
  <2>1. WithinLimit /\ LineTo("fold", end) /\ "fold" \in LineKinds
    BY <1>6 DEF Continuation, LineKinds
  <2>2. /\ end \in 0..MaxMessageBytes + 1 /\ end <= input /\ lines' \in Seq(Line)
        /\ outcome = "reading" /\ bodyStart = None
    BY <1>4, <2>1
  <2>3. /\ offset' = end /\ UNCHANGED <<input, fieldStart, headers, bodyStart, outcome>>
        /\ reported' \in {reported, reported \cup {"leading_continuation"}}
    BY <1>6 DEF Continuation
  <2>4. SectionTypeOK'
    BY <1>1, <2>2, <2>3 DEF SectionInv, SectionTypeOK, Line
  <2>5. QED
    BY <2>2, <2>3, <2>4 DEF SectionInv, SectionBounded, Open, Parsed
<1>7. ASSUME NEW end \in offset + 1 .. input, MalformedLine(end) PROVE SectionInv'
  <2>1. WithinLimit /\ LineTo("other", end) /\ "other" \in LineKinds
    BY <1>7 DEF MalformedLine, LineKinds
  <2>2. /\ lines' \in Seq(Line) /\ offset <= MaxHeaderBytes
    BY <1>4, <2>1
  <2>3. /\ headers' = Flushed(offset) /\ fieldStart' = None /\ bodyStart' = offset
        /\ outcome' = "parsed" /\ UNCHANGED <<input, offset>>
        /\ reported' = reported \cup {"malformed_line", "no_separator"}
    BY <1>7 DEF MalformedLine
  <2>4. SectionBounded'
    BY <1>1, <1>2, <2>2, <2>3 DEF SectionBounded, Parsed
  <2>5. SectionTypeOK'
    BY <1>1, <1>2, <2>2, <2>3 DEF SectionInv, SectionTypeOK, Line, Extent
  <2>6. QED
    BY <2>3, <2>4, <2>5 DEF SectionInv, Open
<1>8. ASSUME NEW end \in offset + 1 .. input, FieldLine(end) PROVE SectionInv'
  <2>1. WithinLimit /\ LineTo("field", end) /\ "field" \in LineKinds
    BY <1>8 DEF FieldLine, LineKinds
  <2>2. /\ end \in 0..MaxMessageBytes + 1 /\ end <= input /\ lines' \in Seq(Line)
        /\ outcome = "reading" /\ bodyStart = None /\ offset <= MaxHeaderBytes
    BY <1>4, <2>1
  <2>3. headers' = Flushed(offset) /\ UNCHANGED <<input, bodyStart, reported>>
    BY <1>8 DEF FieldLine
  <2>4. /\ headers' \in Seq(Extent) /\ Len(headers') \in Nat /\ Len(headers') <= MaxHeaders
        /\ \A h \in DOMAIN headers' : headers'[h].to <= MaxHeaderBytes
    BY <1>1, <1>2, <2>2, <2>3, LenProperties
  <2>5. \/ outcome' = "header_count" /\ fieldStart' = None /\ offset' = offset
        \/ /\ Len(headers') < MaxHeaders /\ fieldStart' = offset /\ offset' = end
           /\ outcome' = outcome
    <3>1. CASE Len(Flushed(offset)) >= MaxHeaders
      BY <1>8, <3>1 DEF FieldLine
    <3>2. CASE ~(Len(Flushed(offset)) >= MaxHeaders)
      <4>1. fieldStart' = offset /\ offset' = end /\ outcome' = outcome
        BY <1>8, <3>2 DEF FieldLine
      <4>2. QED
        BY <1>1, <2>3, <2>4, <3>2, <4>1
    <3>3. QED
      BY <3>1, <3>2
  <2>6. SectionBounded'
    BY <2>2, <2>4, <2>5 DEF SectionBounded, Parsed
  <2>7. SectionTypeOK'
    BY <1>1, <2>2, <2>3, <2>4, <2>5 DEF SectionInv, SectionTypeOK, Line, Extent
  <2>8. QED
    BY <1>1, <2>2, <2>3, <2>4, <2>5, <2>6, <2>7 DEF SectionInv, Open
<1>9. CASE EndOfInput
  <2>1. CASE input > MaxHeaderBytes
    BY <1>9, <2>1 DEF EndOfInput, SectionInv, SectionTypeOK, SectionBounded, Parsed, Open
  <2>2. CASE ~(input > MaxHeaderBytes)
    <3>1. /\ outcome' = "parsed" /\ headers' = Flushed(input) /\ fieldStart' = None
          /\ bodyStart' = input /\ UNCHANGED <<input, offset, reported, lines>>
      BY <1>9, <2>2 DEF EndOfInput
    <3>2. input <= MaxHeaderBytes
      BY <1>1, <2>2
    <3>3. SectionBounded'
      BY <1>1, <1>2, <3>1, <3>2 DEF SectionBounded, Parsed
    <3>4. SectionTypeOK'
      BY <1>1, <1>2, <3>1, <3>2 DEF SectionInv, SectionTypeOK, Extent
    <3>5. QED
      BY <3>1, <3>3, <3>4 DEF SectionInv, Open
  <2>3. QED
    BY <2>1, <2>2
<1>10. QED
  BY <1>3, <1>5, <1>6, <1>7, <1>8, <1>9 DEF SectionNext

THEOREM SectionIsTyped == SectionSpec => []SectionInv
<1>1. SectionInit => SectionInv
  BY SectionAssumption, EmptySeq
     DEF SectionInit, SectionInv, SectionTypeOK, SectionBounded, Parsed, Open, None
<1>2. SectionInv /\ UNCHANGED sectionVars => SectionInv'
  BY DEF sectionVars, SectionInv, SectionTypeOK, SectionBounded, Parsed, Open
<1>3. QED
  BY <1>1, <1>2, SectionStep, SectionAssumption, PTL DEF SectionSpec

\* For every message and all limits, no more of a header section is kept than
\* they allow.
THEOREM SectionStaysBounded == SectionSpec => []SectionBounded
<1>1. SectionInv => SectionBounded
  BY DEF SectionInv
<1>2. QED
  BY <1>1, SectionIsTyped, PTL

\* A line lies in a field; a field is one field line with what continues it.
Within(h, l) == h.from <= l.from /\ l.to <= h.to
Exact(h, ls) ==
    /\ \E i \in DOMAIN ls : ls[i].from = h.from /\ ls[i].to <= h.to /\ ls[i].kind = "field"
    /\ \A i \in DOMAIN ls :
         Within(h, ls[i]) => ls[i].kind = (IF ls[i].from = h.from THEN "field" ELSE "fold")
    /\ \A i \in DOMAIN ls : ls[i].from = h.to => ls[i].kind # "fold"

\* While the section is read: of the fields before the open one, of the open
\* one, and of the lines that belong to none.
FieldsInv ==
    /\ \A i \in DOMAIN lines : lines[i].from < lines[i].to
    /\ outcome = "reading" =>
         /\ \A i \in DOMAIN lines : lines[i].to <= offset
         /\ ~Open => DOMAIN headers = {}
         /\ Open =>
              /\ fieldStart < offset
              /\ \E i \in DOMAIN lines : lines[i].from = fieldStart /\ lines[i].kind = "field"
              /\ \A i \in DOMAIN lines : lines[i].from >= fieldStart =>
                   lines[i].kind = (IF lines[i].from = fieldStart THEN "field" ELSE "fold")
         /\ \A h \in DOMAIN headers : headers[h].to <= fieldStart /\ Exact(headers[h], lines)
         /\ \A i \in DOMAIN lines :
              \/ \E h \in DOMAIN headers : Within(headers[h], lines[i])
              \/ Open /\ lines[i].from >= fieldStart
              \/ lines[i].kind = "fold" /\ "leading_continuation" \in reported

\* A line that begins where a field ends, or later, leaves the field as it is.
LEMMA ExactStays ==
    ASSUME NEW ls \in Seq(Line), NEW h \in Extent, Exact(h, ls),
           NEW l \in Line, h.to <= l.from, l.from < l.to, l.from = h.to => l.kind # "fold"
    PROVE  Exact(h, Append(ls, l))
<1>1. /\ Len(ls) \in Nat /\ DOMAIN ls = 1..Len(ls)
      /\ DOMAIN Append(ls, l) = 1..Len(ls) + 1
      /\ \A i \in 1..Len(ls) : Append(ls, l)[i] = ls[i] /\ ls[i] \in Line
      /\ Append(ls, l)[Len(ls) + 1] = l
  <2>1. Append(ls, l) \in Seq(Line) /\ Len(Append(ls, l)) = Len(ls) + 1
    BY AppendProperties
  <2>2. QED
    BY <2>1, AppendProperties, LenProperties, ElementOfSeq
<1>2. ~Within(h, l)
  BY DEF Within, Line, Extent
<1>3. \A i \in DOMAIN Append(ls, l) : (i \in DOMAIN ls /\ Append(ls, l)[i] = ls[i]) \/ Append(ls, l)[i] = l
  BY <1>1
<1>4. \A i \in DOMAIN ls : i \in DOMAIN Append(ls, l) /\ Append(ls, l)[i] = ls[i]
  BY <1>1
<1>5. QED
  BY <1>2, <1>3, <1>4 DEF Exact

\* What flush leaves behind: every line so far is in a field or was reported.
LEMMA FlushExact ==
    ASSUME SectionInv, FieldsInv, outcome = "reading", SectionAssumption
    PROVE  /\ \A h \in DOMAIN Flushed(offset) :
                /\ Flushed(offset)[h] \in Extent
                /\ Flushed(offset)[h].to <= offset /\ Exact(Flushed(offset)[h], lines)
           /\ \A i \in DOMAIN lines :
                \/ \E h \in DOMAIN Flushed(offset) : Within(Flushed(offset)[h], lines[i])
                \/ lines[i].kind = "fold" /\ "leading_continuation" \in reported
<1> DEFINE new == [from |-> fieldStart, to |-> offset]
<1>1. /\ SectionTypeOK /\ offset \in Nat
      /\ \A i \in DOMAIN lines : lines[i] \in Line
      /\ \A h \in DOMAIN headers : headers[h] \in Extent
  <2>1. SectionTypeOK /\ lines \in Seq(Line) /\ headers \in Seq(Extent)
    BY DEF SectionInv, SectionTypeOK, Line, Extent
  <2>2. QED
    BY <2>1, SectionAssumption, LenProperties, ElementOfSeq DEF SectionTypeOK
<1>2. ASSUME Open PROVE new \in Extent /\ new.to <= offset /\ Exact(new, lines)
  <2>1. fieldStart \in Nat /\ fieldStart < offset
    BY <1>1, <1>2, SectionAssumption DEF SectionTypeOK, Open, FieldsInv
  <2>2. PICK i \in DOMAIN lines : lines[i].from = fieldStart /\ lines[i].kind = "field"
    BY <1>2 DEF FieldsInv
  <2>3. \A j \in DOMAIN lines : lines[j].to <= offset /\ lines[j].from < lines[j].to
    BY DEF FieldsInv
  <2>4. \A j \in DOMAIN lines : Within(new, lines[j]) =>
          lines[j].kind = (IF lines[j].from = fieldStart THEN "field" ELSE "fold")
    BY <1>1, <1>2, <2>1 DEF FieldsInv, Within, Line
  <2>5. \A j \in DOMAIN lines : lines[j].from # offset
    BY <1>1, <2>3 DEF Line
  <2>6. new \in Extent /\ new.to = offset /\ new.from = fieldStart
    BY <1>1, <2>1 DEF Extent
  <2>7. QED
    BY <1>1, <2>2, <2>3, <2>4, <2>5, <2>6 DEF Exact
<1>3. ASSUME NEW h \in DOMAIN headers
      PROVE  headers[h].to <= offset /\ Exact(headers[h], lines)
  <2>1. Open
    BY <1>3 DEF FieldsInv
  <2>2. fieldStart \in Nat /\ fieldStart < offset /\ headers[h].to <= fieldStart
        /\ Exact(headers[h], lines)
    BY <1>1, <1>3, <2>1, SectionAssumption DEF SectionTypeOK, Open, FieldsInv
  <2>3. QED
    BY <1>1, <2>2 DEF Extent
<1>4. /\ \A h \in DOMAIN Flushed(offset) :
           \/ h \in DOMAIN headers /\ Flushed(offset)[h] = headers[h]
           \/ Open /\ Flushed(offset)[h] = new
      /\ \A h \in DOMAIN headers : h \in DOMAIN Flushed(offset) /\ Flushed(offset)[h] = headers[h]
      /\ Open => \E h \in DOMAIN Flushed(offset) : Flushed(offset)[h] = new
  BY <1>1, FlushedType
<1>5. ASSUME NEW h \in DOMAIN Flushed(offset)
      PROVE  /\ Flushed(offset)[h] \in Extent
             /\ Flushed(offset)[h].to <= offset /\ Exact(Flushed(offset)[h], lines)
  <2>1. CASE h \in DOMAIN headers /\ Flushed(offset)[h] = headers[h]
    BY <1>1, <1>3, <2>1
  <2>2. CASE Open /\ Flushed(offset)[h] = new
    <3> HIDE DEF new
    <3>1. QED
      BY <1>2, <2>2
  <2>3. QED
    BY <1>4, <2>1, <2>2
<1>6. ASSUME NEW i \in DOMAIN lines
      PROVE  \/ \E h \in DOMAIN Flushed(offset) : Within(Flushed(offset)[h], lines[i])
             \/ lines[i].kind = "fold" /\ "leading_continuation" \in reported
  <2>1. CASE \E h \in DOMAIN headers : Within(headers[h], lines[i])
    BY <1>4, <2>1
  <2>2. CASE Open /\ lines[i].from >= fieldStart
    <3>1. lines[i].to <= offset
      BY DEF FieldsInv
    <3>2. Within(new, lines[i])
      BY <2>2, <3>1 DEF Within
    <3>3. QED
      BY <1>4, <2>2, <3>2
  <2>3. QED
    BY <1>6, <2>1, <2>2 DEF FieldsInv
<1>7. QED
  BY <1>5, <1>6

\* The lines after one more is read are those before it and that line.
LEMMA OneMoreLine ==
    ASSUME SectionInv, FieldsInv, SectionAssumption, NEW kind \in LineKinds,
           NEW end \in offset + 1 .. input, LineTo(kind, end)
    PROVE  LET l == [kind |-> kind, from |-> offset, to |-> end]
           IN  /\ l \in Line /\ lines' = Append(lines, l) /\ lines \in Seq(Line) /\ lines' \in Seq(Line)
               /\ \A i \in DOMAIN lines' : (i \in DOMAIN lines /\ lines'[i] = lines[i]) \/ lines'[i] = l
               /\ \A i \in DOMAIN lines : i \in DOMAIN lines' /\ lines'[i] = lines[i]
               /\ \E i \in DOMAIN lines' : lines'[i] = l
               /\ \A i \in DOMAIN lines' : lines'[i] \in Line /\ lines'[i].from < lines'[i].to
<1> DEFINE l == [kind |-> kind, from |-> offset, to |-> end]
<1>1. /\ l \in Line /\ lines' = Append(lines, l) /\ lines' \in Seq(Line)
      /\ offset < end /\ l.from = offset /\ l.to = end
  BY LineRead DEF SectionInv
<1>2. lines \in Seq(Line)
  BY DEF SectionInv, SectionTypeOK, Line
<1> HIDE DEF l
<1>3. /\ Len(lines) \in Nat /\ DOMAIN lines = 1..Len(lines) /\ Len(lines') = Len(lines) + 1
      /\ DOMAIN lines' = 1..Len(lines) + 1
      /\ \A i \in 1..Len(lines) : lines'[i] = lines[i]
      /\ lines'[Len(lines) + 1] = l
  <2>1. Len(Append(lines, l)) = Len(lines) + 1
    BY <1>1, <1>2, AppendProperties
  <2>2. QED
    BY <1>1, <1>2, <2>1, AppendProperties, LenProperties
<1>4. /\ \A i \in DOMAIN lines' : (i \in DOMAIN lines /\ lines'[i] = lines[i]) \/ lines'[i] = l
      /\ \A i \in DOMAIN lines : i \in DOMAIN lines' /\ lines'[i] = lines[i]
      /\ \E i \in DOMAIN lines' : lines'[i] = l
  BY <1>3
<1>5. \A i \in DOMAIN lines' : lines'[i] \in Line
  BY <1>1, ElementOfSeq, LenProperties
<1>6. \A i \in DOMAIN lines' : lines'[i].from < lines'[i].to
  BY <1>1, <1>4 DEF FieldsInv
<1>7. QED
  BY <1>1, <1>2, <1>4, <1>5, <1>6 DEF l

\* A field that is flushed because of a line is not changed by it.
LEMMA FlushedStays ==
    ASSUME SectionInv, FieldsInv, outcome = "reading", SectionAssumption,
           NEW kind \in LineKinds, kind # "fold", NEW end \in offset + 1 .. input, LineTo(kind, end)
    PROVE  \A h \in DOMAIN Flushed(offset) :
             /\ Flushed(offset)[h] \in Extent
             /\ Flushed(offset)[h].to <= offset /\ Exact(Flushed(offset)[h], lines')
<1> DEFINE l == [kind |-> kind, from |-> offset, to |-> end]
<1>1. l \in Line /\ lines' = Append(lines, l) /\ lines \in Seq(Line)
  BY OneMoreLine
<1>2. l.from = offset /\ l.from < l.to /\ l.kind # "fold"
  BY LineRead DEF SectionInv
<1> HIDE DEF l
<1>3. ASSUME NEW h \in DOMAIN Flushed(offset)
      PROVE  /\ Flushed(offset)[h] \in Extent
             /\ Flushed(offset)[h].to <= offset /\ Exact(Flushed(offset)[h], lines')
  BY <1>1, <1>2, FlushExact, ExactStays
<1>4. QED
  BY <1>3

\* What is to be shown of a section whose end was found.
LEMMA Settled ==
    ASSUME NEW body \in Nat, bodyStart' = body,
           \A i \in DOMAIN lines' : lines'[i] \in Line /\ lines'[i].from < lines'[i].to,
           \A h \in DOMAIN headers' :
             headers'[h] \in Extent /\ headers'[h].to <= body /\ Exact(headers'[h], lines'),
           \A i \in DOMAIN lines' :
             \/ lines'[i].from >= body
             \/ \E h \in DOMAIN headers' : Within(headers'[h], lines'[i])
             \/ lines'[i].kind = "empty" /\ lines'[i].to = body
             \/ lines'[i].kind = "fold" /\ "leading_continuation" \in reported'
    PROVE  FieldsExact'
<1>1. SectionLines' = {i \in DOMAIN lines' : lines'[i].from < body}
  BY DEF SectionLines
<1>2. ASSUME NEW h \in DOMAIN headers'
      PROVE  /\ \E i \in SectionLines' :
                  Within(headers'[h], lines'[i]) /\ lines'[i].from = headers'[h].from
                                                 /\ lines'[i].kind = "field"
             /\ \A i \in SectionLines' : Within(headers'[h], lines'[i]) =>
                  lines'[i].kind = (IF lines'[i].from = headers'[h].from THEN "field" ELSE "fold")
             /\ ~\E i \in SectionLines' : lines'[i].from = headers'[h].to /\ lines'[i].kind = "fold"
  <2>1. Exact(headers'[h], lines') /\ headers'[h] \in Extent /\ headers'[h].to <= body
    BY <1>2
  <2>2. PICK i \in DOMAIN lines' : /\ lines'[i].from = headers'[h].from
                                   /\ lines'[i].to <= headers'[h].to /\ lines'[i].kind = "field"
    BY <2>1 DEF Exact
  <2>3. lines'[i] \in Line /\ lines'[i].from < lines'[i].to
    OBVIOUS
  <2>4. Within(headers'[h], lines'[i]) /\ lines'[i].from < body
    BY <2>1, <2>2, <2>3 DEF Within, Extent, Line
  <2>5. QED
    BY <1>1, <2>1, <2>2, <2>4 DEF Exact
<1>3. ASSUME NEW i \in SectionLines'
      PROVE  \/ \E h \in DOMAIN headers' : Within(headers'[h], lines'[i])
             \/ lines'[i].kind = "empty" /\ lines'[i].to = body
             \/ lines'[i].kind = "fold" /\ "leading_continuation" \in reported'
  BY <1>1, <1>3 DEF Line
<1>4. QED
  BY <1>2, <1>3 DEF FieldsExact, Within

LEMMA FieldsStep ==
    ASSUME SectionInv, FieldsInv, FieldsExact, SectionNext, SectionAssumption
    PROVE  FieldsInv' /\ FieldsExact'
<1>1. /\ offset \in Nat /\ input \in Nat /\ outcome = "reading"
      /\ fieldStart \in Nat \cup {None} /\ (Open => fieldStart \in Nat)
      /\ \A i \in DOMAIN lines : lines[i] \in Line
      /\ \A h \in DOMAIN headers : headers[h] \in Extent
  <2>1. lines \in Seq(Line) /\ headers \in Seq(Extent)
    BY DEF SectionInv, SectionTypeOK, Line, Extent
  <2>2. outcome = "reading"
    BY DEF SectionNext, MessageTooLarge, SectionTooLarge, EndOfInput, Separator, Continuation,
           MalformedLine, FieldLine, WithinLimit, Reading
  <2>3. QED
    BY <2>1, <2>2, SectionAssumption, ElementOfSeq, LenProperties
       DEF SectionInv, SectionTypeOK, Open, None
<1>2. CASE MessageTooLarge \/ SectionTooLarge
  <2>1. outcome' \in {"message_size", "header_size"} /\ lines' = lines
    BY <1>2 DEF MessageTooLarge, SectionTooLarge
  <2>2. QED
    BY <2>1 DEF FieldsInv, FieldsExact, Parsed
<1>3. ASSUME NEW end \in offset + 1 .. input, Separator(end) PROVE FieldsInv' /\ FieldsExact'
  <2> DEFINE l == [kind |-> "empty", from |-> offset, to |-> end]
  <2>1. /\ LineTo("empty", end) /\ "empty" \in LineKinds /\ headers' = Flushed(offset)
        /\ bodyStart' = end /\ outcome' = "parsed" /\ reported' = reported
    BY <1>3 DEF Separator, LineKinds
  <2>2. /\ \A i \in DOMAIN lines' : (i \in DOMAIN lines /\ lines'[i] = lines[i]) \/ lines'[i] = l
        /\ \A i \in DOMAIN lines' : lines'[i] \in Line /\ lines'[i].from < lines'[i].to
    BY <2>1, OneMoreLine
  <2>3. end \in Nat /\ offset < end
    BY <2>1, LineRead DEF SectionInv
  <2>4. \A h \in DOMAIN headers' :
          headers'[h] \in Extent /\ headers'[h].to <= end /\ Exact(headers'[h], lines')
    <3>1. \A h \in DOMAIN headers' :
            headers'[h] \in Extent /\ headers'[h].to <= offset /\ Exact(headers'[h], lines')
      BY <1>1, <2>1, FlushedStays
    <3>2. QED
      BY <1>1, <2>3, <3>1 DEF Extent
  <2>5. \A i \in DOMAIN lines' :
          \/ lines'[i].from >= end
          \/ \E h \in DOMAIN headers' : Within(headers'[h], lines'[i])
          \/ lines'[i].kind = "empty" /\ lines'[i].to = end
          \/ lines'[i].kind = "fold" /\ "leading_continuation" \in reported'
    BY <1>1, <2>1, <2>2, FlushExact
  <2>6. FieldsExact'
    BY <2>1, <2>2, <2>3, <2>4, <2>5, Settled
  <2>7. FieldsInv'
    BY <2>1, <2>2 DEF FieldsInv
  <2>8. QED
    BY <2>6, <2>7
<1>4. ASSUME NEW end \in offset + 1 .. input, MalformedLine(end) PROVE FieldsInv' /\ FieldsExact'
  <2> DEFINE l == [kind |-> "other", from |-> offset, to |-> end]
  <2>1. /\ LineTo("other", end) /\ "other" \in LineKinds /\ headers' = Flushed(offset)
        /\ bodyStart' = offset /\ outcome' = "parsed"
        /\ reported' = reported \cup {"malformed_line", "no_separator"}
    BY <1>4 DEF MalformedLine, LineKinds
  <2>2. /\ \A i \in DOMAIN lines' : (i \in DOMAIN lines /\ lines'[i] = lines[i]) \/ lines'[i] = l
        /\ \A i \in DOMAIN lines' : lines'[i] \in Line /\ lines'[i].from < lines'[i].to
    BY <2>1, OneMoreLine
  <2>3. \A h \in DOMAIN headers' :
          headers'[h] \in Extent /\ headers'[h].to <= offset /\ Exact(headers'[h], lines')
    BY <1>1, <2>1, FlushedStays
  <2>4. \A i \in DOMAIN lines' :
          \/ lines'[i].from >= offset
          \/ \E h \in DOMAIN headers' : Within(headers'[h], lines'[i])
          \/ lines'[i].kind = "empty" /\ lines'[i].to = offset
          \/ lines'[i].kind = "fold" /\ "leading_continuation" \in reported'
    BY <1>1, <2>1, <2>2, FlushExact
  <2>5. FieldsExact'
    BY <1>1, <2>1, <2>2, <2>3, <2>4, Settled
  <2>6. FieldsInv'
    BY <2>1, <2>2 DEF FieldsInv
  <2>7. QED
    BY <2>5, <2>6
<1>5. CASE EndOfInput
  <2>1. CASE input > MaxHeaderBytes
    <3>1. outcome' = "header_size" /\ lines' = lines
      BY <1>5, <2>1 DEF EndOfInput
    <3>2. QED
      BY <3>1 DEF FieldsInv, FieldsExact, Parsed
  <2>2. CASE ~(input > MaxHeaderBytes)
    <3>1. /\ outcome' = "parsed" /\ headers' = Flushed(offset) /\ bodyStart' = offset
          /\ lines' = lines /\ reported' = reported
      BY <1>5, <2>2 DEF EndOfInput
    <3>2. \A i \in DOMAIN lines' : lines'[i] \in Line /\ lines'[i].from < lines'[i].to
      BY <1>1, <3>1 DEF FieldsInv
    <3>3. \A h \in DOMAIN headers' :
            headers'[h] \in Extent /\ headers'[h].to <= offset /\ Exact(headers'[h], lines')
      BY <1>1, <3>1, FlushExact
    <3>4. FieldsExact'
      BY <1>1, <3>1, <3>2, <3>3, FlushExact, Settled
    <3>5. FieldsInv'
      BY <3>1 DEF FieldsInv
    <3>6. QED
      BY <3>4, <3>5
  <2>3. QED
    BY <2>1, <2>2
<1>6. ASSUME NEW end \in offset + 1 .. input, Continuation(end) PROVE FieldsInv' /\ FieldsExact'
  <2> DEFINE l == [kind |-> "fold", from |-> offset, to |-> end]
  <2>1. /\ LineTo("fold", end) /\ "fold" \in LineKinds /\ offset' = end
        /\ fieldStart' = fieldStart /\ headers' = headers /\ outcome' = "reading"
        /\ (Open => reported' = reported)
        /\ (~Open => "leading_continuation" \in reported') /\ reported \subseteq reported'
    BY <1>1, <1>6 DEF Continuation, LineKinds, Open
  <2>2. /\ \A i \in DOMAIN lines' : (i \in DOMAIN lines /\ lines'[i] = lines[i]) \/ lines'[i] = l
        /\ \A i \in DOMAIN lines : i \in DOMAIN lines' /\ lines'[i] = lines[i]
        /\ \A i \in DOMAIN lines' : lines'[i] \in Line /\ lines'[i].from < lines'[i].to
        /\ l \in Line /\ lines' = Append(lines, l) /\ lines \in Seq(Line)
    BY <2>1, OneMoreLine
  <2>3. end \in Nat /\ offset < end /\ Open' = Open
    BY <2>1, LineRead DEF SectionInv, Open
  <2>4. l.kind = "fold" /\ l.from = offset /\ l.to = end
    OBVIOUS
  <2> HIDE DEF l
  <2>5. \A i \in DOMAIN lines' : lines'[i].to <= offset'
    BY <1>1, <2>1, <2>2, <2>3, <2>4 DEF FieldsInv, Line
  <2>6. ~Open' => DOMAIN headers' = {}
    BY <1>1, <2>1, <2>3, Zenon DEF FieldsInv
  <2>7. ASSUME Open
        PROVE  /\ fieldStart' < offset'
               /\ \E i \in DOMAIN lines' : lines'[i].from = fieldStart' /\ lines'[i].kind = "field"
               /\ \A i \in DOMAIN lines' : lines'[i].from >= fieldStart' =>
                    lines'[i].kind = (IF lines'[i].from = fieldStart' THEN "field" ELSE "fold")
    <3>1. fieldStart \in Nat /\ fieldStart < offset
      BY <1>1, <2>7 DEF FieldsInv
    <3>2. PICK i \in DOMAIN lines : lines[i].from = fieldStart /\ lines[i].kind = "field"
      BY <1>1, <2>7 DEF FieldsInv
    <3>3. \A j \in DOMAIN lines : lines[j].from >= fieldStart =>
            lines[j].kind = (IF lines[j].from = fieldStart THEN "field" ELSE "fold")
      BY <1>1, <2>7 DEF FieldsInv
    <3>4. QED
      BY <1>1, <2>1, <2>2, <2>3, <2>4, <3>1, <3>2, <3>3
  <2>8. ASSUME NEW h \in DOMAIN headers'
        PROVE  headers'[h].to <= fieldStart' /\ Exact(headers'[h], lines')
    <3>1. Open /\ fieldStart \in Nat /\ fieldStart < offset
      BY <1>1, <2>1, <2>8 DEF FieldsInv
    <3>2. headers[h].to <= fieldStart /\ Exact(headers[h], lines) /\ headers[h] \in Extent
      BY <1>1, <2>1, <2>8 DEF FieldsInv
    <3>3. headers[h].to <= l.from /\ headers[h].to # l.from /\ l.from < l.to
      BY <1>1, <2>3, <2>4, <3>1, <3>2 DEF Extent
    <3>4. QED
      BY <2>1, <2>2, <3>2, <3>3, ExactStays
  <2>9. ASSUME NEW i \in DOMAIN lines'
        PROVE  \/ \E h \in DOMAIN headers' : Within(headers'[h], lines'[i])
               \/ Open' /\ lines'[i].from >= fieldStart'
               \/ lines'[i].kind = "fold" /\ "leading_continuation" \in reported'
    <3>1. CASE i \in DOMAIN lines /\ lines'[i] = lines[i]
      BY <1>1, <2>1, <2>3, <3>1 DEF FieldsInv
    <3>2. CASE lines'[i] = l
      <4>1. Open => l.from >= fieldStart
        BY <1>1, <2>4, <2>7 DEF FieldsInv
      <4>2. QED
        BY <2>1, <2>3, <2>4, <3>2, <4>1
    <3>3. QED
      BY <2>2, <3>1, <3>2
  <2>10. FieldsInv'
    BY <2>2, <2>3, <2>5, <2>6, <2>7, <2>8, <2>9 DEF FieldsInv
  <2>11. QED
    BY <2>1, <2>10 DEF FieldsExact, Parsed
<1>7. ASSUME NEW end \in offset + 1 .. input, FieldLine(end) PROVE FieldsInv' /\ FieldsExact'
  <2> DEFINE l == [kind |-> "field", from |-> offset, to |-> end]
  <2>1. LineTo("field", end) /\ "field" \in LineKinds /\ headers' = Flushed(offset)
        /\ reported' = reported
    BY <1>7 DEF FieldLine, LineKinds
  <2>2. /\ \A i \in DOMAIN lines' : (i \in DOMAIN lines /\ lines'[i] = lines[i]) \/ lines'[i] = l
        /\ \A i \in DOMAIN lines : i \in DOMAIN lines' /\ lines'[i] = lines[i]
        /\ \A i \in DOMAIN lines' : lines'[i] \in Line /\ lines'[i].from < lines'[i].to
        /\ \E i \in DOMAIN lines' : lines'[i] = l
    BY <2>1, OneMoreLine
  <2>3. end \in Nat /\ offset < end
    BY <2>1, LineRead DEF SectionInv
  <2>4. l.kind = "field" /\ l.from = offset /\ l.to = end
    OBVIOUS
  <2> HIDE DEF l
  <2>5. \/ outcome' = "header_count"
        \/ fieldStart' = offset /\ offset' = end /\ outcome' = "reading"
    BY <1>1, <1>7 DEF FieldLine
  <2>6. CASE outcome' = "header_count"
    BY <2>2, <2>6 DEF FieldsInv, FieldsExact, Parsed
  <2>7. CASE fieldStart' = offset /\ offset' = end /\ outcome' = "reading"
    <3>1. Open'
      BY <1>1, <2>7 DEF Open, None
    <3>2. \A i \in DOMAIN lines : lines[i].from < offset /\ lines[i].to <= offset
      BY <1>1 DEF FieldsInv, Line
    <3>3. \A i \in DOMAIN lines' : lines'[i].to <= offset'
      BY <1>1, <2>2, <2>3, <2>4, <2>7, <3>2 DEF Line
    <3>4. /\ fieldStart' < offset'
          /\ \E i \in DOMAIN lines' : lines'[i].from = fieldStart' /\ lines'[i].kind = "field"
          /\ \A i \in DOMAIN lines' : lines'[i].from >= fieldStart' =>
               lines'[i].kind = (IF lines'[i].from = fieldStart' THEN "field" ELSE "fold")
      BY <1>1, <2>2, <2>3, <2>4, <2>7, <3>2 DEF Line
    <3>5. \A h \in DOMAIN headers' : headers'[h].to <= fieldStart' /\ Exact(headers'[h], lines')
      BY <1>1, <2>1, <2>7, FlushedStays
    <3>6. \A i \in DOMAIN lines' :
            \/ \E h \in DOMAIN headers' : Within(headers'[h], lines'[i])
            \/ Open' /\ lines'[i].from >= fieldStart'
            \/ lines'[i].kind = "fold" /\ "leading_continuation" \in reported'
      BY <1>1, <2>1, <2>2, <2>4, <2>7, <3>1, FlushExact
    <3>7. FieldsInv'
      BY <2>2, <3>1, <3>3, <3>4, <3>5, <3>6 DEF FieldsInv
    <3>8. QED
      BY <2>7, <3>7 DEF FieldsExact, Parsed
  <2>8. QED
    BY <2>5, <2>6, <2>7
<1>8. QED
  BY <1>2, <1>3, <1>4, <1>5, <1>6, <1>7 DEF SectionNext

\* For every message: a field is the bytes of one field line and of all the
\* continuations that follow it, and nothing of the section is lost unsaid.
THEOREM FieldsAreExact == SectionSpec => []FieldsExact
<1>1. SectionInit => FieldsInv /\ FieldsExact
  BY DEF SectionInit, FieldsInv, FieldsExact, Parsed, Open, None
<1>2. ASSUME SectionInv, FieldsInv, FieldsExact, [SectionNext]_sectionVars
      PROVE  FieldsInv' /\ FieldsExact'
  <2>1. CASE UNCHANGED sectionVars
    BY <1>2, <2>1 DEF sectionVars, FieldsInv, FieldsExact, Parsed, SectionLines, Open
  <2>2. QED
    BY <1>2, <2>1, FieldsStep, SectionAssumption
<1>3. QED
  BY <1>1, <1>2, SectionIsTyped, PTL DEF SectionSpec

-----------------------------------------------------------------------------
(* The ARC sets                                                            *)

\* The instance numbers of the headers of a kind.
Numbers(hs) == {hs[k].i : k \in 1..Len(hs)}
Distinct(hs) == \A k, l \in 1..Len(hs) : hs[k].i = hs[l].i => k = l

ArcTypes ==
    /\ arcAt \in 1..4
    /\ arcRead \in [KindNames -> Seq(ArcHeaders("seal"))]
    /\ present \in [KindNames -> SUBSET Instances]
    /\ cv \in [Instances -> CVs]

\* Until the chain is judged, a problem is a number out of range or doubled, and
\* without one the sets hold exactly what the headers say.
ReadSoFar ==
    verdict = "open" =>
        /\ problems => \E kind \in KindNames : \/ ~Distinct(arcRead[kind])
                                                \/ ~(Numbers(arcRead[kind]) \subseteq Instances)
        /\ ~problems => /\ \A kind \in KindNames : /\ Distinct(arcRead[kind])
                                                   /\ Numbers(arcRead[kind]) = present[kind]
                        /\ \A k \in 1..Len(arcRead["seal"]) :
                              cv[arcRead["seal"][k].i] = arcRead["seal"][k].cv

Judged == verdict # "open" => arcAt = 4

ArcInv == ArcTypes /\ problems \in BOOLEAN /\ ReadSoFar /\ Judged /\ ChainIsComplete

LEMMA KindFacts ==
    /\ KindNames = {"seal", "signature", "results"}
    /\ \A n \in 1..3 : ArcKinds[n] \in KindNames
    /\ \A kind : ArcHeaders(kind) \subseteq ArcHeaders("seal")
    /\ Instances \in SUBSET Nat /\ MaxInstances \in Nat
<1>1. KindNames = {"seal", "signature", "results"} /\ \A n \in 1..3 : ArcKinds[n] \in KindNames
  BY DEF KindNames, ArcKinds
<1>2. \A kind : ArcHeaders(kind) \subseteq ArcHeaders("seal")
  BY DEF ArcHeaders, CVs
<1>3. Instances \in SUBSET Nat /\ MaxInstances \in Nat
  BY ArcAssumption DEF Instances
<1>4. QED
  BY <1>1, <1>2, <1>3

LEMMA OneMoreHeader ==
    ASSUME NEW H, NEW hs \in Seq(H), NEW h \in H
    PROVE  /\ Append(hs, h) \in Seq(H)
           /\ Numbers(Append(hs, h)) = Numbers(hs) \cup {h.i}
           /\ Distinct(Append(hs, h)) <=> Distinct(hs) /\ h.i \notin Numbers(hs)
           /\ Len(Append(hs, h)) = Len(hs) + 1 /\ Len(hs) \in Nat
           /\ \A k \in 1..Len(hs) : Append(hs, h)[k] = hs[k]
           /\ Append(hs, h)[Len(hs) + 1] = h
<1> DEFINE m == Append(hs, h)
<1>1. /\ m \in Seq(H) /\ Len(m) = Len(hs) + 1 /\ Len(hs) \in Nat
      /\ m[Len(hs) + 1] = h /\ \A k \in 1..Len(hs) : m[k] = hs[k]
  OBVIOUS
<1> HIDE DEF m
<1>2. Numbers(m) = Numbers(hs) \cup {h.i}
  <2>1. ASSUME NEW k \in 1..Len(m) PROVE m[k].i \in Numbers(hs) \cup {h.i}
    BY <1>1 DEF Numbers
  <2>2. ASSUME NEW k \in 1..Len(hs) PROVE hs[k].i \in Numbers(m)
    <3>1. k \in 1..Len(m) /\ m[k] = hs[k]
      BY <1>1
    <3>2. QED
      BY <3>1 DEF Numbers
  <2>3. h.i \in Numbers(m)
    <3>1. Len(hs) + 1 \in 1..Len(m)
      BY <1>1
    <3>2. QED
      BY <1>1, <3>1 DEF Numbers
  <2>4. QED
    BY <2>1, <2>2, <2>3 DEF Numbers
<1>3. Distinct(m) <=> Distinct(hs) /\ h.i \notin Numbers(hs)
  <2>1. ASSUME Distinct(m) PROVE Distinct(hs) /\ h.i \notin Numbers(hs)
    BY <1>1, <2>1 DEF Distinct, Numbers
  <2>2. ASSUME Distinct(hs), h.i \notin Numbers(hs) PROVE Distinct(m)
    BY <1>1, <2>2 DEF Distinct, Numbers
  <2>3. QED
    BY <2>1, <2>2
<1>4. QED
  BY <1>1, <1>2, <1>3 DEF m

LEMMA ReadStep ==
    ASSUME ArcInv, NEW h, ReadArcHeader(h)
    PROVE  ArcInv'
<1> DEFINE kind == ArcKinds[arcAt]
           hs == arcRead[kind]
<1>1. /\ arcAt \in 1..3 /\ arcAt <= 3 /\ kind \in KindNames /\ h \in ArcHeaders("seal")
      /\ h \in ArcHeaders(kind) /\ hs \in Seq(ArcHeaders("seal"))
      /\ arcRead' = [arcRead EXCEPT ![kind] = Append(hs, h)]
      /\ arcAt' = arcAt /\ verdict' = verdict
  <2>1. arcAt \in 1..3 /\ h \in ArcHeaders(kind)
        /\ arcRead' = [arcRead EXCEPT ![kind] = Append(hs, h)]
        /\ arcAt' = arcAt /\ verdict' = verdict
    BY DEF ReadArcHeader, ArcInv, ArcTypes
  <2>2. kind \in KindNames
    BY <2>1, KindFacts
  <2>3. QED
    BY <2>1, <2>2, KindFacts DEF ArcInv, ArcTypes
<1>s. /\ arcRead \in [KindNames -> Seq(ArcHeaders("seal"))]
      /\ present \in [KindNames -> SUBSET Instances]
      /\ cv \in [Instances -> CVs] /\ "seal" \in KindNames
  BY KindFacts DEF ArcInv, ArcTypes
<1>k. \/ /\ h.i \in Instances
         /\ present' = [present EXCEPT ![kind] = present[kind] \cup {h.i}]
         /\ cv' = IF kind = "seal" THEN [cv EXCEPT ![h.i] = h.cv] ELSE cv
         /\ problems' = (problems \/ h.i \in present[kind])
      \/ h.i \notin Instances /\ problems' = TRUE /\ present' = present /\ cv' = cv
  BY DEF ReadArcHeader
<1> HIDE DEF kind
<1>2. /\ Append(hs, h) \in Seq(ArcHeaders("seal"))
      /\ Numbers(Append(hs, h)) = Numbers(hs) \cup {h.i}
      /\ Distinct(Append(hs, h)) <=> Distinct(hs) /\ h.i \notin Numbers(hs)
      /\ Len(Append(hs, h)) = Len(hs) + 1 /\ Len(hs) \in Nat
      /\ \A k \in 1..Len(hs) : Append(hs, h)[k] = hs[k]
      /\ Append(hs, h)[Len(hs) + 1] = h
  BY <1>1, OneMoreHeader
<1>3. /\ \A other \in KindNames : other # kind => arcRead'[other] = arcRead[other]
      /\ arcRead'[kind] = Append(hs, h)
  BY <1>1, <1>s
<1>4. ArcTypes'
  <2>1. arcRead' \in [KindNames -> Seq(ArcHeaders("seal"))]
    BY <1>1, <1>2, <1>s
  <2>2. present' \in [KindNames -> SUBSET Instances]
    BY <1>1, <1>k, <1>s
  <2>3. h.cv \in CVs
    BY <1>1 DEF ArcHeaders
  <2>4. cv' \in [Instances -> CVs]
    BY <1>k, <1>s, <2>3
  <2>5. QED
    BY <1>1, <2>1, <2>2, <2>4 DEF ArcInv, ArcTypes
<1>5. problems' \in BOOLEAN
  BY <1>k, Zenon
<1>v. verdict = "open"
  <2>1. verdict # "open" => arcAt = 4
    BY DEF ArcInv, Judged
  <2>2. QED
    BY <1>1, <2>1
<1>p. problems <=> problems = TRUE
  BY Zenon DEF ArcInv
<1>6. ReadSoFar'
  <2>1. CASE problems
    <3>1. PICK bad \in KindNames : \/ ~Distinct(arcRead[bad])
                                   \/ ~(Numbers(arcRead[bad]) \subseteq Instances)
      BY <1>v, <2>1 DEF ArcInv, ReadSoFar
    <3>2. \/ ~Distinct(arcRead'[bad])
          \/ ~(Numbers(arcRead'[bad]) \subseteq Instances)
      BY <1>2, <1>3, <3>1
    <3>3. problems'
      BY <1>k, <2>1, Zenon
    <3>4. QED
      BY <3>2, <3>3, Zenon DEF ReadSoFar
  <2>2. CASE ~problems /\ h.i \notin Instances
    <3>1. ~(Numbers(arcRead'[kind]) \subseteq Instances)
      BY <1>2, <1>3, <2>2
    <3>2. problems'
      BY <1>k, <2>2, Zenon
    <3>3. QED
      BY <1>1, <3>1, <3>2, Zenon DEF ReadSoFar
  <2>3. CASE ~problems /\ h.i \in Instances
    <3>1. /\ \A other \in KindNames : /\ Distinct(arcRead[other])
                                      /\ Numbers(arcRead[other]) = present[other]
          /\ \A k \in 1..Len(arcRead["seal"]) : cv[arcRead["seal"][k].i] = arcRead["seal"][k].cv
      BY <1>v, <2>3 DEF ArcInv, ReadSoFar
    <3>2. CASE h.i \in present[kind]
      <4>1. ~Distinct(arcRead'[kind])
        BY <1>1, <1>2, <1>3, <3>1, <3>2
      <4>2. problems'
        BY <1>k, <2>3, <3>2, Zenon
      <4>3. QED
        BY <1>1, <4>1, <4>2, Zenon DEF ReadSoFar
    <3>3. CASE h.i \notin present[kind]
      <4>1. ~problems'
        BY <1>k, <2>3, <3>3, Zenon
      <4>2. /\ present' = [present EXCEPT ![kind] = present[kind] \cup {h.i}]
            /\ cv' = IF kind = "seal" THEN [cv EXCEPT ![h.i] = h.cv] ELSE cv
        BY <1>k, <2>3, Zenon
      <4>3. ASSUME NEW other \in KindNames
            PROVE  Distinct(arcRead'[other]) /\ Numbers(arcRead'[other]) = present'[other]
        <5>1. CASE other = kind
          BY <1>1, <1>2, <1>3, <1>s, <3>1, <3>3, <4>2, <5>1
        <5>2. CASE other # kind
          BY <1>3, <1>s, <3>1, <4>2, <5>2
        <5>3. QED
          BY <5>1, <5>2
      <4>4. ASSUME NEW k \in 1..Len(arcRead'["seal"])
            PROVE  cv'[arcRead'["seal"][k].i] = arcRead'["seal"][k].cv
        <5>1. CASE kind # "seal"
          BY <1>3, <1>s, <3>1, <4>2, <4>4, <5>1
        <5>2. CASE kind = "seal" /\ k \in 1..Len(hs)
          <6>1. arcRead'["seal"][k] = hs[k] /\ hs[k].i \in Numbers(hs) /\ cv[hs[k].i] = hs[k].cv
            BY <1>2, <1>3, <3>1, <5>2 DEF Numbers
          <6>2. hs[k].i \in present[kind] /\ hs[k].i \in Instances
            BY <1>1, <1>s, <3>1, <6>1
          <6>3. QED
            BY <1>s, <3>3, <4>2, <5>2, <6>1, <6>2
        <5>3. CASE kind = "seal" /\ k \notin 1..Len(hs)
          <6>1. arcRead'["seal"][k] = h
            BY <1>2, <1>3, <4>4, <5>3
          <6>2. QED
            BY <1>s, <2>3, <4>2, <5>3, <6>1
        <5>4. QED
          BY <5>1, <5>2, <5>3
      <4>5. QED
        BY <4>1, <4>3, <4>4, Zenon DEF ReadSoFar
    <3>4. QED
      BY <3>2, <3>3
  <2>4. QED
    BY <2>1, <2>2, <2>3
<1>7. Judged' /\ ChainIsComplete'
  BY <1>1, <1>v DEF Judged, ChainIsComplete
<1>8. QED
  BY <1>4, <1>5, <1>6, <1>7 DEF ArcInv

\* What there is from 1 to n.
LEMMA UpTo ==
    ASSUME NEW n \in Nat
    PROVE  IsFiniteSet(1..n) /\ Cardinality(1..n) = n
<1>1. 1 \in Int /\ n \in Int /\ (1 > n => n = 0) /\ n - 1 + 1 = n
  OBVIOUS
<1>2. IsFiniteSet(1..n) /\ Cardinality(1..n) = IF 1 > n THEN 0 ELSE n - 1 + 1
  BY <1>1, FS_Interval
<1>3. QED
  BY <1>1, <1>2

\* As many distinct numbers as headers: what a whole chain is, kind by kind.
LEMMA CountHeaders ==
    ASSUME NEW n \in Nat, NEW H, NEW hs \in Seq(H)
    PROVE  /\ Distinct(hs) /\ Numbers(hs) = 1..n => Len(hs) = n
           /\ Len(hs) = n /\ 1..n \subseteq Numbers(hs) => Distinct(hs) /\ Numbers(hs) = 1..n
<1> DEFINE f == [k \in 1..Len(hs) |-> hs[k].i]
           N == Numbers(hs)
<1>1. Len(hs) \in Nat
  OBVIOUS
<1>2. f \in Surjection(1..Len(hs), N)
  BY DEF Surjection, Numbers
<1>3. f \in Injection(1..Len(hs), N) <=> Distinct(hs)
  BY <1>2 DEF Injection, IsInjective, Distinct, Surjection
<1>4. /\ IsFiniteSet(1..Len(hs)) /\ Cardinality(1..Len(hs)) = Len(hs)
      /\ IsFiniteSet(1..n) /\ Cardinality(1..n) = n
  BY <1>1, UpTo
<1> HIDE DEF f, N
<1>5. /\ IsFiniteSet(N) /\ Cardinality(N) <= Len(hs) /\ Cardinality(N) \in Nat
      /\ Cardinality(N) = Len(hs) <=> f \in Injection(1..Len(hs), N)
  BY <1>2, <1>4, FS_Surjection, FS_CardinalityType
<1>6. Distinct(hs) /\ N = 1..n => Len(hs) = n
  BY <1>3, <1>4, <1>5
<1>7. ASSUME Len(hs) = n, 1..n \subseteq N PROVE Distinct(hs) /\ N = 1..n
  <2>1. Cardinality(1..n) <= Cardinality(N) /\ (Cardinality(N) = Cardinality(1..n) => N = 1..n)
    BY <1>5, <1>7, FS_Subset
  <2>2. Cardinality(N) = n
    BY <1>4, <1>5, <1>7, <2>1
  <2>3. QED
    BY <1>3, <1>4, <1>5, <1>7, <2>1, <2>2
<1>8. QED
  BY <1>6, <1>7 DEF N

\* Every instance in its place: the sets are numbered from 1 on.
LEMMA NoGaps ==
    ASSUME NEW S \in SUBSET Nat, IsFiniteSet(S), 0 \notin S,
           \A i \in S : Cardinality({j \in S : j <= i}) = i
    PROVE  S = 1..Cardinality(S) /\ Cardinality(S) \in Nat
<1>1. Cardinality(S) \in Nat
  BY FS_CardinalityType
<1>2. ASSUME NEW i \in S PROVE i \in 1..Cardinality(S)
  <2> DEFINE P == {j \in S : j <= i}
  <2>1. P \in SUBSET S /\ Cardinality(P) = i /\ i \in Nat /\ i # 0
    OBVIOUS
  <2> HIDE DEF P
  <2>2. Cardinality(P) <= Cardinality(S)
    BY <2>1, FS_Subset
  <2>3. QED
    BY <1>1, <2>1, <2>2
<1>3. S \in SUBSET (1..Cardinality(S))
  BY <1>2
<1>4. IsFiniteSet(1..Cardinality(S)) /\ Cardinality(1..Cardinality(S)) = Cardinality(S)
  BY <1>1, UpTo
<1>5. QED
  BY <1>1, <1>3, <1>4, FS_Subset

\* Up to n every instance is in its place.
LEMMA InPlace ==
    ASSUME NEW n \in Nat, NEW i \in 1..n
    PROVE  Cardinality({j \in 1..n : j <= i}) = i
<1>1. {j \in 1..n : j <= i} = 1..i
  OBVIOUS
<1>2. i \in Nat
  OBVIOUS
<1>3. QED
  BY <1>1, <1>2, UpTo

\* What SealOf finds.
LEMMA SealFound ==
    ASSUME NEW k \in 1..Len(arcRead["seal"]), arcRead["seal"] \in Seq(ArcHeaders("seal"))
    PROVE  \E l \in 1..Len(arcRead["seal"]) :
              /\ arcRead["seal"][l].i = arcRead["seal"][k].i
              /\ SealOf(arcRead["seal"][k].i) = arcRead["seal"][l]
<1> DEFINE hs == arcRead["seal"]
           S == {hs[m] : m \in DOMAIN hs}
           i == hs[k].i
<1>1. DOMAIN hs = 1..Len(hs)
  OBVIOUS
<1>2. \E h \in S : h.i = i
  BY <1>1
<1>3. SealOf(i) = CHOOSE h \in S : h.i = i
  BY DEF SealOf
<1> HIDE DEF i, S
<1>4. SealOf(i) \in S /\ SealOf(i).i = i
  BY <1>2, <1>3
<1>5. QED
  BY <1>1, <1>4 DEF i, S

\* The two readings of a chain agree when it is judged.
LEMMA SameChain ==
    ASSUME ArcTypes, problems \in BOOLEAN, ReadSoFar, verdict = "open"
    PROVE  LET sound == ~problems /\ ~Gaps /\ ~Incomplete /\ ~InvalidCV /\ Sets # {}
               whole(n) == /\ WholeChain(n) /\ SealOf(1).cv = "none"
                           /\ \A i \in 2..n : SealOf(i).cv \in {"pass", "fail"}
           IN  /\ sound => \E n \in Instances : whole(n)
               /\ \A n \in Instances : whole(n) =>
                      /\ sound /\ Sets = 1..n /\ Len(arcRead["seal"]) = n
                      /\ \A i \in 1..n : SealOf(i).cv = cv[i]
<1> DEFINE sound == ~problems /\ ~Gaps /\ ~Incomplete /\ ~InvalidCV /\ Sets # {}
           whole(n) == /\ WholeChain(n) /\ SealOf(1).cv = "none"
                       /\ \A i \in 2..n : SealOf(i).cv \in {"pass", "fail"}
<1>t. /\ arcRead \in [KindNames -> Seq(ArcHeaders("seal"))] /\ "seal" \in KindNames
      /\ present \in [KindNames -> SUBSET Instances]
      /\ KindNames = {"seal", "signature", "results"}
  BY KindFacts DEF ArcTypes
<1>h. \A kind \in KindNames : arcRead[kind] \in Seq(ArcHeaders("seal"))
                              /\ Len(arcRead[kind]) \in Nat
  BY <1>t
<1>s. Sets \in SUBSET Instances /\ Instances \in SUBSET Nat /\ Instances = 1..MaxInstances
      /\ MaxInstances \in Nat /\ IsFiniteSet(Sets)
  <2>1. Sets \in SUBSET Instances
    BY <1>t DEF Sets
  <2>2. Instances \in SUBSET Nat /\ Instances = 1..MaxInstances /\ MaxInstances \in Nat
    BY KindFacts DEF Instances
  <2>3. IsFiniteSet(Instances)
    BY <2>2, FS_Interval
  <2>4. QED
    BY <2>1, <2>2, <2>3, FS_Subset
\* Without a problem so far, the seals say what the sets hold.
<1>c. ASSUME ~problems, NEW i \in present["seal"] PROVE SealOf(i).cv = cv[i]
  <2> DEFINE hs == arcRead["seal"]
  <2>1. /\ Numbers(hs) = present["seal"]
        /\ \A k \in 1..Len(hs) : cv[hs[k].i] = hs[k].cv
    BY <1>c, <1>t DEF ReadSoFar
  <2>2. PICK k \in 1..Len(hs) : hs[k].i = i
    BY <1>c, <2>1 DEF Numbers
  <2>3. PICK l \in 1..Len(hs) : hs[l].i = i /\ SealOf(i) = hs[l]
    <3>1. hs \in Seq(ArcHeaders("seal"))
      BY <1>t, <1>h
    <3>2. QED
      BY <2>2, <3>1, SealFound
  <2>4. QED
    BY <2>1, <2>3
<1>1. ASSUME sound PROVE \E n \in Instances : whole(n)
  <2> DEFINE n == Cardinality(Sets)
  <2>1. Sets = 1..n /\ n \in Nat
    <3>1. \A i \in Sets : Cardinality({j \in Sets : j <= i}) = i
      BY <1>1 DEF Gaps
    <3>2. Sets \in SUBSET Nat /\ 0 \notin Sets
      BY <1>s
    <3>3. QED
      BY <1>s, <3>1, <3>2, NoGaps
  <2> HIDE DEF n
  <2>2. n # 0 /\ n \in Sets /\ n \in Instances /\ 1 \in 1..n
    <3>1. n # 0
      BY <1>1, <2>1
    <3>2. n \in 1..n /\ 1 \in 1..n
      BY <2>1, <3>1
    <3>3. QED
      BY <1>s, <2>1, <3>1, <3>2
  <2>3. \A kind \in KindNames : present[kind] = 1..n
    <3>1. \A kind \in KindNames : present[kind] \subseteq Sets
      BY DEF Sets
    <3>2. \A kind \in KindNames : Sets \subseteq present[kind]
      BY <1>1 DEF Incomplete
    <3>3. QED
      BY <2>1, <3>1, <3>2
  <2>4. ASSUME NEW kind \in KindNames
        PROVE  Len(arcRead[kind]) = n /\ \A i \in 1..n : \E k \in 1..n : arcRead[kind][k].i = i
    <3>1. Distinct(arcRead[kind]) /\ Numbers(arcRead[kind]) = 1..n
      BY <1>1, <2>3 DEF ReadSoFar
    <3>2. Len(arcRead[kind]) = n
      BY <1>h, <2>1, <3>1, CountHeaders
    <3>3. QED
      BY <3>1, <3>2 DEF Numbers
  <2>5. WholeChain(n)
    BY <2>4 DEF WholeChain
  <2>6. \A i \in 1..n : SealOf(i).cv = cv[i]
    BY <1>1, <1>c, <1>t, <2>3
  <2>7. cv[1] = "none" /\ \A i \in 2..n : cv[i] \in {"pass", "fail"}
    <3>1. \A i \in 1..n : cv[i] \in (IF i = 1 THEN {"none"} ELSE {"pass", "fail"})
      BY <1>1, <1>t, <2>3 DEF InvalidCV
    <3>2. \A i \in 2..n : i \in 1..n /\ i # 1
      BY <2>1
    <3>3. QED
      BY <2>2, <3>1, <3>2
  <2>8. \A i \in 2..n : i \in 1..n
    BY <2>1
  <2>9. whole(n)
    BY <2>2, <2>5, <2>6, <2>7, <2>8
  <2>10. QED
    BY <2>2, <2>9
<1>2. ASSUME NEW n \in Instances, whole(n)
      PROVE  /\ sound /\ Sets = 1..n /\ Len(arcRead["seal"]) = n
             /\ \A i \in 1..n : SealOf(i).cv = cv[i]
  <2>1. n \in Nat /\ 1 \in 1..n /\ 1..n \subseteq Instances
    BY <1>s
  <2>2. ASSUME NEW kind \in KindNames
        PROVE  Distinct(arcRead[kind]) /\ Numbers(arcRead[kind]) = 1..n /\ Len(arcRead[kind]) = n
    <3>1. /\ Len(arcRead[kind]) = n
          /\ \A i \in 1..n : \E k \in 1..n : arcRead[kind][k].i = i
      BY <1>2 DEF WholeChain
    <3>2. 1..n \subseteq Numbers(arcRead[kind])
      BY <3>1 DEF Numbers
    <3>3. QED
      BY <1>h, <2>1, <3>1, <3>2, CountHeaders
  <2>3. ~problems
    BY <2>1, <2>2 DEF ReadSoFar
  <2>4. \A kind \in KindNames : present[kind] = 1..n
    BY <2>2, <2>3 DEF ReadSoFar
  <2>5. Sets = 1..n
    BY <1>t, <2>4 DEF Sets
  <2>6. ~Gaps
    BY <2>1, <2>5, InPlace DEF Gaps
  <2>7. ~Incomplete
    BY <2>4, <2>5 DEF Incomplete
  <2>8. \A i \in 1..n : SealOf(i).cv = cv[i]
    BY <1>c, <1>t, <2>3, <2>4
  <2>9. ~InvalidCV
    <3>1. \A i \in 1..n : i = 1 \/ i \in 2..n
      BY <2>1
    <3>2. \A i \in 1..n : cv[i] \in (IF i = 1 THEN {"none"} ELSE {"pass", "fail"})
      BY <1>2, <2>1, <2>8, <3>1
    <3>3. QED
      BY <1>t, <2>4, <3>2 DEF InvalidCV
  <2>10. Sets # {}
    BY <2>1, <2>5
  <2>11. QED
    BY <1>t, <2>2, <2>3, <2>5, <2>6, <2>7, <2>8, <2>9, <2>10
<1>3. QED
  BY <1>1, <1>2

\* What the verdict says is said of the headers, which judging leaves alone.
LEMMA VerdictAlone ==
    ASSUME arcRead' = arcRead
    PROVE  ChainIsComplete' <=>
             (verdict' # "open" =>
                /\ verdict' \in {"present", "fail"} <=>
                     \E n \in Instances :
                        /\ WholeChain(n)
                        /\ SealOf(1).cv = "none"
                        /\ \A i \in 2..n : SealOf(i).cv \in {"pass", "fail"}
                /\ verdict' \in {"present", "fail"} =>
                     (verdict' = "fail" <=> SealOf(Len(arcRead["seal"])).cv = "fail"))
BY DEF ChainIsComplete, WholeChain, SealOf

LEMMA JudgeStep ==
    ASSUME ArcInv, JudgeChain
    PROVE  ArcInv'
<1> DEFINE whole(n) == /\ WholeChain(n) /\ SealOf(1).cv = "none"
                       /\ \A i \in 2..n : SealOf(i).cv \in {"pass", "fail"}
           sound == ~problems /\ ~Gaps /\ ~Incomplete /\ ~InvalidCV /\ Sets # {}
           none == \A kind \in KindNames : arcRead[kind] = <<>>
           broken == \E i \in Sets : cv[i] = "fail" /\ \A j \in Sets : j <= i
<1>1. ArcTypes /\ problems \in BOOLEAN /\ ReadSoFar /\ verdict = "open"
  BY Zenon DEF ArcInv, JudgeChain
<1>2. /\ arcAt = 4
      /\ arcAt' = arcAt /\ arcRead' = arcRead /\ present' = present /\ cv' = cv
  BY DEF JudgeChain
<1>3. /\ problems' = (problems \/ Gaps \/ Incomplete \/ InvalidCV)
      /\ verdict' = IF none THEN "absent" ELSE IF problems' THEN "invalid"
                    ELSE IF broken THEN "fail" ELSE "present"
  BY Zenon DEF JudgeChain
<1>4. problems' \in BOOLEAN /\ (problems' <=> ~(~problems /\ ~Gaps /\ ~Incomplete /\ ~InvalidCV))
  BY <1>3, Zenon
<1>5. /\ sound => \E n \in Instances : whole(n)
      /\ \A n \in Instances : whole(n) =>
             /\ sound /\ Sets = 1..n /\ Len(arcRead["seal"]) = n
             /\ \A i \in 1..n : SealOf(i).cv = cv[i]
  BY <1>1, SameChain
<1>t. /\ arcRead \in [KindNames -> Seq(ArcHeaders("seal"))]
      /\ present \in [KindNames -> SUBSET Instances] /\ "seal" \in KindNames
      /\ Instances \in SUBSET Nat
  BY <1>1, KindFacts DEF ArcTypes
<1>6. none => Sets = {}
  <2>1. ASSUME none, ~problems, NEW kind \in KindNames PROVE present[kind] = {}
    <3>1. Numbers(arcRead[kind]) = present[kind] /\ arcRead[kind] = <<>>
      BY <1>1, <2>1 DEF ReadSoFar
    <3>2. QED
      BY <3>1 DEF Numbers
  <2>2. none => ~problems
    <3>1. ASSUME none, NEW kind \in KindNames
          PROVE  Distinct(arcRead[kind]) /\ Numbers(arcRead[kind]) = {}
      BY <3>1 DEF Distinct, Numbers
    <3>2. QED
      BY <1>1, <3>1 DEF ReadSoFar
  <2>3. QED
    BY <2>1, <2>2 DEF Sets
<1>7. ~none /\ ~problems => Sets # {}
  <2>1. ASSUME ~problems, NEW kind \in KindNames, arcRead[kind] # <<>> PROVE Sets # {}
    <3>1. arcRead[kind] \in Seq(ArcHeaders("seal")) /\ 1 \in 1..Len(arcRead[kind])
      BY <1>t, <2>1
    <3>2. Numbers(arcRead[kind]) = present[kind]
      BY <1>1, <2>1 DEF ReadSoFar
    <3>3. arcRead[kind][1].i \in present[kind]
      BY <3>1, <3>2 DEF Numbers
    <3>4. QED
      BY <3>3 DEF Sets
  <2>2. QED
    BY <2>1
<1>8. (verdict' \in {"present", "fail"}) <=> sound
  <2>1. (verdict' \in {"present", "fail"}) <=> (~none /\ ~problems')
    BY <1>3, Zenon
  <2>2. QED
    BY <1>4, <1>6, <1>7, <2>1
<1>9. ASSUME verdict' \in {"present", "fail"}
      PROVE  verdict' = "fail" <=> SealOf(Len(arcRead["seal"])).cv = "fail"
  <2>1. verdict' = "fail" <=> broken
    BY <1>3, <1>9, Zenon
  <2>2. PICK n \in Instances : whole(n)
    BY <1>5, <1>8, <1>9
  <2>3. /\ Sets = 1..n /\ Len(arcRead["seal"]) = n
        /\ \A i \in 1..n : SealOf(i).cv = cv[i]
    BY <1>5, <2>2
  <2>4. n \in Nat /\ n \in 1..n
    BY <1>t, KindFacts DEF Instances
  <2>5. broken <=> cv[n] = "fail"
    <3>1. ASSUME NEW i \in 1..n, \A j \in 1..n : j <= i PROVE i = n
      BY <2>4, <3>1
    <3>2. \A j \in 1..n : j <= n
      BY <2>4
    <3>3. QED
      BY <2>3, <2>4, <3>1, <3>2
  <2>6. QED
    BY <2>1, <2>3, <2>4, <2>5
<1>10. verdict' # "open"
  BY <1>3, Zenon
<1>11. ChainIsComplete'
  <2>1. (verdict' \in {"present", "fail"}) <=> \E n \in Instances : whole(n)
    BY <1>5, <1>8
  <2>2. QED
    BY <1>2, <1>9, <2>1, VerdictAlone
<1>12. ArcTypes' /\ ReadSoFar' /\ Judged'
  BY <1>1, <1>2, <1>10 DEF ArcTypes, ReadSoFar, Judged
<1>13. QED
  BY <1>4, <1>11, <1>12, Zenon DEF ArcInv

LEMMA ArcStarts == ArcInit => ArcInv
<1> SUFFICES ASSUME ArcInit PROVE ArcInv
  OBVIOUS
<1>1. ArcTypes
  <2>1. "other" \in CVs
    BY DEF CVs
  <2>2. QED
    BY <2>1 DEF ArcInit, ArcTypes
<1>2. ~problems /\ problems \in BOOLEAN /\ verdict = "open"
  BY Zenon DEF ArcInit
<1>3. ReadSoFar
  <2>1. ASSUME NEW kind \in KindNames
        PROVE  arcRead[kind] = <<>> /\ present[kind] = {}
    BY DEF ArcInit
  <2>2. "seal" \in KindNames
    BY KindFacts
  <2>3. QED
    BY <1>2, <2>1, <2>2 DEF ReadSoFar, Distinct, Numbers
<1>4. Judged /\ ChainIsComplete
  BY <1>2 DEF Judged, ChainIsComplete
<1>5. QED
  BY <1>1, <1>2, <1>3, <1>4, Zenon DEF ArcInv

LEMMA ArcStep == ArcInv /\ [ArcNext]_arcVars => ArcInv'
<1> SUFFICES ASSUME ArcInv, [ArcNext]_arcVars PROVE ArcInv'
  OBVIOUS
<1>1. CASE \E h \in UNION {ArcHeaders(kind) : kind \in KindNames} : ReadArcHeader(h)
  BY <1>1, ReadStep
<1>2. CASE NextArcKind
  <2>1. /\ arcAt \in 1..3 /\ arcAt' = arcAt + 1
        /\ arcRead' = arcRead /\ present' = present /\ cv' = cv /\ verdict' = verdict
    BY <1>2 DEF NextArcKind, ArcInv, ArcTypes
  <2>2. problems' = problems
    BY <1>2 DEF NextArcKind
  <2>3. arcAt' \in 1..4
    BY <2>1
  <2>4. ArcTypes' /\ verdict = "open"
    BY <2>1, <2>3 DEF ArcInv, ArcTypes, Judged
  <2>5. problems' \in BOOLEAN
    BY <2>2, Zenon DEF ArcInv
  <2>6. ReadSoFar'
    BY <2>1, <2>2 DEF ArcInv, ReadSoFar
  <2>7. Judged' /\ ChainIsComplete'
    BY <2>1, <2>4 DEF Judged, ChainIsComplete
  <2>8. QED
    BY <2>4, <2>5, <2>6, <2>7, Zenon DEF ArcInv
<1>3. CASE JudgeChain
  BY <1>3, JudgeStep
<1>4. CASE UNCHANGED arcVars
  <2>1. /\ arcAt' = arcAt /\ arcRead' = arcRead /\ present' = present /\ cv' = cv
        /\ verdict' = verdict /\ problems' = problems
    BY <1>4 DEF arcVars
  <2>2. problems' \in BOOLEAN
    BY <2>1, Zenon DEF ArcInv
  <2>3. ArcTypes' /\ ReadSoFar' /\ Judged'
    BY <2>1 DEF ArcInv, ArcTypes, ReadSoFar, Judged
  <2>4. ChainIsComplete'
    BY <2>1, VerdictAlone DEF ArcInv, ChainIsComplete
  <2>5. QED
    BY <2>2, <2>3, <2>4, Zenon DEF ArcInv
<1>5. QED
  BY <1>1, <1>2, <1>3, <1>4 DEF ArcNext

\* Summarize takes a chain for whole exactly if its headers are one, whatever the
\* number of instances and of headers; it calls it broken by its last seal.
THEOREM ChainsAreComplete == ArcSpec => []ChainIsComplete
<1>1. ArcInv => ChainIsComplete
  BY DEF ArcInv
<1>2. QED
  BY ArcStarts, ArcStep, <1>1, PTL DEF ArcSpec

-----------------------------------------------------------------------------
(* The SMTP inputs                                                         *)

\* A set of numbers that is not empty has a least one: the finite sets 1..k are
\* well founded.
LEMMA LeastNumber ==
    ASSUME NEW S \in SUBSET Nat, S # {}
    PROVE  \E m \in S : \A k \in S : m <= k
<1>1. PICK n \in S : TRUE
      OBVIOUS
<1> DEFINE U == 1..n
           T == {1..k : k \in {j \in S : j <= n}}
<1>2. n \in Nat /\ IsFiniteSet(U)
      BY FS_Interval
<1>3. T \subseteq FiniteSubsetsOf(U) /\ T # {}
  <2>1. ASSUME NEW k \in S, k <= n PROVE 1..k \in FiniteSubsetsOf(U)
    <3>1. k \in Nat /\ 1..k \subseteq U
          BY <1>2, <2>1
    <3>2. IsFiniteSet(1..k)
          BY <3>1, FS_Interval
    <3> QED
        BY <3>1, <3>2 DEF FiniteSubsetsOf
  <2>2. 1..n \in T
        BY <1>2
  <2> QED
      BY <2>1, <2>2
<1>4. \E x \in T : \A y \in T : <<y, x>> \notin StrictSubsetOrdering(U)
  <2> HIDE DEF T, U
  <2>1. IsWellFoundedOn(StrictSubsetOrdering(U), FiniteSubsetsOf(U))
        BY FS_StrictSubsetOrderingWellFounded
  <2> QED
      BY <1>3, <2>1, WFMin
<1>5. PICK m \in S : m <= n /\ \A y \in T : <<y, 1..m>> \notin StrictSubsetOrdering(U)
      BY <1>4
<1>6. ASSUME NEW k \in S, k < m PROVE FALSE
  <2> DEFINE a == 1..k
             b == 1..m
  <2>1. k \in Nat /\ m \in Nat /\ k <= n
        BY <1>2, <1>5, <1>6
  <2>2. a \in T
        BY <2>1
  <2>3. m \in b /\ m \notin a
        BY <1>6, <2>1
  <2>4. a \in SUBSET U /\ b \in SUBSET U /\ a \subseteq b /\ a # b
        BY <1>5, <1>6, <2>1, <2>3
  <2>5. <<a, b>> \in StrictSubsetOrdering(U)
    <3> HIDE DEF a, b, U
    <3> QED
        BY <2>4 DEF StrictSubsetOrdering
  <2> QED
      BY <1>5, <2>2, <2>5
<1> QED
    BY <1>5, <1>6

LEMMA FirstIsLeast ==
    ASSUME NEW S \in SUBSET Nat, S # {}
    PROVE  First(S) \in S /\ \A k \in S : First(S) <= k
BY LeastNumber DEF First

LEMMA FirstIsOne ==
    ASSUME NEW S \in SUBSET Nat, NEW m \in S, \A k \in S : m <= k
    PROVE  First(S) = m
<1>1. First(S) \in S /\ \A k \in S : First(S) <= k
  BY FirstIsLeast
<1>2. First(S) <= m /\ m <= First(S) /\ First(S) \in Nat /\ m \in Nat
  BY <1>1
<1>3. QED
  BY <1>2

\* The beginning of a sequence.
LEMMA Beginning ==
    ASSUME NEW H, NEW hs \in Seq(H), NEW n \in 0..Len(hs)
    PROVE  /\ SubSeq(hs, 1, n) \in Seq(H) /\ Len(SubSeq(hs, 1, n)) = n
           /\ \A k \in 1..n : SubSeq(hs, 1, n)[k] = hs[k]
<1>1. /\ 1 \in Int /\ n \in Int /\ Len(hs) \in Nat /\ (1 <= n => n <= Len(hs))
      /\ (1 <= n => n - 1 + 1 = n) /\ (~(1 <= n) => n = 0)
  OBVIOUS
<1>2. \A k \in 1..n : k \in Int /\ 1 + k - 1 = k /\ k \in 1..Len(hs) /\ 1 <= n
  BY <1>1
<1>3. QED
  BY <1>1, <1>2, SubSeqProperties

\* What InferSource reads of a message: its hops up to a limit.
LEMMA HopsRead ==
    ASSUME NEW H, NEW hops \in Seq(H)
    PROVE  /\ PublicHops(hops) \in SUBSET Nat
           /\ \A i : i \in PublicHops(hops) <=>
                /\ i \in 1..Len(hops) /\ i <= MaxHops
                /\ ParseFrom(hops[i]).ip # NoValue /\ ParseFrom(hops[i]).ip.value \in Public
<1> DEFINE kept == IF Len(hops) > MaxHops THEN MaxHops ELSE Len(hops)
<1>1. MaxHops \in Nat /\ Len(hops) \in Nat
  BY InputsAssumption
<1>2. kept \in 0..Len(hops) /\ \A i : i \in 1..kept <=> i \in 1..Len(hops) /\ i <= MaxHops
  BY <1>1
<1>3. Len(Chain(hops)) = kept /\ Chain(hops) \in Seq(H)
  <2> HIDE DEF kept
  <2>1. Chain(hops) = SubSeq(hops, 1, kept)
    BY DEF Chain, kept
  <2>2. QED
    BY <1>2, <2>1, Beginning
<1>4. DOMAIN Chain(hops) = 1..kept
  BY <1>3
<1> HIDE DEF kept
<1>5. PublicHops(hops) = {i \in 1..kept : /\ ParseFrom(hops[i]).ip # NoValue
                                          /\ ParseFrom(hops[i]).ip.value \in Public}
  BY <1>4 DEF PublicHops
<1>6. QED
  BY <1>2, <1>5

\* A client that is found in the headers of the receiver is the one that is
\* found in all headers.
LEMMA SourceStays ==
    ASSUME NEW H, NEW hops \in Seq(H), NEW n \in 0..Len(hops),
           InferSource(SubSeq(hops, 1, n)) # NoValue
    PROVE  InferSource(SubSeq(hops, 1, n)) = InferSource(hops)
<1> DEFINE pre == SubSeq(hops, 1, n)
           P == PublicHops(pre)
           Q == PublicHops(hops)
<1>1. pre \in Seq(H) /\ Len(pre) = n /\ \A k \in 1..n : pre[k] = hops[k]
  BY Beginning
<1> HIDE DEF pre
<1>2. P # {}
  BY DEF InferSource, pre
<1>3. /\ P \in SUBSET Nat /\ Q \in SUBSET Nat
      /\ \A i : i \in P <=> /\ i \in 1..Len(pre) /\ i <= MaxHops
                            /\ ParseFrom(pre[i]).ip # NoValue /\ ParseFrom(pre[i]).ip.value \in Public
      /\ \A i : i \in Q <=> /\ i \in 1..Len(hops) /\ i <= MaxHops
                            /\ ParseFrom(hops[i]).ip # NoValue /\ ParseFrom(hops[i]).ip.value \in Public
  BY <1>1, HopsRead
<1> HIDE DEF P, Q
<1> DEFINE f == First(P)
<1>4. f \in P /\ \A k \in P : f <= k
  BY <1>2, <1>3, FirstIsLeast
<1> HIDE DEF f
<1>5. /\ f \in 1..n /\ pre[f] = hops[f] /\ f \in 1..Len(hops) /\ f \in Nat /\ n \in Nat
  BY <1>1, <1>3, <1>4
<1>6. f \in Q
  BY <1>3, <1>4, <1>5
<1>7. ASSUME NEW k \in Q PROVE f <= k
  <2>1. CASE k \in 1..n
    <3>1. pre[k] = hops[k] /\ k \in 1..Len(pre)
      BY <1>1, <2>1
    <3>2. k \in P
      BY <1>3, <1>7, <3>1
    <3>3. QED
      BY <1>4, <3>2
  <2>2. CASE k \notin 1..n
    BY <1>3, <1>5, <1>7, <2>2
  <2>3. QED
    BY <2>1, <2>2
<1>8. First(Q) = f
  BY <1>3, <1>6, <1>7, FirstIsOne
<1>9. /\ InferSource(pre) = LET hop == ParseFrom(pre[f])
                            IN  [ip |-> hop.ip.value,
                                 helo |-> IF hop.helo = NoValue THEN NoValue ELSE hop.helo.value]
  BY <1>2 DEF InferSource, P, f
<1>10. /\ InferSource(hops) = LET hop == ParseFrom(hops[f])
                              IN  [ip |-> hop.ip.value,
                                   helo |-> IF hop.helo = NoValue THEN NoValue ELSE hop.helo.value]
  BY <1>6, <1>8 DEF InferSource, Q
<1>11. QED
  BY <1>5, <1>9, <1>10 DEF pre

\* Where an inferred client comes from.
LEMMA SourceIsAHop ==
    ASSUME NEW H, NEW hops \in Seq(H), InferSource(hops) # NoValue
    PROVE  \E i \in DOMAIN hops :
              /\ ParseFrom(hops[i]).ip # NoValue
              /\ InferSource(hops).ip = ParseFrom(hops[i]).ip.value
              /\ InferSource(hops).helo # NoValue =>
                    /\ ParseFrom(hops[i]).helo # NoValue
                    /\ InferSource(hops).helo = ParseFrom(hops[i]).helo.value
<1> DEFINE Q == PublicHops(hops)
           f == First(Q)
<1>1. Q # {}
  BY DEF InferSource
<1>2. Q \in SUBSET Nat /\ \A i \in Q : i \in 1..Len(hops) /\ ParseFrom(hops[i]).ip # NoValue
  BY HopsRead
<1>3. f \in Q
  <2> HIDE DEF Q
  <2>1. QED
    BY <1>1, <1>2, FirstIsLeast
<1>4. InferSource(hops) = [ip |-> ParseFrom(hops[f]).ip.value,
                           helo |-> IF ParseFrom(hops[f]).helo = NoValue THEN NoValue
                                    ELSE ParseFrom(hops[f]).helo.value]
  BY <1>1 DEF InferSource
<1> HIDE DEF Q, f
<1>5. f \in DOMAIN hops /\ ParseFrom(hops[f]).ip # NoValue
  BY <1>2, <1>3
<1>6. QED
  BY <1>4, <1>5

\* A record about a client is the first of those that name it.
LEMMA RecordAbout ==
    ASSUME NEW H, NEW hs \in Seq(H), NEW addr, About(addr, hs) # NoValue
    PROVE  \E i \in DOMAIN hs : hs[i].client = addr /\ About(addr, hs) = hs[i]
<1> DEFINE S == {i \in DOMAIN hs : hs[i].client = addr}
<1>1. S \in SUBSET Nat
  OBVIOUS
<1>2. S # {} /\ About(addr, hs) = hs[First(S)]
  BY DEF About
<1>3. First(S) \in S
  <2> HIDE DEF S
  <2>1. QED
    BY <1>1, <1>2, FirstIsLeast
<1>4. QED
  BY <1>2, <1>3

LEMMA FirstRecord ==
    ASSUME NEW H, NEW hs \in Seq(H), NEW addr, hs # <<>>, hs[1].client = addr
    PROVE  About(addr, hs) = hs[1]
<1> DEFINE S == {i \in DOMAIN hs : hs[i].client = addr}
<1>1. S \in SUBSET Nat /\ 1 \in S /\ \A k \in S : 1 <= k
  OBVIOUS
<1>2. About(addr, hs) = hs[First(S)]
  BY <1>1 DEF About
<1>3. First(S) = 1
  <2> HIDE DEF S
  <2>1. QED
    BY <1>1, FirstIsOne
<1>4. QED
  BY <1>2, <1>3

\* The headers of a message are what some host wrote, the receiver's own first,
\* and a scan takes its inputs from them as they are.
Mail ==
    /\ \E S : received \in Seq(S)
    /\ \E S : receivedSPF \in Seq(S)
    /\ \E S : returnPath \in Seq(S)
    /\ own \in [received : 0..2, spf : 0..1, path : 0..1]
    /\ own.received <= Len(received) /\ own.spf <= Len(receivedSPF) /\ own.path <= Len(returnPath)
    /\ at = "sender" => own = [received |-> 0, spf |-> 0, path |-> 0]
    /\ Scanned => inputs = SpfInputs(operator, received, receivedSPF, returnPath)

LEMMA OneMoreOnTop ==
    ASSUME NEW S, NEW hs \in Seq(S), NEW h
    PROVE  /\ \E T : <<h>> \o hs \in Seq(T)
           /\ Len(<<h>> \o hs) = Len(hs) + 1 /\ Len(hs) \in Nat
<1>1. hs \in Seq(S \cup {h}) /\ <<h>> \in Seq(S \cup {h})
  OBVIOUS
<1>2. <<h>> \o hs \in Seq(S \cup {h})
  BY <1>1
<1>3. Len(<<h>> \o hs) = Len(hs) + 1 /\ Len(hs) \in Nat
  BY <1>1
<1>4. QED
  BY <1>2, <1>3

LEMMA MailStarts == InputsInit => Mail
<1> SUFFICES ASSUME InputsInit PROVE Mail
  OBVIOUS
<1>1. /\ received = <<>> /\ receivedSPF = <<>> /\ returnPath = <<>> /\ at = "sender"
      /\ own = [received |-> 0, spf |-> 0, path |-> 0]
  BY DEF InputsInit
<1>2. <<>> \in Seq({}) /\ Len(<<>>) = 0
  OBVIOUS
<1>3. own \in [received : 0..2, spf : 0..1, path : 0..1]
  BY <1>1
<1>4. (\E S : received \in Seq(S)) /\ (\E S : receivedSPF \in Seq(S)) /\ \E S : returnPath \in Seq(S)
  BY <1>1, <1>2
<1>5. QED
  BY <1>1, <1>2, <1>3, <1>4 DEF Mail, Scanned

LEMMA ListsAreSequences ==
    ASSUME NEW S, NEW hs \in Lists(S)
    PROVE  (\E T : hs \in Seq(T)) /\ Len(hs) \in Nat
<1>1. <<>> \in Seq(S) /\ \A x \in S : <<x>> \in Seq(S)
  OBVIOUS
<1>2. hs \in Seq(S)
  BY <1>1 DEF Lists
<1>3. QED
  BY <1>2

\* A header is put on top, or none is.
LEMMA MaybeOneMore ==
    ASSUME NEW hs, \E S : hs \in Seq(S), NEW h, NEW written \in BOOLEAN
    PROVE  LET more == (IF written THEN <<h>> ELSE <<>>) \o hs
               n == IF written THEN 1 ELSE 0
           IN  (\E T : more \in Seq(T)) /\ n \in 0..1 /\ n <= Len(more)
<1> DEFINE more == (IF written THEN <<h>> ELSE <<>>) \o hs
           n == IF written THEN 1 ELSE 0
<1>1. PICK S : hs \in Seq(S)
  OBVIOUS
<1>2. CASE written
  <2>1. more = <<h>> \o hs /\ n = 1
    BY <1>2
  <2> HIDE DEF more, n
  <2>2. (\E T : more \in Seq(T)) /\ Len(more) = Len(hs) + 1 /\ Len(hs) \in Nat
    BY <1>1, <2>1, OneMoreOnTop
  <2>3. n \in 0..1 /\ n <= Len(more)
    BY <2>1, <2>2
  <2>4. QED
    BY <2>2, <2>3 DEF more, n
<1>3. CASE ~written
  <2>1. more = <<>> \o hs /\ n = 0
    BY <1>3
  <2>2. more = hs /\ Len(hs) \in Nat
    BY <1>1, <2>1
  <2>3. QED
    BY <1>1, <2>1, <2>2
<1>4. QED
  BY <1>2, <1>3

LEMMA MailStep == Mail /\ [InputsNext]_inputsVars => Mail'
<1> SUFFICES ASSUME Mail, [InputsNext]_inputsVars PROVE Mail'
  OBVIOUS
<1>o. /\ own \in [received : 0..2, spf : 0..1, path : 0..1]
      /\ own.received <= Len(received) /\ own.spf <= Len(receivedSPF) /\ own.path <= Len(returnPath)
  BY DEF Mail
<1>s. /\ \E S : received \in Seq(S)
      /\ \E S : receivedSPF \in Seq(S)
      /\ \E S : returnPath \in Seq(S)
  BY DEF Mail
<1>1. CASE SenderWrites
  <2>1. /\ received' \in Lists(SenderHops) /\ receivedSPF' \in Lists(SenderRecords)
        /\ returnPath' \in Lists(SenderPaths)
        /\ own' = [received |-> 0, spf |-> 0, path |-> 0] /\ at' = "border"
    BY <1>1 DEF SenderWrites, Mail
  <2>2. /\ (\E T : received' \in Seq(T)) /\ Len(received') \in Nat
        /\ (\E T : receivedSPF' \in Seq(T)) /\ Len(receivedSPF') \in Nat
        /\ (\E T : returnPath' \in Seq(T)) /\ Len(returnPath') \in Nat
    BY <2>1, ListsAreSequences
  <2>3. own' \in [received : 0..2, spf : 0..1, path : 0..1]
    BY <2>1
  <2>4. QED
    BY <2>1, <2>2, <2>3 DEF Mail, Scanned
<1>2. CASE BorderRecords
  <2>a. PICK checked \in BOOLEAN : \E record :
          /\ receivedSPF' = (IF checked THEN <<record>> ELSE <<>>) \o receivedSPF
          /\ own' = [own EXCEPT !.received = 1, !.spf = IF checked THEN 1 ELSE 0]
    BY <1>2 DEF BorderRecords
  <2>b. PICK hop : received' = <<hop>> \o received
    BY <1>2 DEF BorderRecords
  <2>1. PICK record :
          /\ received' = <<hop>> \o received
          /\ receivedSPF' = (IF checked THEN <<record>> ELSE <<>>) \o receivedSPF
          /\ own' = [own EXCEPT !.received = 1, !.spf = IF checked THEN 1 ELSE 0]
          /\ at' = "inside" /\ returnPath' = returnPath
    BY <1>2, <2>a, <2>b DEF BorderRecords
  <2>2. (\E T : received' \in Seq(T)) /\ Len(received') = Len(received) + 1 /\ Len(received) \in Nat
    BY <1>s, <2>1, OneMoreOnTop
  <2>3. LET n == IF checked THEN 1 ELSE 0
        IN  (\E T : receivedSPF' \in Seq(T)) /\ n \in 0..1 /\ n <= Len(receivedSPF')
    <3>1. LET more == (IF checked THEN <<record>> ELSE <<>>) \o receivedSPF
              n == IF checked THEN 1 ELSE 0
          IN  (\E T : more \in Seq(T)) /\ n \in 0..1 /\ n <= Len(more)
      BY <1>s, MaybeOneMore
    <3>2. QED
      BY <2>1, <3>1, Zenon
  <2> DEFINE n == IF checked THEN 1 ELSE 0
  <2>4. n \in 0..1 /\ n <= Len(receivedSPF') /\ own' = [own EXCEPT !.received = 1, !.spf = n]
    BY <2>1, <2>3
  <2> HIDE DEF n
  <2>5. /\ own' \in [received : 0..2, spf : 0..1, path : 0..1]
        /\ own'.received = 1 /\ own'.spf = n /\ own'.path = own.path
    <3>1. own' = [received |-> 1, spf |-> n, path |-> own.path]
      BY <1>o, <2>4
    <3>2. own.path \in 0..1
      BY <1>o
    <3>3. QED
      BY <2>4, <3>1, <3>2
  <2>6. own'.received <= Len(received') /\ own'.spf <= Len(receivedSPF') /\ own'.path <= Len(returnPath')
    BY <1>o, <2>1, <2>2, <2>4, <2>5
  <2>7. (\E T : receivedSPF' \in Seq(T)) /\ (\E T : returnPath' \in Seq(T))
    BY <1>s, <2>1, <2>3
  <2>8. QED
    BY <2>1, <2>2, <2>5, <2>6, <2>7 DEF Mail, Scanned
<1>3. CASE InsideRelays
  <2>1. PICK hop :
          /\ received' = <<hop>> \o received /\ own.received = 1
          /\ own' = [own EXCEPT !.received = 2]
          /\ at' = "inside" /\ receivedSPF' = receivedSPF /\ returnPath' = returnPath
    BY <1>3 DEF InsideRelays
  <2>2. (\E T : received' \in Seq(T)) /\ Len(received') = Len(received) + 1 /\ Len(received) \in Nat
    BY <1>s, <2>1, OneMoreOnTop
  <2>3. /\ own' \in [received : 0..2, spf : 0..1, path : 0..1]
        /\ own'.received = 2 /\ own'.spf = own.spf /\ own'.path = own.path
    BY <1>o, <2>1
  <2>4. own'.received <= Len(received')
    BY <1>o, <2>1, <2>2, <2>3
  <2>5. QED
    BY <1>o, <1>s, <2>1, <2>2, <2>3, <2>4 DEF Mail, Scanned
<1>4. CASE Deliver
  <2>1. PICK recorded \in BOOLEAN :
          /\ returnPath' = (IF recorded THEN <<peer.from>> ELSE <<>>) \o returnPath
          /\ own' = [own EXCEPT !.path = IF recorded THEN 1 ELSE 0]
          /\ at' = "delivered" /\ received' = received /\ receivedSPF' = receivedSPF
    BY <1>4 DEF Deliver
  <2>2. LET n == IF recorded THEN 1 ELSE 0
        IN  (\E T : returnPath' \in Seq(T)) /\ n \in 0..1 /\ n <= Len(returnPath')
    <3>1. LET more == (IF recorded THEN <<peer.from>> ELSE <<>>) \o returnPath
              n == IF recorded THEN 1 ELSE 0
          IN  (\E T : more \in Seq(T)) /\ n \in 0..1 /\ n <= Len(more)
      BY <1>s, MaybeOneMore
    <3>2. QED
      BY <2>1, <3>1, Zenon
  <2> DEFINE n == IF recorded THEN 1 ELSE 0
  <2>3. n \in 0..1 /\ n <= Len(returnPath') /\ own' = [own EXCEPT !.path = n]
    BY <2>1, <2>2
  <2> HIDE DEF n
  <2>4. /\ own' \in [received : 0..2, spf : 0..1, path : 0..1]
        /\ own'.received = own.received /\ own'.spf = own.spf /\ own'.path = n
    BY <1>o, <2>3
  <2>5. \E T : returnPath' \in Seq(T)
    BY <2>2
  <2>6. QED
    BY <1>o, <1>s, <2>1, <2>3, <2>4, <2>5 DEF Mail, Scanned
<1>5. CASE ScanMessage
  <2>1. /\ inputs' = SpfInputs(operator', received, receivedSPF, returnPath)
        /\ received' = received /\ receivedSPF' = receivedSPF /\ returnPath' = returnPath
        /\ own' = own /\ at' = "scanned"
    BY <1>5 DEF ScanMessage
  <2>2. inputs' = SpfInputs(operator', received', receivedSPF', returnPath')
    BY <2>1
  <2>3. QED
    BY <1>o, <1>s, <2>1, <2>2 DEF Mail, Scanned
<1>6. CASE UNCHANGED inputsVars
  <2>1. /\ inputs' = inputs /\ received' = received /\ receivedSPF' = receivedSPF
        /\ returnPath' = returnPath /\ own' = own /\ at' = at /\ operator' = operator
    BY <1>6 DEF inputsVars
  <2>2. Scanned' => inputs' = SpfInputs(operator', received', receivedSPF', returnPath')
    BY <2>1 DEF Mail, Scanned
  <2>3. QED
    BY <2>1, <2>2 DEF Mail, Scanned
<1>7. QED
  BY <1>1, <1>2, <1>3, <1>4, <1>5, <1>6 DEF InputsNext

LEMMA InputsOfOneConnection == Mail => OneConnection
<1> SUFFICES ASSUME Mail, Scanned, inputs.helo # NoValue, inputs.helo.source # "flag"
             PROVE  /\ inputs.ip # NoValue
                    /\ \/ \E i \in DOMAIN receivedSPF :
                              /\ receivedSPF[i].client = inputs.ip.value
                              /\ receivedSPF[i].helo = inputs.helo.value
                       \/ \E i \in DOMAIN received :
                              LET hop == ParseFrom(received[i])
                              IN  /\ hop.ip # NoValue /\ hop.ip.value = inputs.ip.value
                                  /\ hop.helo # NoValue /\ hop.helo.value = inputs.helo.value
  BY DEF OneConnection
<1> DEFINE source == InferSource(received)
           ip == ClientInput(operator, source)
           about == IF ip = NoValue THEN NoValue ELSE About(ip.value, receivedSPF)
           helo == HeloInput(operator, source, ip, about)
<1>1. inputs = [ip |-> ip, helo |-> helo, from |-> FromInput(operator, about, returnPath)]
  BY DEF Mail, SpfInputs
<1>2. inputs.ip = ip /\ inputs.helo = helo
  BY <1>1
<1>s. (\E S : received \in Seq(S)) /\ \E S : receivedSPF \in Seq(S)
  BY DEF Mail
<1>n. NoValue \notin Names
  BY InputsAssumption
<1> HIDE DEF helo
<1>3. \/ /\ about # NoValue
         /\ helo = Input(about.helo, "received-spf")
      \/ /\ source # NoValue /\ ip # NoValue /\ ip.value = source.ip /\ source.helo \in Names
         /\ helo = Input(source.helo, "received")
  <2>1. \A v : Input(v, "flag").source = "flag"
    BY DEF Input
  <2>2. operator.helo = NoValue
    BY <1>2, <2>1 DEF HeloInput, helo
  <2>3. QED
    BY <1>2, <2>2 DEF HeloInput, helo
<1>4. CASE about # NoValue /\ helo = Input(about.helo, "received-spf")
  <2>1. ip # NoValue /\ about = About(ip.value, receivedSPF)
    BY <1>4
  <2> HIDE DEF ip
  <2>2. PICK i \in DOMAIN receivedSPF : receivedSPF[i].client = ip.value /\ about = receivedSPF[i]
    BY <1>s, <1>4, <2>1, RecordAbout
  <2>3. helo.value = receivedSPF[i].helo
    BY <1>4, <2>2 DEF Input
  <2>4. QED
    BY <1>2, <2>1, <2>2, <2>3
<1>5. CASE /\ source # NoValue /\ ip # NoValue /\ ip.value = source.ip /\ source.helo \in Names
           /\ helo = Input(source.helo, "received")
  <2>1. source.helo # NoValue /\ helo.value = source.helo
    BY <1>n, <1>5 DEF Input
  <2>2. PICK i \in DOMAIN received :
          /\ ParseFrom(received[i]).ip # NoValue
          /\ source.ip = ParseFrom(received[i]).ip.value
          /\ ParseFrom(received[i]).helo # NoValue
          /\ source.helo = ParseFrom(received[i]).helo.value
    BY <1>s, <1>5, <2>1, SourceIsAHop
  <2>3. QED
    BY <1>2, <1>5, <2>1, <2>2
<1>6. QED
  BY <1>3, <1>4, <1>5

LEMMA OwnHeadersWin == Mail => RecordedWins
<1> SUFFICES ASSUME Mail, Scanned, OwnInputs.ip # NoValue
             PROVE  /\ inputs.ip = OwnInputs.ip
                    /\ OwnRecordAbout(inputs.ip) =>
                         /\ OwnInputs.helo # NoValue => inputs.helo = OwnInputs.helo
                         /\ OwnInputs.from # NoValue => inputs.from = OwnInputs.from
  BY DEF RecordedWins
<1> DEFINE hops == SubSeq(received, 1, own.received)
           spf == SubSeq(receivedSPF, 1, own.spf)
           paths == SubSeq(returnPath, 1, own.path)
           source == InferSource(received)
           ip == ClientInput(operator, source)
           about == IF ip = NoValue THEN NoValue ELSE About(ip.value, receivedSPF)
           ownSource == InferSource(hops)
           ownIp == ClientInput(operator, ownSource)
           ownAbout == IF ownIp = NoValue THEN NoValue ELSE About(ownIp.value, spf)
<1>1. /\ inputs = [ip |-> ip, helo |-> HeloInput(operator, source, ip, about),
                   from |-> FromInput(operator, about, returnPath)]
      /\ OwnInputs = [ip |-> ownIp, helo |-> HeloInput(operator, ownSource, ownIp, ownAbout),
                      from |-> FromInput(operator, ownAbout, paths)]
  BY DEF Mail, SpfInputs, OwnInputs
<1>2. /\ inputs.ip = ip /\ inputs.helo = HeloInput(operator, source, ip, about)
      /\ inputs.from = FromInput(operator, about, returnPath)
      /\ OwnInputs.ip = ownIp /\ OwnInputs.helo = HeloInput(operator, ownSource, ownIp, ownAbout)
      /\ OwnInputs.from = FromInput(operator, ownAbout, paths)
  BY <1>1
<1>o. /\ own.received \in 0..Len(received) /\ own.spf \in 0..Len(receivedSPF)
      /\ own.path \in 0..Len(returnPath)
  BY DEF Mail
<1>s. /\ \E S : received \in Seq(S)
      /\ \E S : receivedSPF \in Seq(S)
      /\ \E S : returnPath \in Seq(S)
  BY DEF Mail
<1>3. ownSource # NoValue => ownSource = source
  BY <1>o, <1>s, SourceStays
<1> HIDE DEF source, ownSource
<1>4. ip = ownIp
  <2>1. ownIp # NoValue
    BY <1>2
  <2>2. QED
    BY <1>3, <2>1 DEF ClientInput
<1>5. ASSUME OwnRecordAbout(inputs.ip)
      PROVE  about = ownAbout
  <2>1. own.spf = 1 /\ ip # NoValue /\ receivedSPF[1].client = ip.value
    BY <1>2, <1>5 DEF OwnRecordAbout
  <2> HIDE DEF ip, ownIp
  <2>2. PICK S : receivedSPF \in Seq(S)
    BY <1>s
  <2>3. spf \in Seq(S) /\ Len(spf) = 1 /\ spf[1] = receivedSPF[1]
    BY <1>o, <2>1, <2>2, Beginning
  <2>4. receivedSPF # <<>> /\ spf # <<>>
    BY <1>o, <2>1, <2>2, <2>3
  <2> HIDE DEF spf
  <2>5. About(ip.value, receivedSPF) = receivedSPF[1] /\ About(ip.value, spf) = spf[1]
    BY <2>1, <2>2, <2>3, <2>4, FirstRecord
  <2>6. QED
    BY <1>4, <2>1, <2>3, <2>5
<1> HIDE DEF ip, ownIp, about, ownAbout
<1>6. ASSUME about = ownAbout, OwnInputs.helo # NoValue PROVE inputs.helo = OwnInputs.helo
  BY <1>2, <1>3, <1>4, <1>6 DEF HeloInput
<1>7. ASSUME about = ownAbout, OwnInputs.from # NoValue PROVE inputs.from = OwnInputs.from
  <2>1. paths # <<>> => returnPath # <<>> /\ Head(paths) = Head(returnPath)
    <3>1. PICK S : returnPath \in Seq(S)
      BY <1>s
    <3>2. /\ paths \in Seq(S) /\ Len(paths) = own.path
          /\ \A k \in 1..own.path : paths[k] = returnPath[k]
      BY <1>o, <3>1, Beginning
    <3> HIDE DEF paths
    <3>3. paths # <<>> => 1 \in 1..own.path /\ returnPath # <<>>
      BY <1>o, <3>1, <3>2
    <3>4. QED
      BY <3>1, <3>2, <3>3
  <2> HIDE DEF paths
  <2>2. QED
    BY <1>2, <1>7, <2>1 DEF FromInput
<1>8. QED
  BY <1>2, <1>4, <1>5, <1>6, <1>7

LEMMA MailStays == InputsSpec => []Mail
BY MailStarts, MailStep, PTL DEF InputsSpec

\* Whatever headers the sender has put into the message, SPF is evaluated for the
\* client that the receiver recorded, and for the HELO name and envelope sender if
\* the receiver wrote a Received-SPF about that client (spfInputs). Where it wrote
\* none, one that the sender forged may supply these two.
THEOREM TheReceiverIsBelieved == InputsSpec => []RecordedWins
BY MailStays, OwnHeadersWin, PTL

\* An inferred HELO name is never paired with the address of another client.
THEOREM InputsAgree == InputsSpec => []OneConnection
BY MailStays, InputsOfOneConnection, PTL
=============================================================================
