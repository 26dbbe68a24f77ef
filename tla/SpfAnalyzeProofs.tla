-------------------------- MODULE SpfAnalyzeProofs --------------------------
(***************************************************************************)
(* The static analysis of an SPF policy, for every set of records that the *)
(* domains may publish and every value of the limits.                      *)
(***************************************************************************)
EXTENDS SpfAudit, SequenceTheorems, FiniteSetTheorems, TLAPS

Visit == [domain : Domains, at : Nat \ {0}]

\* Every record on the path but the first is a node that a term led to, and
\* that term was counted before its target was looked at.
PathIsCounted ==
    /\ path \in Seq(Visit)
    /\ nodes \in Nat /\ total \in Nat
    /\ Len(path) <= nodes + 1
    /\ nodes <= total

\* The loop detection and both limits hold at every moment of the walk.
PathInLimits ==
    /\ \A i, j \in 1..Len(path) : path[i].domain = path[j].domain => i = j
    /\ Len(path) <= MaxDepth + 1
    /\ nodes <= MaxNodes

WalkInv == PathIsCounted /\ PathInLimits /\ CutOffIsPaid

-----------------------------------------------------------------------------
\* What the steps do to the path. Rest: nothing; Move: the innermost record
\* goes to its next term, counted or not; CutOff: the same, for a target that
\* is left out; Descend: a target's record is walked; Ascend: a record is done.
Moved == /\ path # <<>> /\ path' = Advanced
Rest ==
    /\ path' = path /\ nodes' = nodes /\ total' = total /\ cutOff' = cutOff
Begin ==
    /\ analysis = "start" /\ path' \in {<<>>, <<[domain |-> Root, at |-> 1]>>}
    /\ nodes' = nodes /\ total' = total /\ cutOff' = cutOff
Move ==
    /\ Moved /\ cutOff' = cutOff
    /\ \/ nodes' = nodes /\ total' \in {total, total + 1}
       \/ nodes < MaxNodes /\ nodes' = nodes + 1 /\ total' = total + 1
CutOff ==
    /\ Moved /\ LimitReached
    /\ nodes' = nodes /\ total' = total + 1
Descend ==
    /\ path # <<>> /\ ~LimitReached
    /\ \E d \in Domains : ~OnPath(d) /\ path' = Append(Advanced, [domain |-> d, at |-> 1])
    /\ nodes' = nodes + 1 /\ total' = total + 1 /\ cutOff' = cutOff
Ascend ==
    /\ path # <<>> /\ path' = SubSeq(path, 1, Len(path) - 1)
    /\ nodes' = nodes /\ total' = total /\ cutOff' = cutOff

Steps == Rest \/ Begin \/ Move \/ CutOff \/ Descend \/ Ascend

\* The tree is grown in follow only, and its caller counts the term there.
LEMMA FollowSteps ==
    ASSUME NEW target, NEW before, PathIsCounted,
           path # <<>>, Follow(target, before), total' = total + 1
    PROVE  Steps
<1> USE DEF Steps, Moved, Advance, Following, Move, CutOff, Descend
<1>1. CASE NotFollowed(target, before)
  <2>1. Moved /\ nodes' = nodes
    BY <1>1 DEF NotFollowed
  <2>2. cutOff' = cutOff \/ LimitReached
    BY <1>1 DEF NotFollowed
  <2>3. QED
    BY <2>1, <2>2
<1>2. ASSUME Following(target), Advance PROVE Steps
  <2>1. nodes < MaxNodes
    BY <1>2, AnalyzeAssumption DEF LimitReached, PathIsCounted
  <2>2. QED
    BY <1>2, <2>1
<1>3. CASE InvalidTarget(target, before)
  BY <1>2, <1>3 DEF InvalidTarget
<1>4. ASSUME NEW err, TargetFails(target, err, before) PROVE Steps
  BY <1>2, <1>4 DEF TargetFails
<1>5. ASSUME NEW what, TargetUnusable(target, what, before) PROVE Steps
  BY <1>2, <1>5 DEF TargetUnusable
<1>6. ASSUME NEW what, WalkTarget(target, what, before) PROVE Steps
  BY <1>6 DEF WalkTarget
<1>7. QED
  BY <1>1, <1>3, <1>4, <1>5, <1>6 DEF Follow

LEMMA NextSteps ==
    ASSUME PathIsCounted, [AnalysisNext]_analysisVars
    PROVE  Steps
<1> USE DEF Steps
<1>1. CASE RootFails(Root)
  BY <1>1 DEF RootFails, Rest
<1>2. ASSUME NEW what, NEW rule, RootUnusable(Root, what, rule) PROVE Steps
  BY <1>2 DEF RootUnusable, Rest
<1>3. ASSUME NEW what, RootRecord(Root, what) PROVE Steps
  BY <1>3 DEF RootRecord, Begin
<1>4. CASE AllTerm \/ RangeTerm \/ TermAfterAll \/ NoRedirectToFollow
  BY <1>4 DEF AllTerm, RangeTerm, TermAfterAll, NoRedirectToFollow, AtTermOf, AtEnd, Advance,
              Move, Moved
<1>5. CASE PTRMechanism
  BY <1>5 DEF PTRMechanism, AtTermOf, Advance, Move, Moved
<1>6. ASSUME NEW o, HostTerm(o) \/ ExistsTerm(o) PROVE Steps
  BY <1>6 DEF HostTerm, ExistsTerm, AtTermOf, Advance, Move, Moved
<1>7. CASE IncludeTerm
  BY <1>7, FollowSteps DEF IncludeTerm, AtTermOf
<1>8. CASE RedirectTerm
  BY <1>8, FollowSteps DEF RedirectTerm, AtEnd
<1>9. CASE WalkReturns
  BY <1>9 DEF WalkReturns, Ascend
<1>10. CASE Summarize
  BY <1>10 DEF Summarize, Rest
<1>11. CASE UNCHANGED analysisVars
  BY <1>11 DEF analysisVars, Rest
<1>12. QED
  BY <1>1, <1>2, <1>3, <1>4, <1>5, <1>6, <1>7, <1>8, <1>9, <1>10, <1>11 DEF AnalysisNext

\* The path when its innermost record goes on to the next term.
LEMMA AdvancedPath ==
    ASSUME path \in Seq(Visit), path # <<>>
    PROVE  /\ Advanced \in Seq(Visit)
           /\ Len(Advanced) = Len(path) /\ Len(path) \in Nat \ {0}
           /\ \A i \in 1..Len(path) : Advanced[i].domain = path[i].domain
<1>1. Len(path) \in Nat \ {0}
  BY EmptySeq, LenProperties
<1>2. Here \in Visit
  BY <1>1, ElementOfSeq DEF Here
<1> DEFINE next == [Here EXCEPT !.at = @ + 1]
<1>3. next \in Visit /\ next.domain = Here.domain
  <2>1. /\ Here = [domain |-> Here.domain, at |-> Here.at]
        /\ Here.domain \in Domains /\ Here.at \in Nat \ {0}
    BY <1>2 DEF Visit
  <2>2. next = [domain |-> Here.domain, at |-> Here.at + 1]
    BY <2>1
  <2> QED
    BY <2>1, <2>2 DEF Visit
<1>4. Advanced = [path EXCEPT ![Len(path)] = next]
  BY DEF Advanced
<1> HIDE DEF next
<1>5. QED
  BY <1>1, <1>3, <1>4, ExceptSeq DEF Here

\* The path after each kind of step, in terms of its elements.
LEMMA MovedPath ==
    ASSUME PathIsCounted, PathInLimits, Moved
    PROVE  /\ path' \in Seq(Visit)
           /\ Len(path') = Len(path)
           /\ \A i, j \in 1..Len(path') : path'[i].domain = path'[j].domain => i = j
<1>1. /\ Advanced \in Seq(Visit) /\ Len(Advanced) = Len(path)
      /\ \A i \in 1..Len(path) : Advanced[i].domain = path[i].domain
  BY AdvancedPath DEF PathIsCounted, Moved
<1> QED
  BY <1>1 DEF PathInLimits, Moved

LEMMA DescendedPath ==
    ASSUME PathIsCounted, PathInLimits, Descend
    PROVE  /\ path' \in Seq(Visit)
           /\ Len(path') = Len(path) + 1
           /\ \A i, j \in 1..Len(path') : path'[i].domain = path'[j].domain => i = j
<1>1. /\ Advanced \in Seq(Visit) /\ Len(Advanced) = Len(path) /\ Len(path) \in Nat
      /\ \A i \in 1..Len(path) : Advanced[i].domain = path[i].domain
  BY AdvancedPath DEF PathIsCounted, Descend
<1>2. PICK d \in Domains : ~OnPath(d) /\ path' = Append(Advanced, [domain |-> d, at |-> 1])
  BY DEF Descend
<1> DEFINE new == [domain |-> d, at |-> 1]
<1>3. new \in Visit /\ new.domain = d
  BY DEF Visit
<1>4. \A i \in 1..Len(path) : path[i].domain # d
  BY <1>1, <1>2, LenProperties DEF OnPath, PathIsCounted
<1> HIDE DEF new
<1>5. /\ Append(Advanced, new) \in Seq(Visit)
      /\ Len(Append(Advanced, new)) = Len(path) + 1
      /\ \A i \in 1..Len(path) : Append(Advanced, new)[i] = Advanced[i]
      /\ Append(Advanced, new)[Len(path) + 1] = new
  BY <1>1, <1>3, AppendProperties
<1>6. path' = Append(Advanced, new)
  BY <1>2 DEF new
<1>7. \A i \in 1..Len(path) + 1 :
         path'[i].domain = IF i = Len(path) + 1 THEN d ELSE path[i].domain
  BY <1>1, <1>3, <1>5, <1>6
<1>8. \A i, j \in 1..Len(path) + 1 : path'[i].domain = path'[j].domain => i = j
  <2>1. \A i, j \in 1..Len(path) : path[i].domain = path[j].domain => i = j
    BY DEF PathInLimits
  <2>2. \A i \in 1..Len(path) + 1 : i = Len(path) + 1 \/ i \in 1..Len(path)
    BY <1>1
  <2> SUFFICES ASSUME NEW i \in 1..Len(path) + 1, NEW j \in 1..Len(path) + 1,
                      path'[i].domain = path'[j].domain
               PROVE  i = j
    OBVIOUS
  <2>3. /\ path'[i].domain = IF i = Len(path) + 1 THEN d ELSE path[i].domain
        /\ path'[j].domain = IF j = Len(path) + 1 THEN d ELSE path[j].domain
    BY <1>7
  <2>4. CASE i = Len(path) + 1
    BY <1>4, <2>2, <2>3, <2>4
  <2>5. CASE j = Len(path) + 1
    BY <1>4, <2>2, <2>3, <2>5
  <2>6. CASE i # Len(path) + 1 /\ j # Len(path) + 1
    BY <2>1, <2>2, <2>3, <2>6
  <2> QED
    BY <2>4, <2>5, <2>6
<1> QED
  BY <1>5, <1>6, <1>8

LEMMA AscendedPath ==
    ASSUME PathIsCounted, PathInLimits, Ascend
    PROVE  /\ path' \in Seq(Visit)
           /\ Len(path') = Len(path) - 1
           /\ \A i, j \in 1..Len(path') : path'[i].domain = path'[j].domain => i = j
<1>1. Len(path) \in Nat \ {0}
  BY EmptySeq, LenProperties DEF PathIsCounted, Ascend
<1>2. PICK n \in Nat : n = Len(path) - 1
  BY <1>1
<1>3. \A i \in 1..n : path[i] \in Visit
  BY <1>1, <1>2, ElementOfSeq DEF PathIsCounted
<1>4. n \in Int /\ 1 \in Int /\ (IF 1 <= n THEN n - 1 + 1 ELSE 0) = n
      /\ \A i \in 1..n - 1 + 1 : i \in 1..n /\ 1 + i - 1 = i
  OBVIOUS
<1>5. /\ SubSeq(path, 1, n) \in Seq(Visit) /\ Len(SubSeq(path, 1, n)) = n
      /\ \A i \in 1..n : SubSeq(path, 1, n)[i] = path[i]
  BY <1>3, <1>4, SubSeqProperties
<1>6. path' = SubSeq(path, 1, n)
  BY <1>2 DEF Ascend
<1> QED
  BY <1>1, <1>2, <1>5, <1>6 DEF PathInLimits

-----------------------------------------------------------------------------
\* Each kind of step keeps the counts, the limits and the price of a cut-off.
LEMMA WalkKept == WalkInv /\ [AnalysisNext]_analysisVars => WalkInv'
<1> SUFFICES ASSUME WalkInv, [AnalysisNext]_analysisVars PROVE WalkInv'
  OBVIOUS
<1> USE SpfAssumption, AnalyzeAssumption
    DEF WalkInv, PathIsCounted, PathInLimits, CutOffIsPaid
<1>1. CASE Rest
  BY <1>1 DEF Rest
<1>2. CASE Begin
  <2>1. Root \in Domains
    BY DEF Root
  <2> DEFINE first == [domain |-> Root, at |-> 1]
  <2>2. first \in Visit
    BY <2>1 DEF Visit
  <2> HIDE DEF first
  <2>3. path' \in {<<>>, <<first>>}
    BY <1>2 DEF Begin, first
  <2>4. /\ <<>> \in Seq(Visit) /\ Len(<<>>) = 0
        /\ <<first>> \in Seq(Visit) /\ Len(<<first>>) = 1
    BY <2>2
  <2>5. path' \in Seq(Visit) /\ Len(path') \in Nat /\ Len(path') <= 1
    <3>1. \A n : n = 0 \/ n = 1 => n \in Nat /\ n <= 1
      OBVIOUS
    <3>2. path' = <<>> \/ path' = <<first>>
      BY <2>3
    <3>3. path' \in Seq(Visit) /\ (Len(path') = 0 \/ Len(path') = 1)
      BY <2>4, <3>2, Zenon
    <3>4. QED
      BY <3>1, <3>3, Zenon
  <2>6. nodes' = nodes /\ total' = total /\ cutOff' = cutOff
    BY <1>2 DEF Begin
  <2>7. PathIsCounted'
    BY <2>5, <2>6
  <2>8. \A i, j \in 1..Len(path') : i = j
    BY <2>5
  <2>9. PathInLimits'
    BY <2>5, <2>6, <2>8
  <2>10. QED
    BY <2>6, <2>7, <2>9
<1>3. CASE Move
  <2>1. path' \in Seq(Visit) /\ Len(path') = Len(path)
        /\ \A i, j \in 1..Len(path') : path'[i].domain = path'[j].domain => i = j
    BY <1>3, MovedPath DEF Move
  <2>2. QED
    BY <1>3, <2>1 DEF Move
<1>4. CASE CutOff
  <2>1. path' \in Seq(Visit) /\ Len(path') = Len(path)
        /\ \A i, j \in 1..Len(path') : path'[i].domain = path'[j].domain => i = j
    BY <1>4, MovedPath DEF CutOff
  <2>2. Len(path) \in Nat /\ (Len(path) > MaxDepth \/ nodes >= MaxNodes)
    BY <1>4, LenProperties DEF CutOff, LimitReached
  <2>3. total' > MaxDepth \/ total' > MaxNodes
    BY <1>4, <2>2 DEF CutOff
  <2>4. QED
    BY <1>4, <2>1, <2>3 DEF CutOff
<1>5. CASE Descend
  <2>1. path' \in Seq(Visit) /\ Len(path') = Len(path) + 1
        /\ \A i, j \in 1..Len(path') : path'[i].domain = path'[j].domain => i = j
    BY <1>5, DescendedPath
  <2>2. Len(path) \in Nat /\ Len(path) <= MaxDepth /\ nodes < MaxNodes
    BY <1>5, LenProperties DEF Descend, LimitReached
  <2>3. nodes' = nodes + 1 /\ total' = total + 1 /\ cutOff' = cutOff
    BY <1>5 DEF Descend
  <2>4. PathIsCounted'
    BY <2>1, <2>2, <2>3
  <2>5. PathInLimits'
    BY <2>1, <2>2, <2>3, SpfAssumption, AnalyzeAssumption
  <2>6. CutOffIsPaid'
    BY <2>3
  <2>7. QED
    BY <2>3, <2>4, <2>5, <2>6
<1>6. CASE Ascend
  <2>1. path' \in Seq(Visit) /\ Len(path') = Len(path) - 1
        /\ \A i, j \in 1..Len(path') : path'[i].domain = path'[j].domain => i = j
    BY <1>6, AscendedPath
  <2>2. Len(path) \in Nat
    BY LenProperties
  <2>3. nodes' = nodes /\ total' = total /\ cutOff' = cutOff
    BY <1>6 DEF Ascend
  <2>4. QED
    BY <2>1, <2>2, <2>3
<1>7. QED
  BY <1>1, <1>2, <1>3, <1>4, <1>5, <1>6, NextSteps DEF Steps

LEMMA WalkInvariant == AnalysisSpec => []WalkInv
<1>1. AnalysisInit => WalkInv
  BY SpfAssumption, AnalyzeAssumption, EmptySeq
     DEF AnalysisInit, WalkInv, PathIsCounted, PathInLimits, CutOffIsPaid
<1> QED
  BY <1>1, WalkKept, PTL DEF AnalysisSpec

-----------------------------------------------------------------------------
\* What the analysis leaves out because a limit stopped it (analyze.go: follow)
\* was paid for: more lookups were counted than the smaller of the limits
\* allows, for every tree of records.
THEOREM CutOffIsCounted == AnalysisSpec => []CutOffIsPaid
<1>1. WalkInv => CutOffIsPaid
  BY DEF WalkInv
<1> QED
  BY <1>1, WalkInvariant, PTL

\* No policy makes the walk longer than the limits: at any moment the records
\* it is in are different domains, at most MaxDepth below the first, and it
\* has retrieved at most MaxNodes targets.
THEOREM WalkStaysInLimits == AnalysisSpec => []PathInLimits
<1>1. WalkInv => PathInLimits
  BY DEF WalkInv
<1> QED
  BY <1>1, WalkInvariant, PTL

-----------------------------------------------------------------------------
(* What is noted                                                           *)

Finding == [rule : Rules, severity : Nat]

LEMMA RuleFacts ==
    /\ \A rule \in Rules : Severity[rule] \in Nat
    /\ {"DNSLookupFailed", "SPFMissing", "SPFMultiple", "SPFSyntax", "SPFLoop", "SPFLookupLimit",
        "SPFVoidLimit", "SPFPassAll", "SPFNeutralAll", "SPFSoftFailAll", "SPFNoAll", "SPFBroadRange",
        "SPFPTR", "SPFIncludeNoRecord", "SPFTempError", "SPFTermsAfterAll", "SPFRedirectIgnored",
        "SPFLookupsNearLimit", "SPFMXLimit", "SPFValid", "SPFDynamic", "SPFVoidTarget"} \subseteq Rules
BY DEF Rules, Severity

LEMMA Ruled == \A rule \in Rules : AsRuled(rule) \in Finding /\ AsRuled(rule).rule = rule
BY RuleFacts DEF AsRuled, Finding

\* Those of a sequence of findings that pass a test are finitely many.
LEMMA FewFindings ==
    ASSUME NEW fs \in Seq(Finding), NEW T \in SUBSET (1..Len(fs))
    PROVE  IsFiniteSet(T) /\ Cardinality(T) \in Nat /\ (Cardinality(T) = 0 <=> T = {})
<1>1. Len(fs) \in Int /\ 1 \in Int
  BY LenProperties
<1>2. IsFiniteSet(1..Len(fs))
  BY <1>1, FS_Interval
<1>3. IsFiniteSet(T)
  BY <1>2, FS_Subset
<1> QED
  BY <1>3, FS_CardinalityType, FS_EmptySet

\* No count is ever taken back.
LEMMA AddedKeeps ==
    ASSUME NEW n, n.count \in [Rules -> Nat], NEW fs \in Seq(Finding)
    PROVE  /\ Added(n, fs).count \in [Rules -> Nat]
           /\ \A r \in Rules : n.count[r] <= Added(n, fs).count[r]
<1> DEFINE new(r) == Cardinality({i \in Admitted(n, fs) : fs[i].rule = r})
<1>1. \A r : new(r) \in Nat
  <2> TAKE r
  <2>1. {i \in Admitted(n, fs) : fs[i].rule = r} \in SUBSET (1..Len(fs))
    BY LenProperties DEF Admitted
  <2> QED
    BY <2>1, FewFindings
<1>2. Added(n, fs).count = [r \in Rules |-> n.count[r] + new(r)]
  BY DEF Added
<1> HIDE DEF new
<1>3. \A r \in Rules : n.count[r] \in Nat /\ n.count[r] + new(r) \in Nat /\ n.count[r] <= n.count[r] + new(r)
  BY <1>1
<1> QED
  BY <1>2, <1>3

\* The first finding of its rule is in the report.
LEMMA AddedFirst ==
    ASSUME NEW n, n.count \in [Rules -> Nat], NEW fs \in Seq(Finding), NEW i \in 1..Len(fs),
           \A j \in 1..i - 1 : fs[j].rule # fs[i].rule
    PROVE  Added(n, fs).count[fs[i].rule] > 0
<1> DEFINE r == fs[i].rule
           new == {k \in Admitted(n, fs) : fs[k].rule = r}
<1>1. r \in Rules /\ n.count[r] \in Nat
  <2>1. fs[i] \in Finding
    BY ElementOfSeq
  <2>2. r \in Rules
    BY <2>1 DEF Finding
  <2> QED
    BY <2>2
<1>2. {j \in 1..i - 1 : fs[j].rule = fs[i].rule} = {}
  OBVIOUS
<1>3. n.count[r] = 0 => i \in new
  <2>1. Cardinality({}) = 0
    BY FS_EmptySet
  <2>2. MaxPerRule \in Nat \ {0} /\ i \in DOMAIN fs
    BY AnalyzeAssumption, LenProperties
  <2>3. n.count[r] = 0 => n.count[fs[i].rule] + 0 < MaxPerRule
    BY <2>2
  <2> QED
    BY <1>2, <2>1, <2>2, <2>3 DEF Admitted
<1>4. new \in SUBSET (1..Len(fs))
  BY LenProperties DEF Admitted
<1>5. Cardinality(new) \in Nat /\ (Cardinality(new) = 0 => new = {})
  BY <1>4, FewFindings
<1>6. Added(n, fs).count[r] = n.count[r] + Cardinality(new)
  BY <1>1 DEF Added
<1> HIDE DEF new, r
<1>7. n.count[r] + Cardinality(new) > 0
  BY <1>1, <1>3, <1>5
<1> QED
  BY <1>6, <1>7 DEF r

\* What a step notes, if it notes anything.
CountsKept ==
    /\ noted'.count \in [Rules -> Nat]
    /\ \A r \in Rules : noted.count[r] > 0 => noted'.count[r] > 0

LEMMA NoteKeeps ==
    ASSUME noted.count \in [Rules -> Nat], NEW fs \in Seq(Finding), Note(fs)
    PROVE  CountsKept
<1> DEFINE counts == Added(noted, fs).count
<1>1. counts \in [Rules -> Nat] /\ \A r \in Rules : noted.count[r] <= counts[r]
  BY AddedKeeps
<1>2. noted'.count = counts
  BY DEF Note
<1> HIDE DEF counts
<1>3. \A r \in Rules : noted.count[r] > 0 => counts[r] > 0
  BY <1>1
<1> QED
  BY <1>1, <1>2, <1>3 DEF CountsKept

LEMMA IfNoted ==
    /\ <<>> \in Seq(Finding)
    /\ \A f \in Finding : <<f>> \in Seq(Finding) /\ \A c : If(c, f) \in Seq(Finding)
BY DEF If

LEMMA BothNoted ==
    ASSUME NEW fs \in Seq(Finding), NEW gs \in Seq(Finding)
    PROVE  fs \o gs \in Seq(Finding)
BY ConcatProperties

LEMMA RemarksNoted ==
    /\ AfterAllRemarks \in Seq(Finding)
    /\ \A i \in 1..Len(AfterAllRemarks) : AfterAllRemarks[i].rule = "SPFTermsAfterAll"
    /\ \A q : AllRemarks(q) \in Seq(Finding)
<1>1. \A r \in Rules : <<AsRuled(r)>> \in Seq(Finding) /\ \A c : If(c, AsRuled(r)) \in Seq(Finding)
  BY Ruled, IfNoted
<1>2. AfterAllRemarks \in Seq(Finding)
  BY <1>1, RuleFacts DEF AfterAllRemarks
<1>3. \A i \in 1..Len(AfterAllRemarks) : AfterAllRemarks[i].rule = "SPFTermsAfterAll"
  <2>1. AfterAllRemarks = <<AsRuled("SPFTermsAfterAll")>> \/ AfterAllRemarks = <<>>
    BY DEF AfterAllRemarks, If
  <2>2. AsRuled("SPFTermsAfterAll").rule = "SPFTermsAfterAll"
    BY DEF AsRuled
  <2> QED
    BY <2>1, <2>2
<1>4. ASSUME NEW q PROVE AllRemarks(q) \in Seq(Finding)
  BY <1>1, RuleFacts, BothNoted DEF AllRemarks
<1> QED
  BY <1>2, <1>3, <1>4

\* One more finding after remarks of other rules is in the report.
LEMMA NotedAfter ==
    ASSUME noted.count \in [Rules -> Nat], NEW before \in Seq(Finding), NEW f \in Finding,
           \A i \in 1..Len(before) : before[i].rule # f.rule,
           Note(before \o <<f>>)
    PROVE  CountsKept /\ noted'.count[f.rule] > 0
<1> DEFINE fs == before \o <<f>>
           n == Len(before) + 1
<1>1. <<f>> \in Seq(Finding) /\ Len(<<f>>) = 1 /\ <<f>>[1] = f /\ Len(before) \in Nat
  OBVIOUS
<1>2. /\ fs \in Seq(Finding) /\ Len(fs) = Len(before) + 1
      /\ \A i \in 1..Len(before) + 1 : fs[i] = IF i <= Len(before) THEN before[i] ELSE <<f>>[i - Len(before)]
  BY <1>1, ConcatProperties
<1> HIDE DEF fs
<1>3. n \in 1..Len(fs) /\ fs[n] = f
  BY <1>1, <1>2
<1>4. \A i \in 1..n - 1 : fs[i].rule # fs[n].rule
  BY <1>1, <1>2, <1>3
<1>5. Added(noted, fs).count[f.rule] > 0
  <2> HIDE DEF n
  <2> QED
    BY <1>2, <1>3, <1>4, AddedFirst
<1>6. Note(fs)
  BY DEF fs
<1> QED
  BY <1>2, <1>5, <1>6, NoteKeeps DEF Note

LEMMA NotedAlone ==
    ASSUME noted.count \in [Rules -> Nat], NEW f \in Finding, Note(<<f>>)
    PROVE  CountsKept /\ noted'.count[f.rule] > 0
<1>1. <<f>> \in Seq(Finding) /\ Len(<<f>>) = 1 /\ <<f>>[1] = f /\ 1 \in 1..1
  OBVIOUS
<1>2. Added(noted, <<f>>).count[<<f>>[1].rule] > 0
  <2>1. \A j \in 1..1 - 1 : <<f>>[j].rule # <<f>>[1].rule
    OBVIOUS
  <2> QED
    BY <1>1, <2>1, AddedFirst
<1> QED
  BY <1>1, <1>2, NoteKeeps DEF Note

-----------------------------------------------------------------------------
(* A log of the walk: for each value the path has had, what total was then. *)
(* These operators take the zone z as an argument.                         *)

At(v) == v[Len(v)].at
RecordAt(z, v) == z[v[Len(v)].domain]
Live(z, v) == ~AllSeen(RecordAt(z, v), At(v))
InTerms(z, v) == At(v) \in 1..Len(RecordAt(z, v).terms)
AtRedirect(z, v) == At(v) = Len(RecordAt(z, v).terms) + 1 /\ RecordAt(z, v).redirect # NoRedirect

\* The term at v costs a lookup; it leads to the target t.
Costs(z, v) ==
    /\ Live(z, v)
    /\ \/ InTerms(z, v) /\ RecordAt(z, v).terms[At(v)].kind \in {"include", "ptr", "host", "exists"}
       \/ AtRedirect(z, v)
Cost(z, v) == IF Costs(z, v) THEN 1 ELSE 0
Leads(z, v, t) ==
    /\ Live(z, v)
    /\ \/ /\ InTerms(z, v) /\ RecordAt(z, v).terms[At(v)].kind = "include"
          /\ t \in Meant(RecordAt(z, v).terms[At(v)].target, NoClient)
       \/ AtRedirect(z, v) /\ t \in Meant(RecordAt(z, v).redirect, NoClient)

\* Neither the walk nor an evaluation reads a record of t from v.
Unread(z, v, t) ==
    \/ t = BadName
    \/ \E i \in 1..Len(v) : v[i].domain = t
    \/ Len(v) > MaxDepth
    \/ t \in Domains /\ z[t] \in {NoRecord, Several, Malformed}

NextOf(v) == [v EXCEPT ![Len(v)] = [domain |-> v[Len(v)].domain, at |-> v[Len(v)].at + 1]]
Back(v) == SubSeq(v, 1, Len(v) - 1)
Child(v, t) == Append(NextOf(v), [domain |-> t, at |-> 1])

\* The path p is inside a target of the record that u is a path to.
Under(p, u) == \E k \in 1..Len(p) - 1 : u = SubSeq(p, 1, k)
Reached(H, v, m) == \E k \in Nat : m <= k /\ <<v, k>> \in H

\* From every place on the log the walk went on, into the target if there was
\* one to read and back from it, and counted what each term costs. Only what
\* the current path p is inside of is not finished.
LogEntry(H, z, p, n, v, m) ==
    /\ v \in Seq(Visit) /\ v # <<>>
    /\ m \in Nat /\ m <= n
    /\ RecordAt(z, v) \in Records
    /\ Len(v) > 1 => Under(p, Back(v)) \/ Reached(H, Back(v), m)
    /\ At(v) <= Len(RecordAt(z, v).terms) + 1 =>
         \/ v = p
         \/ m + Cost(z, v) <= n /\ Under(p, NextOf(v))
         \/ Reached(H, NextOf(v), m + Cost(z, v))
    /\ \A t : Leads(z, v, t) => v = p \/ Unread(z, v, t) \/ Reached(H, Child(v, t), m + 1)
Log(H, z, p, n) ==
    /\ p \in Seq(Visit) /\ n \in Nat
    /\ \A i \in 1..Len(p) : z[p[i].domain] \in Records
    /\ p # <<>> => <<p, n>> \in H
    /\ \A e \in H : e = <<e[1], e[2]>> /\ LogEntry(H, z, p, n, e[1], e[2])

\* Facts about paths.
LEMMA NextFacts ==
    ASSUME NEW v \in Seq(Visit), v # <<>>
    PROVE  /\ Len(v) \in Nat \ {0} /\ v[Len(v)] \in Visit /\ At(v) \in Nat \ {0}
           /\ NextOf(v) \in Seq(Visit) /\ Len(NextOf(v)) = Len(v) /\ NextOf(v) # <<>>
           /\ \A i \in 1..Len(v) : NextOf(v)[i] = IF i = Len(v)
                  THEN [domain |-> v[Len(v)].domain, at |-> v[Len(v)].at + 1] ELSE v[i]
           /\ At(NextOf(v)) = At(v) + 1
           /\ \A i \in 1..Len(v) : NextOf(v)[i].domain = v[i].domain
<1>1. Len(v) \in Nat \ {0} /\ Len(v) \in 1..Len(v)
  BY EmptySeq
<1>2. v[Len(v)] \in Visit
  BY <1>1, ElementOfSeq
<1> DEFINE next == [domain |-> v[Len(v)].domain, at |-> v[Len(v)].at + 1]
<1>3. next \in Visit /\ next.domain = v[Len(v)].domain /\ next.at = v[Len(v)].at + 1
  BY <1>2 DEF Visit
<1>4. NextOf(v) = [v EXCEPT ![Len(v)] = next]
  BY DEF NextOf
<1>5. At(v) \in Nat \ {0}
  BY <1>2 DEF At, Visit
<1> HIDE DEF next
<1>6. /\ NextOf(v) \in Seq(Visit) /\ Len(NextOf(v)) = Len(v)
      /\ \A i \in 1..Len(v) : NextOf(v)[i] = IF i = Len(v) THEN next ELSE v[i]
  BY <1>1, <1>3, <1>4, ExceptSeq
<1>7. NextOf(v) # <<>>
  BY <1>1, <1>6, EmptySeq
<1>8. At(NextOf(v)) = At(v) + 1 /\ \A i \in 1..Len(v) : NextOf(v)[i].domain = v[i].domain
  BY <1>1, <1>3, <1>6 DEF At
<1> QED
  BY <1>1, <1>2, <1>5, <1>6, <1>7, <1>8 DEF next

LEMMA BackFacts ==
    ASSUME NEW v \in Seq(Visit), NEW k \in 0..Len(v)
    PROVE  /\ SubSeq(v, 1, k) \in Seq(Visit) /\ Len(SubSeq(v, 1, k)) = k
           /\ \A i \in 1..k : SubSeq(v, 1, k)[i] = v[i]
           /\ (k = 0 => SubSeq(v, 1, k) = <<>>) /\ (k > 0 => SubSeq(v, 1, k) # <<>>)
<1>1. k \in Int /\ 1 \in Int /\ Len(v) \in Nat /\ (IF 1 <= k THEN k - 1 + 1 ELSE 0) = k
  OBVIOUS
<1>2. \A i \in 1..k : i \in 1..Len(v) /\ 1 + i - 1 = i /\ i \in 1..k - 1 + 1
  BY <1>1
<1>3. \A i \in 1..k : v[i] \in Visit
  BY <1>2, ElementOfSeq
<1>4. /\ SubSeq(v, 1, k) \in Seq(Visit) /\ Len(SubSeq(v, 1, k)) = k
      /\ \A i \in 1..k : SubSeq(v, 1, k)[i] = v[i]
  BY <1>1, <1>2, <1>3, SubSeqProperties
<1>5. k = 0 <=> SubSeq(v, 1, k) = <<>>
  BY <1>4, EmptySeq
<1> QED
  BY <1>1, <1>4, <1>5

LEMMA ChildFacts ==
    ASSUME NEW v \in Seq(Visit), v # <<>>, NEW t \in Domains
    PROVE  /\ Child(v, t) \in Seq(Visit) /\ Len(Child(v, t)) = Len(v) + 1 /\ Child(v, t) # <<>>
           /\ \A i \in 1..Len(v) + 1 : Child(v, t)[i] =
                  IF i = Len(v) + 1 THEN [domain |-> t, at |-> 1] ELSE NextOf(v)[i]
           /\ Back(Child(v, t)) = NextOf(v)
           /\ \A u : Under(Child(v, t), u) <=> u = NextOf(v) \/ Under(v, u)
<1>1. [domain |-> t, at |-> 1] \in Visit
  BY DEF Visit
<1>2. NextOf(v) \in Seq(Visit) /\ Len(NextOf(v)) = Len(v) /\ Len(v) \in Nat \ {0}
      /\ \A i \in 1..Len(v) - 1 : NextOf(v)[i] = v[i]
  <2>1. /\ NextOf(v) \in Seq(Visit) /\ Len(NextOf(v)) = Len(v) /\ Len(v) \in Nat \ {0}
        /\ \A i \in 1..Len(v) : NextOf(v)[i] = IF i = Len(v)
              THEN [domain |-> v[Len(v)].domain, at |-> v[Len(v)].at + 1] ELSE v[i]
    BY NextFacts
  <2> QED
    BY <2>1
<1> DEFINE c == Child(v, t)
           new == [domain |-> t, at |-> 1]
<1>3. c = Append(NextOf(v), new)
  BY DEF Child
<1>4. new \in Visit
  BY <1>1
<1> HIDE DEF new, c
<1>5. /\ c \in Seq(Visit) /\ c # <<>> /\ Len(c) = Len(v) + 1
      /\ \A i \in 1..Len(v) : c[i] = NextOf(v)[i]
      /\ c[Len(v) + 1] = new
  BY <1>2, <1>3, <1>4, AppendProperties
<1>6. \A i \in 1..Len(v) + 1 : c[i] = IF i = Len(v) + 1 THEN new ELSE NextOf(v)[i]
  BY <1>2, <1>5
<1>7. ASSUME NEW k \in 1..Len(v) - 1 PROVE SubSeq(c, 1, k) = SubSeq(v, 1, k)
  <2>1. k \in 0..Len(c) /\ k \in 0..Len(v) /\ \A i \in 1..k : i \in 1..Len(v) - 1 /\ i \in 1..Len(v)
    BY <1>2, <1>5
  <2>2. /\ SubSeq(c, 1, k) \in Seq(Visit) /\ Len(SubSeq(c, 1, k)) = k
        /\ \A i \in 1..k : SubSeq(c, 1, k)[i] = c[i]
    BY <1>5, <2>1, BackFacts
  <2>3. /\ SubSeq(v, 1, k) \in Seq(Visit) /\ Len(SubSeq(v, 1, k)) = k
        /\ \A i \in 1..k : SubSeq(v, 1, k)[i] = v[i]
    BY <2>1, BackFacts
  <2>4. \A i \in 1..k : c[i] = v[i]
    BY <1>2, <1>5, <2>1
  <2> QED
    BY <2>2, <2>3, <2>4, SeqEqual
<1>8. SubSeq(c, 1, Len(v)) = NextOf(v)
  <2>1. Len(v) \in 0..Len(c)
    BY <1>2, <1>5
  <2>2. /\ SubSeq(c, 1, Len(v)) \in Seq(Visit) /\ Len(SubSeq(c, 1, Len(v))) = Len(v)
        /\ \A i \in 1..Len(v) : SubSeq(c, 1, Len(v))[i] = c[i]
    BY <1>5, <2>1, BackFacts
  <2> QED
    BY <1>2, <1>5, <2>2, SeqEqual
<1>9. Back(c) = NextOf(v)
  <2>1. Len(c) - 1 = Len(v)
    BY <1>2, <1>5
  <2> QED
    BY <1>8, <2>1 DEF Back
<1>10. ASSUME NEW u PROVE Under(c, u) <=> u = NextOf(v) \/ Under(v, u)
  <2>1. /\ 1..Len(c) - 1 = 1..Len(v)
        /\ Len(v) \in 1..Len(v)
        /\ \A k \in 1..Len(v) : k = Len(v) \/ k \in 1..Len(v) - 1
        /\ \A k \in 1..Len(v) - 1 : k \in 1..Len(v)
    BY <1>2, <1>5
  <2> QED
    BY <1>7, <1>8, <2>1 DEF Under
<1> QED
  BY <1>5, <1>6, <1>9, <1>10 DEF c, new

\* What a path is inside of, when its innermost record goes on or is done.
LEMMA UnderNext ==
    ASSUME NEW p \in Seq(Visit), p # <<>>
    PROVE  /\ \A u : Under(NextOf(p), u) <=> Under(p, u)
           /\ Back(NextOf(p)) = Back(p)
<1>1. /\ NextOf(p) \in Seq(Visit) /\ Len(NextOf(p)) = Len(p) /\ Len(p) \in Nat \ {0}
      /\ \A i \in 1..Len(p) : i # Len(p) => NextOf(p)[i] = p[i]
  BY NextFacts
<1>2. ASSUME NEW k \in 0..Len(p) - 1 PROVE SubSeq(NextOf(p), 1, k) = SubSeq(p, 1, k)
  <2>1. k \in 0..Len(p) /\ \A i \in 1..k : i \in 1..Len(p) /\ i # Len(p)
    BY <1>1
  <2>2. /\ SubSeq(p, 1, k) \in Seq(Visit) /\ Len(SubSeq(p, 1, k)) = k
        /\ \A i \in 1..k : SubSeq(p, 1, k)[i] = p[i]
    BY <2>1, BackFacts
  <2>3. /\ SubSeq(NextOf(p), 1, k) \in Seq(Visit) /\ Len(SubSeq(NextOf(p), 1, k)) = k
        /\ \A i \in 1..k : SubSeq(NextOf(p), 1, k)[i] = NextOf(p)[i]
    BY <1>1, <2>1, BackFacts
  <2> QED
    BY <1>1, <2>1, <2>2, <2>3, SeqEqual
<1>3. \A k \in 1..Len(p) - 1 : k \in 0..Len(p) - 1
  OBVIOUS
<1>4. \A u : Under(NextOf(p), u) <=> Under(p, u)
  BY <1>1, <1>2, <1>3 DEF Under
<1>5. Len(p) - 1 \in 0..Len(p) - 1
  BY <1>1
<1> QED
  BY <1>1, <1>2, <1>4, <1>5 DEF Back

LEMMA UnderBack ==
    ASSUME NEW p \in Seq(Visit), p # <<>>
    PROVE  /\ Len(p) > 1 => Under(p, Back(p))
           /\ \A u : Under(p, u) => (u = Back(p) /\ Len(p) > 1) \/ Under(Back(p), u)
<1>1. Len(p) \in Nat \ {0}
  BY EmptySeq
<1>2. Len(p) > 1 => Len(p) - 1 \in 1..Len(p) - 1
  BY <1>1
<1>3. Len(Back(p)) = Len(p) - 1
  <2>1. Len(p) - 1 \in 0..Len(p)
    BY <1>1
  <2> QED
    BY <2>1, BackFacts DEF Back
<1>4. ASSUME NEW k \in 1..Len(p) - 2
      PROVE  k \in 1..Len(Back(p)) - 1 /\ SubSeq(Back(p), 1, k) = SubSeq(p, 1, k)
  <2> DEFINE b == SubSeq(p, 1, Len(p) - 1)
  <2>1. Len(p) - 1 \in 0..Len(p) /\ k \in 0..Len(p) - 1 /\ k \in 0..Len(p)
        /\ \A i \in 1..k : i \in 1..Len(p) - 1
    BY <1>1
  <2>2. /\ b \in Seq(Visit) /\ Len(b) = Len(p) - 1
        /\ \A i \in 1..Len(p) - 1 : b[i] = p[i]
    BY <2>1, BackFacts
  <2> HIDE DEF b
  <2>3. /\ SubSeq(p, 1, k) \in Seq(Visit) /\ Len(SubSeq(p, 1, k)) = k
        /\ \A i \in 1..k : SubSeq(p, 1, k)[i] = p[i]
    BY <2>1, BackFacts
  <2>4. /\ SubSeq(b, 1, k) \in Seq(Visit) /\ Len(SubSeq(b, 1, k)) = k
        /\ \A i \in 1..k : SubSeq(b, 1, k)[i] = b[i]
    BY <2>1, <2>2, BackFacts
  <2>5. SubSeq(b, 1, k) = SubSeq(p, 1, k)
    BY <2>1, <2>2, <2>3, <2>4, SeqEqual
  <2>6. k \in 1..Len(Back(p)) - 1
    BY <1>1, <1>3
  <2> QED
    BY <2>5, <2>6 DEF b, Back
<1>5. ASSUME NEW u, Under(p, u) PROVE (u = Back(p) /\ Len(p) > 1) \/ Under(Back(p), u)
  <2>1. PICK k \in 1..Len(p) - 1 : u = SubSeq(p, 1, k)
    BY <1>5 DEF Under
  <2>2. Len(p) > 1 /\ (k = Len(p) - 1 \/ k \in 1..Len(p) - 2)
    BY <1>1
  <2>3. CASE k = Len(p) - 1
    BY <2>1, <2>2, <2>3 DEF Back
  <2>4. CASE k \in 1..Len(p) - 2
    BY <1>4, <2>1, <2>4 DEF Under
  <2> QED
    BY <2>2, <2>3, <2>4
<1> QED
  BY <1>2, <1>5 DEF Under, Back

LEMMA ReachedLess ==
    ASSUME NEW H, NEW G, H \subseteq G, NEW v, NEW m, Reached(H, v, m)
    PROVE  Reached(G, v, m)
BY DEF Reached

\* The log when the zone becomes better known.
LEMMA LogGrows ==
    ASSUME NEW H, NEW z, NEW y, NEW p, NEW n, Log(H, z, p, n),
           \A d \in Domains : z[d] \in Published => y[d] = z[d]
    PROVE  Log(H, y, p, n)
<1>1. \A i \in 1..Len(p) : y[p[i].domain] \in Records
  <2> SUFFICES ASSUME NEW i \in 1..Len(p) PROVE y[p[i].domain] \in Records
    OBVIOUS
  <2>1. p \in Seq(Visit)
    BY DEF Log
  <2>2. p[i] \in Visit
    BY <2>1, ElementOfSeq
  <2>3. p[i].domain \in Domains /\ z[p[i].domain] \in Records
    BY <2>2 DEF Log, Visit
  <2> QED
    BY <2>3 DEF Published
<1>2. ASSUME NEW v, NEW m, LogEntry(H, z, p, n, v, m) PROVE LogEntry(H, y, p, n, v, m)
  <2>1. v[Len(v)].domain \in Domains
    BY <1>2, NextFacts DEF LogEntry, Visit
  <2>2. RecordAt(y, v) = RecordAt(z, v)
    BY <1>2, <2>1 DEF LogEntry, RecordAt, Published
  <2>3. Cost(y, v) = Cost(z, v) /\ \A t : Leads(y, v, t) <=> Leads(z, v, t)
    BY <2>2 DEF Cost, Costs, Leads, Live, InTerms, AtRedirect
  <2>4. \A t : Unread(z, v, t) => Unread(y, v, t)
    BY DEF Unread, Published
  <2> QED
    BY <1>2, <2>2, <2>3, <2>4 DEF LogEntry
<1> QED
  BY <1>1, <1>2 DEF Log

\* How the log grows in a step of the walk: what an old entry says stays true
\* if what the path was inside of is finished now or the new path is inside of
\* it as well, and if the step itself is one the log allows.
LEMMA LogStep ==
    ASSUME NEW H, NEW z, NEW p, NEW n, Log(H, z, p, n),
           NEW q \in Seq(Visit), NEW l \in Nat, n <= l,
           \A i \in 1..Len(q) : z[q[i].domain] \in Records,
           NEW G, G = H \cup (IF q = <<>> THEN {} ELSE {<<q, l>>}),
           \A u : Under(p, u) => Under(q, u) \/ (u = q /\ q # <<>>),
           ASSUME NEW m \in Nat, m <= n, p # <<>>
           PROVE  /\ At(p) <= Len(RecordAt(z, p).terms) + 1 =>
                       \/ m + Cost(z, p) <= l /\ Under(q, NextOf(p))
                       \/ Reached(G, NextOf(p), m + Cost(z, p))
                  /\ \A t : Leads(z, p, t) => Unread(z, p, t) \/ Reached(G, Child(p, t), m + 1)
    PROVE  Log(G, z, q, l)
<1>1. H \subseteq G /\ n \in Nat
  BY DEF Log
<1>2. \A u, m : q # <<>> /\ u = q /\ m <= l => Reached(G, u, m)
  BY DEF Reached
<1>3. ASSUME NEW v, NEW m, LogEntry(H, z, p, n, v, m) PROVE LogEntry(G, z, q, l, v, m)
  <2>1. /\ v \in Seq(Visit) /\ v # <<>> /\ m \in Nat /\ m <= n /\ m <= l
        /\ RecordAt(z, v) \in Records
    BY <1>1, <1>3 DEF LogEntry
  <2>2. Len(v) > 1 => Under(q, Back(v)) \/ Reached(G, Back(v), m)
    BY <1>1, <1>2, <1>3, <2>1, ReachedLess DEF LogEntry
  <2>3. ASSUME At(v) <= Len(RecordAt(z, v).terms) + 1
        PROVE  \/ m + Cost(z, v) <= l /\ Under(q, NextOf(v))
               \/ Reached(G, NextOf(v), m + Cost(z, v))
    <3>1. CASE v = p
      BY <2>1, <2>3, <3>1
    <3>2. CASE m + Cost(z, v) <= n /\ Under(p, NextOf(v))
      <4>1. m + Cost(z, v) <= l
        BY <1>1, <2>1, <3>2 DEF Cost
      <4>2. Under(q, NextOf(v)) \/ (NextOf(v) = q /\ q # <<>>)
        BY <3>2
      <4> QED
        BY <1>2, <4>1, <4>2, Zenon
    <3>3. CASE Reached(H, NextOf(v), m + Cost(z, v))
      BY <1>1, <3>3, ReachedLess
    <3> QED
      BY <1>3, <2>3, <3>1, <3>2, <3>3 DEF LogEntry
  <2>4. ASSUME NEW t, Leads(z, v, t) PROVE Unread(z, v, t) \/ Reached(G, Child(v, t), m + 1)
    <3>1. CASE v = p
      BY <2>1, <2>4, <3>1
    <3>2. CASE Reached(H, Child(v, t), m + 1)
      BY <1>1, <3>2, ReachedLess
    <3> QED
      BY <1>3, <2>4, <3>1, <3>2 DEF LogEntry
  <2> QED
    BY <2>1, <2>2, <2>3, <2>4 DEF LogEntry
<1>4. ASSUME q # <<>> PROVE LogEntry(G, z, q, l, q, l)
  <2>1. Len(q) \in Nat \ {0} /\ Len(q) \in 1..Len(q)
    BY <1>4, EmptySeq
  <2>2. RecordAt(z, q) \in Records
    BY <2>1 DEF RecordAt
  <2>3. Len(q) > 1 => Under(q, Back(q))
    BY <1>4, UnderBack
  <2> QED
    BY <1>4, <2>2, <2>3 DEF LogEntry
<1>5. q # <<>> => <<q, l>> \in G
  OBVIOUS
<1>6. ASSUME NEW e \in G PROVE e = <<e[1], e[2]>> /\ LogEntry(G, z, q, l, e[1], e[2])
  <2>1. CASE e \in H
    BY <1>3, <2>1 DEF Log
  <2>2. CASE q # <<>> /\ e = <<q, l>>
    BY <1>4, <2>2
  <2> QED
    BY <2>1, <2>2
<1> QED
  BY <1>5, <1>6 DEF Log

\* The walk goes on in a record: what the term costs was counted, and it was
\* not followed.
LEMMA LogMoves ==
    ASSUME NEW H, NEW z, NEW p, NEW n, Log(H, z, p, n), p # <<>>,
           NEW l \in Nat, n + Cost(z, p) <= l,
           \A t : Leads(z, p, t) => Unread(z, p, t)
    PROVE  Log(H \cup {<<NextOf(p), l>>}, z, NextOf(p), l)
<1> DEFINE q == NextOf(p)
           G == H \cup {<<q, l>>}
<1>1. p \in Seq(Visit) /\ n \in Nat /\ \A i \in 1..Len(p) : z[p[i].domain] \in Records
  BY DEF Log
<1>2. /\ q \in Seq(Visit) /\ Len(q) = Len(p) /\ q # <<>>
      /\ \A i \in 1..Len(p) : q[i].domain = p[i].domain
      /\ \A u : Under(q, u) <=> Under(p, u)
  BY <1>1, NextFacts, UnderNext
<1>3. Cost(z, p) \in {0, 1}
  BY DEF Cost
<1>4. \A m \in Nat : m <= n => Reached(G, q, m + Cost(z, p))
  BY <1>1, <1>3 DEF Reached
<1>5. n <= l
  BY <1>1, <1>3
<1>6. G = H \cup (IF q = <<>> THEN {} ELSE {<<q, l>>})
  BY <1>2
<1>7. \A i \in 1..Len(q) : z[q[i].domain] \in Records
  BY <1>1, <1>2
<1>8. ASSUME NEW m \in Nat, m <= n, p # <<>>
      PROVE  /\ At(p) <= Len(RecordAt(z, p).terms) + 1 =>
                  \/ m + Cost(z, p) <= l /\ Under(q, NextOf(p))
                  \/ Reached(G, NextOf(p), m + Cost(z, p))
             /\ \A t : Leads(z, p, t) => Unread(z, p, t) \/ Reached(G, Child(p, t), m + 1)
  BY <1>4, <1>8
<1>9. \A u : Under(p, u) => Under(q, u) \/ (u = q /\ q # <<>>)
  BY <1>2
<1> HIDE DEF q, G
<1>10. Log(G, z, q, l)
  BY <1>2, <1>5, <1>6, <1>7, <1>8, <1>9, LogStep
<1> QED
  BY <1>10 DEF q, G

\* The walk goes into a target.
LEMMA LogDescends ==
    ASSUME NEW H, NEW z, NEW p, NEW n, Log(H, z, p, n), p # <<>>,
           NEW t \in Domains, z[t] \in Records,
           \A u : Leads(z, p, u) => u = t
    PROVE  Log(H \cup {<<Child(p, t), n + 1>>}, z, Child(p, t), n + 1)
<1> DEFINE q == Child(p, t)
           l == n + 1
           G == H \cup {<<q, l>>}
<1>1. p \in Seq(Visit) /\ n \in Nat /\ \A i \in 1..Len(p) : z[p[i].domain] \in Records
  BY DEF Log
<1>2. /\ q \in Seq(Visit) /\ Len(q) = Len(p) + 1 /\ q # <<>> /\ Len(p) \in Nat
      /\ \A i \in 1..Len(p) + 1 : q[i] = IF i = Len(p) + 1 THEN [domain |-> t, at |-> 1] ELSE NextOf(p)[i]
      /\ \A u : Under(q, u) <=> u = NextOf(p) \/ Under(p, u)
      /\ \A i \in 1..Len(p) : NextOf(p)[i].domain = p[i].domain
  BY <1>1, ChildFacts, NextFacts
<1>3. Cost(z, p) \in {0, 1}
  BY DEF Cost
<1>4. l \in Nat /\ n <= l
  BY <1>1
<1>5. \A m \in Nat : m <= n => m + Cost(z, p) <= l /\ Reached(G, q, m + 1)
  BY <1>1, <1>3 DEF Reached
<1>6. G = H \cup (IF q = <<>> THEN {} ELSE {<<q, l>>})
  BY <1>2
<1>7. \A i \in 1..Len(q) : z[q[i].domain] \in Records
  <2> SUFFICES ASSUME NEW i \in 1..Len(q) PROVE z[q[i].domain] \in Records
    OBVIOUS
  <2>1. CASE i = Len(p) + 1
    BY <1>2, <2>1
  <2>2. CASE i \in 1..Len(p)
    BY <1>1, <1>2, <2>2
  <2> QED
    BY <1>2, <2>1, <2>2
<1>8. ASSUME NEW m \in Nat, m <= n, p # <<>>
      PROVE  /\ At(p) <= Len(RecordAt(z, p).terms) + 1 =>
                  \/ m + Cost(z, p) <= l /\ Under(q, NextOf(p))
                  \/ Reached(G, NextOf(p), m + Cost(z, p))
             /\ \A u : Leads(z, p, u) => Unread(z, p, u) \/ Reached(G, Child(p, u), m + 1)
  BY <1>2, <1>5, <1>8
<1>9. \A u : Under(p, u) => Under(q, u) \/ (u = q /\ q # <<>>)
  BY <1>2
<1> HIDE DEF q, l, G
<1>10. Log(G, z, q, l)
  BY <1>2, <1>4, <1>6, <1>7, <1>8, <1>9, LogStep
<1> QED
  BY <1>10 DEF q, l, G

\* The walk of a record is over.
LEMMA LogAscends ==
    ASSUME NEW H, NEW z, NEW p, NEW n, Log(H, z, p, n), p # <<>>,
           At(p) = Len(RecordAt(z, p).terms) + 2
    PROVE  \E G : H \subseteq G /\ Log(G, z, Back(p), n)
<1> DEFINE q == Back(p)
           G == H \cup (IF q = <<>> THEN {} ELSE {<<q, n>>})
<1>1. p \in Seq(Visit) /\ n \in Nat /\ \A i \in 1..Len(p) : z[p[i].domain] \in Records
  BY DEF Log
<1>2. Len(p) \in Nat \ {0} /\ Len(p) - 1 \in 0..Len(p)
  BY <1>1, EmptySeq
<1>3. /\ q \in Seq(Visit) /\ Len(q) = Len(p) - 1 /\ \A i \in 1..Len(p) - 1 : q[i] = p[i]
      /\ (Len(p) - 1 > 0 => q # <<>>)
  BY <1>1, <1>2, BackFacts DEF Back
<1>4. \A i \in 1..Len(q) : z[q[i].domain] \in Records
  BY <1>1, <1>2, <1>3
<1>5. \A u : Under(p, u) => Under(q, u) \/ (u = q /\ q # <<>>)
  <2>1. \A u : Under(p, u) => (u = q /\ Len(p) > 1) \/ Under(q, u)
    BY <1>1, UnderBack
  <2> QED
    BY <1>2, <1>3, <2>1
<1>6. /\ ~(At(p) <= Len(RecordAt(z, p).terms) + 1)
      /\ \A t : ~Leads(z, p, t)
  <2>1. RecordAt(z, p) \in Records
    BY <1>1, <1>2 DEF RecordAt
  <2>2. Len(RecordAt(z, p).terms) \in Nat
    BY <2>1, SpfAssumption, AnalyzeAssumption
  <2> QED
    BY <2>2 DEF Leads, InTerms, AtRedirect
<1>7. n <= n /\ H \subseteq G
  BY <1>1
<1> HIDE DEF q
<1>8. Log(G, z, q, n)
  <2>1. G = H \cup (IF q = <<>> THEN {} ELSE {<<q, n>>})
    OBVIOUS
  <2> HIDE DEF G
  <2> QED
    BY <1>1, <1>3, <1>4, <1>5, <1>6, <1>7, <2>1, LogStep
<1> QED
  BY <1>7, <1>8 DEF q

\* The walk begins.
LEMMA LogBegins ==
    ASSUME NEW z, NEW d \in Domains, z[d] \in Records
    PROVE  Log({<<<<[domain |-> d, at |-> 1]>>, 0>>}, z, <<[domain |-> d, at |-> 1]>>, 0)
<1> DEFINE new == [domain |-> d, at |-> 1]
           q == <<new>>
           G == {<<q, 0>>}
<1>1. new \in Visit /\ new.domain = d
  BY DEF Visit
<1> HIDE DEF new
<1>2. q \in Seq(Visit) /\ Len(q) = 1 /\ q[1] = new /\ q # <<>>
  BY <1>1
<1>3. Log({}, z, <<>>, 0)
  BY EmptySeq DEF Log
<1>4. G = {} \cup (IF q = <<>> THEN {} ELSE {<<q, 0>>})
  BY <1>2
<1>5. \A u : ~Under(<<>>, u)
  BY EmptySeq DEF Under
<1>6. \A i \in 1..Len(q) : z[q[i].domain] \in Records
  BY <1>1, <1>2
<1>7. ASSUME NEW m \in Nat, m <= 0, <<>> # <<>>
      PROVE  /\ At(<<>>) <= Len(RecordAt(z, <<>>).terms) + 1 =>
                  \/ m + Cost(z, <<>>) <= 0 /\ Under(q, NextOf(<<>>))
                  \/ Reached(G, NextOf(<<>>), m + Cost(z, <<>>))
             /\ \A t : Leads(z, <<>>, t) => Unread(z, <<>>, t) \/ Reached(G, Child(<<>>, t), m + 1)
  BY <1>7
<1> HIDE DEF q, G
<1>8. 0 \in Nat /\ 0 <= 0 /\ \A u : Under(<<>>, u) => Under(q, u) \/ (u = q /\ q # <<>>)
  BY <1>5
<1>9. Log(G, z, q, 0)
  BY <1>2, <1>3, <1>4, <1>6, <1>7, <1>8, LogStep
<1> QED
  BY <1>9 DEF new, q, G

-----------------------------------------------------------------------------
(* The steps of the walk, as the log sees them                             *)

ZoneTyped == zone \in [Domains -> {NotAsked} \cup Published]
ZoneKept ==
    /\ ZoneTyped'
    /\ \A d \in Domains : zone[d] \in Published => zone'[d] = zone[d]

\* What a receiver needs is not known, or the report says that it is too much,
\* or a receiver with this client follows other targets.
OtherTargets == client # NoClient /\ VersionDependent
Excused == ~ReadInFull \/ total > MaxNodes \/ OtherTargets

WalkTyped ==
    /\ PathIsCounted
    /\ \A i \in 1..Len(path) : zone[path[i].domain] \in Records
    /\ ZoneTyped
    /\ noted.count \in [Rules -> Nat]

First == [domain |-> Root, at |-> 1]
Fails ==
    /\ analysis = "start" /\ analysis' = "done" /\ path' = path /\ total' = total
    /\ ~ReadInFull' \/ zone'[Root] \in {NoRecord, Several}
Begins ==
    /\ analysis = "start" /\ analysis' = "walk" /\ total' = total
    /\ \/ path' = <<>> /\ zone'[Root] = Malformed
       \/ path' = <<First>> /\ zone'[Root] \in Records
Moves ==
    /\ path # <<>> /\ analysis = "walk" /\ analysis' = analysis
    /\ path' = NextOf(path)
    /\ total' \in Nat /\ total + Cost(zone, path) <= total'
    /\ ~ReadInFull' \/ total' > MaxNodes
       \/ \A t : Leads(zone, path, t) => Unread(zone', path, t)
Descends ==
    /\ path # <<>> /\ analysis = "walk" /\ analysis' = analysis
    /\ \E t \in Domains :
         /\ zone'[t] \in Records /\ path' = Child(path, t)
         /\ \A u : Leads(zone, path, u) => u = t
    /\ total' = total + 1
Ascends ==
    /\ path # <<>> /\ analysis = "walk" /\ analysis' = analysis
    /\ path' = Back(path) /\ total' = total
    /\ At(path) = Len(RecordAt(zone, path).terms) + 2
Sums ==
    /\ path = <<>> /\ analysis = "walk" /\ analysis' = "done"
    /\ path' = path /\ total' = total
    /\ total > MaxLookups => noted'.count["SPFLookupLimit"] > 0

LEMMA PublishesKeeps ==
    ASSUME ZoneTyped, NEW d \in Domains, NEW what \in Published, Publishes(d, what)
    PROVE  ZoneKept /\ zone'[d] = what
BY AnalyzeAssumption DEF ZoneTyped, ZoneKept, Publishes

LEMMA ZoneUnchanged == ZoneTyped /\ zone' = zone => ZoneKept
BY DEF ZoneTyped, ZoneKept

LEMMA CountsUnchanged == noted.count \in [Rules -> Nat] /\ noted' = noted => CountsKept
BY DEF CountsKept

LEMMA AdvancedIsNext ==
    ASSUME path \in Seq(Visit), path # <<>>
    PROVE  Advanced = NextOf(path)
<1>1. path[Len(path)] \in Visit /\ Len(path) \in 1..Len(path)
  BY NextFacts
<1>2. [path[Len(path)] EXCEPT !.at = @ + 1] = [domain |-> path[Len(path)].domain, at |-> path[Len(path)].at + 1]
  BY <1>1 DEF Visit
<1> QED
  BY <1>2 DEF Advanced, Here, NextOf

\* What the actions call Here, Policy and Term, and the conditions on them.
LEMMA HereFacts ==
    ASSUME WalkTyped, path # <<>>
    PROVE  /\ Policy = RecordAt(zone, path) /\ Policy \in Records /\ Here.at = At(path)
           /\ Len(Policy.terms) \in Nat /\ At(path) \in Nat \ {0}
           /\ AllSeen(Policy, Here.at) <=> ~Live(zone, path)
           /\ Here.at <= Len(Policy.terms) => InTerms(zone, path)
           /\ Term = RecordAt(zone, path).terms[At(path)]
           /\ Cost(zone, path) \in {0, 1}
<1>1. path \in Seq(Visit) /\ Len(path) \in 1..Len(path) /\ At(path) \in Nat \ {0}
  <2>1. path \in Seq(Visit)
    BY DEF WalkTyped, PathIsCounted
  <2>2. Len(path) \in Nat \ {0} /\ At(path) \in Nat \ {0}
    BY <2>1, NextFacts
  <2> QED
    BY <2>1, <2>2
<1>2. Policy = RecordAt(zone, path) /\ Here.at = At(path) /\ Term = RecordAt(zone, path).terms[At(path)]
  BY DEF Policy, Here, Term, RecordAt, At
<1>3. Policy \in Records
  BY <1>1, <1>2 DEF WalkTyped, RecordAt
<1>4. Len(Policy.terms) \in Nat
  BY <1>3, SpfAssumption, AnalyzeAssumption
<1>5. Here.at <= Len(Policy.terms) => Here.at \in 1..Len(Policy.terms)
  BY <1>1, <1>2, <1>4
<1>6. AllSeen(Policy, Here.at) <=> ~Live(zone, path)
  BY <1>2 DEF Live
<1>7. Cost(zone, path) \in {0, 1}
  BY DEF Cost
<1> QED
  BY <1>1, <1>2, <1>3, <1>4, <1>5, <1>6, <1>7 DEF InTerms

\* A target that the audit does not follow is not one with the v macro only.
LEMMA ExpandedDynamic == \A family : Expanded(Dynamic, family) = Dynamic
BY AnalyzeAssumption DEF Expanded

\* follow, whose caller has counted the term.
LEMMA FollowLogged ==
    ASSUME WalkTyped, path # <<>>, analysis = "walk", analysis' = analysis, total' = total + 1,
           NEW target, NEW before \in Seq(Finding),
           \A i \in 1..Len(before) : before[i].rule = "SPFTermsAfterAll",
           Follow(target, before),
           target # Dynamic => \A t : Leads(zone, path, t) => t = target
    PROVE  ZoneKept /\ CountsKept /\ (Moves \/ Descends)
<1>1. /\ total \in Nat /\ nodes \in Nat /\ nodes <= total /\ path \in Seq(Visit)
      /\ ZoneTyped /\ noted.count \in [Rules -> Nat]
  BY DEF WalkTyped, PathIsCounted
<1>2. Advanced = NextOf(path) /\ total' \in Nat /\ total + Cost(zone, path) <= total'
  BY <1>1, AdvancedIsNext, HereFacts
<1>3. ASSUME path' = Advanced,
             ~ReadInFull' \/ total' > MaxNodes \/ (target # Dynamic /\ Unread(zone', path, target))
      PROVE  Moves
  BY <1>2, <1>3 DEF Moves
<1>4. ASSUME NEW rule \in Rules, rule # "SPFTermsAfterAll", Note(before \o <<AsRuled(rule)>>)
      PROVE  CountsKept /\ noted'.count[rule] > 0
  <2>1. AsRuled(rule) \in Finding /\ AsRuled(rule).rule = rule
    BY Ruled
  <2> QED
    BY <1>1, <1>4, <2>1, NotedAfter
<1>5. CASE NotFollowed(target, before)
  <2>1. path' = Advanced /\ ZoneKept
    BY <1>1, <1>5, ZoneUnchanged DEF NotFollowed, Advance
  <2>2. CASE Note(before \o <<AsRuled("SPFDynamic")>>)
    <3>1. CountsKept /\ noted'.count["SPFDynamic"] > 0
      BY <1>4, <2>2, RuleFacts
    <3>2. ~ReadInFull'
      BY <3>1 DEF ReadInFull, Has
    <3> QED
      BY <1>3, <2>1, <3>1, <3>2
  <2>3. CASE OnPath(target) /\ Note(before \o <<AsRuled("SPFLoop")>>)
    <3>1. CountsKept
      BY <1>4, <2>3, RuleFacts
    <3>2. target # Dynamic /\ Unread(zone', path, target)
      <4>1. PICK i \in 1..Len(path) : path[i].domain = target
        BY <1>1, <2>3, LenProperties DEF OnPath
      <4>2. target \in Domains
        <5>1. path[i] \in Visit
          BY <1>1, ElementOfSeq
        <5> QED
          BY <4>1, <5>1 DEF Visit
      <4> QED
        BY <4>1, <4>2, AnalyzeAssumption DEF Unread, Targets
    <3> QED
      BY <1>3, <2>1, <3>1, <3>2
  <2>4. CASE target # Dynamic /\ LimitReached /\ Note(before)
    <3>1. CountsKept
      BY <1>1, <2>4, NoteKeeps
    <3>2. total' > MaxNodes \/ (target # Dynamic /\ Unread(zone', path, target))
      BY <1>1, <2>4, AnalyzeAssumption DEF LimitReached, Unread
    <3> QED
      BY <1>3, <2>1, <3>1, <3>2
  <2> QED
    BY <1>5, <2>2, <2>3, <2>4 DEF NotFollowed
<1>6. CASE InvalidTarget(target, before)
  <2>1. path' = Advanced /\ ZoneKept /\ target = BadName /\ Note(before \o <<AsRuled("SPFSyntax")>>)
    BY <1>1, <1>6, ZoneUnchanged DEF InvalidTarget, Advance
  <2>2. CountsKept
    BY <1>4, <2>1, RuleFacts
  <2>3. target # Dynamic /\ Unread(zone', path, target)
    BY <2>1, AnalyzeAssumption DEF Unread, Targets
  <2> QED
    BY <1>3, <2>1, <2>2, <2>3
<1>7. ASSUME NEW err, TargetFails(target, err, before) PROVE ZoneKept /\ CountsKept /\ Moves
  <2>1. path' = Advanced /\ ZoneKept /\ Note(before \o <<AsRuled("SPFTempError")>>)
    BY <1>1, <1>7, ZoneUnchanged DEF TargetFails, Advance
  <2>2. CountsKept /\ noted'.count["SPFTempError"] > 0
    BY <1>4, <2>1, RuleFacts
  <2>3. ~ReadInFull'
    BY <2>2 DEF ReadInFull, Has
  <2> QED
    BY <1>3, <2>1, <2>2, <2>3
<1>8. ASSUME NEW what \in Published, TargetUnusable(target, what, before)
      PROVE  ZoneKept /\ CountsKept /\ Moves
  <2>1. target \in Domains /\ what \in {NoRecord, Several, Malformed} /\ path' = Advanced
        /\ Publishes(target, what)
    BY <1>8 DEF TargetUnusable, Published, Advance
  <2>2. ZoneKept /\ zone'[target] = what
    BY <1>1, <2>1, PublishesKeeps
  <2>3. PICK rule \in Rules : rule # "SPFTermsAfterAll" /\ Note(before \o <<AsRuled(rule)>>)
    <3>1. what = NoRecord \/ (what # NoRecord /\ what = Several)
          \/ (what # NoRecord /\ what # Several /\ what = Malformed)
      BY <2>1
    <3>2. (CASE what = NoRecord -> "SPFIncludeNoRecord" [] what = Several -> "SPFMultiple"
             [] what = Malformed -> "SPFSyntax") \in {"SPFIncludeNoRecord", "SPFMultiple", "SPFSyntax"}
      BY <2>1
    <3> QED
      BY <1>8, <3>2, RuleFacts DEF TargetUnusable
  <2>4. CountsKept
    BY <1>4, <2>3
  <2>5. target # Dynamic /\ Unread(zone', path, target)
    BY <2>1, <2>2, AnalyzeAssumption DEF Unread, Targets
  <2> QED
    BY <1>3, <2>1, <2>2, <2>4, <2>5
<1>9. ASSUME NEW what \in Published, WalkTarget(target, what, before)
      PROVE  ZoneKept /\ CountsKept /\ Descends
  <2>1. /\ target \in Domains /\ what \in Records /\ Publishes(target, what) /\ Note(before)
        /\ path' = Append(Advanced, [domain |-> target, at |-> 1])
    BY <1>9 DEF WalkTarget, Following
  <2>2. ZoneKept /\ zone'[target] = what
    BY <1>1, <2>1, PublishesKeeps
  <2>3. CountsKept
    BY <1>1, <2>1, NoteKeeps
  <2>4. path' = Child(path, target)
    BY <1>2, <2>1 DEF Child
  <2>5. target # Dynamic
    BY <2>1, AnalyzeAssumption DEF Targets
  <2> QED
    BY <2>1, <2>2, <2>3, <2>4, <2>5 DEF Descends
<1> QED
  BY <1>5, <1>6, <1>7, <1>8, <1>9 DEF Follow

\* One step of the walk for each action of the analysis.
LEMMA WalkLogged ==
    ASSUME WalkTyped, AnalysisNext
    PROVE  /\ ZoneKept /\ CountsKept
           /\ Fails \/ Begins \/ Moves \/ Descends \/ Ascends \/ Sums
<1> DEFINE Kept == ZoneKept /\ CountsKept
           Logged == Fails \/ Begins \/ Moves \/ Descends \/ Ascends \/ Sums
<1>1. /\ total \in Nat /\ nodes \in Nat /\ path \in Seq(Visit)
      /\ ZoneTyped /\ noted.count \in [Rules -> Nat]
  BY DEF WalkTyped, PathIsCounted
<1>2. Root \in Domains
  BY AnalyzeAssumption DEF Root
<1>3. \A rule \in Rules : Note(<<AsRuled(rule)>>) => CountsKept /\ noted'.count[rule] > 0
  BY <1>1, Ruled, NotedAlone
<1>4. \A fs \in Seq(Finding) : Note(fs) => CountsKept
  BY <1>1, NoteKeeps
<1>5. ZoneTyped /\ zone' = zone => ZoneKept
  BY ZoneUnchanged
<1>6. \A rule \in Rules : \A c : If(c, AsRuled(rule)) \in Seq(Finding)
  BY Ruled, IfNoted
<1>7. ASSUME RootFails(Root) PROVE Kept /\ Fails
  <2>1. CountsKept /\ noted'.count["DNSLookupFailed"] > 0
    BY <1>3, <1>7, RuleFacts DEF RootFails
  <2>2. ~ReadInFull'
    BY <2>1 DEF ReadInFull, Has
  <2> QED
    BY <1>1, <1>5, <1>7, <2>1, <2>2 DEF RootFails, Fails
<1>8. ASSUME NEW what \in {NoRecord, Several}, NEW rule \in Rules, RootUnusable(Root, what, rule)
      PROVE  Kept /\ Fails
  <2>1. CountsKept
    BY <1>3, <1>8 DEF RootUnusable
  <2>2. ZoneKept /\ zone'[Root] = what
    BY <1>1, <1>2, <1>8, PublishesKeeps DEF RootUnusable, Published
  <2> QED
    BY <1>8, <2>1, <2>2 DEF RootUnusable, Fails
<1>9. ASSUME NEW what \in {Malformed} \cup Records, RootRecord(Root, what) PROVE Kept /\ Begins
  <2>1. CountsKept
    BY <1>4, <1>6, <1>9, RuleFacts DEF RootRecord
  <2>2. ZoneKept /\ zone'[Root] = what
    BY <1>1, <1>2, <1>9, PublishesKeeps DEF RootRecord, Published
  <2>3. (what = Malformed /\ path' = <<>>) \/ (what \in Records /\ path' = <<First>>)
    BY <1>9 DEF RootRecord, First
  <2> QED
    BY <1>9, <2>1, <2>2, <2>3 DEF RootRecord, Begins
<1>10. ASSUME path # <<>>, analysis = "walk", analysis' = analysis, path' = Advanced,
              total' \in Nat, total + Cost(zone, path) <= total',
              ~ReadInFull' \/ \A t : ~Leads(zone, path, t)
       PROVE  Moves
  BY <1>1, <1>10, AdvancedIsNext DEF Moves
<1>11. ASSUME path # <<>>
       PROVE  /\ Policy = RecordAt(zone, path) /\ Policy \in Records /\ Here.at = At(path)
              /\ Len(Policy.terms) \in Nat /\ At(path) \in Nat \ {0}
              /\ AllSeen(Policy, Here.at) <=> ~Live(zone, path)
              /\ Here.at <= Len(Policy.terms) => InTerms(zone, path)
              /\ Term = RecordAt(zone, path).terms[At(path)]
              /\ Cost(zone, path) \in {0, 1}
  BY <1>11, HereFacts
<1>12. ASSUME NEW kinds, AtTermOf(kinds)
       PROVE  /\ path # <<>> /\ analysis = "walk" /\ analysis' = analysis
              /\ Live(zone, path) /\ InTerms(zone, path) /\ ~AtRedirect(zone, path)
              /\ RecordAt(zone, path).terms[At(path)].kind \in kinds
              /\ Term = RecordAt(zone, path).terms[At(path)]
  BY <1>11, <1>12 DEF AtTermOf, InTerms, AtRedirect
<1>13. CASE AllTerm
  <2>1. CountsKept
    BY <1>4, <1>13, RemarksNoted DEF AllTerm
  <2>2. ~Costs(zone, path) /\ \A t : ~Leads(zone, path, t)
    BY <1>12, <1>13 DEF AllTerm, Costs, Leads
  <2>3. Moves
    BY <1>1, <1>10, <1>12, <1>13, <2>2 DEF AllTerm, Advance, Cost
  <2> QED
    BY <1>1, <1>5, <1>13, <2>1, <2>3 DEF AllTerm
<1>14. CASE RangeTerm
  <2>1. CountsKept
    <3>1. Term.width \in Nat
      <4>1. path # <<>> /\ InTerms(zone, path) /\ Term = RecordAt(zone, path).terms[At(path)]
            /\ Term.kind = "range"
        BY <1>12, <1>14 DEF RangeTerm
      <4> QED
        BY <1>11, <4>1, AnalyzeAssumption DEF InTerms
    <3>2. [rule |-> "SPFBroadRange", severity |-> Term.width] \in Finding
      BY <3>1, RuleFacts DEF Finding
    <3>3. \A c : If(c, [rule |-> "SPFBroadRange", severity |-> Term.width]) \in Seq(Finding)
      BY <3>2, IfNoted
    <3> QED
      BY <1>4, <1>14, <3>3 DEF RangeTerm
  <2>2. ~Costs(zone, path) /\ \A t : ~Leads(zone, path, t)
    BY <1>12, <1>14 DEF RangeTerm, Costs, Leads
  <2>3. Moves
    BY <1>1, <1>10, <1>12, <1>14, <2>2 DEF RangeTerm, Advance, Cost
  <2> QED
    BY <1>1, <1>5, <1>14, <2>1, <2>3 DEF RangeTerm
<1>15. CASE PTRMechanism
  <2>1. CountsKept
    BY <1>3, <1>15, RuleFacts DEF PTRMechanism
  <2>2. \A t : ~Leads(zone, path, t)
    BY <1>12, <1>15 DEF PTRMechanism, Leads
  <2>3. Moves
    BY <1>1, <1>10, <1>11, <1>12, <1>15, <2>2 DEF PTRMechanism, Advance
  <2> QED
    BY <1>1, <1>5, <1>15, <2>1, <2>3 DEF PTRMechanism
<1>16. ASSUME NEW o \in {"records", "too_many", "failed", "empty"}, HostTerm(o) PROVE Kept /\ Moves
  <2>1. CountsKept
    BY <1>3, <1>4, <1>16, IfNoted, RuleFacts DEF HostTerm
  <2>2. \A t : ~Leads(zone, path, t)
    BY <1>12, <1>16 DEF HostTerm, Leads
  <2>3. Moves
    BY <1>1, <1>10, <1>11, <1>12, <1>16, <2>2 DEF HostTerm, Advance
  <2> QED
    BY <1>1, <1>5, <1>16, <2>1, <2>3 DEF HostTerm
<1>17. ASSUME NEW o, ExistsTerm(o) PROVE Kept /\ Moves
  <2>1. CountsKept
    BY <1>4, <1>6, <1>17, RuleFacts DEF ExistsTerm
  <2>2. \A t : ~Leads(zone, path, t)
    BY <1>12, <1>17 DEF ExistsTerm, Leads
  <2>3. Moves
    BY <1>1, <1>10, <1>11, <1>12, <1>17, <2>2 DEF ExistsTerm, Advance
  <2> QED
    BY <1>1, <1>5, <1>17, <2>1, <2>3 DEF ExistsTerm
<1>18. CASE TermAfterAll
  <2>1. ~Live(zone, path) /\ path # <<>>
    BY <1>11, <1>18 DEF TermAfterAll
  <2>2. ~Costs(zone, path) /\ \A t : ~Leads(zone, path, t)
    BY <2>1 DEF Costs, Leads
  <2>3. Moves
    BY <1>1, <1>10, <1>18, <2>2 DEF TermAfterAll, Advance, Cost
  <2> QED
    BY <1>1, <1>5, <1>18, <2>3, CountsUnchanged DEF TermAfterAll
<1>19. CASE IncludeTerm
  <2> DEFINE target == Expanded(Term.target, NoClient)
  <2>1. path # <<>> /\ analysis = "walk" /\ analysis' = analysis /\ total' = total + 1
        /\ Follow(target, <<>>)
    BY <1>12, <1>19 DEF IncludeTerm
  <2>2. ASSUME target # Dynamic, NEW t, Leads(zone, path, t) PROVE t = target
    <3>1. t \in Meant(Term.target, NoClient)
      BY <1>12, <1>19, <2>2 DEF IncludeTerm, Leads
    <3> QED
      BY <2>2, <3>1, ExpandedDynamic DEF Meant
  <2>3. <<>> \in Seq(Finding) /\ \A i \in 1..Len(<<>>) : <<>>[i].rule = "SPFTermsAfterAll"
    BY EmptySeq
  <2> QED
    BY <2>1, <2>2, <2>3, FollowLogged
<1>20. CASE RedirectTerm
  <2> DEFINE target == Expanded(Policy.redirect, NoClient)
  <2>1. path # <<>> /\ analysis = "walk" /\ analysis' = analysis /\ total' = total + 1
        /\ Follow(target, AfterAllRemarks)
    BY <1>20 DEF RedirectTerm, AtEnd
  <2>2. ASSUME target # Dynamic, NEW t, Leads(zone, path, t) PROVE t = target
    <3>1. t \in Meant(Policy.redirect, NoClient)
      BY <1>11, <1>20, <2>1, <2>2 DEF RedirectTerm, AtEnd, Leads, InTerms
    <3> QED
      BY <2>2, <3>1, ExpandedDynamic DEF Meant
  <2> QED
    BY <2>1, <2>2, FollowLogged, RemarksNoted
<1>21. CASE NoRedirectToFollow
  <2>1. CountsKept
    <3> DEFINE last == [rule |-> "SPFNoAll", severity |-> IF AtRecord THEN Severity["SPFNoAll"] ELSE 2]
    <3>1. last \in Finding
      BY RuleFacts DEF Finding
    <3>2. \A c : If(c, last) \in Seq(Finding)
      BY <3>1, IfNoted
    <3> HIDE DEF last
    <3>3. If(Policy.redirect # NoRedirect, AsRuled("SPFRedirectIgnored")) \in Seq(Finding)
      BY <1>6, RuleFacts
    <3>4. AfterAllRemarks \o If(Policy.redirect # NoRedirect, AsRuled("SPFRedirectIgnored"))
            \o If(~HasAll, last) \in Seq(Finding)
      BY <3>2, <3>3, RemarksNoted, BothNoted
    <3> QED
      BY <1>4, <1>21, <3>4 DEF NoRedirectToFollow, last
  <2>2. path # <<>> /\ analysis = "walk" /\ Here.at = Len(Policy.terms) + 1
        /\ (Policy.redirect = NoRedirect \/ HasAll)
    BY <1>21 DEF NoRedirectToFollow, AtEnd
  <2>3. ~InTerms(zone, path) /\ (~AtRedirect(zone, path) \/ ~Live(zone, path))
    BY <1>11, <2>2 DEF InTerms, AtRedirect, HasAll
  <2>4. ~Costs(zone, path) /\ \A t : ~Leads(zone, path, t)
    BY <2>3 DEF Costs, Leads
  <2>5. Moves
    BY <1>1, <1>10, <1>21, <2>2, <2>4 DEF NoRedirectToFollow, AtEnd, Advance, Cost
  <2> QED
    BY <1>1, <1>5, <1>21, <2>1, <2>5 DEF NoRedirectToFollow
<1>22. CASE WalkReturns
  <2>1. Ascends
    BY <1>11, <1>22 DEF WalkReturns, Ascends, Back
  <2> QED
    BY <1>1, <1>5, <1>22, <2>1, CountsUnchanged DEF WalkReturns
<1>23. CASE Summarize
  <2> DEFINE over == If(total > MaxLookups, AsRuled("SPFLookupLimit"))
             near == If(total <= MaxLookups /\ total + 2 >= MaxLookups, AsRuled("SPFLookupsNearLimit"))
             void == If(voidTotal > MaxVoidLookups, AsRuled("SPFVoidLimit"))
             limits == over \o near \o void
             valid == If(Added(noted, limits).listed < Medium, AsRuled("SPFValid"))
  <2>1. /\ over \in Seq(Finding) /\ near \in Seq(Finding) /\ void \in Seq(Finding)
        /\ valid \in Seq(Finding)
    BY <1>6, RuleFacts
  <2>2. Note(limits \o valid)
    BY <1>23 DEF Summarize
  <2>3. total > MaxLookups => over = <<AsRuled("SPFLookupLimit")>>
    BY DEF If
  <2> HIDE DEF over, near, void, valid
  <2>4. near \o void \o valid \in Seq(Finding) /\ limits \o valid = over \o (near \o void \o valid)
    <3> DEFINE both == near \o void
    <3>1. both \in Seq(Finding)
      BY <2>1, BothNoted
    <3>2. limits = over \o both
      BY <2>1, ConcatAssociative
    <3> HIDE DEF both, limits
    <3>3. both \o valid \in Seq(Finding)
      BY <2>1, <3>1, BothNoted
    <3>4. (over \o both) \o valid = over \o (both \o valid)
      BY ONLY <2>1, <3>1, ConcatAssociative, SMTT(30)
    <3>5. limits \o valid = over \o (both \o valid)
      BY <3>2, <3>4
    <3> QED
      BY <3>3, <3>5 DEF both
  <2>5. over \o (near \o void \o valid) \in Seq(Finding)
    BY <2>1, <2>4, BothNoted
  <2>6. CountsKept
    BY <1>4, <2>2, <2>4, <2>5
  <2>7. ASSUME total > MaxLookups PROVE noted'.count["SPFLookupLimit"] > 0
    <3> DEFINE rest == near \o void \o valid
               fs == over \o rest
    <3>1. AsRuled("SPFLookupLimit") \in Finding /\ AsRuled("SPFLookupLimit").rule = "SPFLookupLimit"
      BY Ruled, RuleFacts
    <3>2. over = <<AsRuled("SPFLookupLimit")>> /\ Len(over) = 1 /\ over[1] = AsRuled("SPFLookupLimit")
      BY <2>3, <2>7
    <3>3. rest \in Seq(Finding) /\ fs \in Seq(Finding) /\ Note(fs)
      BY <2>2, <2>4, <2>5
    <3> HIDE DEF rest
    <3>4. /\ Len(fs) = Len(over) + Len(rest) /\ Len(rest) \in Nat
          /\ \A i \in 1..Len(over) + Len(rest) : fs[i] = IF i <= Len(over) THEN over[i] ELSE rest[i - Len(over)]
      BY <2>1, <3>3, ConcatProperties, LenProperties
    <3> HIDE DEF fs
    <3>5. 1 \in 1..Len(fs) /\ fs[1].rule = "SPFLookupLimit"
      BY <3>1, <3>2, <3>4
    <3>6. \A j \in 1..1 - 1 : fs[j].rule # fs[1].rule
      OBVIOUS
    <3>7. Added(noted, fs).count[fs[1].rule] > 0
      BY <1>1, <3>3, <3>5, <3>6, AddedFirst
    <3> QED
      BY <3>3, <3>5, <3>7 DEF Note
  <2> QED
    BY <1>1, <1>5, <1>23, <2>6, <2>7 DEF Summarize, Sums
<1>24. Kept /\ Logged
  BY <1>7, <1>8, <1>9, <1>13, <1>14, <1>15, <1>16, <1>17, <1>18, <1>19, <1>20, <1>21, <1>22, <1>23,
     RuleFacts DEF AnalysisNext
<1> QED
  BY <1>24

-----------------------------------------------------------------------------
(* An evaluation follows the log. These operators take the zone z, the     *)
(* total n and the state p, c, fs, l (pc, call, frames, lookups).          *)

\* The path to the term an evaluation is at, the records around it being, as
\* in the walk, at the term after the one that led on.
Place(f, k) == [domain |-> f.domain, at |-> MaxTerms - f.left + k]
Reading(fs) == [i \in 1..Len(fs) |-> Place(fs[i], IF i = Len(fs) THEN 1 ELSE 2)]

AtInclude(z, f) ==
    LET r == z[f.domain]
        at == MaxTerms - f.left + 1
    IN  at \in 1..Len(r.terms) /\ r.terms[at].kind = "include" /\ ~AllSeen(r, at)

Nested(z, fs) ==
    /\ fs \in Seq(Frame)
    /\ \A i \in 1..Len(fs) : z[fs[i].domain] \in Records /\ (fs[i].via = "root" <=> i = 1)
    /\ \A i \in 1..Len(fs) - 1 : fs[i + 1].via = "include" => AtInclude(z, fs[i])

\* Wherever an evaluation is, the walk has been, and had counted as much.
Followed(H, z, n, p, c, fs, l) ==
    /\ Nested(z, fs) /\ l \in Nat /\ p \in {"enter", "term", "resume", "done"}
    /\ p = "done" => fs = <<>>
    /\ fs = <<>> => p # "term" /\ (p = "enter" => c.domain = Root /\ l = 0) /\ l <= n
    /\ p \in {"enter", "resume"} =>
         /\ c.via \in Vias /\ (c.via = "root" <=> fs = <<>>)
         /\ c.via = "include" => AtInclude(z, fs[Len(fs)])
    /\ fs # <<>> =>
         /\ p = "term" => /\ Reached(H, Reading(fs), l) /\ Live(z, Reading(fs))
                          /\ At(Reading(fs)) <= Len(RecordAt(z, Reading(fs)).terms) + 1
         /\ p = "enter" => /\ Leads(z, Reading(fs), c.domain)
                           /\ \E k \in Nat : l <= k + 1 /\ <<Reading(fs), k>> \in H
         /\ p = "resume" => Reached(H, NextOf(Reading(fs)), l)

LEMMA PlaceFacts ==
    ASSUME NEW f \in Frame
    PROVE  /\ MaxTerms \in Nat /\ f.left \in 0..MaxTerms /\ f.domain \in Domains
           /\ Place(f, 1) \in Visit /\ Place(f, 2) \in Visit
           /\ Place(f, 1).domain = f.domain /\ Place(f, 1).at = MaxTerms - f.left + 1
           /\ [domain |-> Place(f, 1).domain, at |-> Place(f, 1).at + 1] = Place(f, 2)
<1>1. MaxTerms \in Nat /\ f.left \in 0..MaxTerms /\ f.domain \in Domains
  BY SpfAssumption DEF Frame
<1>2. MaxTerms - f.left + 1 \in Nat \ {0} /\ MaxTerms - f.left + 2 = MaxTerms - f.left + 1 + 1
      /\ MaxTerms - f.left + 2 \in Nat \ {0}
  BY <1>1
<1> QED
  BY <1>1, <1>2 DEF Place, Visit

LEMMA ReadingFacts ==
    ASSUME NEW fs \in Seq(Frame)
    PROVE  /\ Reading(fs) \in Seq(Visit) /\ Len(Reading(fs)) = Len(fs) /\ Len(fs) \in Nat
           /\ \A i \in 1..Len(fs) : i # Len(fs) => Reading(fs)[i] = Place(fs[i], 2)
           /\ fs # <<>> =>
                /\ Reading(fs) # <<>> /\ Len(fs) \in 1..Len(fs) /\ Len(fs) # 0
                /\ Reading(fs)[Len(fs)] = Place(fs[Len(fs)], 1)
                /\ At(Reading(fs)) = MaxTerms - fs[Len(fs)].left + 1
                /\ \A z : RecordAt(z, Reading(fs)) = z[fs[Len(fs)].domain]
                /\ NextOf(Reading(fs)) \in Seq(Visit) /\ Len(NextOf(Reading(fs))) = Len(fs)
                /\ \A i \in 1..Len(fs) : NextOf(Reading(fs))[i] = Place(fs[i], 2)
<1> DEFINE v == Reading(fs)
           e(i) == Place(fs[i], IF i = Len(fs) THEN 1 ELSE 2)
<1>1. Len(fs) \in Nat /\ \A i \in 1..Len(fs) : fs[i] \in Frame
  BY ElementOfSeq
<1>2. \A i \in 1..Len(fs) : e(i) \in Visit
  BY <1>1, PlaceFacts
<1>3. v = [i \in 1..Len(fs) |-> e(i)]
  BY DEF Reading
<1> HIDE DEF v
<1>4. v \in Seq(Visit) /\ Len(v) = Len(fs) /\ \A i \in 1..Len(fs) : v[i] = e(i)
  <2> HIDE DEF e
  <2>1. v \in [1..Len(fs) -> Visit]
    BY <1>2, <1>3
  <2>2. v \in Seq(Visit) /\ Len(v) = Len(fs)
    BY <1>1, <2>1
  <2> QED
    BY <1>3, <2>2
<1>5. \A i \in 1..Len(fs) : i # Len(fs) => v[i] = Place(fs[i], 2)
  BY <1>4
<1>6. ASSUME fs # <<>>
      PROVE  /\ v # <<>> /\ Len(fs) \in 1..Len(fs) /\ Len(fs) # 0
             /\ v[Len(fs)] = Place(fs[Len(fs)], 1)
             /\ At(v) = MaxTerms - fs[Len(fs)].left + 1
             /\ \A z : RecordAt(z, v) = z[fs[Len(fs)].domain]
             /\ NextOf(v) \in Seq(Visit) /\ Len(NextOf(v)) = Len(fs)
             /\ \A i \in 1..Len(fs) : NextOf(v)[i] = Place(fs[i], 2)
  <2>1. Len(fs) \in 1..Len(fs) /\ Len(fs) # 0
    BY <1>6, EmptySeq
  <2>2. v # <<>>
    BY <1>4, <2>1, EmptySeq
  <2>3. v[Len(fs)] = Place(fs[Len(fs)], 1)
    BY <1>4, <2>1
  <2>4. /\ v[Len(v)].domain = fs[Len(fs)].domain /\ v[Len(v)].at = MaxTerms - fs[Len(fs)].left + 1
        /\ [domain |-> v[Len(v)].domain, at |-> v[Len(v)].at + 1] = Place(fs[Len(fs)], 2)
    BY <1>1, <1>4, <2>1, <2>3, PlaceFacts
  <2>5. /\ NextOf(v) \in Seq(Visit) /\ Len(NextOf(v)) = Len(v)
        /\ \A i \in 1..Len(v) : NextOf(v)[i] = IF i = Len(v)
               THEN [domain |-> v[Len(v)].domain, at |-> v[Len(v)].at + 1] ELSE v[i]
    BY <1>4, <2>2, NextFacts
  <2>6. \A i \in 1..Len(fs) : NextOf(v)[i] = Place(fs[i], 2)
    BY <1>4, <1>5, <2>4, <2>5
  <2> QED
    BY <1>4, <2>1, <2>2, <2>3, <2>4, <2>5, <2>6 DEF At, RecordAt
<1> QED
  BY <1>1, <1>4, <1>5, <1>6 DEF v

\* The record on top goes on to its next term.
Onward(fs) ==
    [fs EXCEPT ![Len(fs)] = [domain |-> fs[Len(fs)].domain, via |-> fs[Len(fs)].via,
                             left |-> fs[Len(fs)].left - 1]]

LEMMA ReadingNext ==
    ASSUME NEW fs \in Seq(Frame), fs # <<>>, fs[Len(fs)].left > 0,
           NEW gs, gs = Onward(fs)
    PROVE  /\ gs \in Seq(Frame) /\ Len(gs) = Len(fs) /\ gs # <<>>
           /\ \A i \in 1..Len(fs) : gs[i].domain = fs[i].domain /\ gs[i].via = fs[i].via
           /\ \A i \in 1..Len(fs) - 1 : gs[i] = fs[i]
           /\ Reading(gs) = NextOf(Reading(fs))
<1> DEFINE top == fs[Len(fs)]
           new == [domain |-> top.domain, via |-> top.via, left |-> top.left - 1]
           v == Reading(fs)
           w == Reading(gs)
<1>1. Len(fs) \in 1..Len(fs) /\ Len(fs) \in Nat \ {0}
  BY EmptySeq
<1>2. top \in Frame
  BY <1>1, ElementOfSeq
<1>3. top.left \in 1..MaxTerms /\ MaxTerms \in Nat
  BY <1>2, PlaceFacts
<1>4. /\ new \in Frame /\ new.domain = top.domain /\ new.via = top.via
      /\ Place(new, 1) = Place(top, 2)
  <2>1. new \in Frame
    BY <1>2, <1>3 DEF Frame
  <2>2. MaxTerms - (top.left - 1) + 1 = MaxTerms - top.left + 2
    BY <1>3
  <2> QED
    BY <2>1, <2>2 DEF Place
<1>5. gs = [fs EXCEPT ![Len(fs)] = new]
  BY DEF Onward
<1> HIDE DEF new
<1>6. /\ gs \in Seq(Frame) /\ Len(gs) = Len(fs)
      /\ \A i \in 1..Len(fs) : gs[i] = IF i = Len(fs) THEN new ELSE fs[i]
  BY <1>1, <1>4, <1>5, ExceptSeq
<1>7. gs # <<>>
  BY <1>1, <1>6, EmptySeq
<1>8. \A i \in 1..Len(fs) : gs[i].domain = fs[i].domain /\ gs[i].via = fs[i].via
  BY <1>4, <1>6
<1>9. /\ NextOf(v) \in Seq(Visit) /\ Len(NextOf(v)) = Len(fs)
      /\ \A i \in 1..Len(fs) : NextOf(v)[i] = Place(fs[i], 2)
  BY ReadingFacts
<1>10. /\ w \in Seq(Visit) /\ Len(w) = Len(gs) /\ w[Len(gs)] = Place(gs[Len(gs)], 1)
       /\ \A i \in 1..Len(gs) : i # Len(gs) => w[i] = Place(gs[i], 2)
  BY <1>6, <1>7, ReadingFacts
<1> HIDE DEF v, w
<1>11. \A i \in 1..Len(fs) : w[i] = NextOf(v)[i]
  BY <1>1, <1>4, <1>6, <1>9, <1>10
<1>12. w = NextOf(v)
  BY <1>6, <1>9, <1>10, <1>11, SeqEqual
<1>13. \A i \in 1..Len(fs) - 1 : gs[i] = fs[i]
  BY <1>1, <1>6
<1> QED
  BY <1>6, <1>7, <1>8, <1>12, <1>13 DEF v, w

\* A record is done.
LEMMA ReadingBack ==
    ASSUME NEW fs \in Seq(Frame), fs # <<>>, NEW gs, gs = SubSeq(fs, 1, Len(fs) - 1)
    PROVE  /\ gs \in Seq(Frame) /\ Len(gs) = Len(fs) - 1
           /\ \A i \in 1..Len(fs) - 1 : gs[i] = fs[i]
           /\ gs # <<>> => Len(fs) > 1 /\ NextOf(Reading(gs)) = Back(Reading(fs))
<1> DEFINE v == Reading(fs)
           w == Reading(gs)
           n == Len(fs) - 1
<1>1. Len(fs) \in Nat \ {0} /\ n \in Nat /\ 1 \in Int /\ n \in Int /\ n \in 0..Len(fs)
      /\ Len(fs) - 1 = n
  BY EmptySeq
<1>2. \A i \in 1..n : i \in 1..Len(fs) /\ i # Len(fs) /\ 1 + i - 1 = i
  BY <1>1
<1>3. \A i \in 1..n : fs[i] \in Frame
  BY <1>2, ElementOfSeq
<1>4. gs \in Seq(Frame) /\ Len(gs) = n /\ \A i \in 1..n : gs[i] = fs[i]
  <2> HIDE DEF n
  <2>1. (IF 1 <= n THEN n - 1 + 1 ELSE 0) = n /\ \A i \in 1..n : i \in 1..n - 1 + 1
    BY <1>1
  <2>2. /\ SubSeq(fs, 1, n) \in Seq(Frame) /\ Len(SubSeq(fs, 1, n)) = n
        /\ \A i \in 1..n : SubSeq(fs, 1, n)[i] = fs[i]
    BY <1>1, <1>2, <1>3, <2>1, SubSeqProperties
  <2> QED
    BY <2>2 DEF n
<1>5. ASSUME gs # <<>> PROVE Len(fs) > 1 /\ NextOf(w) = Back(v)
  <2>1. n > 0
    BY <1>1, <1>4, <1>5, EmptySeq
  <2>2. /\ v \in Seq(Visit) /\ Len(v) = Len(fs)
        /\ \A i \in 1..Len(fs) : i # Len(fs) => v[i] = Place(fs[i], 2)
    BY ReadingFacts
  <2>3. /\ NextOf(w) \in Seq(Visit) /\ Len(NextOf(w)) = Len(gs)
        /\ \A i \in 1..Len(gs) : NextOf(w)[i] = Place(gs[i], 2)
    BY <1>4, <1>5, ReadingFacts
  <2> HIDE DEF v, w
  <2>4. Back(v) \in Seq(Visit) /\ Len(Back(v)) = n /\ \A i \in 1..n : Back(v)[i] = v[i]
    <3>1. n \in 0..Len(v) /\ Len(v) - 1 = n
      BY <1>1, <2>2
    <3> HIDE DEF n
    <3> QED
      BY <2>2, <3>1, BackFacts DEF Back
  <2>5. \A i \in 1..n : NextOf(w)[i] = Back(v)[i]
    <3> HIDE DEF n
    <3> QED
      BY <1>2, <1>4, <2>2, <2>3, <2>4
  <2>6. NextOf(w) = Back(v)
    <3> HIDE DEF n
    <3> QED
      BY <1>4, <2>3, <2>4, <2>5, SeqEqual
  <2> QED
    BY <1>1, <2>1, <2>6
<1> QED
  BY <1>4, <1>5

\* A target's record is entered.
Into(fs, d, via) == Append(fs, [domain |-> d, via |-> via, left |-> MaxTerms])

LEMMA ReadingChild ==
    ASSUME NEW fs \in Seq(Frame), NEW d \in Domains, NEW via \in Vias
    PROVE  /\ Into(fs, d, via) \in Seq(Frame) /\ Len(Into(fs, d, via)) = Len(fs) + 1 /\ Into(fs, d, via) # <<>>
           /\ \A i \in 1..Len(fs) : Into(fs, d, via)[i] = fs[i]
           /\ Into(fs, d, via)[Len(fs) + 1] = [domain |-> d, via |-> via, left |-> MaxTerms]
           /\ fs = <<>> => Reading(Into(fs, d, via)) = <<[domain |-> d, at |-> 1]>>
           /\ fs # <<>> => Reading(Into(fs, d, via)) = Child(Reading(fs), d)
<1> DEFINE gs == Into(fs, d, via)
           new == [domain |-> d, via |-> via, left |-> MaxTerms]
           one == [domain |-> d, at |-> 1]
           v == Reading(fs)
           w == Reading(gs)
           n == Len(fs) + 1
<1>1. new \in Frame /\ Place(new, 1) = one
  <2>1. MaxTerms \in 0..MaxTerms /\ MaxTerms - MaxTerms + 1 = 1
    BY SpfAssumption
  <2>2. new.domain = d /\ new.left = MaxTerms
    OBVIOUS
  <2> QED
    BY <2>1, <2>2 DEF Frame, Place
<1>2. /\ Len(fs) \in Nat /\ n \in 1..n /\ n # 0
      /\ \A i \in 1..n : i = n \/ i \in 1..Len(fs)
      /\ \A i \in 1..Len(fs) : i \in 1..n /\ i # n
  OBVIOUS
<1>3. one \in Visit
  BY DEF Visit
<1> HIDE DEF new
<1>4. /\ gs \in Seq(Frame) /\ gs # <<>> /\ Len(gs) = n
      /\ \A i \in 1..Len(fs) : gs[i] = fs[i]
      /\ gs[n] = new
  BY <1>1, AppendProperties DEF new, Into
<1> HIDE DEF gs
<1> HIDE DEF one
<1>5. /\ w \in Seq(Visit) /\ Len(w) = Len(gs) /\ w[Len(gs)] = Place(gs[Len(gs)], 1)
      /\ \A i \in 1..Len(gs) : i # Len(gs) => w[i] = Place(gs[i], 2)
  BY <1>4, ReadingFacts
<1> HIDE DEF n, v, w
<1>6. /\ Len(w) = n /\ w[n] = one
      /\ \A i \in 1..Len(fs) : w[i] = Place(fs[i], 2)
  BY <1>1, <1>2, <1>4, <1>5
<1>7. ASSUME fs = <<>> PROVE w = <<one>>
  <2>1. n = 1
    BY <1>7, EmptySeq DEF n
  <2>2. <<one>> \in Seq(Visit) /\ Len(<<one>>) = 1 /\ <<one>>[1] = one
    BY <1>3
  <2>3. \A i \in 1..1 : w[i] = <<one>>[i]
    BY <1>6, <2>1, <2>2
  <2> QED
    BY <1>5, <1>6, <2>1, <2>2, <2>3, SeqEqual
<1>8. ASSUME fs # <<>> PROVE w = Child(v, d)
  <2>1. /\ v \in Seq(Visit) /\ Len(v) = Len(fs) /\ v # <<>>
        /\ \A i \in 1..Len(fs) : NextOf(v)[i] = Place(fs[i], 2)
    BY <1>8, ReadingFacts DEF v
  <2>2. /\ Child(v, d) \in Seq(Visit) /\ Len(Child(v, d)) = n
        /\ \A i \in 1..n : Child(v, d)[i] = IF i = n THEN one ELSE NextOf(v)[i]
    BY <2>1, ChildFacts DEF n, one
  <2>3. \A i \in 1..n : w[i] = Child(v, d)[i]
    BY <1>2, <1>6, <2>1, <2>2
  <2> QED
    BY <1>5, <1>6, <2>2, <2>3, SeqEqual
<1> QED
  BY <1>4, <1>7, <1>8 DEF gs, n, v, w, new, one

-----------------------------------------------------------------------------
(* The steps of an evaluation along the log of a walk that is over         *)

\* From a place the walk has been to, it went on as the log says.
LEMMA LogGoesOn ==
    ASSUME NEW H, NEW z, NEW n, Log(H, z, <<>>, n), NEW v, NEW m \in Nat, Reached(H, v, m)
    PROVE  /\ v \in Seq(Visit) /\ v # <<>> /\ m <= n /\ RecordAt(z, v) \in Records
           /\ Len(v) > 1 => Reached(H, Back(v), m)
           /\ At(v) <= Len(RecordAt(z, v).terms) + 1 => Reached(H, NextOf(v), m + Cost(z, v))
           /\ \A t : Leads(z, v, t) => Unread(z, v, t) \/ Reached(H, Child(v, t), m + 1)
<1>1. PICK k \in Nat : m <= k /\ <<v, k>> \in H
  BY DEF Reached
<1>2. LogEntry(H, z, <<>>, n, v, k) /\ n \in Nat
  <2>1. \A e \in H : LogEntry(H, z, <<>>, n, e[1], e[2])
    BY DEF Log
  <2>2. <<v, k>>[1] = v /\ <<v, k>>[2] = k
    OBVIOUS
  <2> QED
    BY <1>1, <2>1, <2>2, Zenon DEF Log
<1>3. \A u : ~Under(<<>>, u)
  BY EmptySeq DEF Under
<1>4. Cost(z, v) \in {0, 1}
  BY DEF Cost
<1>5. ASSUME NEW u, NEW j \in Nat, NEW i \in Nat, i <= j, Reached(H, u, j) PROVE Reached(H, u, i)
  BY <1>5 DEF Reached
<1>6. v \in Seq(Visit) /\ v # <<>> /\ m <= n /\ RecordAt(z, v) \in Records
  BY <1>1, <1>2 DEF LogEntry
<1>7. Len(v) > 1 => Reached(H, Back(v), m)
  BY <1>1, <1>2, <1>3, <1>5 DEF LogEntry
<1>8. At(v) <= Len(RecordAt(z, v).terms) + 1 => Reached(H, NextOf(v), m + Cost(z, v))
  <2>1. k + Cost(z, v) \in Nat /\ m + Cost(z, v) \in Nat /\ m + Cost(z, v) <= k + Cost(z, v)
    BY <1>1, <1>4
  <2>2. At(v) <= Len(RecordAt(z, v).terms) + 1 => Reached(H, NextOf(v), k + Cost(z, v))
    BY <1>2, <1>3, <1>6 DEF LogEntry
  <2> QED
    BY <1>5, <2>1, <2>2
<1>9. ASSUME NEW t, Leads(z, v, t) PROVE Unread(z, v, t) \/ Reached(H, Child(v, t), m + 1)
  <2>1. k + 1 \in Nat /\ m + 1 \in Nat /\ m + 1 <= k + 1
    BY <1>1
  <2>2. Unread(z, v, t) \/ Reached(H, Child(v, t), k + 1)
    BY <1>2, <1>6, <1>9 DEF LogEntry
  <2> QED
    BY <1>5, <2>1, <2>2
<1> QED
  BY <1>6, <1>7, <1>8, <1>9

LEMMA ReachedBefore ==
    ASSUME NEW H, NEW v, NEW m \in Nat, NEW l \in Nat, l <= m, Reached(H, v, m)
    PROVE  Reached(H, v, l)
BY DEF Reached

\* A term that leads to a target costs a lookup.
LEMMA LeadsCosts ==
    ASSUME NEW z, NEW v, RecordAt(z, v) \in Records, NEW t, Leads(z, v, t)
    PROVE  Cost(z, v) = 1 /\ At(v) <= Len(RecordAt(z, v).terms) + 1
<1>1. Len(RecordAt(z, v).terms) \in Nat
  BY SpfAssumption, AnalyzeAssumption
<1> QED
  BY <1>1 DEF Leads, Costs, Cost, InTerms, AtRedirect

LEMMA SeenNext ==
    ASSUME NEW r, NEW at \in Nat \ {0}, AllSeen(r, at + 1), ~AllSeen(r, at)
    PROVE  r.terms[at].kind = "all"
<1>1. at + 1 - 1 = at
  OBVIOUS
<1>2. PICK i \in 1..at : r.terms[i].kind = "all"
  BY <1>1 DEF AllSeen
<1>3. i = at \/ i \in 1..at - 1
  OBVIOUS
<1> QED
  BY <1>2, <1>3 DEF AllSeen

\* No match: the evaluation reads the next term.
LEMMA EvalReads ==
    ASSUME NEW H, NEW z, NEW n, Log(H, z, <<>>, n),
           NEW fs, Nested(z, fs), fs # <<>>,
           Live(z, Reading(fs)), InTerms(z, Reading(fs)),
           RecordAt(z, Reading(fs)).terms[At(Reading(fs))].kind # "all",
           NEW l \in Nat, Reached(H, NextOf(Reading(fs)), l),
           NEW gs, gs = Onward(fs),
           NEW c
    PROVE  Followed(H, z, n, "term", c, gs, l)
<1> DEFINE v == Reading(fs)
<1>1. fs \in Seq(Frame)
  BY DEF Nested
<1>2. /\ v \in Seq(Visit) /\ v # <<>> /\ Len(v) = Len(fs) /\ At(v) = MaxTerms - fs[Len(fs)].left + 1
      /\ Len(fs) \in 1..Len(fs) /\ Len(fs) \in Nat
      /\ RecordAt(z, v) = z[fs[Len(fs)].domain]
  BY <1>1, ReadingFacts
<1>3. fs[Len(fs)].left \in 0..MaxTerms /\ MaxTerms \in Nat
  BY <1>1, <1>2, ElementOfSeq, PlaceFacts
<1>4. RecordAt(z, v) \in Records /\ Len(RecordAt(z, v).terms) \in 0..MaxTerms
  BY <1>2, AnalyzeAssumption DEF Nested
<1>5. fs[Len(fs)].left > 0
  BY <1>2, <1>3, <1>4 DEF InTerms
<1>6. /\ gs \in Seq(Frame) /\ Len(gs) = Len(fs) /\ gs # <<>>
      /\ \A i \in 1..Len(fs) : gs[i].domain = fs[i].domain /\ gs[i].via = fs[i].via
      /\ \A i \in 1..Len(fs) - 1 : gs[i] = fs[i]
      /\ Reading(gs) = NextOf(v)
  BY <1>1, <1>5, ReadingNext
<1> HIDE DEF v
<1>7. Nested(z, gs)
  <2>1. \A i \in 1..Len(gs) - 1 : gs[i + 1].via = "include" => AtInclude(z, gs[i])
    <3> SUFFICES ASSUME NEW i \in 1..Len(gs) - 1, gs[i + 1].via = "include" PROVE AtInclude(z, gs[i])
      OBVIOUS
    <3>1. i \in 1..Len(fs) - 1 /\ i + 1 \in 1..Len(fs)
      BY <1>2, <1>6
    <3>2. fs[i + 1].via = "include" /\ gs[i] = fs[i]
      BY <1>6, <3>1
    <3> QED
      BY <3>1, <3>2 DEF Nested
  <2>2. \A i \in 1..Len(gs) : z[gs[i].domain] \in Records /\ (gs[i].via = "root" <=> i = 1)
    BY <1>6 DEF Nested
  <2> QED
    BY <1>6, <2>1, <2>2 DEF Nested
<1>8. /\ RecordAt(z, NextOf(v)) = RecordAt(z, v) /\ At(NextOf(v)) = At(v) + 1 /\ At(v) \in Nat \ {0}
  <2>1. /\ At(NextOf(v)) = At(v) + 1 /\ At(v) \in Nat \ {0} /\ Len(NextOf(v)) = Len(v)
        /\ \A i \in 1..Len(v) : NextOf(v)[i].domain = v[i].domain
    BY <1>2, NextFacts
  <2>2. NextOf(v)[Len(v)].domain = v[Len(v)].domain
    BY <1>2, <2>1
  <2> QED
    BY <2>1, <2>2 DEF RecordAt
<1>9. At(NextOf(v)) <= Len(RecordAt(z, NextOf(v)).terms) + 1
  BY <1>4, <1>8 DEF v, InTerms
<1>10. Live(z, NextOf(v))
  <2>1. ~AllSeen(RecordAt(z, v), At(v)) /\ RecordAt(z, v).terms[At(v)].kind # "all"
    BY DEF v, Live
  <2>2. ~AllSeen(RecordAt(z, v), At(v) + 1)
    BY <1>8, <2>1, SeenNext
  <2> QED
    BY <1>8, <2>2 DEF Live
<1> QED
  BY <1>6, <1>7, <1>9, <1>10 DEF v, Followed

\* The evaluation of a record is over: the walk has been back there as well.
LEMMA EvalPops ==
    ASSUME NEW H, NEW z, NEW n, Log(H, z, <<>>, n),
           NEW fs, Nested(z, fs), fs # <<>>,
           NEW l \in Nat, Reached(H, NextOf(Reading(fs)), l),
           NEW gs, gs = SubSeq(fs, 1, Len(fs) - 1),
           NEW c, c.via = fs[Len(fs)].via
    PROVE  Followed(H, z, n, "resume", c, gs, l)
<1> DEFINE v == Reading(fs)
<1>1. fs \in Seq(Frame)
  BY DEF Nested
<1>2. /\ v \in Seq(Visit) /\ v # <<>> /\ Len(v) = Len(fs)
      /\ Len(fs) \in 1..Len(fs) /\ Len(fs) \in Nat
  BY <1>1, ReadingFacts
<1>3. /\ gs \in Seq(Frame) /\ Len(gs) = Len(fs) - 1
      /\ \A i \in 1..Len(fs) - 1 : gs[i] = fs[i]
      /\ gs # <<>> => Len(fs) > 1 /\ NextOf(Reading(gs)) = Back(v)
  BY <1>1, ReadingBack
<1> HIDE DEF v
<1>4. Len(NextOf(v)) = Len(v) /\ Back(NextOf(v)) = Back(v)
  BY <1>2, NextFacts, UnderNext
<1>5. l <= n /\ (Len(NextOf(v)) > 1 => Reached(H, Back(NextOf(v)), l))
  BY LogGoesOn DEF v
<1>6. \A i \in 1..Len(gs) : i \in 1..Len(fs) /\ i \in 1..Len(fs) - 1
  BY <1>2, <1>3
<1>7. Nested(z, gs)
  <2>1. \A i \in 1..Len(gs) - 1 : gs[i + 1].via = "include" => AtInclude(z, gs[i])
    <3> SUFFICES ASSUME NEW i \in 1..Len(gs) - 1, gs[i + 1].via = "include" PROVE AtInclude(z, gs[i])
      OBVIOUS
    <3>1. i \in 1..Len(fs) - 1 /\ i + 1 \in 1..Len(fs) - 1
      BY <1>2, <1>3
    <3>2. fs[i + 1].via = "include" /\ gs[i] = fs[i]
      BY <1>3, <3>1
    <3> QED
      BY <3>1, <3>2 DEF Nested
  <2>2. \A i \in 1..Len(gs) : z[gs[i].domain] \in Records /\ (gs[i].via = "root" <=> i = 1)
    BY <1>3, <1>6 DEF Nested
  <2> QED
    BY <1>3, <2>1, <2>2 DEF Nested
<1>8. c.via = "root" <=> gs = <<>>
  <2>1. c.via = "root" <=> Len(fs) = 1
    BY <1>2 DEF Nested
  <2>2. gs = <<>> <=> Len(gs) = 0
    BY <1>3, EmptySeq
  <2> QED
    BY <1>2, <1>3, <2>1, <2>2
<1>9. ASSUME c.via = "include" PROVE AtInclude(z, gs[Len(gs)])
  <2>1. Len(fs) # 1
    BY <1>2, <1>9 DEF Nested
  <2>2. Len(gs) \in 1..Len(fs) - 1 /\ Len(gs) + 1 = Len(fs)
    BY <1>2, <1>3, <2>1
  <2>3. AtInclude(z, fs[Len(gs)])
    BY <1>9, <2>2 DEF Nested
  <2> QED
    BY <1>3, <2>2, <2>3
<1>10. gs # <<>> => Reached(H, NextOf(Reading(gs)), l)
  BY <1>2, <1>3, <1>4, <1>5
<1>11. c.via \in Vias
  <2>1. fs[Len(fs)] \in Frame
    BY <1>1, <1>2, ElementOfSeq
  <2> QED
    BY <2>1 DEF Frame
<1> QED
  BY <1>5, <1>7, <1>8, <1>9, <1>10, <1>11 DEF Followed

\* A target is not entered: the walk went on after the term.
LEMMA EvalFails ==
    ASSUME NEW H, NEW z, NEW n, Log(H, z, <<>>, n),
           NEW fs, NEW c, NEW l, Followed(H, z, n, "enter", c, fs, l)
    PROVE  Followed(H, z, n, "resume", c, fs, l)
<1> DEFINE v == Reading(fs)
<1>1. ASSUME fs # <<>> PROVE Reached(H, NextOf(v), l)
  <2>1. PICK k \in Nat : l <= k + 1 /\ <<v, k>> \in H
    BY <1>1 DEF Followed
  <2>2. Leads(z, v, c.domain) /\ l \in Nat
    BY <1>1 DEF Followed
  <2> HIDE DEF v
  <2>3. k <= k /\ Reached(H, v, k)
    BY <2>1 DEF Reached
  <2>4. /\ RecordAt(z, v) \in Records
        /\ At(v) <= Len(RecordAt(z, v).terms) + 1 => Reached(H, NextOf(v), k + Cost(z, v))
    BY <2>1, <2>3, LogGoesOn
  <2>5. Reached(H, NextOf(v), k + 1)
    BY <2>2, <2>4, LeadsCosts
  <2> QED
    BY <2>1, <2>2, <2>5, ReachedBefore
<1> QED
  BY <1>1 DEF Followed

\* A target's record is entered: there the walk has been as well.
LEMMA EvalEnters ==
    ASSUME NEW H, NEW z, NEW n, Log(H, z, <<>>, n),
           NEW fs, NEW c, NEW l, Followed(H, z, n, "enter", c, fs, l),
           z[Root] \in Records => \E k \in Nat : <<<<First>>, k>> \in H,
           c.domain \in Domains => z[c.domain] \in Records, c.domain # BadName,
           \A i \in 1..Len(fs) : fs[i].domain # c.domain,
           Len(fs) <= MaxDepth,
           NEW gs, gs = Into(fs, c.domain, c.via)
    PROVE  Followed(H, z, n, "term", c, gs, l)
<1> DEFINE v == Reading(fs)
           w == Reading(gs)
           d == c.domain
<1>1. /\ fs \in Seq(Frame) /\ Nested(z, fs) /\ l \in Nat
      /\ c.via \in Vias /\ (c.via = "root" <=> fs = <<>>)
      /\ c.via = "include" => AtInclude(z, fs[Len(fs)])
  BY DEF Followed, Nested
<1>2. d \in Domains /\ Reached(H, w, l)
  <2>1. CASE fs = <<>>
    <3>1. d = Root /\ l = 0 /\ Root \in Domains
      BY <2>1, AnalyzeAssumption DEF Followed, Root
    <3>2. w = <<First>>
      BY <1>1, <2>1, <3>1, ReadingChild DEF First
    <3> HIDE DEF w
    <3> QED
      BY <3>1, <3>2 DEF Reached
  <2>2. CASE fs # <<>>
    <3>1. PICK k \in Nat : l <= k + 1 /\ <<v, k>> \in H
      BY <2>2 DEF Followed
    <3>2. Leads(z, v, d)
      BY <2>2 DEF Followed
    <3>3. /\ v \in Seq(Visit) /\ v # <<>> /\ Len(v) = Len(fs) /\ Len(v) \in Nat
          /\ \A i \in 1..Len(fs) : v[i].domain = fs[i].domain
      <4>1. /\ v \in Seq(Visit) /\ v # <<>> /\ Len(v) = Len(fs) /\ Len(fs) \in Nat
            /\ \A i \in 1..Len(fs) : v[i] \in {Place(fs[i], 1), Place(fs[i], 2)}
        BY <1>1, <2>2, ReadingFacts
      <4> HIDE DEF v
      <4> QED
        BY <4>1 DEF Place
    <3>4. ~Unread(z, v, d)
      <4>1. ~(Len(v) > MaxDepth) /\ ~(\E i \in 1..Len(v) : v[i].domain = d)
        BY <3>3, SpfAssumption
      <4>2. ~(d \in Domains /\ z[d] \in {NoRecord, Several, Malformed})
        BY AnalyzeAssumption
      <4> QED
        BY <4>1, <4>2 DEF Unread
    <3> HIDE DEF v, d
    <3>5. Reached(H, v, k) /\ k + 1 \in Nat
      <4>1. k <= k /\ k + 1 \in Nat
        OBVIOUS
      <4> QED
        BY <3>1, <4>1 DEF Reached
    <3>6. Reached(H, Child(v, d), k + 1)
      BY <3>2, <3>4, <3>5, LogGoesOn
    <3>7. d \in Domains
      <4> DEFINE one == [domain |-> d, at |-> 1]
                 All == Visit \cup {one}
      <4>1. NextOf(v) \in Seq(Visit) /\ Len(NextOf(v)) = Len(v)
        BY <3>3, NextFacts
      <4>2. Child(v, d) \in Seq(Visit)
        BY <3>5, <3>6, LogGoesOn
      <4>3. NextOf(v) \in Seq(All) /\ one \in All /\ Child(v, d) = Append(NextOf(v), one)
        BY <4>1 DEF Child
      <4> HIDE DEF one, All
      <4>4. Len(Child(v, d)) = Len(v) + 1 /\ Child(v, d)[Len(v) + 1] = one
        BY <4>1, <4>3, AppendProperties
      <4>5. one \in Visit
        <5>1. Len(v) + 1 \in 1..Len(Child(v, d))
          BY <3>3, <4>4
        <5> QED
          BY <4>2, <4>4, <5>1, ElementOfSeq
      <4>6. one.domain \in Domains
        BY <4>5 DEF Visit
      <4> QED
        BY <4>6 DEF one
    <3>8. w = Child(v, d)
      BY <1>1, <2>2, <3>7, ReadingChild DEF v, d
    <3> HIDE DEF w
    <3>9. Reached(H, w, l)
      BY <1>1, <3>1, <3>5, <3>6, <3>8, ReachedBefore
    <3> QED
      BY <3>7, <3>9
  <2> QED
    BY <2>1, <2>2
<1>3. /\ gs \in Seq(Frame) /\ Len(gs) = Len(fs) + 1 /\ gs # <<>> /\ Len(fs) \in Nat
      /\ \A i \in 1..Len(fs) : gs[i] = fs[i]
      /\ gs[Len(fs) + 1] = [domain |-> d, via |-> c.via, left |-> MaxTerms]
  BY <1>1, <1>2, ReadingChild
<1>4. w # <<>> /\ At(w) = 1 /\ RecordAt(z, w) = z[d] /\ w \in Seq(Visit)
  <2>1. /\ w # <<>> /\ w \in Seq(Visit)
        /\ At(w) = MaxTerms - gs[Len(gs)].left + 1
        /\ RecordAt(z, w) = z[gs[Len(gs)].domain]
    BY <1>3, ReadingFacts
  <2>2. gs[Len(gs)].left = MaxTerms /\ gs[Len(gs)].domain = d
    BY <1>3
  <2>3. MaxTerms - MaxTerms + 1 = 1
    BY SpfAssumption
  <2> QED
    BY <2>1, <2>2, <2>3
<1>5. Live(z, w) /\ At(w) <= Len(RecordAt(z, w).terms) + 1
  <2>1. Len(z[d].terms) \in Nat
    BY <1>2, SpfAssumption, AnalyzeAssumption
  <2>2. ~AllSeen(z[d], 1)
    BY DEF AllSeen
  <2> HIDE DEF w, d
  <2> QED
    BY <1>4, <2>1, <2>2 DEF Live
<1>6. Nested(z, gs)
  <2>1. \A i \in 1..Len(gs) : i = Len(fs) + 1 \/ i \in 1..Len(fs)
    BY <1>3
  <2>2. ASSUME NEW i \in 1..Len(gs)
        PROVE  z[gs[i].domain] \in Records /\ (gs[i].via = "root" <=> i = 1)
    <3>1. CASE i = Len(fs) + 1
      <4>1. gs[i].domain = d /\ gs[i].via = c.via
        BY <1>3, <3>1
      <4>2. fs = <<>> <=> i = 1
        BY <1>1, <1>3, <3>1, EmptySeq
      <4> QED
        BY <1>1, <1>2, <4>1, <4>2
    <3>2. CASE i \in 1..Len(fs)
      BY <1>1, <1>3, <3>2 DEF Nested
    <3> QED
      BY <2>1, <3>1, <3>2
  <2>3. ASSUME NEW i \in 1..Len(gs) - 1, gs[i + 1].via = "include" PROVE AtInclude(z, gs[i])
    <3>1. i \in 1..Len(fs) /\ gs[i] = fs[i]
      BY <1>3
    <3>2. CASE i = Len(fs)
      <4>1. c.via = "include"
        BY <1>3, <2>3, <3>2
      <4> QED
        BY <1>1, <3>1, <3>2, <4>1
    <3>3. CASE i # Len(fs)
      <4>1. i \in 1..Len(fs) - 1 /\ i + 1 \in 1..Len(fs)
        BY <1>3, <3>1, <3>3
      <4> QED
        BY <1>1, <1>3, <2>3, <3>1, <4>1 DEF Nested
    <3> QED
      BY <3>2, <3>3
  <2> QED
    BY <1>3, <2>2, <2>3 DEF Nested
<1> QED
  BY <1>1, <1>2, <1>3, <1>5, <1>6 DEF Followed

\* What a path means does not change when the zone becomes better known.
LEMMA FollowedGrows ==
    ASSUME NEW H, NEW z, NEW y, NEW n, NEW p, NEW c, NEW fs, NEW l,
           Followed(H, z, n, p, c, fs, l),
           \A d \in Domains : z[d] \in Published => y[d] = z[d]
    PROVE  Followed(H, y, n, p, c, fs, l)
<1>1. Nested(z, fs) /\ fs \in Seq(Frame) /\ Len(fs) \in Nat
  BY DEF Followed, Nested
<1>2. ASSUME NEW i \in 1..Len(fs) PROVE y[fs[i].domain] = z[fs[i].domain]
  <2>1. fs[i].domain \in Domains /\ z[fs[i].domain] \in Records
    BY <1>1, ElementOfSeq, PlaceFacts DEF Nested
  <2> QED
    BY <2>1 DEF Published
<1>3. \A i \in 1..Len(fs) : AtInclude(y, fs[i]) <=> AtInclude(z, fs[i])
  BY <1>2 DEF AtInclude
<1>4. Nested(y, fs)
  <2>1. ASSUME NEW i \in 1..Len(fs) - 1, fs[i + 1].via = "include" PROVE AtInclude(y, fs[i])
    BY <1>1, <1>3, <2>1 DEF Nested
  <2> QED
    BY <1>1, <1>2, <2>1 DEF Nested
<1>5. ASSUME fs # <<>>
      PROVE  /\ RecordAt(y, Reading(fs)) = RecordAt(z, Reading(fs))
             /\ Live(y, Reading(fs)) <=> Live(z, Reading(fs))
             /\ AtInclude(y, fs[Len(fs)]) <=> AtInclude(z, fs[Len(fs)])
             /\ \A t : Leads(y, Reading(fs), t) <=> Leads(z, Reading(fs), t)
  <2>1. Len(fs) \in 1..Len(fs) /\ \A x : RecordAt(x, Reading(fs)) = x[fs[Len(fs)].domain]
    BY <1>1, <1>5, ReadingFacts
  <2>2. RecordAt(y, Reading(fs)) = RecordAt(z, Reading(fs))
    BY <1>2, <2>1
  <2> QED
    BY <1>3, <2>1, <2>2 DEF Live, Leads, InTerms, AtRedirect
<1>6. CASE fs = <<>>
  BY <1>4, <1>6 DEF Followed
<1>7. CASE fs # <<>>
  BY <1>4, <1>5, <1>7 DEF Followed
<1> QED
  BY <1>6, <1>7

-----------------------------------------------------------------------------
(* What the steps of an evaluation do to its stack                         *)

EvalReadsOn == pc' = "term" /\ frames' = Onward(frames) /\ ret' = ret
EvalLeaves ==
    /\ pc' = "resume" /\ frames' = SubSeq(frames, 1, Len(frames) - 1)
    /\ call'.via = Top.via /\ ret'.why # "lookups"
EvalStays ==
    /\ pc' = "resume" /\ frames' = frames /\ call' = call
    /\ ret'.why # "lookups" /\ lookups' = lookups
EvalCalls(target, via) ==
    /\ pc' = "enter" /\ frames' = frames /\ ret' = ret
    /\ call' = [domain |-> target, via |-> via]

LEMMA Outcomes ==
    /\ \A base : NoMatch(base) => EvalReadsOn
    /\ \A res, why : why # "lookups" /\ Leave(res, why) => EvalLeaves
    /\ \A q, base : Matched(q, base) => EvalLeaves
    /\ \A res, why, base : why # "lookups" /\ Abort(res, why, base) => EvalLeaves
<1>1. ASSUME NEW base, NoMatch(base) PROVE EvalReadsOn
  BY <1>1 DEF NoMatch, NextTerm, ReadTerm, Onward, Top, EvalReadsOn
<1>2. ASSUME NEW res, NEW why, why # "lookups", Leave(res, why) PROVE EvalLeaves
  BY <1>2 DEF Leave, PopFrame, EvalLeaves
<1>3. ASSUME NEW q, NEW base, Matched(q, base) PROVE EvalLeaves
  BY <1>2, <1>3 DEF Matched
<1>4. ASSUME NEW res, NEW why, NEW base, why # "lookups", Abort(res, why, base) PROVE EvalLeaves
  BY <1>2, <1>4 DEF Abort
<1> QED
  BY <1>1, <1>2, <1>3, <1>4

CostlyKinds == {"include", "ptr", "host", "exists"}

LEMMA TermOutcomes ==
    ASSUME EvaluateTerm
    PROVE  /\ AtTerm /\ EvalAt <= Len(Evaluated.terms) /\ UNCHANGED analysisVars
           /\ lookups' = lookups \/ (lookups' = lookups + 1 /\ EvalTerm.kind \in CostlyKinds)
           /\ \/ EvalReadsOn /\ EvalTerm.kind # "all"
              \/ EvalLeaves
              \/ EvalTerm.kind \in CostlyKinds /\ lookups' = lookups + 1 /\ lookups' > MaxLookups
              \/ /\ EvalTerm.kind = "include" /\ lookups' = lookups + 1
                 /\ \E d \in Meant(EvalTerm.target, client) : EvalCalls(d, "include")
<1> DEFINE kind == EvalTerm.kind
           q == EvalTerm.qualifier
           Outcome == EvalReadsOn \/ EvalLeaves
<1>1. AtTerm /\ EvalAt <= Len(Evaluated.terms) /\ UNCHANGED analysisVars
  BY DEF EvaluateTerm
<1>2. CASE kind = "all" /\ PlainTerm(q) /\ pc' = "resume"
  <2>1. lookups' = lookups
    BY <1>2 DEF PlainTerm
  <2>2. Matched(q, queries) \/ NoMatch(queries)
    BY <1>2 DEF PlainTerm
  <2>3. EvalLeaves
    BY <1>2, <2>2, Outcomes DEF EvalReadsOn
  <2> QED
    BY <1>1, <2>1, <2>3
<1>3. CASE kind = "range" /\ PlainTerm(q)
  <2>1. lookups' = lookups
    BY <1>3 DEF PlainTerm
  <2>2. Matched(q, queries) \/ NoMatch(queries)
    BY <1>3 DEF PlainTerm
  <2>3. Outcome
    BY <2>2, Outcomes
  <2> QED
    BY <1>1, <1>3, <2>1, <2>3
<1>4. CASE kind \in CostlyKinds /\ TermOverLimit
  BY <1>1, <1>4 DEF TermOverLimit
<1>5. ASSUME kind \in CostlyKinds, lookups' = lookups + 1, Outcome
      PROVE  /\ lookups' = lookups \/ (lookups' = lookups + 1 /\ EvalTerm.kind \in CostlyKinds)
             /\ (EvalReadsOn /\ EvalTerm.kind # "all") \/ EvalLeaves
  BY <1>5 DEF CostlyKinds
<1>6. ASSUME NEW n, kind = "ptr", PTRTerm(q, n, 0) PROVE lookups' = lookups + 1 /\ Outcome
  <2>1. lookups' = lookups + 1
    BY <1>6 DEF PTRTerm, CountLookup
  <2>2. \E base : NoMatch(base) \/ Matched(q, base)
    BY <1>6 DEF PTRTerm
  <2> QED
    BY <2>1, <2>2, Outcomes
<1>7. ASSUME NEW base, VoidTerm(base) \/ FailingTerm(base) PROVE Outcome
  <2>1. CASE VoidTerm(base)
    <3>1. NoMatch(base) \/ Abort("permerror", "void_lookups", base)
      BY <2>1 DEF VoidTerm
    <3> QED
      BY <3>1, Outcomes
  <2>2. CASE FailingTerm(base)
    <3>1. Abort("temperror", "lookup_failed", base)
      BY <2>2 DEF FailingTerm
    <3> QED
      BY <3>1, Outcomes
  <2> QED
    BY <1>7, <2>1, <2>2
<1>8. ASSUME NEW o, AddressTerm(q, o, 0) PROVE lookups' = lookups + 1 /\ Outcome
  <2>1. lookups' = lookups + 1
    BY <1>8 DEF AddressTerm, CountLookup
  <2>2. \E base : VoidTerm(base) \/ FailingTerm(base) \/ NoMatch(base) \/ Matched(q, base)
    BY <1>8 DEF AddressTerm
  <2> QED
    BY <1>7, <2>1, <2>2, Outcomes
<1>9. ASSUME NEW o, MXTermUnusable(o, 0) PROVE lookups' = lookups + 1 /\ Outcome
  <2>1. lookups' = lookups + 1
    BY <1>9 DEF MXTermUnusable, CountLookup
  <2>2. \E base : VoidTerm(base) \/ FailingTerm(base) \/ Abort("permerror", "mx_names", base)
    BY <1>9 DEF MXTermUnusable
  <2> QED
    BY <1>7, <2>1, <2>2, Outcomes
<1>10. ASSUME NEW o, NEW n, MXTerm(q, o, n, 0) PROVE lookups' = lookups + 1 /\ Outcome
  <2>1. lookups' = lookups + 1
    BY <1>10 DEF MXTerm, CountLookup
  <2>2. \E base : FailingTerm(base) \/ NoMatch(base) \/ Matched(q, base)
    BY <1>10 DEF MXTerm
  <2> QED
    BY <1>7, <2>1, <2>2, Outcomes
<1>11. CASE kind = "include" /\ \E d \in Meant(EvalTerm.target, client) : Include(d, 0)
  <2>0. PICK d \in Meant(EvalTerm.target, client) : Include(d, 0)
    BY <1>11
  <2>1. lookups' = lookups + 1 /\ kind \in CostlyKinds
    BY <1>11, <2>0 DEF Include, CountLookup, CostlyKinds
  <2>2. CASE d = BadName
    <3>1. Leave("permerror", "invalid_target")
      BY <2>0, <2>2 DEF Include
    <3> QED
      BY <1>1, <2>1, <3>1, Outcomes
  <2>3. CASE d # BadName
    <3>1. EvalCalls(d, "include")
      BY <2>0, <2>3 DEF Include, EvalCalls
    <3> QED
      BY <1>1, <1>11, <2>1, <3>1
  <2> QED
    BY <2>2, <2>3
<1>12. \/ kind = "all" /\ PlainTerm(q) /\ pc' = "resume"
       \/ kind = "range" /\ PlainTerm(q)
       \/ kind \in {"include", "ptr", "host", "exists"} /\ TermOverLimit
       \/ kind = "ptr" /\ \E n \in 0..MaxPTRNames : PTRTerm(q, n, 0)
       \/ kind = "include" /\ \E d \in Meant(EvalTerm.target, client) : Include(d, 0)
       \/ kind \in {"host", "exists"} /\ \E o \in LookupResults : AddressTerm(q, o, 0)
       \/ kind = "host" /\ \E o \in LookupResults \cup {"too_many"} : MXTermUnusable(o, 0)
       \/ kind = "host" /\ \E o \in LookupResults, n \in 0..MaxMXNames : MXTerm(q, o, n, 0)
  BY DEF EvaluateTerm
<1>13. CASE kind = "ptr" /\ \E n \in 0..MaxPTRNames : PTRTerm(q, n, 0)
  BY <1>1, <1>5, <1>6, <1>13 DEF CostlyKinds
<1>14. CASE kind \in {"host", "exists"} /\ \E o \in LookupResults : AddressTerm(q, o, 0)
  BY <1>1, <1>5, <1>8, <1>14 DEF CostlyKinds
<1>15. CASE kind = "host" /\ \E o \in LookupResults \cup {"too_many"} : MXTermUnusable(o, 0)
  BY <1>1, <1>5, <1>9, <1>15 DEF CostlyKinds
<1>16. CASE kind = "host" /\ \E o \in LookupResults, n \in 0..MaxMXNames : MXTerm(q, o, n, 0)
  BY <1>1, <1>5, <1>10, <1>16 DEF CostlyKinds
<1> QED
  BY <1>2, <1>3, <1>4, <1>11, <1>12, <1>13, <1>14, <1>15, <1>16 DEF CostlyKinds

LEMMA EndOutcomes ==
    ASSUME EvaluateEnd
    PROVE  /\ pc = "term" /\ EvalAt > Len(Evaluated.terms) /\ UNCHANGED analysisVars
           /\ \/ EvalLeaves /\ lookups' = lookups
              \/ /\ Evaluated.redirect # NoRedirect /\ lookups' = lookups + 1
                 /\ \/ EvalLeaves
                    \/ lookups' > MaxLookups
                    \/ \E d \in Meant(Evaluated.redirect, client) : EvalCalls(d, "redirect")
<1>1. pc = "term" /\ EvalAt > Len(Evaluated.terms) /\ UNCHANGED analysisVars
  BY DEF EvaluateEnd
<1>2. CASE Evaluated.redirect = NoRedirect
  <2>1. DefaultResult
    BY <1>2 DEF EvaluateEnd
  <2>2. Leave("neutral", "nil") /\ lookups' = lookups
    BY <2>1 DEF DefaultResult
  <2> QED
    BY <1>1, <2>2, Outcomes
<1>3. CASE Evaluated.redirect # NoRedirect
  <2>1. RedirectOverLimit \/ \E d \in Meant(Evaluated.redirect, client) : Redirect(d, 0)
    BY <1>3 DEF EvaluateEnd
  <2>2. CASE RedirectOverLimit
    BY <1>1, <1>3, <2>2 DEF RedirectOverLimit
  <2>3. ASSUME NEW d \in Meant(Evaluated.redirect, client), Redirect(d, 0)
        PROVE  /\ lookups' = lookups + 1
               /\ EvalLeaves \/ EvalCalls(d, "redirect")
    <3>1. lookups' = lookups + 1
      BY <2>3 DEF Redirect, CountLookup
    <3>2. CASE d = BadName
      <4>1. Leave("permerror", "invalid_target")
        BY <2>3, <3>2 DEF Redirect
      <4> QED
        BY <1>1, <1>3, <3>1, <4>1, Outcomes
    <3>3. CASE d # BadName
      <4>1. EvalCalls(d, "redirect")
        BY <2>3, <3>3 DEF Redirect, EvalCalls
      <4> QED
        BY <1>1, <1>3, <3>1, <4>1
    <3> QED
      BY <3>2, <3>3
  <2> QED
    BY <1>1, <1>3, <2>1, <2>2, <2>3
<1> QED
  BY <1>2, <1>3

LEMMA ReturnOutcomes ==
    ASSUME EvaluateReturn, ret.why # "lookups"
    PROVE  /\ pc = "resume" /\ UNCHANGED analysisVars /\ lookups' = lookups
           /\ \/ call.via = "include" /\ EvalReadsOn
              \/ call.via \in {"include", "redirect"} /\ EvalLeaves
              \/ /\ call.via = "root" /\ pc' = "done" /\ call' = call /\ frames' = frames /\ ret' = ret
<1>1. pc = "resume" /\ UNCHANGED analysisVars
  BY DEF EvaluateReturn
<1>2. ASSUME NEW q, call.via = "include", ReturnToInclude(q)
      PROVE  lookups' = lookups /\ (EvalReadsOn \/ EvalLeaves)
  <2>1. lookups' = lookups
    BY <1>2 DEF ReturnToInclude
  <2>2. \/ Abort(ret.res, ret.why, queries) \/ Abort("permerror", "target_has_no_record", queries)
        \/ Matched(q, queries) \/ NoMatch(queries)
    BY <1>2 DEF ReturnToInclude
  <2> QED
    BY <2>1, <2>2, Outcomes
<1>3. CASE ReturnToRedirect
  <2>1. lookups' = lookups /\ call.via = "redirect"
    BY <1>3 DEF ReturnToRedirect
  <2>2. Leave("permerror", "target_has_no_record") \/ Leave(ret.res, ret.why)
    BY <1>3 DEF ReturnToRedirect
  <2>3. EvalLeaves
    BY <2>2, Outcomes
  <2> QED
    BY <1>1, <2>1, <2>3
<1>4. CASE ReturnToCheckHost
  BY <1>1, <1>4 DEF ReturnToCheckHost
<1> QED
  BY <1>1, <1>2, <1>3, <1>4 DEF EvaluateReturn

\* A record is read or not; a new domain of the zone is known then.
ZoneRead == \E d, what : what \in Published /\ ReadsZone(d, what)
LEMMA EnterOutcomes ==
    ASSUME EvaluateEnter
    PROVE  /\ pc = "enter"
           /\ \/ EvalStays /\ (UNCHANGED analysisVars \/ ZoneRead)
              \/ /\ call.domain # BadName /\ ~OnStack(call.domain) /\ ~TooDeep
                 /\ pc' = "term" /\ frames' = Into(frames, call.domain, call.via)
                 /\ call' = call /\ ret' = ret /\ lookups' = lookups
                 /\ \E what \in Records : ReadsZone(call.domain, what)
<1>1. \A res, why : why # "lookups" /\ LeaveAtOnce(res, why) /\ lookups' = lookups => EvalStays
  BY DEF LeaveAtOnce, EvalStays
<1>2. CASE (EnterInvalid \/ EnterLoop \/ EnterDeep \/ \E err \in Errs : FetchFails(err)) /\ UNCHANGED analysisVars
  <2>1. pc = "enter"
    BY <1>2 DEF EnterInvalid, EnterLoop, EnterDeep, FetchFails, Fetching
  <2>2. CASE EnterInvalid
    BY <1>1, <1>2, <2>1, <2>2 DEF EnterInvalid
  <2>3. CASE EnterLoop
    BY <1>1, <1>2, <2>1, <2>3 DEF EnterLoop
  <2>4. CASE EnterDeep
    BY <1>1, <1>2, <2>1, <2>4 DEF EnterDeep
  <2>5. ASSUME NEW err, FetchFails(err) PROVE EvalStays
    BY <1>1, <2>5 DEF FetchFails
  <2> QED
    BY <1>2, <2>1, <2>2, <2>3, <2>4, <2>5
<1>3. CASE FetchNothing /\ ReadsZone(call.domain, NoRecord)
  <2>1. pc = "enter" /\ EvalStays
    BY <1>1, <1>3 DEF FetchNothing, Fetching
  <2> QED
    BY <1>3, <2>1 DEF ZoneRead, Published
<1>4. ASSUME NEW why \in {"several_records", "syntax_error"}, NEW what \in {Several, Malformed},
             FetchUnusable(why), ReadsZone(call.domain, what)
      PROVE  pc = "enter" /\ EvalStays /\ ZoneRead
  <2>1. pc = "enter" /\ EvalStays
    BY <1>1, <1>4 DEF FetchUnusable, Fetching
  <2> QED
    BY <1>4, <2>1 DEF ZoneRead, Published
<1>5. CASE FetchRecord /\ \E what \in Records : ReadsZone(call.domain, what)
  BY <1>5 DEF FetchRecord, Fetching, PushFrame, Into
<1> QED
  BY <1>2, <1>3, <1>4, <1>5 DEF EvaluateEnter

LEMMA ReadsKeep ==
    ASSUME ZoneTyped, NEW d, NEW what \in Published, Publishes(d, what)
    PROVE  ZoneKept /\ (d \in Domains => zone'[d] = what)
<1>1. NotAsked \notin Published
  BY AnalyzeAssumption
<1>2. zone' = [zone EXCEPT ![d] = what] /\ zone[d] \in {NotAsked, what}
  BY DEF Publishes
<1>3. d \in Domains => zone'[d] = what
  BY <1>2 DEF ZoneTyped
<1>4. ZoneTyped'
  BY <1>2 DEF ZoneTyped
<1>5. \A e \in Domains : zone[e] \in Published => zone'[e] = zone[e]
  BY <1>1, <1>2 DEF ZoneTyped
<1> QED
  BY <1>3, <1>4, <1>5 DEF ZoneKept

\* The term an evaluation is at, as a place the walk has been to.
LEMMA TermFollowed ==
    ASSUME NEW H, Log(H, zone, <<>>, total), pc = "term",
           Followed(H, zone, total, pc, call, frames, lookups)
    PROVE  /\ frames # <<>> /\ Nested(zone, frames) /\ lookups \in Nat
           /\ Live(zone, Reading(frames))
           /\ Reading(frames)[Len(Reading(frames))].domain \in Domains
           /\ Evaluated = RecordAt(zone, Reading(frames)) /\ EvalAt = At(Reading(frames))
           /\ EvalAt \in Nat \ {0} /\ Evaluated \in Records /\ Len(Evaluated.terms) \in Nat
           /\ Cost(zone, Reading(frames)) \in {0, 1}
           /\ EvalAt <= Len(Evaluated.terms) + 1
           /\ \E k \in Nat : lookups <= k /\ <<Reading(frames), k>> \in H
           /\ \A l \in Nat : l <= lookups + Cost(zone, Reading(frames)) =>
                Reached(H, NextOf(Reading(frames)), l) /\ l <= total
<1> DEFINE v == Reading(frames)
<1>1. /\ frames # <<>> /\ Nested(zone, frames) /\ lookups \in Nat
      /\ Live(zone, v) /\ Reached(H, v, lookups)
      /\ At(v) <= Len(RecordAt(zone, v).terms) + 1
  BY DEF Followed
<1>2. frames \in Seq(Frame)
  BY <1>1 DEF Nested
<1>3. Evaluated = RecordAt(zone, v) /\ EvalAt = At(v) /\ v \in Seq(Visit) /\ v # <<>>
  BY <1>1, <1>2, ReadingFacts DEF Evaluated, EvalAt, Top
<1> HIDE DEF v
<1>4. At(v) \in Nat \ {0} /\ v[Len(v)].domain \in Domains
  BY <1>3, NextFacts DEF Visit
<1>5. RecordAt(zone, v) \in Records /\ Reached(H, NextOf(v), lookups + Cost(zone, v))
  BY <1>1, LogGoesOn
<1>6. Len(RecordAt(zone, v).terms) \in Nat
  BY <1>5, SpfAssumption, AnalyzeAssumption
<1>7. Cost(zone, v) \in {0, 1}
  BY DEF Cost
<1>8. ASSUME NEW l \in Nat, l <= lookups + Cost(zone, v) PROVE Reached(H, NextOf(v), l) /\ l <= total
  <2>1. lookups + Cost(zone, v) \in Nat
    BY <1>1, <1>7
  <2>2. Reached(H, NextOf(v), l)
    BY <1>5, <1>8, <2>1, ReachedBefore
  <2> QED
    BY <2>2, LogGoesOn
<1>9. \E k \in Nat : lookups <= k /\ <<v, k>> \in H
  BY <1>1 DEF Reached
<1> QED
  BY <1>1, <1>3, <1>4, <1>5, <1>6, <1>7, <1>8, <1>9 DEF v

\* A receiver follows the targets that the audit did.
LEMMA SameTargets ==
    ASSUME ~OtherTargets, NEW v, v[Len(v)].domain \in Domains, RecordAt(zone, v) \in Records
    PROVE  /\ InTerms(zone, v) /\ RecordAt(zone, v).terms[At(v)].kind = "include" =>
                Meant(RecordAt(zone, v).terms[At(v)].target, client)
                  = Meant(RecordAt(zone, v).terms[At(v)].target, NoClient)
           /\ Meant(RecordAt(zone, v).redirect, client) = Meant(RecordAt(zone, v).redirect, NoClient)
<1>1. CASE client = NoClient
  BY <1>1
<1>2. CASE ~VersionDependent
  BY <1>2 DEF VersionDependent, RecordAt, InTerms, Meant, Expanded
<1> QED
  BY <1>1, <1>2 DEF OtherTargets

\* Each step of an evaluation follows the log, and none is stopped by the limit.
LEMMA TermAlong ==
    ASSUME NEW H, Log(H, zone, <<>>, total), total <= MaxLookups, ~OtherTargets,
           Followed(H, zone, total, pc, call, frames, lookups), EvaluateTerm, ret.why # "lookups"
    PROVE  Followed(H, zone, total, pc', call', frames', lookups') /\ ret'.why # "lookups"
<1> DEFINE v == Reading(frames)
           kind == EvalTerm.kind
<1>1. pc = "term" /\ EvalAt <= Len(Evaluated.terms)
  BY TermOutcomes DEF AtTerm
<1>2. /\ frames # <<>> /\ Nested(zone, frames) /\ lookups \in Nat
      /\ Live(zone, v) /\ Evaluated = RecordAt(zone, v) /\ EvalAt = At(v)
      /\ EvalAt \in Nat \ {0} /\ Len(Evaluated.terms) \in Nat
      /\ \E k \in Nat : lookups <= k /\ <<v, k>> \in H
  BY <1>1, TermFollowed
<1>3. \A l \in Nat : l <= lookups + Cost(zone, v) => Reached(H, NextOf(v), l) /\ l <= total
  BY <1>1, TermFollowed
<1>4. InTerms(zone, v) /\ kind = RecordAt(zone, v).terms[At(v)].kind
      /\ EvalTerm = RecordAt(zone, v).terms[At(v)]
  BY <1>1, <1>2 DEF InTerms, EvalTerm
<1>5. /\ lookups' = lookups \/ (lookups' = lookups + 1 /\ kind \in CostlyKinds)
      /\ \/ EvalReadsOn /\ kind # "all"
         \/ EvalLeaves
         \/ kind \in CostlyKinds /\ lookups' = lookups + 1 /\ lookups' > MaxLookups
         \/ /\ kind = "include" /\ lookups' = lookups + 1
            /\ \E d \in Meant(EvalTerm.target, client) : EvalCalls(d, "include")
  BY TermOutcomes
<1>14. v[Len(v)].domain \in Domains /\ RecordAt(zone, v) \in Records
  BY <1>1, TermFollowed
<1> HIDE DEF v, kind
<1>6. kind \in CostlyKinds => Cost(zone, v) = 1
  BY <1>2, <1>4 DEF Cost, Costs, CostlyKinds
<1>7. lookups' \in Nat /\ lookups' <= lookups + Cost(zone, v)
  <2>1. Cost(zone, v) \in {0, 1}
    BY DEF Cost
  <2> QED
    BY <1>2, <1>5, <1>6, <2>1
<1>8. Reached(H, NextOf(v), lookups') /\ lookups' <= total
  BY <1>3, <1>7
<1>9. total \in Nat /\ MaxLookups \in Nat
  BY SpfAssumption DEF Log
<1>10. CASE EvalReadsOn /\ kind # "all"
  <2>1. frames' = Onward(frames) /\ pc' = "term" /\ ret' = ret
    BY <1>10 DEF EvalReadsOn
  <2>2. Followed(H, zone, total, "term", call', frames', lookups')
    BY <1>2, <1>4, <1>7, <1>8, <1>10, <2>1, EvalReads DEF v
  <2> QED
    BY <2>1, <2>2
<1>11. CASE EvalLeaves
  <2>1. frames' = SubSeq(frames, 1, Len(frames) - 1) /\ pc' = "resume"
        /\ ret'.why # "lookups" /\ call'.via = frames[Len(frames)].via
    BY <1>11 DEF EvalLeaves, Top
  <2>2. Followed(H, zone, total, "resume", call', frames', lookups')
    BY <1>2, <1>7, <1>8, <2>1, EvalPops DEF v
  <2> QED
    BY <2>1, <2>2
<1>12. CASE kind \in CostlyKinds /\ lookups' = lookups + 1 /\ lookups' > MaxLookups
  BY <1>7, <1>8, <1>9, <1>12
<1>13. CASE /\ kind = "include" /\ lookups' = lookups + 1
            /\ \E d \in Meant(EvalTerm.target, client) : EvalCalls(d, "include")
  <2>1. /\ pc' = "enter" /\ frames' = frames /\ ret' = ret
        /\ call'.domain \in Meant(EvalTerm.target, client) /\ call'.via = "include"
    BY <1>13 DEF EvalCalls
  <2>2. Leads(zone, v, call'.domain)
    <3>1. call'.domain \in Meant(EvalTerm.target, NoClient)
      BY <1>4, <1>13, <1>14, <2>1, SameTargets
    <3> QED
      BY <1>2, <1>4, <1>13, <3>1 DEF Leads
  <2>3. AtInclude(zone, frames[Len(frames)])
    BY <1>2, <1>4, <1>13 DEF AtInclude, EvalAt, Evaluated, Top, InTerms, Live
  <2>4. \E k \in Nat : lookups' <= k + 1 /\ <<v, k>> \in H
    BY <1>2, <1>13
  <2>5. Followed(H, zone, total, "enter", call', frames', lookups')
    BY <1>2, <1>7, <2>1, <2>2, <2>3, <2>4 DEF v, Followed, Vias
  <2> QED
    BY <2>1, <2>5
<1> QED
  BY <1>5, <1>10, <1>11, <1>12, <1>13

LEMMA EndAlong ==
    ASSUME NEW H, Log(H, zone, <<>>, total), total <= MaxLookups, ~OtherTargets,
           Followed(H, zone, total, pc, call, frames, lookups), EvaluateEnd, ret.why # "lookups"
    PROVE  Followed(H, zone, total, pc', call', frames', lookups') /\ ret'.why # "lookups"
<1> DEFINE v == Reading(frames)
<1>1. pc = "term" /\ EvalAt > Len(Evaluated.terms)
  BY EndOutcomes
<1>2. /\ frames # <<>> /\ Nested(zone, frames) /\ lookups \in Nat
      /\ Live(zone, v) /\ Evaluated = RecordAt(zone, v) /\ EvalAt = At(v)
      /\ EvalAt \in Nat \ {0} /\ Len(Evaluated.terms) \in Nat
      /\ EvalAt <= Len(Evaluated.terms) + 1
      /\ \E k \in Nat : lookups <= k /\ <<v, k>> \in H
  BY <1>1, TermFollowed
<1>3. \A l \in Nat : l <= lookups + Cost(zone, v) => Reached(H, NextOf(v), l) /\ l <= total
  BY <1>1, TermFollowed
<1>4. \/ EvalLeaves /\ lookups' = lookups
      \/ /\ Evaluated.redirect # NoRedirect /\ lookups' = lookups + 1
         /\ \/ EvalLeaves
            \/ lookups' > MaxLookups
            \/ \E d \in Meant(Evaluated.redirect, client) : EvalCalls(d, "redirect")
  BY EndOutcomes
<1>13. v[Len(v)].domain \in Domains /\ RecordAt(zone, v) \in Records
  BY <1>1, TermFollowed
<1> HIDE DEF v
<1>5. Evaluated.redirect # NoRedirect => AtRedirect(zone, v)
  BY <1>1, <1>2 DEF AtRedirect
<1>6. Evaluated.redirect # NoRedirect => Cost(zone, v) = 1
  BY <1>2, <1>5 DEF Cost, Costs
<1>7. lookups' \in Nat /\ lookups' <= lookups + Cost(zone, v)
  <2>1. Cost(zone, v) \in {0, 1}
    BY DEF Cost
  <2> QED
    BY <1>2, <1>4, <1>6, <2>1
<1>8. Reached(H, NextOf(v), lookups') /\ lookups' <= total
  BY <1>3, <1>7
<1>9. total \in Nat /\ MaxLookups \in Nat
  BY SpfAssumption DEF Log
<1>10. CASE EvalLeaves
  <2>1. frames' = SubSeq(frames, 1, Len(frames) - 1) /\ pc' = "resume"
        /\ ret'.why # "lookups" /\ call'.via = frames[Len(frames)].via
    BY <1>10 DEF EvalLeaves, Top
  <2>2. Followed(H, zone, total, "resume", call', frames', lookups')
    BY <1>2, <1>7, <1>8, <2>1, EvalPops DEF v
  <2> QED
    BY <2>1, <2>2
<1>11. CASE lookups' > MaxLookups
  BY <1>7, <1>8, <1>9, <1>11
<1>12. CASE Evaluated.redirect # NoRedirect /\ lookups' = lookups + 1
            /\ \E d \in Meant(Evaluated.redirect, client) : EvalCalls(d, "redirect")
  <2>1. /\ pc' = "enter" /\ frames' = frames /\ ret' = ret
        /\ call'.domain \in Meant(Evaluated.redirect, client) /\ call'.via = "redirect"
    BY <1>12 DEF EvalCalls
  <2>2. Leads(zone, v, call'.domain)
    <3>1. call'.domain \in Meant(Evaluated.redirect, NoClient)
      BY <1>2, <1>13, <2>1, SameTargets
    <3> QED
      BY <1>2, <1>5, <1>12, <3>1 DEF Leads
  <2>3. \E k \in Nat : lookups' <= k + 1 /\ <<v, k>> \in H
    BY <1>2, <1>12
  <2>4. Followed(H, zone, total, "enter", call', frames', lookups')
    BY <1>2, <1>7, <2>1, <2>2, <2>3 DEF v, Followed, Vias
  <2> QED
    BY <2>1, <2>4
<1> QED
  BY <1>4, <1>10, <1>11, <1>12

LEMMA ReturnAlong ==
    ASSUME NEW H, Log(H, zone, <<>>, total),
           Followed(H, zone, total, pc, call, frames, lookups), EvaluateReturn, ret.why # "lookups"
    PROVE  Followed(H, zone, total, pc', call', frames', lookups') /\ ret'.why # "lookups"
<1> DEFINE v == Reading(frames)
<1>1. /\ pc = "resume" /\ lookups' = lookups
      /\ \/ call.via = "include" /\ EvalReadsOn
         \/ call.via \in {"include", "redirect"} /\ EvalLeaves
         \/ /\ call.via = "root" /\ pc' = "done" /\ call' = call /\ frames' = frames /\ ret' = ret
  BY ReturnOutcomes
<1>2. /\ Nested(zone, frames) /\ lookups \in Nat /\ frames \in Seq(Frame)
      /\ (call.via = "root" <=> frames = <<>>)
      /\ (call.via = "include" => AtInclude(zone, frames[Len(frames)]))
      /\ (frames # <<>> => Reached(H, NextOf(v), lookups))
      /\ (frames = <<>> => lookups <= total)
  BY <1>1 DEF Followed, Nested
<1>3. CASE call.via = "include" /\ EvalReadsOn
  <2>1. frames # <<>> /\ frames' = Onward(frames) /\ pc' = "term" /\ ret' = ret
    BY <1>2, <1>3 DEF EvalReadsOn
  <2>2. At(v) = MaxTerms - frames[Len(frames)].left + 1 /\ RecordAt(zone, v) = zone[frames[Len(frames)].domain]
    BY <1>2, <2>1, ReadingFacts
  <2> HIDE DEF v
  <2>3. InTerms(zone, v) /\ Live(zone, v) /\ RecordAt(zone, v).terms[At(v)].kind # "all"
    BY <1>2, <1>3, <2>2 DEF AtInclude, InTerms, Live
  <2>4. Followed(H, zone, total, "term", call', frames', lookups')
    BY <1>1, <1>2, <2>1, <2>3, EvalReads DEF v
  <2> QED
    BY <2>1, <2>4
<1>4. CASE call.via \in {"include", "redirect"} /\ EvalLeaves
  <2>1. frames' = SubSeq(frames, 1, Len(frames) - 1) /\ pc' = "resume"
        /\ ret'.why # "lookups" /\ call'.via = frames[Len(frames)].via /\ frames # <<>>
    BY <1>2, <1>4 DEF EvalLeaves, Top
  <2>2. Followed(H, zone, total, "resume", call', frames', lookups')
    BY <1>1, <1>2, <2>1, EvalPops DEF v
  <2> QED
    BY <2>1, <2>2
<1>5. CASE call.via = "root" /\ pc' = "done" /\ call' = call /\ frames' = frames /\ ret' = ret
  BY <1>1, <1>2, <1>5 DEF Followed
<1> QED
  BY <1>1, <1>3, <1>4, <1>5

LEMMA EnterAlong ==
    ASSUME NEW H, Log(H, zone, <<>>, total), ZoneTyped, zone[Root] # NotAsked,
           zone[Root] \in Records => \E k \in Nat : <<<<First>>, k>> \in H,
           Followed(H, zone, total, pc, call, frames, lookups), EvaluateEnter, ret.why # "lookups"
    PROVE  ZoneKept /\ Followed(H, zone', total, pc', call', frames', lookups') /\ ret'.why # "lookups"
<1>1. pc = "enter"
  BY EnterOutcomes
<1>2. ASSUME ZoneKept
      PROVE  /\ Log(H, zone', <<>>, total)
             /\ Followed(H, zone', total, "enter", call, frames, lookups)
             /\ zone'[Root] \in Records => \E k \in Nat : <<<<First>>, k>> \in H
  <2>1. \A d \in Domains : zone[d] \in Published => zone'[d] = zone[d]
    BY <1>2 DEF ZoneKept
  <2>2. Log(H, zone', <<>>, total) /\ Followed(H, zone', total, "enter", call, frames, lookups)
    BY <1>1, <2>1, LogGrows, FollowedGrows
  <2>3. zone'[Root] = zone[Root]
    <3>1. Root \in Domains
      BY AnalyzeAssumption DEF Root
    <3> QED
      BY <2>1, <3>1 DEF ZoneTyped
  <2> QED
    BY <2>2, <2>3
<1>3. CASE EvalStays /\ (UNCHANGED analysisVars \/ ZoneRead)
  <2>1. ZoneKept
    <3>1. CASE UNCHANGED analysisVars
      BY <3>1, ZoneUnchanged DEF analysisVars
    <3>2. CASE ZoneRead
      BY <3>2, ReadsKeep DEF ZoneRead, ReadsZone
    <3> QED
      BY <1>3, <3>1, <3>2
  <2>2. Followed(H, zone', total, "resume", call, frames, lookups)
    BY <1>2, <2>1, EvalFails
  <2> QED
    BY <1>3, <2>1, <2>2 DEF EvalStays
<1>4. ASSUME NEW what \in Records, ReadsZone(call.domain, what),
             call.domain # BadName, ~OnStack(call.domain), ~TooDeep,
             pc' = "term", frames' = Into(frames, call.domain, call.via),
             call' = call, ret' = ret, lookups' = lookups
      PROVE  ZoneKept /\ Followed(H, zone', total, pc', call', frames', lookups')
  <2>1. ZoneKept /\ (call.domain \in Domains => zone'[call.domain] \in Records)
    BY <1>4, ReadsKeep DEF ReadsZone, Published
  <2>2. Len(frames) <= MaxDepth /\ \A i \in 1..Len(frames) : frames[i].domain # call.domain
    <3>1. Len(frames) \in Nat /\ MaxDepth \in Nat
      BY SpfAssumption, LenProperties DEF Followed, Nested
    <3> QED
      BY <1>4, <3>1 DEF OnStack, TooDeep
  <2>3. Followed(H, zone', total, "term", call, frames', lookups)
    BY <1>2, <1>4, <2>1, <2>2, EvalEnters
  <2> QED
    BY <1>4, <2>1, <2>3
<1> QED
  BY <1>3, <1>4, EnterOutcomes

-----------------------------------------------------------------------------
(* The inductive invariant of the audit and the evaluation after it        *)

Along(H) == Followed(H, zone, total, pc, call, frames, lookups) /\ ret.why # "lookups"
Logged(H) ==
    /\ Log(H, zone, path, total)
    /\ analysis # "start" /\ zone[Root] \in Records => \E k \in Nat : <<<<First>>, k>> \in H
Untouched ==
    /\ pc = "enter" /\ frames = <<>> /\ lookups = 0 /\ ret.why = "nil"
    /\ call.via = "root" /\ call.domain = Root

\* Unless the evaluation is excused from it, there is a log of the walk, and
\* once the walk is over the evaluation goes along it.
Foreseen ==
    Excused \/ \E H : Logged(H) /\ (analysis = "done" /\ ~Has("SPFLookupLimit") => Along(H))

AuditInv ==
    /\ WalkInv /\ WalkTyped
    /\ analysis \in {"start", "walk", "done"}
    /\ analysis = "start" => path = <<>> /\ total = 0
    /\ analysis = "done" => path = <<>> /\ (total <= MaxLookups \/ Has("SPFLookupLimit"))
    /\ analysis # "start" => zone[Root] # NotAsked \/ ~ReadInFull
    /\ analysis # "done" \/ ~ReadInFull => Untouched
    /\ Foreseen

LEMMA RootIsDomain == Root \in Domains
BY AnalyzeAssumption DEF Root

LEMMA EmptyLog == \A z : Log({}, z, <<>>, 0)
BY EmptySeq DEF Log

LEMMA UntouchedAlong ==
    ASSUME NEW H, NEW z, NEW n \in Nat, Untouched
    PROVE  Followed(H, z, n, pc, call, frames, lookups) /\ ret.why # "lookups"
<1>1. Nested(z, <<>>)
  BY EmptySeq DEF Nested
<1> QED
  BY <1>1 DEF Untouched, Followed, Vias

\* Wherever an evaluation is, the walk had counted as much.
LEMMA FollowedWithin ==
    ASSUME NEW H, NEW z, NEW n, Log(H, z, <<>>, n), NEW p, NEW c, NEW fs, NEW l,
           Followed(H, z, n, p, c, fs, l)
    PROVE  l <= n
<1>1. l \in Nat
  BY DEF Followed
<1>2. CASE fs = <<>>
  BY <1>2 DEF Followed
<1>3. CASE fs # <<>> /\ p = "term"
  <2>1. Reached(H, Reading(fs), l)
    BY <1>3 DEF Followed
  <2> QED
    BY <1>1, <2>1, LogGoesOn
<1>4. CASE fs # <<>> /\ p \in {"enter", "resume"}
  <2>1. Followed(H, z, n, "resume", c, fs, l)
    BY <1>4, EvalFails
  <2>2. Reached(H, NextOf(Reading(fs)), l)
    BY <1>4, <2>1 DEF Followed
  <2> QED
    BY <1>1, <2>2, LogGoesOn
<1>5. p \in {"enter", "term", "resume", "done"} /\ (p = "done" => fs = <<>>)
  BY DEF Followed
<1> QED
  BY <1>2, <1>3, <1>4, <1>5

\* What the record on top is and leads to does not change.
LEMMA SameHere ==
    ASSUME ZoneKept, NEW v \in Seq(Visit), v # <<>>, RecordAt(zone, v) \in Records
    PROVE  /\ RecordAt(zone', v) = RecordAt(zone, v) /\ Cost(zone', v) = Cost(zone, v)
           /\ \A t : Leads(zone', v, t) <=> Leads(zone, v, t)
<1>1. v[Len(v)].domain \in Domains
  BY NextFacts DEF Visit
<1>2. RecordAt(zone', v) = RecordAt(zone, v)
  BY <1>1 DEF ZoneKept, RecordAt, Published
<1> QED
  BY <1>2 DEF Cost, Costs, Leads, Live, InTerms, AtRedirect

\* The records on the path stay the records they were.
LEMMA RecordsKept ==
    ASSUME WalkTyped, ZoneKept, Fails \/ Begins \/ Moves \/ Descends \/ Ascends \/ Sums
    PROVE  \A i \in 1..Len(path') : zone'[path'[i].domain] \in Records
<1>1. path \in Seq(Visit)
  BY DEF WalkTyped, PathIsCounted
<1>2. \A i \in 1..Len(path) : zone'[path[i].domain] \in Records
  <2> SUFFICES ASSUME NEW i \in 1..Len(path) PROVE zone'[path[i].domain] \in Records
    OBVIOUS
  <2>1. path[i].domain \in Domains
    <3>1. path[i] \in Visit
      BY <1>1, ElementOfSeq
    <3> QED
      BY <3>1 DEF Visit
  <2>2. zone[path[i].domain] \in Records
    BY DEF WalkTyped
  <2> QED
    BY <2>1, <2>2 DEF ZoneKept, Published
<1>3. CASE path' = path
  BY <1>2, <1>3
<1>4. CASE Begins
  <2>1. path' = <<>> \/ (path' = <<First>> /\ zone'[Root] \in Records)
    BY <1>4 DEF Begins
  <2>2. Len(<<>>) = 0
    BY EmptySeq
  <2>3. Len(<<First>>) = 1 /\ <<First>>[1] = First /\ First.domain = Root
    BY DEF First
  <2> QED
    BY <2>1, <2>2, <2>3
<1>5. CASE Moves
  <2>1. path # <<>> /\ path' = NextOf(path)
    BY <1>5 DEF Moves
  <2>2. Len(path') = Len(path) /\ \A i \in 1..Len(path) : path'[i].domain = path[i].domain
    BY <1>1, <2>1, NextFacts
  <2> QED
    BY <1>2, <2>2
<1>6. CASE Descends
  <2>1. path # <<>> /\ \E t \in Domains : zone'[t] \in Records /\ path' = Child(path, t)
    BY <1>6 DEF Descends
  <2>2. PICK t \in Domains : zone'[t] \in Records /\ path' = Child(path, t)
    BY <2>1
  <2>3. Len(path) \in Nat /\ \A i \in 1..Len(path) : NextOf(path)[i].domain = path[i].domain
    BY <1>1, <2>1, NextFacts
  <2>4. /\ Len(path') = Len(path) + 1
        /\ \A i \in 1..Len(path) + 1 : path'[i] =
              IF i = Len(path) + 1 THEN [domain |-> t, at |-> 1] ELSE NextOf(path)[i]
    BY <1>1, <2>1, <2>2, ChildFacts
  <2>5. \A i \in 1..Len(path) + 1 : path'[i].domain = IF i = Len(path) + 1 THEN t ELSE path[i].domain
    BY <2>3, <2>4
  <2> QED
    BY <1>2, <2>2, <2>3, <2>4, <2>5
<1>7. CASE Ascends
  <2>1. path # <<>> /\ path' = Back(path)
    BY <1>7 DEF Ascends
  <2>2. Len(path) - 1 \in 0..Len(path)
    BY <1>1, <2>1, EmptySeq
  <2>3. Len(path') = Len(path) - 1 /\ \A i \in 1..Len(path) - 1 : path'[i] = path[i]
    BY <1>1, <2>1, <2>2, BackFacts DEF Back
  <2> QED
    BY <1>2, <2>2, <2>3
<1> QED
  BY <1>3, <1>4, <1>5, <1>6, <1>7 DEF Fails, Sums

\* The log of each step of the walk.
LEMMA LogKept ==
    ASSUME WalkTyped, ZoneKept, ~Excused', NEW H, Log(H, zone, path, total),
           Moves \/ Descends \/ Ascends \/ Sums
    PROVE  \E G : H \subseteq G /\ Log(G, zone', path', total')
<1>1. path \in Seq(Visit) /\ total \in Nat
  BY DEF WalkTyped, PathIsCounted
<1>2. Log(H, zone', path, total)
  BY LogGrows DEF ZoneKept
<1>3. ASSUME path # <<>>
      PROVE  /\ RecordAt(zone', path) = RecordAt(zone, path) /\ Cost(zone', path) = Cost(zone, path)
             /\ \A t : Leads(zone', path, t) <=> Leads(zone, path, t)
  <2>1. RecordAt(zone, path) \in Records
    BY <1>3, HereFacts
  <2> QED
    BY <1>1, <1>3, <2>1, SameHere
<1>4. CASE Moves
  <2>1. /\ path # <<>> /\ path' = NextOf(path) /\ total' \in Nat
        /\ total + Cost(zone', path) <= total'
        /\ \A t : Leads(zone', path, t) => Unread(zone', path, t)
    BY <1>3, <1>4 DEF Moves, Excused
  <2>2. Log(H \cup {<<NextOf(path), total'>>}, zone', NextOf(path), total')
    BY <1>2, <2>1, LogMoves
  <2> QED
    BY <2>1, <2>2
<1>5. CASE Descends
  <2>1. path # <<>> /\ total' = total + 1
    BY <1>5 DEF Descends
  <2>2. PICK t \in Domains : zone'[t] \in Records /\ path' = Child(path, t)
                             /\ \A u : Leads(zone', path, u) => u = t
    BY <1>3, <1>5, <2>1 DEF Descends
  <2>3. Log(H \cup {<<Child(path, t), total + 1>>}, zone', Child(path, t), total + 1)
    BY <1>2, <2>1, <2>2, LogDescends
  <2> QED
    BY <2>1, <2>2, <2>3
<1>6. CASE Ascends
  <2>1. /\ path # <<>> /\ path' = Back(path) /\ total' = total
        /\ At(path) = Len(RecordAt(zone', path).terms) + 2
    BY <1>3, <1>6 DEF Ascends
  <2> QED
    BY <1>2, <2>1, LogAscends
<1>7. CASE Sums
  BY <1>2, <1>7 DEF Sums
<1> QED
  BY <1>4, <1>5, <1>6, <1>7

\* Once some target depends on the client, that stays so.
LEMMA OtherTargetsStay ==
    ASSUME ZoneKept, UNCHANGED client, OtherTargets
    PROVE  OtherTargets'
<1>1. PICK d \in Domains :
        /\ zone[d] \in Records
        /\ \/ zone[d].redirect \in DOMAIN OfVersion
           \/ \E i \in 1..Len(zone[d].terms) :
                /\ zone[d].terms[i].kind = "include"
                /\ zone[d].terms[i].target \in DOMAIN OfVersion
  BY DEF OtherTargets, VersionDependent
<1>2. zone'[d] = zone[d]
  BY <1>1 DEF ZoneKept, Published
<1>3. VersionDependent'
  BY <1>1, <1>2 DEF VersionDependent
<1> QED
  BY <1>3 DEF OtherTargets

LEMMA AnalyzeKeepsAudit ==
    ASSUME AuditInv, AnalysisNext, UNCHANGED <<client, vars>>
    PROVE  AuditInv'
<1>1. /\ WalkInv /\ WalkTyped /\ analysis \in {"start", "walk", "done"}
      /\ analysis = "start" => path = <<>> /\ total = 0
      /\ analysis # "start" => zone[Root] # NotAsked \/ ~ReadInFull
      /\ analysis # "done" \/ ~ReadInFull => Untouched
      /\ Foreseen
  BY DEF AuditInv
<1>2. ZoneKept /\ CountsKept /\ (Fails \/ Begins \/ Moves \/ Descends \/ Ascends \/ Sums)
  BY <1>1, WalkLogged
<1>3. WalkInv'
  BY <1>1, WalkKept
<1>4. WalkTyped'
  <2>1. PathIsCounted'
    BY <1>3 DEF WalkInv
  <2>2. \A i \in 1..Len(path') : zone'[path'[i].domain] \in Records
    BY <1>1, <1>2, RecordsKept
  <2> QED
    BY <1>2, <2>1, <2>2 DEF WalkTyped, ZoneKept, CountsKept
<1>5. total \in Nat /\ total' \in Nat /\ total <= total' /\ MaxNodes \in Nat
  <2>1. total \in Nat /\ total' \in Nat
    BY <1>1, <1>4 DEF WalkTyped, PathIsCounted
  <2>2. path # <<>> => Cost(zone, path) \in {0, 1}
    BY <1>1, HereFacts
  <2> QED
    BY <1>2, <2>1, <2>2, AnalyzeAssumption DEF Fails, Begins, Moves, Descends, Ascends, Sums
<1>6. (~ReadInFull => ~ReadInFull') /\ (Excused => Excused')
  <2>1. ~ReadInFull => ~ReadInFull'
    BY <1>2, RuleFacts DEF CountsKept, ReadInFull, Has
  <2>2. OtherTargets => OtherTargets'
    BY <1>2, OtherTargetsStay
  <2> QED
    BY <1>5, <2>1, <2>2 DEF Excused
<1>7. analysis # "done" /\ analysis' \in {"start", "walk", "done"} /\ analysis' # "start"
  BY <1>1, <1>2 DEF Fails, Begins, Moves, Descends, Ascends, Sums
<1>8. Untouched'
  BY <1>1, <1>7 DEF Untouched, vars
<1>9. zone[Root] # NotAsked => zone'[Root] = zone[Root] /\ zone[Root] \in Published
  BY <1>1, <1>2, RootIsDomain DEF ZoneKept, ZoneTyped, WalkTyped
<1>10. zone'[Root] # NotAsked \/ ~ReadInFull'
  <2>1. CASE analysis = "start"
    <3>1. ~(Moves \/ Descends \/ Ascends \/ Sums)
      BY <2>1 DEF Moves, Descends, Ascends, Sums
    <3> QED
      BY <1>2, <3>1, AnalyzeAssumption DEF Fails, Begins, Published
  <2>2. CASE analysis # "start"
    BY <1>1, <1>6, <1>9, <2>2, AnalyzeAssumption
  <2> QED
    BY <2>1, <2>2
<1>11. analysis' = "done" => path' = <<>> /\ (total' <= MaxLookups \/ Has("SPFLookupLimit")')
  <2>1. CASE Fails
    BY <1>1, <2>1, SpfAssumption DEF Fails
  <2>2. CASE Sums
    BY <1>5, <2>2, SpfAssumption DEF Sums, Has
  <2>3. CASE Begins \/ Moves \/ Descends \/ Ascends
    BY <1>7, <2>3 DEF Begins, Moves, Descends, Ascends
  <2> QED
    BY <1>2, <2>1, <2>2, <2>3
<1>12. \A H : Along(H)'
  <2>1. ASSUME NEW H PROVE Followed(H, zone', total', pc, call, frames, lookups) /\ ret.why # "lookups"
    BY <1>1, <1>5, <1>7, UntouchedAlong
  <2>2. pc' = pc /\ call' = call /\ frames' = frames /\ lookups' = lookups /\ ret' = ret
    BY DEF vars
  <2> QED
    BY <2>1, <2>2 DEF Along
<1>13. ASSUME ~Excused' PROVE \E H : Logged(H)'
  <2>1. ~Excused
    BY <1>6, <1>13
  <2>2. PICK H : Logged(H)
    BY <1>1, <2>1 DEF Foreseen
  <2>3. CASE Fails
    <3>1. zone'[Root] \notin Records
      BY <1>13, <2>3, AnalyzeAssumption DEF Fails, Excused
    <3>2. path' = <<>> /\ total' = 0
      BY <1>1, <2>3 DEF Fails
    <3>3. Log({}, zone', path', total')
      BY <3>2, EmptyLog
    <3> QED
      BY <3>1, <3>3 DEF Logged
  <2>4. CASE Begins /\ path' = <<>> /\ zone'[Root] = Malformed
    <3>1. zone'[Root] \notin Records
      BY <2>4, AnalyzeAssumption
    <3>2. path' = <<>> /\ total' = 0
      BY <1>1, <2>4 DEF Begins
    <3>3. Log({}, zone', path', total')
      BY <3>2, EmptyLog
    <3> QED
      BY <3>1, <3>3 DEF Logged
  <2>5. CASE Begins /\ path' = <<First>> /\ zone'[Root] \in Records
    <3>1. total' = 0
      BY <1>1, <2>5 DEF Begins
    <3> DEFINE G == {<<<<First>>, 0>>}
    <3>2. Log(G, zone', path', total')
      BY <2>5, <3>1, RootIsDomain, LogBegins DEF First
    <3>3. \E k \in Nat : <<<<First>>, k>> \in G
      OBVIOUS
    <3> HIDE DEF G
    <3> QED
      BY <3>2, <3>3 DEF Logged
  <2>6. CASE Moves \/ Descends \/ Ascends \/ Sums
    <3>1. Log(H, zone, path, total) /\ analysis # "start"
      BY <2>2, <2>6 DEF Logged, Moves, Descends, Ascends, Sums
    <3>2. PICK G : H \subseteq G /\ Log(G, zone', path', total')
      BY <1>1, <1>2, <1>13, <2>6, <3>1, LogKept
    <3>3. zone[Root] # NotAsked
      BY <1>1, <2>1, <3>1 DEF Excused
    <3>4. zone'[Root] \in Records => \E k \in Nat : <<<<First>>, k>> \in G
      BY <1>9, <2>2, <3>1, <3>2, <3>3 DEF Logged
    <3> QED
      BY <3>2, <3>4 DEF Logged
  <2> QED
    BY <1>2, <2>3, <2>4, <2>5, <2>6 DEF Begins
<1>14. Foreseen'
  BY <1>12, <1>13 DEF Foreseen
<1> QED
  BY <1>3, <1>4, <1>7, <1>8, <1>10, <1>11, <1>14 DEF AuditInv

\* An evaluation changes nothing of the analysis but what is known of the zone.
LEMMA EvaluateKeepsZone ==
    ASSUME ZoneTyped, EvaluateEnter \/ EvaluateTerm \/ EvaluateEnd \/ EvaluateReturn
    PROVE  /\ ZoneKept
           /\ UNCHANGED <<analysis, path, nodes, total, noted, cutOff>>
<1>1. CASE UNCHANGED analysisVars
  BY <1>1, ZoneUnchanged DEF analysisVars
<1>2. CASE EvaluateEnter
  <2>1. CASE ZoneRead
    BY <2>1, ReadsKeep DEF ZoneRead, ReadsZone
  <2>2. CASE \E what \in Records : ReadsZone(call.domain, what)
    BY <2>2, ReadsKeep DEF ReadsZone, Published
  <2> QED
    BY <1>1, <1>2, <2>1, <2>2, EnterOutcomes
<1> QED
  BY <1>1, <1>2 DEF EvaluateTerm, EvaluateEnd, EvaluateReturn

LEMMA EvaluateKeepsAudit ==
    ASSUME AuditInv, Evaluate, UNCHANGED client
    PROVE  AuditInv'
<1>1. /\ WalkInv /\ WalkTyped
      /\ path = <<>> /\ (total <= MaxLookups \/ Has("SPFLookupLimit"))
      /\ zone[Root] # NotAsked \/ ~ReadInFull
      /\ Foreseen /\ analysis = "done" /\ ReadInFull
  BY DEF AuditInv, Evaluate
<1>2. EvaluateEnter \/ EvaluateTerm \/ EvaluateEnd \/ EvaluateReturn
  BY DEF Evaluate
<1>3. /\ ZoneKept
      /\ UNCHANGED <<analysis, path, nodes, total, noted, cutOff>>
  BY <1>1, <1>2, EvaluateKeepsZone DEF WalkTyped
<1>4. WalkInv'
  BY <1>1, <1>3 DEF WalkInv, PathIsCounted, PathInLimits, CutOffIsPaid
<1>5. WalkTyped'
  <2>1. PathIsCounted'
    BY <1>4 DEF WalkInv
  <2>2. \A i \in 1..Len(path') : zone'[path'[i].domain] \in Records
    BY <1>1, <1>3, EmptySeq
  <2> QED
    BY <1>1, <1>3, <2>1, <2>2 DEF WalkTyped, ZoneKept
<1>6. ReadInFull' /\ (Excused => Excused') /\ (Has("SPFLookupLimit") => Has("SPFLookupLimit")')
  <2>1. OtherTargets => OtherTargets'
    BY <1>3, OtherTargetsStay
  <2> QED
    BY <1>1, <1>3, <2>1 DEF ReadInFull, Excused, Has
<1>7. zone'[Root] = zone[Root] /\ zone[Root] # NotAsked
  BY <1>1, <1>3, RootIsDomain DEF ZoneKept, ZoneTyped, WalkTyped
<1>8. ASSUME ~Excused PROVE \E H : Logged(H)' /\ (~Has("SPFLookupLimit") => Along(H)')
  <2>1. PICK H : Logged(H) /\ (~Has("SPFLookupLimit") => Along(H))
    BY <1>1, <1>8 DEF Foreseen
  <2>2. Log(H, zone, <<>>, total) /\ (zone[Root] \in Records => \E k \in Nat : <<<<First>>, k>> \in H)
    BY <1>1, <2>1 DEF Logged
  <2>3. Log(H, zone', <<>>, total)
    BY <1>3, <2>2, LogGrows DEF ZoneKept
  <2>4. Logged(H)'
    BY <1>1, <1>3, <1>7, <2>2, <2>3 DEF Logged
  <2>5. ASSUME ~Has("SPFLookupLimit") PROVE Along(H)'
    <3>1. Followed(H, zone, total, pc, call, frames, lookups) /\ ret.why # "lookups" /\ total <= MaxLookups
      BY <1>1, <2>1, <2>5 DEF Along
    <3>2. CASE EvaluateEnter
      <4>1. Followed(H, zone', total, pc', call', frames', lookups') /\ ret'.why # "lookups"
        BY <1>1, <1>7, <2>2, <3>1, <3>2, EnterAlong DEF WalkTyped
      <4> QED
        BY <1>3, <4>1 DEF Along
    <3>3. CASE EvaluateTerm \/ EvaluateEnd \/ EvaluateReturn
      <4>1. zone' = zone
        BY <3>3 DEF EvaluateTerm, EvaluateEnd, EvaluateReturn, analysisVars
      <4>2. Followed(H, zone, total, pc', call', frames', lookups') /\ ret'.why # "lookups"
        BY <1>8, <2>2, <3>1, <3>3, TermAlong, EndAlong, ReturnAlong DEF Excused
      <4> QED
        BY <1>3, <4>1, <4>2 DEF Along
    <3> QED
      BY <1>2, <3>2, <3>3
  <2> QED
    BY <2>4, <2>5
<1>9. Foreseen'
  <2>1. Has("SPFLookupLimit")' <=> Has("SPFLookupLimit")
    BY <1>3 DEF Has
  <2> QED
    BY <1>6, <1>8, <2>1 DEF Foreseen
<1>10. total' <= MaxLookups \/ Has("SPFLookupLimit")'
  BY <1>1, <1>3, <1>6
<1> QED
  BY <1>1, <1>3, <1>4, <1>5, <1>6, <1>7, <1>9, <1>10 DEF AuditInv

LEMMA AuditBegins == AuditInit => AuditInv
<1> SUFFICES ASSUME AuditInit PROVE AuditInv
  OBVIOUS
<1>1. WalkInv
  BY SpfAssumption, AnalyzeAssumption, EmptySeq
     DEF AuditInit, AnalysisInit, WalkInv, PathIsCounted, PathInLimits, CutOffIsPaid
<1>2. WalkTyped
  <2>1. \A i \in 1..Len(path) : zone[path[i].domain] \in Records
    BY EmptySeq DEF AuditInit, AnalysisInit
  <2> QED
    BY <1>1, <2>1 DEF AuditInit, AnalysisInit, WalkInv, WalkTyped, ZoneTyped
<1>3. Untouched
  BY DEF AuditInit, Init, Untouched
<1>4. analysis = "start" /\ path = <<>> /\ total = 0
  BY DEF AuditInit, AnalysisInit
<1>5. Logged({})
  BY <1>4, EmptyLog DEF Logged
<1> QED
  BY <1>1, <1>2, <1>3, <1>4, <1>5 DEF AuditInv, Foreseen

LEMMA AuditKept == AuditInv /\ [AuditNext]_auditVars => AuditInv'
<1> SUFFICES ASSUME AuditInv, [AuditNext]_auditVars PROVE AuditInv'
  OBVIOUS
<1>1. CASE Analyze /\ UNCHANGED client
  BY <1>1, AnalyzeKeepsAudit DEF Analyze
<1>2. CASE Evaluate /\ UNCHANGED client
  BY <1>2, EvaluateKeepsAudit
<1>3. CASE UNCHANGED auditVars
  BY <1>3 DEF auditVars, analysisVars, vars, AuditInv, WalkInv, PathIsCounted, PathInLimits,
     CutOffIsPaid, WalkTyped, ZoneTyped, ReadInFull, Has, Untouched, Foreseen, Excused, OtherTargets, VersionDependent,
     Logged, Along
<1> QED
  BY <1>1, <1>2, <1>3 DEF AuditNext

\* The promise of the analysis (analyze.go: "the worst-case number of DNS
\* lookups a receiver may need"): for every set of records, if they could all
\* be read, no evaluation counts more lookups than the analysis, and the lookup
\* limit stops none, unless the report says that the policy exceeds it, or a
\* target has the v macro and the client is not of the family it was expanded
\* for.
THEOREM LimitIsForeseen == AuditSpec => []LimitForeseen
<1>1. AuditInv => LimitForeseen
  <2> SUFFICES ASSUME AuditInv, MaxLookups <= MaxNodes, ~OtherTargets, ~Has("SPFLookupLimit")
               PROVE  ret.why # "lookups" /\ ~(lookups > total)
    BY DEF LimitForeseen, Foretold, OtherTargets
  <2>1. total \in Nat /\ MaxLookups \in Nat /\ MaxNodes \in Nat
    BY SpfAssumption, AnalyzeAssumption DEF AuditInv, WalkTyped, PathIsCounted
  <2>2. CASE analysis # "done" \/ ~ReadInFull
    BY <2>1, <2>2 DEF AuditInv, Untouched
  <2>3. CASE analysis = "done" /\ ReadInFull
    <3>1. path = <<>> /\ total <= MaxLookups
      BY <2>3 DEF AuditInv
    <3>2. ~Excused
      BY <2>1, <2>3, <3>1 DEF Excused
    <3>3. PICK H : Logged(H) /\ Along(H)
      BY <2>3, <3>2 DEF AuditInv, Foreseen
    <3>4. /\ Log(H, zone, <<>>, total) /\ ret.why # "lookups"
          /\ Followed(H, zone, total, pc, call, frames, lookups)
      BY <3>1, <3>3 DEF Logged, Along
    <3>5. lookups <= total /\ lookups \in Nat
      BY <3>4, FollowedWithin DEF Followed
    <3> QED
      BY <2>1, <3>4, <3>5
  <2> QED
    BY <2>2, <2>3
<1> QED
  BY <1>1, AuditBegins, AuditKept, PTL DEF AuditSpec
=============================================================================
