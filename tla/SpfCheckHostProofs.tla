------------------------- MODULE SpfCheckHostProofs -------------------------
(***************************************************************************)
(* Properties of a check_host() evaluation for every zone, every Resolver  *)
(* behaviour and every value of the limits.                                *)
(***************************************************************************)
EXTENDS SpfCheckHost, FiniteSets, FiniteSetTheorems, SequenceTheorems, TLAPS

Names == Domains \cup {BadName}
Call == [domain : Names, via : Vias]
Ret == [res : Results, why : Whys]

TypeFrames == frames \in Seq(Frame) /\ call \in Call
              /\ pc \in {"enter", "term", "resume", "done"}

\* The stack and the pending call fit together: only the first record was not
\* reached by a term, and the include a call returns to is still unread.
Shape ==
    /\ pc = "term" => frames # <<>>
    /\ pc \in {"enter", "resume"} => (call.via = "root" <=> frames = <<>>)
    /\ pc \in {"enter", "resume"} /\ call.via = "include" => Top.left > 0
    /\ call.domain = BadName => call.via = "root"
    /\ \A i \in 1..Len(frames) : frames[i].via = "root" <=> i = 1
    /\ \A i \in 2..Len(frames) : frames[i].via = "include" => frames[i - 1].left > 0

-----------------------------------------------------------------------------
\* What the steps do to the stack. Stay: a call begins, fails at once or is the
\* last; Push: its record is entered; Read: a term was no match; Pop: it returns.
Stay ==
    /\ frames' = frames
    /\ \/ pc = "enter" /\ pc' = "resume" /\ call' = call
       \/ /\ pc = "term" /\ pc' = "enter"
          /\ call' \in [domain : Domains, via : {"include", "redirect"}]
          /\ call'.via = "include" => Top.left > 0
       \/ pc = "resume" /\ pc' = "done" /\ call' = call
Push ==
    /\ pc = "enter" /\ pc' = "term" /\ call' = call
    /\ call.domain # BadName /\ ~OnStack(call.domain) /\ ~TooDeep
    /\ PushFrame
Read ==
    /\ \/ pc = "term" /\ Top.left > 0
       \/ pc = "resume" /\ call.via = "include"
    /\ pc' = "term" /\ call' = call /\ ReadTerm
Pop ==
    /\ \/ pc = "term"
       \/ pc = "resume" /\ call.via # "root"
    /\ pc' = "resume" /\ PopFrame

LEMMA StackSteps == ASSUME TypeFrames, Next PROVE Stay \/ Push \/ Read \/ Pop
<1> USE DEF Stay, Push, Read, Pop, Leave, LeaveAtOnce, NextTerm, Matched, NoMatch,
            Abort, VoidTerm, FailingTerm, AtTerm, Fetching, Targets, Vias, Results
<1>1. CASE Enter
  BY <1>1 DEF Enter, EnterInvalid, EnterLoop, EnterDeep, FetchFails, FetchNothing,
              FetchUnusable, FetchRecord
<1>2. CASE Directive
  <2>1. CASE TermOverLimit
    BY <2>1 DEF TermOverLimit
  <2>2. ASSUME NEW q \in Qualifiers, PlainTerm(q) PROVE Stay \/ Push \/ Read \/ Pop
    BY <2>2 DEF PlainTerm
  <2>3. ASSUME NEW cost, NEW d \in Targets, Include(d, cost)
        PROVE  Stay \/ Push \/ Read \/ Pop
    <3>1. CASE d = BadName
      BY <2>3, <3>1 DEF Include
    <3>2. CASE d # BadName
      <4>1. d \in Domains
        BY <3>2
      <4>2. [domain |-> d, via |-> "include"] \in [domain : Domains, via : {"include", "redirect"}]
        BY <4>1
      <4>3. pc = "term" /\ pc' = "enter" /\ frames' = frames /\ Top.left > 0
            /\ call' = [domain |-> d, via |-> "include"]
        BY <2>3, <3>2 DEF Include
      <4>4. QED
        BY <4>2, <4>3
    <3>3. QED
      BY <3>1, <3>2
  <2>4. ASSUME NEW cost, NEW o, MXTermUnusable(o, cost)
        PROVE  Stay \/ Push \/ Read \/ Pop
    BY <2>4 DEF MXTermUnusable
  <2>5. ASSUME NEW cost, NEW q \in Qualifiers, NEW o, AddressTerm(q, o, cost)
        PROVE  Stay \/ Push \/ Read \/ Pop
    BY <2>5 DEF AddressTerm
  <2>6. ASSUME NEW cost, NEW q \in Qualifiers, NEW o, NEW n, MXTerm(q, o, n, cost)
        PROVE  Stay \/ Push \/ Read \/ Pop
    BY <2>6 DEF MXTerm
  <2>7. ASSUME NEW cost, NEW q \in Qualifiers, NEW n, PTRTerm(q, n, cost)
        PROVE  Stay \/ Push \/ Read \/ Pop
    BY <2>7 DEF PTRTerm
  <2>8. QED
    BY <1>2, <2>1, <2>2, <2>3, <2>4, <2>5, <2>6, <2>7 DEF Directive
<1>3. CASE EndOfRecord
  <2>1. CASE RedirectOverLimit
    BY <2>1 DEF RedirectOverLimit
  <2>2. CASE DefaultResult
    BY <2>2 DEF DefaultResult
  <2>3. ASSUME NEW cost, NEW d \in Targets, Redirect(d, cost)
        PROVE  Stay \/ Push \/ Read \/ Pop
    <3>1. CASE d = BadName
      BY <1>3, <2>3, <3>1 DEF Redirect, EndOfRecord
    <3>2. CASE d # BadName
      <4>1. d \in Domains
        BY <3>2
      <4>2. [domain |-> d, via |-> "redirect"] \in [domain : Domains, via : {"include", "redirect"}]
        BY <4>1
      <4>3. pc = "term" /\ pc' = "enter" /\ frames' = frames
            /\ call' = [domain |-> d, via |-> "redirect"]
        BY <2>3, <3>2 DEF Redirect
      <4>4. call'.via # "include"
        BY <4>3
      <4>5. QED
        BY <4>2, <4>3, <4>4
    <3>3. QED
      BY <3>1, <3>2
  <2>4. QED
    BY <1>3, <2>1, <2>2, <2>3 DEF EndOfRecord
<1>4. CASE Return
  <2>1. ASSUME NEW q \in Qualifiers, ReturnToInclude(q) PROVE Stay \/ Push \/ Read \/ Pop
    BY <2>1 DEF ReturnToInclude
  <2>2. CASE ReturnToRedirect
    BY <2>2 DEF ReturnToRedirect
  <2>3. CASE ReturnToCheckHost
    BY <2>3 DEF ReturnToCheckHost
  <2>4. QED
    BY <1>4, <2>1, <2>2, <2>3 DEF Return
<1>5. QED
  BY <1>1, <1>2, <1>3, <1>4 DEF Next

\* The stack after each kind of step, in terms of its elements.
LEMMA PushFacts ==
    ASSUME TypeFrames, Shape, Push
    PROVE  /\ frames' \in Seq(Frame)
           /\ Len(frames') = Len(frames) + 1
           /\ frames'[Len(frames) + 1].domain = call.domain
           /\ frames'[Len(frames) + 1].via = call.via
           /\ \A i \in 1..Len(frames) : frames'[i] = frames[i]
<1> USE SpfAssumption DEF TypeFrames, Push, PushFrame, Call, Names, Frame
<1> DEFINE f == [domain |-> call.domain, via |-> call.via, left |-> MaxTerms]
<1>1. f \in Frame
  OBVIOUS
<1>2. frames' = Append(frames, f)
  OBVIOUS
<1> QED
  BY <1>1, <1>2

LEMMA ReadFacts ==
    ASSUME TypeFrames, Shape, Read
    PROVE  /\ frames' \in Seq(Frame)
           /\ Len(frames') = Len(frames)
           /\ Len(frames) > 0
           /\ \A i \in 1..Len(frames) : /\ frames'[i].domain = frames[i].domain
                                        /\ frames'[i].via = frames[i].via
           /\ \A i \in 1..Len(frames) - 1 : frames'[i] = frames[i]
<1> DEFINE f == [domain |-> Top.domain, via |-> Top.via, left |-> Top.left - 1]
<1>1. frames # <<>> /\ Len(frames) \in Nat /\ Len(frames) > 0
  BY DEF TypeFrames, Shape, Read
<1>2. Top \in Frame /\ Top.left > 0
  BY <1>1 DEF TypeFrames, Shape, Read, Top
<1>3. f \in Frame
  BY <1>2, SpfAssumption DEF Frame
<1>4. frames' = [frames EXCEPT ![Len(frames)] = f]
  BY DEF Read, ReadTerm
<1> QED
  BY <1>1, <1>2, <1>3, <1>4 DEF TypeFrames, Top

LEMMA PopFacts ==
    ASSUME TypeFrames, Shape, Pop
    PROVE  /\ frames' \in Seq(Frame)
           /\ Len(frames) > 0
           /\ Len(frames') = Len(frames) - 1
           /\ \A i \in 1..Len(frames') : frames'[i] = frames[i]
           /\ Top \in Frame
<1>1. frames \in Seq(Frame) /\ frames # <<>>
  BY DEF TypeFrames, Shape, Pop
<1>2. Len(frames) \in Nat /\ Len(frames) > 0 /\ \A i \in 1..Len(frames) : frames[i] \in Frame
  BY <1>1
<1>3. Top \in Frame
  BY <1>2 DEF Top
<1> DEFINE n == Len(frames) - 1
<1>4. n \in Int /\ 1 \in Int /\ \A i \in 1..n : frames[i] \in Frame
  BY <1>2
<1>5. /\ SubSeq(frames, 1, n) \in Seq(Frame)
      /\ Len(SubSeq(frames, 1, n)) = IF 1 <= n THEN n - 1 + 1 ELSE 0
      /\ \A i \in 1..n - 1 + 1 : SubSeq(frames, 1, n)[i] = frames[1 + i - 1]
  BY <1>4, SubSeqProperties
<1>6. frames' = SubSeq(frames, 1, n)
  BY DEF Pop, PopFrame
<1> HIDE DEF n
<1>7. Len(frames') = n /\ \A i \in 1..n : frames'[i] = frames[i]
  <2>1. n \in Nat
    BY <1>2 DEF n
  <2>2. QED
    BY <1>5, <1>6, <2>1
<1> QED
  BY <1>2, <1>3, <1>5, <1>6, <1>7 DEF n

\* The stack invariant: types, shape, and no domain twice.
Stack == TypeFrames /\ Shape /\ StackAcyclic

LEMMA StackStep == Stack /\ [Next]_vars => Stack'
<1> SUFFICES ASSUME Stack, [Next]_vars PROVE Stack'
  OBVIOUS
<1> USE DEF Stack
<1>1. CASE Stay
  <2>1. frames' = frames
    BY <1>1 DEF Stay
  <2>2. TypeFrames'
    <3>1. \A c \in [domain : Domains, via : {"include", "redirect"}] : c \in Call
      BY DEF Call, Names, Vias
    <3>2. QED
      BY <1>1, <3>1 DEF Stay, TypeFrames
  <2>3. Top' = Top
    BY <2>1 DEF Top
  <2>4. Shape'
    BY <1>1, <2>1, <2>3, SpfAssumption DEF Stay, Shape, TypeFrames, Call
  <2>5. StackAcyclic'
    BY <2>1 DEF StackAcyclic
  <2>6. QED
    BY <2>2, <2>4, <2>5
<1>2. CASE Push
  <2>1. Len(frames) \in Nat
    BY DEF TypeFrames
  <2>2. TypeFrames'
    BY <1>2, PushFacts DEF TypeFrames, Push
  <2>3. Shape'
    <3>1. /\ pc = "enter" /\ pc' = "term" /\ call' = call /\ call.domain # BadName
          /\ call.via = "root" <=> frames = <<>>
          /\ call.via = "include" => Top.left > 0
          /\ \A i \in 1..Len(frames) : frames[i].via = "root" <=> i = 1
          /\ \A i \in 2..Len(frames) : frames[i].via = "include" => frames[i - 1].left > 0
      BY <1>2 DEF Push, Shape
    <3>2. /\ frames' # <<>> /\ Len(frames') = Len(frames) + 1
          /\ frames'[Len(frames) + 1].via = call.via
          /\ \A i \in 1..Len(frames) : frames'[i] = frames[i]
      BY <1>2, <2>1, <2>2, PushFacts DEF TypeFrames
    <3>3. frames = <<>> <=> Len(frames) = 0
      BY DEF TypeFrames
    <3>4. \A i \in 1..Len(frames') : frames'[i].via = "root" <=> i = 1
      BY <2>1, <3>1, <3>2, <3>3
    <3>5. \A i \in 2..Len(frames') : frames'[i].via = "include" => frames'[i - 1].left > 0
      BY <2>1, <3>1, <3>2, <3>3 DEF Top
    <3>6. QED
      BY <3>1, <3>2, <3>4, <3>5 DEF Shape
  <2>4. StackAcyclic'
    BY <1>2, <2>1, PushFacts DEF Push, StackAcyclic, OnStack
  <2>5. QED
    BY <2>2, <2>3, <2>4
<1>3. CASE Read
  <2>1. Len(frames) \in Nat
    BY DEF TypeFrames
  <2>2. TypeFrames'
    BY <1>3, ReadFacts DEF TypeFrames, Read
  <2>3. Shape'
    BY <1>3, <2>1, ReadFacts DEF Read, Shape, TypeFrames
  <2>4. StackAcyclic'
    BY <1>3, <2>1, ReadFacts DEF StackAcyclic
  <2>5. QED
    BY <2>2, <2>3, <2>4
<1>4. CASE Pop
  <2>1. Len(frames) \in Nat
    BY DEF TypeFrames
  <2>2. TypeFrames'
    BY <1>4, PopFacts DEF TypeFrames, Pop, PopFrame, Call, Names, Frame
  <2>3. Shape'
    <3>1. /\ Len(frames') = Len(frames) - 1 /\ Len(frames) > 0
          /\ \A i \in 1..Len(frames') : frames'[i] = frames[i]
          /\ pc' = "resume" /\ call'.domain = Top.domain /\ call'.via = Top.via
          /\ Top = frames[Len(frames)] /\ Top' = frames'[Len(frames')]
          /\ Top.domain \in Domains
      BY <1>4, PopFacts DEF Pop, PopFrame, Top, Frame
    <3>2. frames' = <<>> <=> Len(frames') = 0
      BY <2>2 DEF TypeFrames
    <3>3. call'.via = "root" <=> frames' = <<>>
      BY <2>1, <3>1, <3>2 DEF Shape
    <3>4. call'.via = "include" => Top'.left > 0
      BY <2>1, <3>1 DEF Shape
    <3>5. call'.domain # BadName
      BY <3>1, SpfAssumption
    <3>6. \A i \in 1..Len(frames') : frames'[i].via = "root" <=> i = 1
      BY <2>1, <3>1 DEF Shape
    <3>7. \A i \in 2..Len(frames') : frames'[i].via = "include" => frames'[i - 1].left > 0
      BY <2>1, <3>1 DEF Shape
    <3>8. QED
      BY <3>1, <3>3, <3>4, <3>5, <3>6, <3>7 DEF Shape
  <2>4. StackAcyclic'
    BY <1>4, <2>1, PopFacts DEF StackAcyclic
  <2>5. QED
    BY <2>2, <2>3, <2>4
<1>5. CASE UNCHANGED vars
  BY <1>5 DEF vars, TypeFrames, Shape, StackAcyclic, Top
<1>6. QED
  BY <1>1, <1>2, <1>3, <1>4, <1>5, StackSteps

LEMMA StackInvariant == Spec => []Stack
<1>1. Init => Stack
  <2> SUFFICES ASSUME Init PROVE Stack
    OBVIOUS
  <2>1. /\ frames = <<>> /\ Len(frames) = 0 /\ frames \in Seq(Frame)
        /\ pc = "enter"
    BY EmptySeq DEF Init
  <2>c. call \in Call /\ call.via = "root"
    <3>1. call \in [domain : Names, via : {"root"}]
      BY DEF Init, Names
    <3>2. QED
      BY <3>1 DEF Call, Vias
  <2>2. Shape /\ StackAcyclic
    BY <2>1, <2>c DEF Shape, StackAcyclic
  <2>3. QED
    BY <2>1, <2>c, <2>2 DEF Stack, TypeFrames
<1>2. QED
  BY <1>1, StackStep, PTL DEF Spec

\* For every policy: loop detection keeps each domain on the stack once.
THEOREM NoLoopIsEntered == Spec => []StackAcyclic
  BY StackInvariant, PTL DEF Stack
-----------------------------------------------------------------------------
\* The limits and failures. A step of an evaluation in good order keeps it so
\* (Smooth) or ends it with an error (Strike); a return passes the error on.
LimitWhys == {"lookups", "void_lookups", "mx_names"}

Calm == lookups <= MaxLookups /\ voids <= MaxVoidLookups /\ ~limitHit /\ ~failed

Counters == /\ lookups \in Nat /\ voids \in Nat
            /\ limitHit \in BOOLEAN /\ failed \in BOOLEAN

Struck ==
    \/ /\ limitHit /\ ~failed
       /\ ret.res = "permerror" /\ ret.why \in LimitWhys
       /\ lookups <= MaxLookups + 1 /\ voids <= MaxVoidLookups + 1
    \/ /\ failed /\ ~limitHit
       /\ ret.res = "temperror" /\ ret.why \notin LimitWhys \cup {"nil"}
       /\ lookups <= MaxLookups /\ voids <= MaxVoidLookups

Limits ==
    /\ Counters
    /\ pc \in {"enter", "term"} => Calm
    /\ pc \in {"resume", "done"} => (Calm /\ ret.why \notin LimitWhys) \/ Struck

Smooth ==
    /\ pc \in {"enter", "term"}
    /\ lookups' = lookups \/ (lookups' = lookups + 1 /\ lookups' <= MaxLookups)
    /\ voids' = voids \/ (voids' = voids + 1 /\ voids' <= MaxVoidLookups)
    /\ limitHit' = limitHit /\ failed' = failed
    /\ pc' # "done"
    /\ pc' = "resume" => ret'.why \notin LimitWhys
StrikeLimit ==
    /\ pc = "term" /\ pc' = "resume"
    /\ ret'.res = "permerror" /\ ret'.why \in LimitWhys
    /\ limitHit' = TRUE /\ failed' = failed
    /\ lookups' = lookups \/ lookups' = lookups + 1
    /\ voids' = voids \/ voids' = voids + 1
StrikeFailure ==
    /\ pc \in {"enter", "term"} /\ pc' = "resume"
    /\ ret'.res = "temperror" /\ ret'.why \notin LimitWhys \cup {"nil"}
    /\ failed' = TRUE /\ limitHit' = limitHit /\ voids' = voids
    /\ lookups' = lookups \/ (lookups' = lookups + 1 /\ lookups' <= MaxLookups)
PassOn ==
    /\ pc = "resume"
    /\ lookups' = lookups /\ voids' = voids /\ limitHit' = limitHit /\ failed' = failed
    /\ \/ ret'.res = ret.res /\ ret'.why = ret.why
       \/ ret.why = "nil" /\ (pc' = "resume" => ret'.why \notin LimitWhys)
    /\ pc' \in {"enter", "term"} => ret.why = "nil"
    /\ pc' = "done" => ret' = ret

LEMMA LimitSteps ==
    ASSUME TypeFrames, Counters, Next
    PROVE  Smooth \/ StrikeLimit \/ StrikeFailure \/ PassOn
<1> DEFINE G == Smooth \/ StrikeLimit \/ StrikeFailure \/ PassOn
<1> SUFFICES G
  OBVIOUS
<1> USE SpfAssumption
    DEF Counters, Smooth, StrikeLimit, StrikeFailure, PassOn, LimitWhys,
        Leave, LeaveAtOnce, NextTerm, Matched, NoMatch, Abort, VoidTerm,
        FailingTerm, AtTerm, Fetching, CountLookup
<1>1. CASE Enter
  <2>4. CASE EnterInvalid
    BY <2>4 DEF EnterInvalid, Outermost, TooDeep
  <2>5. CASE EnterLoop
    BY <2>5 DEF EnterLoop, Outermost, TooDeep
  <2>6. CASE EnterDeep
    BY <2>6 DEF EnterDeep, Outermost, TooDeep
  <2>7. CASE FetchNothing
    BY <2>7 DEF FetchNothing, Outermost, TooDeep
  <2>8. CASE FetchRecord
    BY <2>8 DEF FetchRecord, Outermost, TooDeep
  <2>2. ASSUME NEW err \in Errs, FetchFails(err) PROVE G
    BY <2>2 DEF FetchFails
  <2>3. ASSUME NEW why \in {"several_records", "syntax_error"}, FetchUnusable(why)
        PROVE  G
    BY <2>3 DEF FetchUnusable
  <2>9. QED
    BY <1>1, <2>2, <2>3, <2>4, <2>5, <2>6, <2>7, <2>8 DEF Enter
<1>2. CASE Directive
  <2>1. CASE TermOverLimit
    BY <2>1 DEF TermOverLimit
  <2>2. ASSUME NEW q \in Qualifiers, PlainTerm(q) PROVE G
    BY <2>2 DEF PlainTerm
  <2>3. ASSUME NEW cost \in 0..(1 + MaxPTRNames), NEW d \in Targets, Include(d, cost)
        PROVE  G
    BY <2>3 DEF Include
  <2>4. ASSUME NEW cost \in 0..(1 + MaxPTRNames), NEW o, MXTermUnusable(o, cost)
        PROVE  G
    BY <2>4 DEF MXTermUnusable
  <2>5. ASSUME NEW cost \in 0..(1 + MaxPTRNames), NEW q \in Qualifiers, NEW o, AddressTerm(q, o, cost)
        PROVE  G
    BY <2>5 DEF AddressTerm
  <2>6. ASSUME NEW cost \in 0..(1 + MaxPTRNames), NEW q \in Qualifiers, NEW o,
               NEW n \in 0..MaxMXNames, MXTerm(q, o, n, cost)
        PROVE  G
    BY <2>6 DEF MXTerm
  <2>7. ASSUME NEW cost \in 0..(1 + MaxPTRNames), NEW q \in Qualifiers,
               NEW n \in 0..MaxPTRNames, PTRTerm(q, n, cost)
        PROVE  G
    BY <2>7 DEF PTRTerm
  <2>8. MacroCosts \subseteq 0..(1 + MaxPTRNames)
    BY SpfAssumption DEF MacroCosts
  <2>9. QED
    BY <1>2, <2>1, <2>2, <2>3, <2>4, <2>5, <2>6, <2>7, <2>8 DEF Directive
<1>3. CASE EndOfRecord
  <2>1. CASE pc = "term" /\ (RedirectOverLimit \/ DefaultResult)
    BY <2>1 DEF RedirectOverLimit, DefaultResult
  <2>2. ASSUME NEW cost \in 0..(1 + MaxPTRNames), NEW d \in Targets, Redirect(d, cost)
        PROVE  G
    BY <2>2 DEF Redirect
  <2>3. MacroCosts \subseteq 0..(1 + MaxPTRNames)
    BY SpfAssumption DEF MacroCosts
  <2>4. QED
    BY <1>3, <2>1, <2>2, <2>3 DEF EndOfRecord
<1>4. CASE Return
  <2>1. ASSUME NEW q \in Qualifiers, ReturnToInclude(q) PROVE G
    BY <2>1 DEF ReturnToInclude
  <2>2. CASE ReturnToRedirect \/ ReturnToCheckHost
    BY <2>2 DEF ReturnToRedirect, ReturnToCheckHost
  <2>3. QED
    BY <1>4, <2>1, <2>2 DEF Return
<1>5. QED
  BY <1>1, <1>2, <1>3, <1>4 DEF Next

LEMMA LimitStep == TypeFrames /\ Limits /\ [Next]_vars => Limits'
<1> SUFFICES ASSUME TypeFrames, Limits, [Next]_vars PROVE Limits'
  OBVIOUS
<1> USE SpfAssumption DEF Limits, Counters, Calm, Struck
<1>1. CASE Smooth
  BY <1>1 DEF Smooth, TypeFrames
<1>2. CASE StrikeLimit
  BY <1>2 DEF StrikeLimit
<1>3. CASE StrikeFailure
  BY <1>3 DEF StrikeFailure
<1>4. CASE PassOn
  BY <1>4 DEF PassOn, LimitWhys
<1>5. CASE UNCHANGED vars
  BY <1>5 DEF vars
<1>6. QED
  BY <1>1, <1>2, <1>3, <1>4, <1>5, LimitSteps DEF Limits

LEMMA LimitInvariant == Spec => [](Stack /\ Limits)
<1>1. Init => Limits
  <2> SUFFICES ASSUME Init PROVE Limits
    OBVIOUS
  <2>1. Counters /\ Calm
    <3>1. lookups = 0 /\ voids = 0 /\ limitHit = FALSE /\ failed = FALSE
      BY DEF Init
    <3>2. MaxLookups \in Nat /\ MaxVoidLookups \in Nat
      BY SpfAssumption
    <3>3. lookups <= MaxLookups /\ voids <= MaxVoidLookups /\ lookups \in Nat /\ voids \in Nat
      BY <3>1, <3>2
    <3>4. QED
      BY <3>1, <3>3, Zenon DEF Counters, Calm
  <2>2. ~(pc \in {"resume", "done"})
    BY DEF Init
  <2>3. QED
    BY <2>1, <2>2, Zenon DEF Limits
<1>2. Stack /\ Limits /\ [Next]_vars => Limits'
  BY LimitStep DEF Stack
<1>3. QED
  BY <1>1, <1>2, StackInvariant, PTL DEF Spec

\* No limit is ever exceeded by more than the term that broke it.
THEOREM LimitsStopTheEvaluation == Spec => []LimitStops
<1>1. Stack /\ Limits => LimitStops
  <2> SUFFICES ASSUME Stack, Limits PROVE LimitStops
    OBVIOUS
  <2>1. pc \in {"enter", "term", "resume", "done"}
    BY DEF Stack, TypeFrames
  <2>2. CASE Calm
    BY <2>2, SpfAssumption DEF Limits, Counters, Calm, LimitStops
  <2>3. CASE Struck /\ pc \in {"resume", "done"}
    BY <2>3, SpfAssumption DEF Limits, Counters, Struck, LimitStops
  <2>4. QED
    BY <2>1, <2>2, <2>3 DEF Limits
<1>2. QED
  BY <1>1, LimitInvariant, PTL

\* The flag and the result agree, for any limits.
THEOREM LimitsAreReported == Spec => []LimitReported
<1>1. Limits => LimitReported
  BY DEF Limits, Calm, Struck, LimitReported, LimitWhys
<1>2. QED
  BY <1>1, LimitInvariant, PTL

\* A temporary failure is never turned into another result.
THEOREM FailuresDecide == Spec => []FailureDecides
<1>1. Stack /\ Limits => FailureDecides
  BY DEF Stack, TypeFrames, Limits, Calm, Struck, FailureDecides
<1>2. QED
  BY <1>1, LimitInvariant, PTL

-----------------------------------------------------------------------------
\* Every record but the first was reached by a counted term.
Paid == Len(frames) + (IF pc = "enter" THEN 1 ELSE 0) <= lookups + 1
\* With the default limits nesting is never what stops an evaluation.
DepthNeverFirst == MaxLookups <= MaxDepth => ret.why # "depth"

Nesting == NestingBounded /\ Paid /\ DepthNeverFirst /\ DepthIsPaid

\* What a step costs, and when nesting is blamed.
DepthStep ==
    /\ lookups' = lookups \/ lookups' = lookups + 1
    /\ pc = "term" /\ pc' = "enter" => lookups' = lookups + 1
    /\ ret'.why = "depth" => ret.why = "depth" \/ (pc = "enter" /\ Len(frames) > MaxDepth)

LEMMA DepthSteps == ASSUME TypeFrames, Counters, Next PROVE DepthStep
<1> USE SpfAssumption DEF Counters, DepthStep, Leave, LeaveAtOnce, NextTerm, Matched, NoMatch, Abort, VoidTerm,
            FailingTerm, AtTerm, Fetching, CountLookup
<1>1. CASE Enter
  <2>4. CASE EnterInvalid
    BY <2>4 DEF EnterInvalid, Outermost, TooDeep
  <2>5. CASE EnterLoop
    BY <2>5 DEF EnterLoop, Outermost, TooDeep
  <2>6. CASE EnterDeep
    BY <2>6 DEF EnterDeep, Outermost, TooDeep
  <2>7. CASE FetchNothing
    BY <2>7 DEF FetchNothing, Outermost, TooDeep
  <2>8. CASE FetchRecord
    BY <2>8 DEF FetchRecord, Outermost, TooDeep
  <2>2. ASSUME NEW err \in Errs, FetchFails(err) PROVE DepthStep
    BY <2>2 DEF FetchFails
  <2>3. ASSUME NEW why \in {"several_records", "syntax_error"}, FetchUnusable(why)
        PROVE  DepthStep
    BY <2>3 DEF FetchUnusable
  <2>9. QED
    BY <1>1, <2>2, <2>3, <2>4, <2>5, <2>6, <2>7, <2>8 DEF Enter
<1>2. CASE Directive
  <2>1. CASE TermOverLimit
    BY <2>1 DEF TermOverLimit
  <2>2. ASSUME NEW q \in Qualifiers, PlainTerm(q) PROVE DepthStep
    BY <2>2 DEF PlainTerm
  <2>3. ASSUME NEW cost \in 0..(1 + MaxPTRNames), NEW d \in Targets, Include(d, cost)
        PROVE  DepthStep
    BY <2>3 DEF Include
  <2>4. ASSUME NEW cost \in 0..(1 + MaxPTRNames), NEW o, MXTermUnusable(o, cost)
        PROVE  DepthStep
    BY <2>4 DEF MXTermUnusable
  <2>5. ASSUME NEW cost \in 0..(1 + MaxPTRNames), NEW q \in Qualifiers, NEW o, AddressTerm(q, o, cost)
        PROVE  DepthStep
    BY <2>5 DEF AddressTerm
  <2>6. ASSUME NEW cost \in 0..(1 + MaxPTRNames), NEW q \in Qualifiers, NEW o,
               NEW n \in 0..MaxMXNames, MXTerm(q, o, n, cost)
        PROVE  DepthStep
    BY <2>6 DEF MXTerm
  <2>7. ASSUME NEW cost \in 0..(1 + MaxPTRNames), NEW q \in Qualifiers,
               NEW n \in 0..MaxPTRNames, PTRTerm(q, n, cost)
        PROVE  DepthStep
    BY <2>7 DEF PTRTerm
  <2>8. MacroCosts \subseteq 0..(1 + MaxPTRNames)
    BY SpfAssumption DEF MacroCosts
  <2>9. QED
    BY <1>2, <2>1, <2>2, <2>3, <2>4, <2>5, <2>6, <2>7, <2>8 DEF Directive
<1>3. CASE EndOfRecord
  <2>1. CASE pc = "term" /\ (RedirectOverLimit \/ DefaultResult)
    BY <2>1 DEF RedirectOverLimit, DefaultResult
  <2>2. ASSUME NEW cost \in 0..(1 + MaxPTRNames), NEW d \in Targets, Redirect(d, cost)
        PROVE  DepthStep
    BY <2>2 DEF Redirect
  <2>3. MacroCosts \subseteq 0..(1 + MaxPTRNames)
    BY SpfAssumption DEF MacroCosts
  <2>4. QED
    BY <1>3, <2>1, <2>2, <2>3 DEF EndOfRecord
<1>4. CASE Return
  <2>1. ASSUME NEW q \in Qualifiers, ReturnToInclude(q) PROVE DepthStep
    BY <2>1 DEF ReturnToInclude
  <2>2. CASE ReturnToRedirect \/ ReturnToCheckHost
    BY <2>2 DEF ReturnToRedirect, ReturnToCheckHost
  <2>3. QED
    BY <1>4, <2>1, <2>2 DEF Return
<1>5. QED
  BY <1>1, <1>2, <1>3, <1>4 DEF Next

LEMMA NestingStep == Stack /\ Limits /\ Nesting /\ [Next]_vars => Nesting'
<1> SUFFICES ASSUME Stack, Limits, Nesting, [Next]_vars PROVE Nesting'
  OBVIOUS
<1>t. /\ TypeFrames /\ Shape /\ Counters /\ Len(frames) \in Nat
      /\ pc = "enter" => lookups <= MaxLookups
  BY DEF Stack, TypeFrames, Limits, Calm
<1>1. CASE UNCHANGED vars
  BY <1>1 DEF vars, Nesting, NestingBounded, Paid, DepthNeverFirst, DepthIsPaid
<1>2. CASE Next
  <2>1. DepthStep
    BY <1>2, <1>t, DepthSteps
  <2>2. lookups' \in Nat
    BY <1>2, <1>t, LimitStep DEF Limits, Counters
  <2>3. DepthNeverFirst' /\ DepthIsPaid'
    BY <1>t, <2>1, SpfAssumption
       DEF DepthStep, TooDeep, Nesting, Paid, DepthNeverFirst, DepthIsPaid, Counters
  <2>4. NestingBounded' /\ Paid'
    <3> USE <1>t, <2>1, <2>2, SpfAssumption
        DEF DepthStep, Nesting, NestingBounded, Paid, Counters
    <3>1. CASE Stay
      BY <3>1 DEF Stay
    <3>2. CASE Push
      BY <3>2, PushFacts DEF Push, TooDeep
    <3>3. CASE Read
      BY <3>3, ReadFacts DEF Read
    <3>4. CASE Pop
      BY <3>4, PopFacts DEF Pop
    <3>5. QED
      BY <1>2, <1>t, StackSteps, <3>1, <3>2, <3>3, <3>4
  <2>5. QED
    BY <2>3, <2>4 DEF Nesting
<1>3. QED
  BY <1>1, <1>2

LEMMA NestingInvariant == Spec => []Nesting
<1>1. Init => Nesting
  <2> SUFFICES ASSUME Init PROVE Nesting
    OBVIOUS
  <2>1. Len(frames) = 0 /\ lookups = 0 /\ pc = "enter" /\ ret.why = "nil"
    BY EmptySeq DEF Init
  <2>2. QED
    BY <2>1, SpfAssumption DEF Nesting, NestingBounded, Paid, DepthNeverFirst, DepthIsPaid
<1>2. QED
  BY <1>1, NestingStep, LimitInvariant, PTL DEF Spec

\* The stack is no deeper than MaxDepth allows.
THEOREM NestingIsBounded == Spec => []NestingBounded
  BY NestingInvariant, PTL DEF Nesting

\* Nesting beyond MaxDepth costs more than MaxDepth lookups.
THEOREM NestingCostsLookups == Spec => []DepthIsPaid
  BY NestingInvariant, PTL DEF Nesting

\* With MaxLookups <= MaxDepth, as in DefaultLimits, MaxDepth is never reached.
THEOREM LookupLimitComesFirst == Spec => []DepthNeverFirst
  BY NestingInvariant, PTL DEF Nesting

-----------------------------------------------------------------------------
(* Whose directive decided. A call that returns pass, fail or softfail      *)
(* returns what a directive of its record said, or of one it was redirected *)
(* to: an include is among the vias of that record only if the call is      *)
(* itself inside an include, or one.                                        *)
Definite == {"pass", "fail", "softfail"}
WithinInclude ==
    call.via = "include" \/ \E i \in 1..Len(frames) : frames[i].via = "include"

Decided ==
    /\ ret.res \in Definite => ret.why = "nil"
    /\ pc = "resume" /\ ret.res \in Definite /\ "include" \in decider => WithinInclude
    /\ OwnDirectiveDecides

\* A directive matched, and the call it is in returns ...
Decides ==
    /\ Pop /\ decider' = ViasOnStack
    /\ ret' = [res |-> ret'.res, why |-> "nil"]
\* ... to one that was redirected, which returns the same ...
Relays ==
    /\ pc = "resume" /\ call.via = "redirect"
    /\ Pop /\ decider' = decider
    /\ ret' = [res |-> ret.res, why |-> ret.why] \/ ret'.res = "permerror"
\* ... or to CheckHost. No other step decides anything.
Concludes ==
    /\ pc = "resume" /\ call.via = "root" /\ pc' = "done"
    /\ ret' = ret /\ decider' = decider
Undecided ==
    /\ pc' # "done" /\ decider' = decider
    /\ pc' = "resume" => ret'.res \notin Definite
    /\ ret'.res \in Definite => ret' = ret

LEMMA DecisionSteps ==
    ASSUME TypeFrames, Decided, Next
    PROVE  Decides \/ Relays \/ Concludes \/ Undecided
<1> DEFINE G == Decides \/ Relays \/ Concludes \/ Undecided
<1> SUFFICES G
  OBVIOUS
<1> USE DEF Decides, Relays, Concludes, Undecided, Definite, Decided, Leave, LeaveAtOnce, NextTerm,
            Matched, NoMatch, Abort, VoidTerm, FailingTerm, AtTerm, Pop
<1>1. CASE Enter
  <2>1. CASE EnterInvalid \/ EnterLoop \/ EnterDeep \/ FetchNothing \/ FetchRecord
    BY <2>1 DEF EnterInvalid, EnterLoop, EnterDeep, FetchNothing, FetchRecord, Fetching
  <2>2. ASSUME NEW err \in Errs, FetchFails(err) PROVE G
    BY <2>2 DEF FetchFails, Fetching
  <2>3. ASSUME NEW why, FetchUnusable(why) PROVE G
    BY <2>3 DEF FetchUnusable, Fetching
  <2>4. QED
    BY <1>1, <2>1, <2>2, <2>3 DEF Enter
<1>2. CASE Directive
  <2>1. CASE TermOverLimit
    BY <2>1 DEF TermOverLimit
  <2>2. ASSUME NEW q, PlainTerm(q) PROVE G
    BY <2>2 DEF PlainTerm
  <2>3. ASSUME NEW cost, NEW d, Include(d, cost) PROVE G
    BY <2>3 DEF Include
  <2>4. ASSUME NEW cost, NEW o, MXTermUnusable(o, cost) PROVE G
    BY <2>4 DEF MXTermUnusable
  <2>5. ASSUME NEW cost, NEW q, NEW o, AddressTerm(q, o, cost) PROVE G
    BY <2>5 DEF AddressTerm
  <2>6. ASSUME NEW cost, NEW q, NEW o, NEW n, MXTerm(q, o, n, cost) PROVE G
    BY <2>6 DEF MXTerm
  <2>7. ASSUME NEW cost, NEW q, NEW n, PTRTerm(q, n, cost) PROVE G
    BY <2>7 DEF PTRTerm
  <2>8. QED
    BY <1>2, <2>1, <2>2, <2>3, <2>4, <2>5, <2>6, <2>7 DEF Directive
<1>3. CASE EndOfRecord
  <2>1. CASE RedirectOverLimit \/ DefaultResult
    BY <2>1 DEF RedirectOverLimit, DefaultResult
  <2>2. ASSUME NEW cost, NEW d, Redirect(d, cost) PROVE G
    BY <2>2 DEF Redirect
  <2>3. QED
    BY <1>3, <2>1, <2>2 DEF EndOfRecord
<1>4. CASE Return
  <2>1. ASSUME NEW q, ReturnToInclude(q) PROVE G
    BY <2>1 DEF ReturnToInclude
  <2>2. CASE ReturnToRedirect \/ ReturnToCheckHost
    BY <2>2 DEF ReturnToRedirect, ReturnToCheckHost
  <2>3. QED
    BY <1>4, <2>1, <2>2 DEF Return
<1>5. QED
  BY <1>1, <1>2, <1>3, <1>4 DEF Next

LEMMA DecidedStep == Stack /\ Decided /\ [Next]_vars => Decided'
<1> SUFFICES ASSUME Stack, Decided, [Next]_vars PROVE Decided'
  OBVIOUS
<1>t. TypeFrames /\ Shape /\ Len(frames) \in Nat
  BY DEF Stack, TypeFrames
<1>p. ASSUME Pop
      PROVE  /\ \A i \in 1..Len(frames') : frames'[i] = frames[i]
             /\ Len(frames) \in Nat \ {0} /\ Len(frames') = Len(frames) - 1
             /\ call'.via = frames[Len(frames)].via
  BY <1>p, <1>t, PopFacts DEF Pop, PopFrame, Top
<1>1. CASE Decides
  <2>1. Pop
    BY <1>1 DEF Decides
  <2>2. "include" \in decider' => \E i \in 1..Len(frames) : frames[i].via = "include"
    BY <1>1 DEF Decides, ViasOnStack
  <2>3. "include" \in decider' => WithinInclude'
    BY <1>p, <2>1, <2>2 DEF WithinInclude
  <2>4. ret'.why = "nil" /\ pc' = "resume"
    BY <1>1 DEF Decides, Pop
  <2>5. QED
    BY <2>3, <2>4 DEF Decided, OwnDirectiveDecides
<1>2. CASE Relays
  <2>1. Pop
    BY <1>2 DEF Relays
  <2>2. CASE ret'.res = "permerror"
    BY <1>2, <2>2 DEF Relays, Pop, Decided, Definite, OwnDirectiveDecides
  <2>3. CASE ret' = [res |-> ret.res, why |-> ret.why]
    <3>1. ret'.res = ret.res /\ ret'.why = ret.why /\ pc = "resume" /\ call.via = "redirect"
          /\ decider' = decider /\ pc' = "resume"
      BY <1>2, <2>3 DEF Relays, Pop
    <3>2. ret.res \in Definite /\ "include" \in decider =>
            \E i \in 1..Len(frames) : frames[i].via = "include"
      BY <3>1 DEF Decided, WithinInclude
    <3>3. ret.res \in Definite /\ "include" \in decider => WithinInclude'
      BY <1>p, <2>1, <3>2 DEF WithinInclude
    <3>4. QED
      BY <3>1, <3>3 DEF Decided, OwnDirectiveDecides
  <2>4. QED
    BY <1>2, <2>2, <2>3 DEF Relays
<1>3. CASE Concludes
  <2>1. frames = <<>> /\ Len(frames) = 0
    BY <1>3, <1>t DEF Concludes, Shape, TypeFrames
  <2>2. ret.res \in Definite => "include" \notin decider
    BY <1>3, <2>1 DEF Concludes, Decided, WithinInclude
  <2>3. QED
    BY <1>3, <2>2 DEF Concludes, Decided, Definite, OwnDirectiveDecides
<1>4. CASE Undecided
  BY <1>4 DEF Undecided, Decided, OwnDirectiveDecides
<1>5. CASE UNCHANGED vars
  BY <1>5 DEF vars, Decided, OwnDirectiveDecides, WithinInclude
<1>6. QED
  BY <1>1, <1>2, <1>3, <1>4, <1>5, <1>t, DecisionSteps

\* Whatever the records include (match, evalInclude in eval.go), the result of
\* the evaluation comes from a directive outside all of them.
THEOREM OwnDirectivesDecide == Spec => []OwnDirectiveDecides
<1>1. Init => Decided
  BY DEF Init, Decided, Definite, OwnDirectiveDecides
<1>2. QED
  BY <1>1, DecidedStep, StackInvariant, PTL DEF Spec, Decided

-----------------------------------------------------------------------------
(* How many queries an evaluation makes: every counted term pays for the    *)
(* lookups of its own and for the retrieval it leads to, and every domain   *)
(* for one resolution of the p macro. A counted term adds at most one       *)
(* domain to those known, which are the only ones to resolve it for.        *)
PerTerm == 1 + (IF MaxMXNames > MaxPTRNames THEN MaxMXNames ELSE MaxPTRNames)
PerDomain == 1 + MaxPTRNames
Price(l, d) == l * PerTerm + d * PerDomain

OnFrames == {frames[i].domain : i \in 1..Len(frames)}
Known == pCache \cup OnFrames \cup (IF pc = "enter" THEN {call.domain} ELSE {})
Fetch == IF pc = "enter" THEN 1 ELSE 0      \* the retrieval that is due

\* Once the first record is left, an explanation may have been fetched.
PaidFor ==
    pc = "enter" \/ frames # <<>> => queries + Fetch <= 1 + Price(lookups, Cardinality(pCache))

QueryTypes == queries \in Nat /\ IsFiniteSet(Known) /\ Cardinality(Known) <= lookups + 1
QueryInv == QueryTypes /\ PaidFor /\ QueriesBounded

LEMMA Rates ==
    /\ PerTerm \in Nat \ {0} /\ PerDomain \in Nat \ {0}
    /\ MaxMXNames + 1 <= PerTerm /\ MaxPTRNames + 1 <= PerTerm
  BY SpfAssumption DEF PerTerm, PerDomain

LEMMA Prices ==
    ASSUME NEW l \in Nat, NEW d \in Nat
    PROVE  /\ Price(l, d) \in Nat
           /\ Price(l + 1, d) = Price(l, d) + PerTerm
           /\ Price(l, d + 1) = Price(l, d) + PerDomain
           /\ \A m \in Nat, e \in Nat : l <= m /\ d <= e => Price(l, d) <= Price(m, e)
<1>1. PerTerm \in Nat /\ PerDomain \in Nat
  BY Rates
<1>2. Price(l, d) \in Nat /\ Price(l + 1, d) = Price(l, d) + PerTerm
      /\ Price(l, d + 1) = Price(l, d) + PerDomain
  BY <1>1 DEF Price
<1>3. ASSUME NEW x \in Nat, NEW y \in Nat, NEW z \in Nat, x <= y PROVE x * z <= y * z
  <2>1. y - x \in Nat /\ y = x + (y - x)
    BY <1>3
  <2>2. PICK k \in Nat : y = x + k
    BY <2>1
  <2>3. y * z = x * z + k * z /\ k * z \in Nat /\ x * z \in Nat
    BY <2>2
  <2>4. QED
    BY <2>3
<1>4. ASSUME NEW m \in Nat, NEW e \in Nat, l <= m, d <= e PROVE Price(l, d) <= Price(m, e)
  <2>1. l * PerTerm <= m * PerTerm /\ d * PerDomain <= e * PerDomain
    BY <1>1, <1>3, <1>4
  <2>2. /\ l * PerTerm \in Nat /\ m * PerTerm \in Nat
        /\ d * PerDomain \in Nat /\ e * PerDomain \in Nat
    BY <1>1
  <2>3. QED
    BY <2>1, <2>2 DEF Price
<1>5. QED
  BY <1>2, <1>4

\* What the counted terms and the known domains pay is within the bound.
LEMMA WithinLimits ==
    ASSUME NEW l \in Nat, NEW d \in Nat, l <= MaxLookups, d <= l + 1
    PROVE  /\ Price(l, d) <= Price(MaxLookups, MaxLookups + 1)
           /\ Price(l, d) \in Nat /\ Price(MaxLookups, MaxLookups + 1) \in Nat
<1>1. MaxLookups \in Nat
  BY SpfAssumption
<1>2. MaxLookups + 1 \in Nat /\ d <= MaxLookups + 1
  BY <1>1
<1>3. /\ Price(l, d) \in Nat
      /\ \A m \in Nat, e \in Nat : l <= m /\ d <= e => Price(l, d) <= Price(m, e)
  BY Prices
<1>4. Price(MaxLookups, MaxLookups + 1) \in Nat
  BY <1>1, <1>2, Prices
<1>5. QED
  BY <1>1, <1>2, <1>3, <1>4

\* Resolving the macro is paid by the domain it is resolved for.
LEMMA MacroIsPaid ==
    ASSUME IsFiniteSet(pCache), NEW cost \in MacroCosts, Expand(cost), NEW l \in Nat
    PROVE  /\ IsFiniteSet(pCache') /\ pCache' \subseteq pCache \cup {Top.domain}
           /\ pCache \subseteq pCache' /\ cost \in Nat
           /\ cost + Price(l, Cardinality(pCache)) <= Price(l, Cardinality(pCache'))
<1>1. Cardinality(pCache) \in Nat
  BY FS_CardinalityType
<1>2. CASE cost = 0
  <2>1. pCache' = pCache
    BY <1>2 DEF Expand
  <2>2. QED
    BY <1>1, <1>2, <2>1, Prices
<1>3. CASE cost # 0
  <2>1. pCache' = pCache \cup {Top.domain} /\ Top.domain \notin pCache
        /\ cost \in 1..(1 + MaxPTRNames)
    BY <1>3 DEF Expand, MacroCosts
  <2>2. IsFiniteSet(pCache') /\ Cardinality(pCache') = Cardinality(pCache) + 1
    BY <2>1, FS_AddElement
  <2>3. /\ Price(l, Cardinality(pCache) + 1) = Price(l, Cardinality(pCache)) + PerDomain
        /\ Price(l, Cardinality(pCache)) \in Nat
    BY <1>1, Prices
  <2>4. cost \in Nat /\ cost <= PerDomain /\ PerDomain \in Nat
    BY <2>1, SpfAssumption DEF PerDomain
  <2>5. QED
    BY <2>1, <2>2, <2>3, <2>4
<1>4. QED
  BY <1>2, <1>3

\* What a step costs. Idle: nothing; Fetches: the retrieval that was due;
\* Spends: a counted term, with the lookups of its own or the retrieval it leads
\* to; Explains: the same, or an include, when the initial record fails.
Idle == pc' # "enter" /\ queries' = queries /\ pCache' = pCache /\ lookups' \in {lookups, lookups + 1}
Fetches ==
    /\ pc = "enter" /\ pc' # "enter"
    /\ queries' = queries + 1 /\ pCache' = pCache /\ lookups' = lookups
Spends ==
    /\ pc = "term" /\ lookups' = lookups + 1 /\ lookups' <= MaxLookups
    /\ \E cost \in MacroCosts, own \in 0..PerTerm :
         /\ Expand(cost) /\ queries' = queries + cost + own
         /\ pc' = "enter" => own = 0
Explains ==
    /\ Pop /\ AtRoot
    /\ \E cost \in MacroCosts, own \in 0..PerTerm, more \in ExpCosts :
         /\ Expand(cost) /\ queries' = queries + cost + own + more
         /\ \/ pc = "term" /\ lookups' = lookups + 1 /\ lookups' <= MaxLookups
            \/ /\ lookups' = lookups /\ cost = 0 /\ own = 0
               /\ pc = "resume" => ret.why = "nil"

LEMMA Outcome ==
    ASSUME NEW q, NEW base, Matched(q, base),
           pc = "term" \/ (pc = "resume" /\ call.via # "root")
    PROVE  Pop /\ (queries' = base \/ (AtRoot /\ \E more \in ExpCosts : queries' = base + more))
<1>1. Pop
  BY DEF Matched, Leave, Pop
<1>2. CASE ~AtRoot
  BY <1>1, <1>2 DEF Matched
<1>3. CASE AtRoot /\ q = "fail"
  BY <1>1, <1>3 DEF Matched
<1>4. CASE AtRoot /\ q # "fail"
  <2>1. 0 \in ExpCosts
    BY SpfAssumption DEF ExpCosts
  <2>2. queries' = base + 0
    BY <1>4 DEF Matched
  <2>3. QED
    BY <1>1, <1>4, <2>1, <2>2
<1>5. QED
  BY <1>2, <1>3, <1>4

LEMMA QuerySteps ==
    ASSUME TypeFrames, Counters, queries \in Nat, Next
    PROVE  Idle \/ Fetches \/ Spends \/ Explains
<1> DEFINE G == Idle \/ Fetches \/ Spends \/ Explains
<1> SUFFICES G
  OBVIOUS
<1> USE SpfAssumption
    DEF Counters, Idle, Fetches, Spends, Leave, LeaveAtOnce, NextTerm, NoMatch, Abort
<1>f. 0 \in MacroCosts /\ 0 \in 0..PerTerm
  BY Rates DEF MacroCosts
\* A counted term that costs own lookups besides its macros.
<1>a. ASSUME NEW cost \in MacroCosts, NEW own \in 0..PerTerm, NEW base,
             AtTerm, CountLookup, Expand(cost), base = queries + cost + own, queries' = base,
             pc' # "enter"
      PROVE  G
  BY <1>a DEF AtTerm, CountLookup
<1>b. ASSUME NEW cost \in MacroCosts, NEW own \in 0..PerTerm, NEW base,
             AtTerm, CountLookup, Expand(cost), base = queries + cost + own,
             NEW q, Matched(q, base)
      PROVE  G
  <2>1. pc = "term" /\ lookups' = lookups + 1 /\ lookups' <= MaxLookups
    BY <1>b DEF AtTerm, CountLookup
  <2>2. Pop /\ (queries' = base \/ (AtRoot /\ \E more \in ExpCosts : queries' = base + more))
    BY <1>b, <2>1, Outcome
  <2>3. CASE queries' = base
    BY <1>a, <1>b, <2>2, <2>3 DEF Pop
  <2>4. CASE AtRoot /\ \E more \in ExpCosts : queries' = base + more
    BY <1>b, <2>1, <2>2, <2>4 DEF Explains
  <2>5. QED
    BY <2>2, <2>3, <2>4
<1>1. CASE Enter
  <2>1. CASE EnterInvalid \/ EnterLoop \/ EnterDeep
    BY <2>1 DEF EnterInvalid, EnterLoop, EnterDeep
  <2>2. CASE FetchNothing \/ FetchRecord
    BY <2>2 DEF FetchNothing, FetchRecord, Fetching
  <2>3. ASSUME NEW err \in Errs, FetchFails(err) PROVE G
    BY <2>3 DEF FetchFails, Fetching
  <2>4. ASSUME NEW why, FetchUnusable(why) PROVE G
    BY <2>4 DEF FetchUnusable, Fetching
  <2>5. QED
    BY <1>1, <2>1, <2>2, <2>3, <2>4 DEF Enter
<1>2. CASE Directive
  <2>1. CASE TermOverLimit
    BY <2>1 DEF TermOverLimit
  <2>2. ASSUME NEW q, PlainTerm(q) PROVE G
    <3>1. CASE NoMatch(queries)
      BY <2>2, <3>1 DEF PlainTerm
    <3>2. CASE Matched(q, queries)
      <4>1. pc = "term" /\ lookups' = lookups /\ pCache' = pCache
        BY <2>2 DEF PlainTerm, AtTerm
      <4>2. Pop /\ (queries' = queries \/ (AtRoot /\ \E more \in ExpCosts : queries' = queries + more))
        BY <3>2, <4>1, Outcome
      <4>3. Expand(0) /\ queries = queries + 0 + 0
        BY <4>1 DEF Expand
      <4>4. pc = "resume" => ret.why = "nil"
        BY <4>1
      <4>5. QED
        BY <1>f, <4>1, <4>2, <4>3, <4>4 DEF Explains, Pop
    <3>3. QED
      BY <2>2, <3>1, <3>2 DEF PlainTerm
  <2>3. ASSUME NEW cost \in MacroCosts, NEW d, Include(d, cost) PROVE G
    <3>1. cost \in Nat /\ queries' = queries + cost + 0
      BY <2>3, SpfAssumption DEF Include, MacroCosts
    <3>2. QED
      BY <1>f, <2>3, <3>1 DEF Include, AtTerm, CountLookup
  <2>4. ASSUME NEW cost \in MacroCosts, AtTerm, NEW o, MXTermUnusable(o, cost) PROVE G
    <3>1. 1 \in 0..PerTerm /\ pc' # "enter" /\ queries' = queries + cost + 1
      BY <2>4, Rates DEF MXTermUnusable, VoidTerm, FailingTerm
    <3>2. QED
      BY <1>a, <2>4, <3>1 DEF MXTermUnusable
  <2>5. ASSUME NEW cost \in MacroCosts, NEW q, NEW o, AddressTerm(q, o, cost) PROVE G
    <3>1. 1 \in 0..PerTerm
      BY Rates
    <3>2. \/ Matched(q, queries + cost + 1)
          \/ pc' # "enter" /\ queries' = queries + cost + 1
      BY <2>5 DEF AddressTerm, VoidTerm, FailingTerm
    <3>3. QED
      BY <1>a, <1>b, <2>5, <3>1, <3>2 DEF AddressTerm
  <2>6. ASSUME NEW cost \in MacroCosts, NEW q, NEW o, NEW n \in 0..MaxMXNames, MXTerm(q, o, n, cost)
        PROVE  G
    <3>1. 1 + n \in 0..PerTerm /\ cost \in Nat
      BY Rates DEF MacroCosts
    <3>2. \/ Matched(q, queries + cost + 1 + n)
          \/ pc' # "enter" /\ queries' = queries + cost + 1 + n
      BY <2>6 DEF MXTerm, FailingTerm
    <3>3. queries + cost + 1 + n = queries + cost + (1 + n)
      BY <3>1
    <3>4. QED
      BY <1>a, <1>b, <2>6, <3>1, <3>2, <3>3 DEF MXTerm
  <2>7. ASSUME NEW cost \in MacroCosts, NEW q, NEW n \in 0..MaxPTRNames, PTRTerm(q, n, cost)
        PROVE  G
    <3>1. 1 + n \in 0..PerTerm /\ cost \in Nat
      BY Rates DEF MacroCosts
    <3>2. \/ Matched(q, queries + cost + 1 + n)
          \/ pc' # "enter" /\ queries' = queries + cost + 1 + n
      BY <2>7 DEF PTRTerm
    <3>3. queries + cost + 1 + n = queries + cost + (1 + n)
      BY <3>1
    <3>4. QED
      BY <1>a, <1>b, <2>7, <3>1, <3>2, <3>3 DEF PTRTerm
  <2>8. QED
    BY <1>2, <2>1, <2>2, <2>3, <2>4, <2>5, <2>6, <2>7 DEF Directive
<1>3. CASE EndOfRecord
  <2>1. CASE RedirectOverLimit \/ DefaultResult
    BY <2>1 DEF RedirectOverLimit, DefaultResult
  <2>2. ASSUME NEW cost \in MacroCosts, NEW d, Redirect(d, cost) PROVE G
    <3>1. cost \in Nat /\ queries' = queries + cost + 0
      BY <2>2, SpfAssumption DEF Redirect, MacroCosts
    <3>2. QED
      BY <1>f, <2>2, <3>1 DEF Redirect, CountLookup
  <2>3. QED
    BY <1>3, <2>1, <2>2 DEF EndOfRecord
<1>4. CASE Return
  <2>1. ASSUME NEW q, ReturnToInclude(q) PROVE G
    <3>1. pc = "resume" /\ call.via # "root" /\ lookups' = lookups /\ pCache' = pCache
      BY <2>1 DEF ReturnToInclude
    <3>2. CASE Matched(q, queries) /\ ret.why = "nil"
      <4>1. Pop /\ (queries' = queries \/ (AtRoot /\ \E more \in ExpCosts : queries' = queries + more))
        BY <3>1, <3>2, Outcome
      <4>2. Expand(0) /\ queries = queries + 0 + 0
        BY <3>1 DEF Expand
      <4>3. QED
        BY <1>f, <3>1, <3>2, <4>1, <4>2 DEF Explains, Pop
    <3>3. CASE ~(Matched(q, queries) /\ ret.why = "nil")
      BY <2>1, <3>3 DEF ReturnToInclude
    <3>4. QED
      BY <3>2, <3>3
  <2>2. CASE ReturnToRedirect \/ ReturnToCheckHost
    BY <2>2 DEF ReturnToRedirect, ReturnToCheckHost
  <2>3. QED
    BY <1>4, <2>1, <2>2 DEF Return
<1>5. QED
  BY <1>1, <1>2, <1>3, <1>4 DEF Next

\* Only the domain of a call that begins is new.
LEMMA NewlyKnown ==
    ASSUME Stack, Next, pCache' \subseteq pCache \cup OnFrames
    PROVE  Known' \subseteq Known \cup (IF pc' = "enter" THEN {call'.domain} ELSE {})
<1>t. TypeFrames /\ Shape /\ Len(frames) \in Nat
  BY DEF Stack, TypeFrames
<1>1. OnFrames' \subseteq OnFrames \cup (IF pc = "enter" THEN {call.domain} ELSE {})
  <2>1. CASE Stay
    BY <2>1 DEF Stay, OnFrames
  <2>2. CASE Push
    BY <1>t, <2>2, PushFacts DEF Push, OnFrames
  <2>3. CASE Read
    BY <1>t, <2>3, ReadFacts DEF OnFrames
  <2>4. CASE Pop
    BY <1>t, <2>4, PopFacts DEF OnFrames
  <2>5. QED
    BY <1>t, <2>1, <2>2, <2>3, <2>4, StackSteps
<1>2. QED
  BY <1>1 DEF Known

LEMMA TopIsKnown ==
    ASSUME TypeFrames, frames # <<>>
    PROVE  Top.domain \in OnFrames
  BY DEF TypeFrames, Top, OnFrames

\* What a counted term takes stays within what it and its domain pay.
LEMMA TermIsPaid ==
    ASSUME lookups \in Nat, queries \in Nat, IsFiniteSet(pCache),
           queries <= 1 + Price(lookups, Cardinality(pCache)),
           NEW cost \in MacroCosts, NEW own \in 0..PerTerm, Expand(cost)
    PROVE  /\ queries + cost + own <= 1 + Price(lookups + 1, Cardinality(pCache'))
           /\ own = 0 => queries + cost + 1 <= 1 + Price(lookups + 1, Cardinality(pCache'))
<1>1. /\ IsFiniteSet(pCache') /\ cost \in Nat
      /\ cost + Price(lookups, Cardinality(pCache)) <= Price(lookups, Cardinality(pCache'))
  BY MacroIsPaid
<1>2. Cardinality(pCache) \in Nat /\ Cardinality(pCache') \in Nat
  BY <1>1, FS_CardinalityType
<1>3. /\ Price(lookups, Cardinality(pCache)) \in Nat
      /\ Price(lookups, Cardinality(pCache')) \in Nat
      /\ Price(lookups + 1, Cardinality(pCache')) = Price(lookups, Cardinality(pCache')) + PerTerm
  BY <1>2, Prices
<1>4. PerTerm \in Nat \ {0}
  BY Rates
<1>5. QED
  BY <1>1, <1>3, <1>4

LEMMA QueryStep == Stack /\ Limits /\ QueryInv /\ [Next]_vars => QueryInv'
<1> SUFFICES ASSUME Stack, Limits, QueryInv, [Next]_vars PROVE QueryInv'
  OBVIOUS
<1>t. /\ TypeFrames /\ Shape /\ Counters
      /\ queries \in Nat /\ lookups \in Nat
      /\ IsFiniteSet(Known) /\ Cardinality(Known) <= lookups + 1
  BY DEF Stack, Limits, Counters, QueryInv, QueryTypes
<1>p. IsFiniteSet(pCache) /\ Cardinality(pCache) \in Nat /\ Cardinality(Known) \in Nat
  <2>1. pCache \subseteq Known
    BY DEF Known
  <2>2. QED
    BY <1>t, <2>1, FS_Subset, FS_CardinalityType
<1>u. CASE UNCHANGED vars
  <2>1. /\ pc' = pc /\ frames' = frames /\ queries' = queries /\ lookups' = lookups
        /\ pCache' = pCache /\ call' = call
    BY <1>u DEF vars
  <2>2. Known' = Known /\ Fetch' = Fetch
    BY <2>1 DEF Known, OnFrames, Fetch
  <2>3. QED
    BY <2>1, <2>2 DEF QueryInv, QueryTypes, PaidFor, QueriesBounded, Price
\* What all steps have in common, given what they do to the macros.
<1>k. ASSUME Next, pCache' \subseteq pCache \cup OnFrames,
             lookups' = lookups \/ lookups' = lookups + 1,
             pc' = "enter" => lookups' = lookups + 1
      PROVE  /\ IsFiniteSet(Known') /\ Cardinality(Known') <= lookups' + 1
             /\ IsFiniteSet(pCache') /\ Cardinality(pCache') \in Nat
             /\ Cardinality(pCache') <= lookups' + 1 /\ lookups' \in Nat
  <2>1. Known' \subseteq Known \cup (IF pc' = "enter" THEN {call'.domain} ELSE {})
    BY <1>k, NewlyKnown
  <2>2. IsFiniteSet(Known') /\ Cardinality(Known') <= lookups' + 1
    <3>1. CASE pc' = "enter"
      <4>1. /\ IsFiniteSet(Known \cup {call'.domain})
            /\ Cardinality(Known \cup {call'.domain}) <= Cardinality(Known) + 1
            /\ Cardinality(Known \cup {call'.domain}) \in Nat
        <5>1. /\ IsFiniteSet(Known \cup {call'.domain})
              /\ \/ Cardinality(Known \cup {call'.domain}) = Cardinality(Known)
                 \/ Cardinality(Known \cup {call'.domain}) = Cardinality(Known) + 1
          BY <1>t, FS_AddElement, Zenon
        <5>2. QED
          BY <1>p, <5>1
      <4>2. /\ IsFiniteSet(Known') /\ Cardinality(Known') \in Nat
            /\ Cardinality(Known') <= Cardinality(Known \cup {call'.domain})
        BY <2>1, <3>1, <4>1, FS_Subset, FS_CardinalityType
      <4>3. QED
        BY <1>t, <1>p, <1>k, <3>1, <4>1, <4>2
    <3>2. CASE pc' # "enter"
      <4>1. Known' \subseteq Known
        BY <2>1, <3>2
      <4>2. /\ IsFiniteSet(Known') /\ Cardinality(Known') \in Nat
            /\ Cardinality(Known') <= Cardinality(Known)
        BY <1>t, <4>1, FS_Subset, FS_CardinalityType
      <4>3. QED
        BY <1>t, <1>p, <1>k, <4>2
    <3>3. QED
      BY <3>1, <3>2
  <2>3. pCache' \subseteq Known'
    BY DEF Known
  <2>4. /\ IsFiniteSet(pCache') /\ Cardinality(pCache') \in Nat /\ Cardinality(Known') \in Nat
        /\ Cardinality(pCache') <= Cardinality(Known')
    BY <2>2, <2>3, FS_Subset, FS_CardinalityType
  <2>5. QED
    BY <1>t, <1>k, <2>2, <2>4
\* While the lookups are within their limit, what is paid for is within the bound.
<1>b. ASSUME lookups' \in Nat, lookups' <= MaxLookups, NEW d \in Nat, d <= lookups' + 1
      PROVE  Price(lookups', d) <= Price(MaxLookups, MaxLookups + 1)
             /\ Price(lookups', d) \in Nat /\ Price(MaxLookups, MaxLookups + 1) \in Nat
  BY <1>b, WithinLimits
<1>r. QueriesBounded <=> queries <= 2 + Price(MaxLookups, MaxLookups + 1)
  <2>1. /\ MaxLookups * PerTerm \in Nat /\ (MaxLookups + 1) * PerDomain \in Nat
    BY Rates, SpfAssumption
  <2>2. QED
    BY <2>1 DEF QueriesBounded, Price, PerTerm, PerDomain
<1>s. QueriesBounded' <=> queries' <= 2 + Price(MaxLookups, MaxLookups + 1)
  <2>1. /\ MaxLookups * PerTerm \in Nat /\ (MaxLookups + 1) * PerDomain \in Nat
    BY Rates, SpfAssumption
  <2>2. QED
    BY <2>1 DEF QueriesBounded, Price, PerTerm, PerDomain
<1>1. CASE Next /\ Idle
  <2>1. /\ pc' # "enter" /\ queries' = queries /\ pCache' = pCache
        /\ (lookups' = lookups \/ lookups' = lookups + 1)
    BY <1>1 DEF Idle
  <2>2. /\ IsFiniteSet(Known') /\ Cardinality(Known') <= lookups' + 1 /\ lookups' \in Nat
    BY <1>1, <1>k, <2>1
  <2>3. frames' # <<>> => pc = "enter" \/ frames # <<>>
    <3>1. CASE Stay
      BY <3>1 DEF Stay
    <3>2. CASE Push
      BY <3>2 DEF Push
    <3>3. CASE Read
      BY <3>3, <1>t, ReadFacts, EmptySeq
    <3>4. CASE Pop
      BY <3>4, <1>t, PopFacts, EmptySeq
    <3>5. QED
      BY <1>1, <1>t, <3>1, <3>2, <3>3, <3>4, StackSteps
  <2>4. Price(lookups, Cardinality(pCache)) <= Price(lookups', Cardinality(pCache'))
        /\ Price(lookups, Cardinality(pCache)) \in Nat
        /\ Price(lookups', Cardinality(pCache')) \in Nat
    <3>1. lookups <= lookups' /\ Cardinality(pCache) <= Cardinality(pCache')
          /\ Cardinality(pCache') \in Nat
      BY <1>t, <1>p, <2>1
    <3>2. QED
      BY <1>t, <1>p, <2>2, <3>1, Prices
  <2>5. PaidFor'
    BY <1>t, <2>1, <2>3, <2>4 DEF QueryInv, PaidFor, Fetch
  <2>6. QueriesBounded'
    BY <1>r, <1>s, <2>1 DEF QueryInv
  <2>7. QED
    BY <1>t, <2>1, <2>2, <2>5, <2>6 DEF QueryInv, QueryTypes
<1>2. CASE Next /\ Fetches
  <2>1. /\ pc = "enter" /\ pc' # "enter" /\ queries' = queries + 1
        /\ pCache' = pCache /\ lookups' = lookups
    BY <1>2 DEF Fetches
  <2>2. /\ IsFiniteSet(Known') /\ Cardinality(Known') <= lookups' + 1 /\ lookups' \in Nat
        /\ Cardinality(pCache') \in Nat /\ Cardinality(pCache') <= lookups' + 1
    BY <1>2, <1>k, <2>1
  <2>3. queries' <= 1 + Price(lookups', Cardinality(pCache'))
    BY <1>t, <2>1 DEF QueryInv, PaidFor, Fetch
  <2>4. lookups' <= MaxLookups
    BY <2>1 DEF Limits, Calm
  <2>5. QueriesBounded'
    BY <1>b, <1>s, <1>t, <2>1, <2>2, <2>3, <2>4
  <2>6. PaidFor'
    BY <1>t, <2>1, <2>3 DEF PaidFor, Fetch
  <2>7. QED
    BY <1>t, <2>1, <2>2, <2>5, <2>6 DEF QueryInv, QueryTypes
<1>3. CASE Next /\ Spends
  <2>1. PICK cost \in MacroCosts, own \in 0..PerTerm :
          /\ Expand(cost) /\ queries' = queries + cost + own
          /\ pc' = "enter" => own = 0
    BY <1>3 DEF Spends
  <2>2. pc = "term" /\ lookups' = lookups + 1 /\ lookups' <= MaxLookups /\ frames # <<>>
    BY <1>3, <1>t DEF Spends, Shape
  <2>3. pCache' \subseteq pCache \cup OnFrames /\ cost \in Nat
    BY <1>p, <1>t, <2>1, <2>2, MacroIsPaid, TopIsKnown
  <2>4. /\ IsFiniteSet(Known') /\ Cardinality(Known') <= lookups' + 1 /\ lookups' \in Nat
        /\ Cardinality(pCache') \in Nat /\ Cardinality(pCache') <= lookups' + 1
    BY <1>3, <1>k, <2>2, <2>3
  <2>5. queries <= 1 + Price(lookups, Cardinality(pCache))
    BY <1>t, <2>2 DEF QueryInv, PaidFor, Fetch
  <2>6. /\ queries + cost + own <= 1 + Price(lookups + 1, Cardinality(pCache'))
        /\ own = 0 => queries + cost + 1 <= 1 + Price(lookups + 1, Cardinality(pCache'))
    BY <1>t, <1>p, <2>1, <2>5, TermIsPaid
  <2>7. own \in Nat /\ queries' \in Nat
    BY <1>t, <2>1, <2>3, Rates
  <2>8. queries' + Fetch' <= 1 + Price(lookups', Cardinality(pCache'))
    <3>1. CASE pc' = "enter"
      BY <1>t, <2>1, <2>2, <2>3, <2>6, <2>7, <3>1 DEF Fetch
    <3>2. CASE pc' # "enter"
      BY <2>1, <2>2, <2>6, <2>7, <3>2 DEF Fetch
    <3>3. QED
      BY <3>1, <3>2
  <2>9. queries' <= 1 + Price(lookups', Cardinality(pCache'))
    BY <2>1, <2>2, <2>6
  <2>10. QueriesBounded'
    BY <1>b, <1>s, <2>2, <2>4, <2>7, <2>9
  <2>11. QED
    BY <2>4, <2>7, <2>8, <2>10 DEF QueryInv, QueryTypes, PaidFor
<1>4. CASE Next /\ Explains
  <2>1. PICK cost \in MacroCosts, own \in 0..PerTerm, more \in ExpCosts :
          /\ Expand(cost) /\ queries' = queries + cost + own + more
          /\ \/ pc = "term" /\ lookups' = lookups + 1 /\ lookups' <= MaxLookups
             \/ /\ lookups' = lookups /\ cost = 0 /\ own = 0
                /\ pc = "resume" => ret.why = "nil"
    BY <1>4 DEF Explains
  <2>2. Pop /\ Len(frames) = 1 /\ frames # <<>> /\ pc' = "resume" /\ frames' = <<>>
    <3>1. Pop /\ Len(frames) = 1 /\ pc' = "resume"
      BY <1>4 DEF Explains, AtRoot, Pop
    <3>2. frames' \in Seq(Frame) /\ Len(frames') = 0
      BY <1>t, <3>1, PopFacts
    <3>3. QED
      BY <1>t, <3>1, <3>2, EmptySeq
  <2>3. /\ pCache' \subseteq pCache \cup OnFrames /\ cost \in Nat /\ Top.domain \in OnFrames
    BY <1>p, <1>t, <2>1, <2>2, MacroIsPaid, TopIsKnown
  <2>4. /\ IsFiniteSet(Known') /\ Cardinality(Known') <= lookups' + 1 /\ lookups' \in Nat
        /\ IsFiniteSet(pCache')
        /\ Cardinality(pCache') \in Nat /\ Cardinality(pCache') <= lookups' + 1
    BY <1>4, <1>k, <1>t, <2>1, <2>2, <2>3
  <2>5. queries <= 1 + Price(lookups, Cardinality(pCache))
    <3>1. pc # "enter"
      BY <2>2 DEF Pop
    <3>2. QED
      BY <1>t, <2>2, <3>1 DEF QueryInv, PaidFor, Fetch
  <2>6. queries + cost + own <= 1 + Price(lookups', Cardinality(pCache'))
    <3>1. CASE lookups' = lookups + 1
      BY <1>t, <1>p, <2>1, <2>5, <3>1, TermIsPaid
    <3>2. CASE lookups' = lookups /\ cost = 0 /\ own = 0
      BY <1>t, <2>1, <2>5, <3>2 DEF Expand
    <3>3. QED
      BY <2>1, <3>1, <3>2
  <2>7. lookups' <= MaxLookups
    <3>1. CASE pc = "term"
      BY <1>t, <2>1, <3>1 DEF Limits, Calm
    <3>2. CASE pc = "resume" /\ ret.why = "nil" /\ lookups' = lookups
      BY <3>2 DEF Limits, Calm, Struck, LimitWhys
    <3>3. QED
      BY <2>1, <2>2, <3>1, <3>2 DEF Pop
  <2>8. own \in Nat /\ more \in Nat /\ queries' \in Nat
    <3>1. own \in Nat /\ more \in Nat
      BY <2>1, Rates, SpfAssumption DEF ExpCosts
    <3>2. QED
      BY <1>t, <2>1, <2>3, <3>1
  <2>9. more + Price(lookups', Cardinality(pCache')) <= 1 + Price(MaxLookups, MaxLookups + 1)
    <3>1. CASE Top.domain \in pCache'
      <4>1. more <= 1
        BY <2>1, <3>1 DEF ExpCosts
      <4>2. /\ Price(lookups', Cardinality(pCache')) <= Price(MaxLookups, MaxLookups + 1)
            /\ Price(lookups', Cardinality(pCache')) \in Nat
            /\ Price(MaxLookups, MaxLookups + 1) \in Nat
        BY <1>b, <2>4, <2>7
      <4>3. QED
        BY <2>8, <4>1, <4>2
    <3>2. CASE Top.domain \notin pCache'
      <4>1. more <= 1 + PerDomain
        BY <2>1, <3>2, SpfAssumption DEF ExpCosts, PerDomain
      <4>2. /\ IsFiniteSet(pCache' \cup {Top.domain})
            /\ Cardinality(pCache' \cup {Top.domain}) = Cardinality(pCache') + 1
        BY <2>4, <3>2, FS_AddElement
      <4>3. Cardinality(pCache' \cup {Top.domain}) <= Cardinality(Known)
        <5>1. pCache' \cup {Top.domain} \subseteq Known
          BY <2>3 DEF Known
        <5>2. QED
          BY <1>t, <5>1, FS_Subset
      <4>4. Cardinality(pCache') + 1 <= lookups' + 1
        BY <1>t, <1>p, <2>1, <2>4, <4>2, <4>3
      <4>5. /\ Price(lookups', Cardinality(pCache') + 1)
                 = Price(lookups', Cardinality(pCache')) + PerDomain
            /\ Price(lookups', Cardinality(pCache')) \in Nat
        BY <2>4, Prices
      <4>6. Price(lookups', Cardinality(pCache') + 1) <= Price(MaxLookups, MaxLookups + 1)
            /\ Price(MaxLookups, MaxLookups + 1) \in Nat
        <5>1. Cardinality(pCache') + 1 \in Nat
          BY <2>4
        <5>2. QED
          BY <1>b, <2>4, <2>7, <4>4, <5>1
      <4>7. QED
        BY <2>8, <4>1, <4>5, <4>6, Rates
    <3>3. QED
      BY <3>1, <3>2
  <2>10. /\ Price(lookups', Cardinality(pCache')) \in Nat
         /\ Price(MaxLookups, MaxLookups + 1) \in Nat
    BY <1>b, <2>4, <2>7
  <2>11. queries' <= 2 + Price(MaxLookups, MaxLookups + 1)
    BY <1>t, <2>1, <2>3, <2>6, <2>8, <2>9, <2>10
  <2>12. PaidFor'
    BY <2>2 DEF PaidFor
  <2>13. QED
    BY <1>s, <2>4, <2>8, <2>11, <2>12 DEF QueryInv, QueryTypes
<1>5. QED
  BY <1>t, <1>u, <1>1, <1>2, <1>3, <1>4, QuerySteps

\* Whatever the records and the answers are, an evaluation makes no more queries
\* than its limits allow (explanation, expandPtr and match in eval.go): it is not
\* enough to count terms, a step must also not pay twice for the p macro.
THEOREM QueriesAreBounded == Spec => []QueriesBounded
<1>1. Init => QueryInv
  <2> SUFFICES ASSUME Init PROVE QueryInv
    OBVIOUS
  <2>1. /\ pc = "enter" /\ frames = <<>> /\ Len(frames) = 0 /\ lookups = 0
        /\ queries = 0 /\ pCache = {}
    BY EmptySeq DEF Init
  <2>2. Known = {call.domain} /\ Fetch = 1
    BY <2>1 DEF Known, OnFrames, Fetch
  <2>3. IsFiniteSet(Known) /\ Cardinality(Known) = 1 /\ Cardinality(pCache) = 0
    BY <2>1, <2>2, FS_Singleton, FS_EmptySet
  <2>4. Price(0, 0) \in Nat
    BY Prices
  <2>5. PaidFor
    BY <2>1, <2>2, <2>3, <2>4 DEF PaidFor
  <2>6. QueriesBounded
    <3>1. /\ MaxLookups * PerTerm \in Nat /\ (MaxLookups + 1) * PerDomain \in Nat
      BY Rates, SpfAssumption
    <3>2. QED
      BY <2>1, <3>1 DEF QueriesBounded, PerTerm, PerDomain
  <2>7. QED
    BY <2>1, <2>3, <2>5, <2>6 DEF QueryInv, QueryTypes
<1>2. QED
  BY <1>1, QueryStep, StackInvariant, LimitInvariant, PTL DEF Spec, QueryInv
=============================================================================
