------------------------ MODULE MessageVerdictProofs ------------------------
(***************************************************************************)
(* The verdict on a message, for every set of domains, organizations, SMTP *)
(* inputs and every limit on signatures.                                   *)
(***************************************************************************)
EXTENDS MessageVerdict, FiniteSetTheorems, SequenceTheorems, WellFoundedInduction, TLAPS

\* What is known at each point of the pipeline.
Phases ==
    /\ pc \in {"dkim", "spf"} => spf = [result |-> Unset, domain |-> NoDomain, truth |-> NoDomain]
    /\ pc \in {"dkim", "spf", "own", "org"} => modes = [adkim |-> Unset, aspf |-> Unset]
    /\ pc \in {"dkim", "spf", "own", "org"} => inherited = FALSE
    /\ pc = "org" => ownRecords = 0
    /\ pc \in {"org", "decide"} => from # NoDomain
    /\ pc \notin {"compare", "claims", "done"} => dmarc = Unset
    /\ pc \notin {"claims", "done"} => diffs = {} /\ compared = 0

\* A definite result of a signature is the truth about it. Without the body
\* nothing passes, with it nothing stays neutral.
SignatureTruth ==
    \A v \in Verified :
        /\ v.result \in DkimResults
        /\ v.domain = NoDomain => v.result = "permerror"
        /\ v.result = "pass" => v.truth
        /\ v.result \in {"fail", "permerror"} => ~v.truth
        /\ v.result = "neutral" => ~body

\* While signatures are verified, the cache holds the key each was verified
\* with.
KeysHeld ==
    pc = "dkim" => \A v \in Verified :
        /\ v.result = "temperror" => keys[<<v.sel, v.domain>>] = "temperror"
        /\ v.result \in {"pass", "fail", "neutral"} => keys[<<v.sel, v.domain>>] \in {"short", "usable"}

\* A definite SPF result is the truth about the identity it was computed for.
SpfTruth ==
    /\ spf.result = "pass" => spf.truth = spf.domain
    /\ spf.result = "fail" => spf.truth = NoDomain
    /\ spf.result = "temperror" => spf.truth \in {spf.domain, NoDomain}
    /\ spf.result # Unset => spf.domain = Identity /\ Identity # NoDomain

\* Only signatures beyond the limit are left out.
Complete == skipped # <<>> => MaxSignatures < count

Sound == Phases /\ SignatureTruth /\ KeysHeld /\ SpfTruth /\ Complete

Steps ==
    \/ \E s \in Selectors : VerifyUnparsable(s)
    \/ \E s \in Selectors, d \in Domains : VerifyUnusable(d, s)
    \/ \E s \in Selectors, d \in Domains, key \in KeyStates, r \in DkimResults : Verify(d, s, key, r)
    \/ \E d \in SomeDomain, s \in Selectors : SkipSignature(d, s)
    \/ \E d \in SomeDomain : SpfNotEvaluated(d)
    \/ AllVerified
    \/ \E r \in SpfResults : CheckSpf(r)
    \/ BadFrom
    \/ \E o \in Errs, n \in 0..2, usable \in BOOLEAN, m \in [adkim : Modes, aspf : Modes] :
          Discover(o, n, usable, m)
    \/ Decide
    \/ \E s \in {"pass", "fail"} : Compare(s)
    \/ NothingToCompare
    \/ \E i \in DOMAIN (dkim \o skipped), n \in Namings : CompareDkim(n, (dkim \o skipped)[i], i)
    \/ AllCompared

LEMMA StepCases == Next => Steps
BY DEF Next, Steps

-----------------------------------------------------------------------------
\* analyzeMessage's state keeps its types, whatever a message holds.
THEOREM TypeCorrect == Spec => []TypeOK
<1>1. ASSUME Init PROVE TypeOK
  <2>1. next \in 0..count
    BY <1>1, VerdictAssumption DEF Init
  <2>2. keys \in [KeyNames -> KeyStates \cup {Unset}]
    BY <1>1 DEF Init
  <2>3. spf \in [result : SpfResults \cup {Unset}, domain : SomeDomain, truth : SomeDomain]
    BY <1>1 DEF Init, SomeDomain
  <2>4. modes \in [adkim : Modes \cup {Unset}, aspf : Modes \cup {Unset}]
    BY <1>1 DEF Init
  <2>5. ownRecords \in 0..2
    BY <1>1 DEF Init
  <2>8. inherited \in BOOLEAN
    BY <1>1, Zenon DEF Init
  <2>6. diffs \subseteq {"spf", "dmarc", "dkim", "not_present"} /\ dmarc \in DmarcResults \cup {Unset}
    BY <1>1 DEF Init
  <2>7. dkim \in Seq(Signature) /\ skipped \in Seq(Signature)
    BY <1>1 DEF Init
  <2>9. compared \in Nat
    BY <1>1 DEF Init
  <2>10. unclear \in BOOLEAN
    BY <1>1, Zenon DEF Init
  <2> QED
    BY <1>1, <2>1, <2>2, <2>3, <2>4, <2>5, <2>6, <2>7, <2>8, <2>9, <2>10, Zenon DEF Init, TypeOK
<1>2. TypeOK /\ [Next]_vars => TypeOK'
  <2> SUFFICES ASSUME TypeOK, [Next]_vars PROVE TypeOK'
    OBVIOUS
  <2>1. CASE UNCHANGED vars
    BY <2>1 DEF vars, msgVars, dkimVars, policyVars, compareVars, TypeOK
  <2>2. ASSUME NEW d \in SomeDomain, NEW s \in Selectors, NEW r \in DkimResults,
               Verifying, Conclude(d, s, r), keys' \in [KeyNames -> KeyStates \cup {Unset}]
        PROVE  TypeOK'
    <3>1. PICK t \in BOOLEAN : dkim' = Append(dkim, [domain |-> d, sel |-> s, result |-> r, truth |-> t])
      BY <2>2 DEF Conclude, TruthOf
    <3>2. [domain |-> d, sel |-> s, result |-> r, truth |-> t] \in Signature
      BY <2>2 DEF Signature
    <3>3. dkim' \in Seq(Signature)
      BY <3>1, <3>2, AppendProperties DEF TypeOK
    <3>4. next' \in 0..count
      BY <2>2 DEF Conclude, Verifying, TypeOK
    <3> QED
      BY <2>2, <3>3, <3>4 DEF Conclude, TypeOK, msgVars, policyVars, compareVars
  <2>3. ASSUME NEW s \in Selectors, VerifyUnparsable(s) PROVE TypeOK'
    BY <2>2, <2>3 DEF VerifyUnparsable, SomeDomain, DkimResults, TypeOK
  <2>4. ASSUME NEW s \in Selectors, NEW d \in Domains, VerifyUnusable(d, s) PROVE TypeOK'
    BY <2>2, <2>4 DEF VerifyUnusable, SomeDomain, DkimResults, TypeOK
  <2>5. ASSUME NEW s \in Selectors, NEW d \in Domains, NEW key \in KeyStates,
               NEW r \in DkimResults, Verify(d, s, key, r)
        PROVE  TypeOK'
    <3>1. keys' \in [KeyNames -> KeyStates \cup {Unset}]
      BY <2>5 DEF Verify, KeyOf, TypeOK
    <3> QED
      BY <2>2, <2>5, <3>1 DEF Verify, SomeDomain
  <2>6. ASSUME NEW d \in SomeDomain, NEW s \in Selectors, SkipSignature(d, s) PROVE TypeOK'
    <3>1. PICK t \in BOOLEAN :
            skipped' = Append(skipped, [domain |-> d, sel |-> s, result |-> Unset, truth |-> t])
      BY <2>6 DEF SkipSignature
    <3>2. [domain |-> d, sel |-> s, result |-> Unset, truth |-> t] \in Signature
      BY <2>6 DEF Signature
    <3>3. skipped' \in Seq(Signature)
      BY <3>1, <3>2, AppendProperties DEF TypeOK
    <3>4. next' \in 0..count
      BY <2>6 DEF SkipSignature, TypeOK
    <3> QED
      BY <2>6, <3>3, <3>4 DEF SkipSignature, TypeOK, msgVars, policyVars, compareVars
  <2>7. ASSUME NEW d \in SomeDomain, SpfNotEvaluated(d) PROVE TypeOK'
    <3>1. spf' \in [result : SpfResults \cup {Unset}, domain : SomeDomain, truth : SomeDomain]
      BY <2>7 DEF SpfNotEvaluated, TypeOK
    <3> QED
      BY <2>7, <3>1 DEF SpfNotEvaluated, TypeOK, msgVars, dkimVars, policyVars, compareVars
  <2>8. CASE AllVerified
    <3>1. keys' \in [KeyNames -> KeyStates \cup {Unset}]
      BY <2>8 DEF AllVerified
    <3> QED
      BY <2>8, <3>1 DEF AllVerified, TypeOK, msgVars, policyVars, compareVars
  <2>9. ASSUME NEW r \in SpfResults, CheckSpf(r) PROVE TypeOK'
    <3>1. Identity \in SomeDomain
      BY VerdictAssumption DEF Identity, TypeOK, SomeDomain
    <3>2. spf' \in [result : SpfResults \cup {Unset}, domain : SomeDomain, truth : SomeDomain]
      BY <2>9, <3>1 DEF CheckSpf, SomeDomain
    <3> QED
      BY <2>9, <3>2 DEF CheckSpf, TypeOK, msgVars, dkimVars, policyVars, compareVars
  <2>10. CASE BadFrom
    BY <2>10 DEF BadFrom, Decided, TypeOK, DmarcResults, msgVars, dkimVars, policyVars, compareVars
  <2>11. ASSUME NEW o \in Errs, NEW n \in 0..2, NEW usable \in BOOLEAN,
                NEW m \in [adkim : Modes, aspf : Modes], Discover(o, n, usable, m)
         PROVE  TypeOK'
    <3>1. ownRecords' \in 0..2 /\ inherited' \in BOOLEAN
      BY <2>11 DEF Discover, TypeOK
    <3>2. modes' = modes \/ modes' = m
      BY <2>11 DEF Discover
    <3>3. modes' \in [adkim : Modes \cup {Unset}, aspf : Modes \cup {Unset}]
      BY <3>2 DEF TypeOK
    <3>4. /\ dmarc' \in DmarcResults \cup {Unset}
          /\ pc' \in {"compare", "decide", "org"}
          /\ UNCHANGED <<msgVars, dkimVars, spf, compareVars>>
      BY <2>11 DEF Discover, Decided, TypeOK, DmarcResults
    <3> QED
      BY <3>1, <3>3, <3>4 DEF TypeOK, msgVars, dkimVars, compareVars
  <2>12. CASE Decide
    <3>1. dmarc' \in DmarcResults
      BY <2>12 DEF Decide, Decided, DmarcResults
    <3> QED
      BY <2>12, <3>1 DEF Decide, Decided, TypeOK, msgVars, dkimVars, policyVars, compareVars
  <2>13. ASSUME NEW s \in {"pass", "fail"}, Compare(s) PROVE TypeOK'
    <3>1. diffs' \subseteq {"spf", "dmarc", "dkim", "not_present"}
      BY <2>13 DEF Compare
    <3>2. unclear' \in BOOLEAN
      BY <2>13, Zenon DEF Compare
    <3> QED
      BY <2>13, <3>1, <3>2 DEF Compare, TypeOK, msgVars, dkimVars, policyVars
  <2>14. CASE NothingToCompare
    BY <2>14 DEF NothingToCompare, TypeOK, msgVars, dkimVars, policyVars, compareVars
  <2>15. ASSUME NEW n, NEW v, NEW i, CompareDkim(n, v, i) PROVE TypeOK'
    <3>1. diffs' \subseteq {"spf", "dmarc", "dkim", "not_present"}
      BY <2>15 DEF CompareDkim, TypeOK
    <3>2. unclear' \in BOOLEAN
      BY <2>15, Zenon DEF CompareDkim
    <3>3. compared' \in Nat
      BY <2>15 DEF CompareDkim, TypeOK
    <3> QED
      BY <2>15, <3>1, <3>2, <3>3 DEF CompareDkim, TypeOK, msgVars, dkimVars, policyVars
  <2>16. CASE AllCompared
    BY <2>16 DEF AllCompared, TypeOK, msgVars, dkimVars, policyVars, compareVars
  <2> QED
    BY <2>1, <2>3, <2>4, <2>5, <2>6, <2>7, <2>8, <2>9, <2>10, <2>11, <2>12, <2>13, <2>14,
       <2>15, <2>16, StepCases DEF Steps
<1> QED
  BY <1>1, <1>2, PTL DEF Spec

-----------------------------------------------------------------------------
\* What a step of the pipeline leaves as it was.
LEMMA Kept ==
    ASSUME [Next]_vars
    PROVE  /\ UNCHANGED msgVars
           /\ pc # "dkim" => UNCHANGED dkimVars
           /\ pc \notin {"dkim", "spf"} => UNCHANGED spf
<1> USE DEF msgVars, dkimVars, policyVars
<1>1. CASE UNCHANGED vars
  BY <1>1 DEF vars
<1>2. CASE Next
  <2>1. ASSUME NEW d, NEW s, NEW r, Conclude(d, s, r) PROVE UNCHANGED msgVars /\ UNCHANGED spf
    BY <2>1 DEF Conclude
  <2> QED
    BY <1>2, <2>1, StepCases
    DEF Steps, VerifyUnparsable, VerifyUnusable, Verify, Verifying, SkipSignature,
        SpfNotEvaluated, AllVerified, CheckSpf, BadFrom, Discover, Decided, Decide, Compare,
        NothingToCompare, CompareDkim, AllCompared
<1> QED
  BY <1>1, <1>2

LEMMA PhasesInductive == (Init => Phases) /\ (Phases /\ [Next]_vars => Phases')
<1>1. Init => Phases
  BY DEF Init, Phases
<1>2. ASSUME Phases, [Next]_vars PROVE Phases'
  <2> USE <1>2 DEF Phases, msgVars, dkimVars, policyVars, compareVars
  <2>1. CASE UNCHANGED vars
    BY <2>1 DEF vars
  <2>2. ASSUME NEW d, NEW s, NEW r, Verifying, Conclude(d, s, r) PROVE Phases'
    BY <2>2 DEF Conclude, Verifying
  <2>3. ASSUME NEW s, VerifyUnparsable(s) PROVE Phases'
    BY <2>2, <2>3 DEF VerifyUnparsable
  <2>4. ASSUME NEW s, NEW d, VerifyUnusable(d, s) PROVE Phases'
    BY <2>2, <2>4 DEF VerifyUnusable
  <2>5. ASSUME NEW s, NEW d, NEW key, NEW r, Verify(d, s, key, r) PROVE Phases'
    BY <2>2, <2>5 DEF Verify
  <2>6. ASSUME NEW d, NEW s, SkipSignature(d, s) PROVE Phases'
    BY <2>6 DEF SkipSignature
  <2>7. ASSUME NEW d, SpfNotEvaluated(d) PROVE Phases'
    BY <2>7 DEF SpfNotEvaluated
  <2>8. CASE AllVerified
    BY <2>8 DEF AllVerified
  <2>9. ASSUME NEW r, CheckSpf(r) PROVE Phases'
    BY <2>9 DEF CheckSpf
  <2>10. CASE BadFrom
    BY <2>10 DEF BadFrom, Decided
  <2>11. ASSUME NEW o, NEW n \in 0..2, NEW usable, NEW m, Discover(o, n, usable, m) PROVE Phases'
    BY <2>11 DEF Discover, Decided, Found
  <2>12. CASE Decide
    BY <2>12 DEF Decide, Decided
  <2>13. ASSUME NEW s, Compare(s) PROVE Phases'
    BY <2>13 DEF Compare
  <2>14. CASE NothingToCompare \/ AllCompared
    BY <2>14 DEF NothingToCompare, AllCompared
  <2>15. ASSUME NEW n, NEW v, NEW i, CompareDkim(n, v, i) PROVE Phases'
    BY <2>15 DEF CompareDkim
  <2> QED
    BY <2>1, <2>3, <2>4, <2>5, <2>6, <2>7, <2>8, <2>9, <2>10, <2>11, <2>12, <2>13, <2>14,
       <2>15, StepCases DEF Steps
<1> QED
  BY <1>1, <1>2

\* A signature that was verified joins those before it.
LEMMA VerifiedGrows ==
    ASSUME TypeOK, NEW v, dkim' = Append(dkim, v)
    PROVE  Verified' = Verified \cup {v}
<1>1. dkim \in Seq(Signature)
  BY DEF TypeOK
<1>2. /\ DOMAIN dkim' = DOMAIN dkim \cup {Len(dkim) + 1}
      /\ \A i \in DOMAIN dkim : dkim'[i] = dkim[i]
      /\ dkim'[Len(dkim) + 1] = v
  BY <1>1
<1> QED
  BY <1>2 DEF Verified

\* What a step that verifies a signature adds.
LEMMA Concluded ==
    ASSUME TypeOK, NEW d \in SomeDomain, NEW s \in Selectors, NEW r \in DkimResults,
           Conclude(d, s, r)
    PROVE  \E t \in BOOLEAN :
              /\ Verified' = Verified \cup {[domain |-> d, sel |-> s, result |-> r, truth |-> t]}
              /\ r = "pass" => t
              /\ r \in {"fail", "permerror"} => ~t
<1>1. PICK t \in TruthOf(r) : dkim' = Append(dkim, [domain |-> d, sel |-> s, result |-> r, truth |-> t])
  BY DEF Conclude
<1>2. t \in BOOLEAN /\ (r = "pass" => t) /\ (r \in {"fail", "permerror"} => ~t)
  BY <1>1 DEF TruthOf, DkimResults
<1> QED
  BY <1>1, <1>2, VerifiedGrows

LEMMA SignatureTruthInductive ==
    (Init => SignatureTruth) /\ (TypeOK /\ SignatureTruth /\ [Next]_vars => SignatureTruth')
<1>1. Init => SignatureTruth
  BY DEF Init, SignatureTruth, Verified
<1>2. ASSUME TypeOK, SignatureTruth, [Next]_vars PROVE SignatureTruth'
  <2>1. CASE UNCHANGED <<dkim, body>>
    BY <1>2, <2>1 DEF SignatureTruth, Verified
  <2>2. ASSUME NEW d \in SomeDomain, NEW s \in Selectors, NEW r \in DkimResults, Conclude(d, s, r),
               d = NoDomain => r = "permerror", r = "neutral" => ~body
        PROVE  SignatureTruth'
    <3>1. PICK t \in BOOLEAN :
            /\ Verified' = Verified \cup {[domain |-> d, sel |-> s, result |-> r, truth |-> t]}
            /\ r = "pass" => t
            /\ r \in {"fail", "permerror"} => ~t
      BY <1>2, <2>2, Concluded
    <3>2. body' = body
      BY <2>2 DEF Conclude, msgVars
    <3> QED
      BY <1>2, <2>2, <3>1, <3>2 DEF SignatureTruth
  <2>3. ASSUME NEW s \in Selectors, VerifyUnparsable(s) PROVE SignatureTruth'
    BY <2>2, <2>3 DEF VerifyUnparsable, SomeDomain, DkimResults
  <2>4. ASSUME NEW s \in Selectors, NEW d \in Domains, VerifyUnusable(d, s) PROVE SignatureTruth'
    BY <2>2, <2>4, VerdictAssumption DEF VerifyUnusable, SomeDomain, DkimResults
  <2>5. ASSUME NEW s \in Selectors, NEW d \in Domains, NEW key \in KeyStates,
               NEW r \in DkimResults, Verify(d, s, key, r)
        PROVE  SignatureTruth'
    <3>1. r = "neutral" => ~body
      BY <2>5 DEF Verify, KeyVerdicts, KeyStates
    <3> QED
      BY <2>2, <2>5, <3>1, VerdictAssumption DEF Verify, SomeDomain
  <2>6. CASE UNCHANGED <<dkim, msgVars>>
    BY <2>1, <2>6 DEF msgVars
  <2>7. Next \/ UNCHANGED vars
    BY <1>2
  <2> QED
    BY <2>3, <2>4, <2>5, <2>6, <2>7, StepCases
    DEF Steps, vars, dkimVars, SkipSignature, SpfNotEvaluated, AllVerified, CheckSpf,
        BadFrom, Discover, Decided, Decide, Compare, NothingToCompare, CompareDkim, AllCompared
<1> QED
  BY <1>1, <1>2

\* What the cache holds for a signature, and that two signatures with one key
\* agree about its retrieval.
LEMMA KeysInductive ==
    /\ Init => KeysHeld /\ OneKeyOneAnswer
    /\ TypeOK /\ SignatureTruth /\ KeysHeld /\ OneKeyOneAnswer /\ [Next]_vars
          => KeysHeld' /\ OneKeyOneAnswer'
<1>1. Init => KeysHeld /\ OneKeyOneAnswer
  BY DEF Init, KeysHeld, OneKeyOneAnswer, Verified
<1>2. ASSUME TypeOK, SignatureTruth, KeysHeld, OneKeyOneAnswer, [Next]_vars
      PROVE  KeysHeld' /\ OneKeyOneAnswer'
  <2>1. CASE UNCHANGED dkim /\ (pc' = "dkim" => UNCHANGED <<pc, keys>>)
    BY <1>2, <2>1 DEF KeysHeld, OneKeyOneAnswer, Verified
  <2>2. ASSUME NEW v \in Verified
        PROVE  /\ v.result \in DkimResults /\ v.sel \in Selectors /\ v.domain \in SomeDomain
               /\ v.domain = NoDomain => v.result = "permerror"
    <3>1. v \in Signature
      BY <1>2 DEF TypeOK, Verified
    <3> QED
      BY <1>2, <2>2, <3>1 DEF SignatureTruth, Signature
  <2>3. ASSUME NEW d \in SomeDomain, NEW s \in Selectors, NEW r \in DkimResults, Conclude(d, s, r),
               pc = "dkim",
               \A k \in KeyNames : keys[k] # Unset => keys'[k] = keys[k],
               d = NoDomain => r = "permerror",
               r = "temperror" => keys'[<<s, d>>] = "temperror",
               r \in {"pass", "fail", "neutral"} => keys'[<<s, d>>] \in {"short", "usable"}
        PROVE  KeysHeld' /\ OneKeyOneAnswer'
    <3>1. PICK t \in BOOLEAN :
            Verified' = Verified \cup {[domain |-> d, sel |-> s, result |-> r, truth |-> t]}
      BY <1>2, <2>3, Concluded
    <3> DEFINE new == [domain |-> d, sel |-> s, result |-> r, truth |-> t]
    <3>2. ASSUME NEW v \in Verified
          PROVE  /\ v.result = "temperror" => keys'[<<v.sel, v.domain>>] = "temperror"
                 /\ v.result \in {"pass", "fail", "neutral"}
                       => keys'[<<v.sel, v.domain>>] \in {"short", "usable"}
      <4>1. CASE v.domain = NoDomain
        BY <2>2, <4>1
      <4>2. CASE v.domain \in Domains
        <5>1. <<v.sel, v.domain>> \in KeyNames
          BY <2>2, <4>2 DEF KeyNames
        <5> QED
          BY <1>2, <2>3, <5>1 DEF KeysHeld, Unset
      <4> QED
        BY <2>2, <4>1, <4>2 DEF SomeDomain
    <3>3. /\ new.domain = d /\ new.sel = s /\ new.result = r
          /\ Verified' = Verified \cup {new}
      BY <3>1
    <3> HIDE DEF new
    <3>4. KeysHeld'
      BY <2>3, <3>2, <3>3 DEF KeysHeld
    <3>5. ASSUME NEW v \in Verified', NEW w \in Verified', v.sel = w.sel, v.domain = w.domain,
                 v.result = "temperror"
          PROVE  w.result \in {"temperror", "permerror"}
      <4>1. keys'[<<w.sel, w.domain>>] = "temperror"
        BY <2>3, <3>2, <3>3, <3>5
      <4>2. w.result \notin {"pass", "fail", "neutral"}
        BY <2>3, <3>2, <3>3, <4>1
      <4> QED
        BY <2>2, <2>3, <3>3, <4>2 DEF DkimResults
    <3> QED
      BY <3>4, <3>5 DEF OneKeyOneAnswer
  <2>4. ASSUME NEW s \in Selectors, VerifyUnparsable(s) PROVE KeysHeld' /\ OneKeyOneAnswer'
    BY <2>3, <2>4 DEF VerifyUnparsable, Verifying, SomeDomain, DkimResults
  <2>5. ASSUME NEW s \in Selectors, NEW d \in Domains, VerifyUnusable(d, s)
        PROVE  KeysHeld' /\ OneKeyOneAnswer'
    BY <2>3, <2>5, VerdictAssumption DEF VerifyUnusable, Verifying, SomeDomain, DkimResults
  <2>6. ASSUME NEW s \in Selectors, NEW d \in Domains, NEW key \in KeyStates,
               NEW r \in DkimResults, Verify(d, s, key, r)
        PROVE  KeysHeld' /\ OneKeyOneAnswer'
    <3>1. <<s, d>> \in KeyNames
      BY DEF KeyNames
    <3>2. keys'[<<s, d>>] = key /\ \A k \in KeyNames : keys[k] # Unset => keys'[k] = keys[k]
      BY <1>2, <2>6, <3>1 DEF Verify, KeyOf, TypeOK
    <3>3. /\ r = "temperror" => key = "temperror"
          /\ r \in {"pass", "fail", "neutral"} => key \in {"short", "usable"}
      BY <2>6 DEF Verify, KeyVerdicts, KeyStates
    <3> QED
      BY <2>3, <2>6, <3>2, <3>3, VerdictAssumption DEF Verify, Verifying, SomeDomain
  <2>7. Next \/ UNCHANGED vars
    BY <1>2
  <2> QED
    BY <2>1, <2>4, <2>5, <2>6, <2>7, StepCases
    DEF Steps, vars, dkimVars, SkipSignature, SpfNotEvaluated, AllVerified, CheckSpf,
        BadFrom, Discover, Decided, Decide, Compare, NothingToCompare, CompareDkim, AllCompared
<1> QED
  BY <1>1, <1>2

LEMMA SpfTruthInductive ==
    (Init => SpfTruth) /\ (Phases /\ SpfTruth /\ [Next]_vars => SpfTruth')
<1>1. Init => SpfTruth
  BY DEF Init, SpfTruth, Unset
<1>2. ASSUME Phases, SpfTruth, [Next]_vars PROVE SpfTruth'
  <2>1. Identity' = Identity
    BY <1>2, Kept DEF msgVars, Identity
  <2>2. CASE UNCHANGED spf
    BY <1>2, <2>1, <2>2 DEF SpfTruth
  <2>3. ASSUME NEW d, SpfNotEvaluated(d) PROVE SpfTruth'
    BY <1>2, <2>3 DEF Phases, SpfNotEvaluated, SpfTruth, Unset
  <2>4. ASSUME NEW r \in SpfResults, CheckSpf(r) PROVE SpfTruth'
    <3>1. PICK t \in BOOLEAN :
            /\ t \in (IF r = "temperror" THEN BOOLEAN ELSE {r = "pass"})
            /\ spf' = [result |-> r, domain |-> Identity, truth |-> IF t THEN Identity ELSE NoDomain]
      BY <2>4 DEF CheckSpf
    <3>2. (r = "pass" => t) /\ (r = "fail" => ~t)
      BY <3>1 DEF SpfResults
    <3>3. Identity # NoDomain
      BY <2>4 DEF CheckSpf
    <3> QED
      BY <2>1, <3>1, <3>2, <3>3 DEF SpfTruth
  <2>5. Next \/ UNCHANGED vars
    BY <1>2
  <2>6. ASSUME NEW d, NEW s, NEW r, Conclude(d, s, r) PROVE UNCHANGED spf
    BY <2>6 DEF Conclude
  <2> QED
    BY <2>2, <2>3, <2>4, <2>5, <2>6, StepCases
    DEF Steps, vars, VerifyUnparsable, VerifyUnusable, Verify, SkipSignature, AllVerified,
        BadFrom, Discover, Decided, Decide, Compare, NothingToCompare, CompareDkim, AllCompared
<1> QED
  BY <1>1, <1>2

LEMMA CompleteInductive ==
    (Init => Complete) /\ (TypeOK /\ Complete /\ [Next]_vars => Complete')
<1>1. Init => Complete
  BY DEF Init, Complete
<1>2. ASSUME TypeOK, Complete, [Next]_vars PROVE Complete'
  <2>1. count' = count
    BY <1>2, Kept DEF msgVars
  <2>2. CASE UNCHANGED skipped
    BY <1>2, <2>1, <2>2 DEF Complete
  <2>3. ASSUME NEW d, NEW s, SkipSignature(d, s) PROVE Complete'
    BY <1>2, <2>1, <2>3, VerdictAssumption DEF SkipSignature, Complete, TypeOK
  <2>4. Next \/ UNCHANGED vars
    BY <1>2
  <2>5. ASSUME NEW d, NEW s, NEW r, Conclude(d, s, r) PROVE UNCHANGED skipped
    BY <2>5 DEF Conclude
  <2> QED
    BY <2>2, <2>3, <2>4, <2>5, StepCases
    DEF Steps, vars, dkimVars, VerifyUnparsable, VerifyUnusable, Verify, AllVerified,
        SpfNotEvaluated, CheckSpf, BadFrom, Discover, Decided, Decide, Compare,
        NothingToCompare, CompareDkim, AllCompared
<1> QED
  BY <1>1, <1>2

LEMMA SoundAlways == Spec => [](TypeOK /\ Sound /\ OneKeyOneAnswer)
<1>1. Init => Sound /\ OneKeyOneAnswer
  BY PhasesInductive, SignatureTruthInductive, KeysInductive, SpfTruthInductive, CompleteInductive
  DEF Sound
<1>2. TypeOK /\ Sound /\ OneKeyOneAnswer /\ [Next]_vars => Sound' /\ OneKeyOneAnswer'
  BY PhasesInductive, SignatureTruthInductive, KeysInductive, SpfTruthInductive, CompleteInductive
  DEF Sound
<1> QED
  BY <1>1, <1>2, TypeCorrect, PTL DEF Spec

-----------------------------------------------------------------------------
\* The verdict comes from Decide, or from a message or domain that DMARC does
\* not apply to, and nothing changes it or what it depends on.
LEMMA VerdictSteps ==
    ASSUME Phases, [Next]_vars
    PROVE  \/ pc = "decide" /\ Decide
           \/ dmarc' \in {Unset, "none", "permerror"}
           \/ dmarc' = "temperror" /\ modes' = [adkim |-> Unset, aspf |-> Unset]
           \/ /\ pc \in {"compare", "claims", "done"}
              /\ UNCHANGED <<dmarc, dkim, skipped, spf, modes>>
<1> USE DEF Phases, msgVars, dkimVars, policyVars, compareVars
<1>1. CASE UNCHANGED vars
  BY <1>1 DEF vars
<1>2. CASE Next
  <2>1. ASSUME NEW d, NEW s, NEW r, Verifying, Conclude(d, s, r) PROVE dmarc' = Unset
    BY <2>1 DEF Conclude, Verifying
  <2>2. ASSUME NEW o, NEW n, NEW usable, NEW m, Discover(o, n, usable, m)
        PROVE  \/ dmarc' \in {Unset, "none"}
               \/ dmarc' = "temperror" /\ modes' = [adkim |-> Unset, aspf |-> Unset]
    BY <2>2 DEF Discover, Decided
  <2> QED
    BY <1>2, <2>1, <2>2, StepCases
    DEF Steps, VerifyUnparsable, VerifyUnusable, Verify, SkipSignature, SpfNotEvaluated,
        AllVerified, CheckSpf, BadFrom, Decided, Decide, Compare, NothingToCompare, CompareDkim,
        AllCompared
<1> QED
  BY <1>1, <1>2

LEMMA NoFailWithoutTruth ==
    ASSUME TypeOK, Sound, Decide, count <= MaxSignatures, dmarc' = "fail"
    PROVE  ~Passes
<1>1. /\ ~SpfAligned /\ ~DkimAligned("pass") /\ ~DkimAligned("temperror")
      /\ ~DkimAligned("neutral") /\ spf.result # Unset
      /\ ~(spf.result = "temperror" /\ Aligned(spf.domain, from, modes.aspf))
  BY DEF Decide, Decided, Temp, Incomplete
<1>2. ~Aligned(spf.truth, from, modes.aspf)
  <2>1. ~Aligned(NoDomain, from, modes.aspf)
    BY DEF Aligned
  <2>2. spf.result \in {"pass", "fail", "temperror"}
    BY <1>1 DEF TypeOK, SpfResults
  <2> QED
    BY <1>1, <2>1, <2>2 DEF Sound, SpfTruth, SpfAligned
<1>3. ASSUME NEW v \in Verified, v.truth PROVE ~Aligned(v.domain, from, modes.adkim)
  BY <1>1, <1>3 DEF Sound, SignatureTruth, DkimAligned, DkimResults
<1>4. LeftOut = {}
  BY VerdictAssumption DEF Sound, Complete, TypeOK, LeftOut
<1> QED
  BY <1>2, <1>3, <1>4 DEF Passes

LEMMA NoPassWithoutTruth ==
    ASSUME Sound, Decide, dmarc' = "pass"
    PROVE  Passes
<1>1. SpfAligned \/ DkimAligned("pass")
  BY DEF Decide, Decided
<1>2. CASE SpfAligned
  BY <1>2 DEF SpfAligned, Sound, SpfTruth, Passes
<1>3. CASE DkimAligned("pass")
  BY <1>3 DEF DkimAligned, Sound, SignatureTruth, Passes
<1> QED
  BY <1>1, <1>2, <1>3

LEMMA PassesStays ==
    ASSUME UNCHANGED msgVars, UNCHANGED <<dkim, skipped, spf, modes>>
    PROVE  Passes' = Passes
BY DEF msgVars, Passes, Aligned, Verified, LeftOut

-----------------------------------------------------------------------------
\* EvaluateMessage says "pass" only if an aligned identifier really passes,
\* whatever lookups failed, inputs were missing or signatures were left out.
THEOREM PassNeedsAlignedPass == Spec => []PassIsReal
<1>1. Init => PassIsReal
  BY DEF Init, PassIsReal, Unset
<1>2. TypeOK /\ Sound /\ PassIsReal /\ [Next]_vars => PassIsReal'
  <2> SUFFICES ASSUME Sound, PassIsReal, [Next]_vars, dmarc' = "pass" PROVE Passes'
    BY DEF PassIsReal
  <2>1. CASE pc = "decide" /\ Decide
    <3>1. Passes
      BY <2>1, NoPassWithoutTruth
    <3>2. UNCHANGED msgVars /\ UNCHANGED <<dkim, skipped, spf, modes>>
      BY <2>1 DEF Decide, Decided, dkimVars, policyVars
    <3> QED
      BY <3>1, <3>2, PassesStays
  <2>2. CASE UNCHANGED <<dmarc, dkim, skipped, spf, modes>>
    BY <2>2, Kept, PassesStays DEF PassIsReal
  <2> QED
    BY <2>1, <2>2, VerdictSteps DEF Sound, Unset
<1> QED
  BY <1>1, <1>2, SoundAlways, PTL DEF Spec

\* "Fail only if every input produced a definite result": a message whose
\* signatures were all verified is never called a fail if it could pass.
THEOREM FailNeedsDefiniteInputs == Spec => []FailIsDefinite
<1>1. Init => FailIsDefinite
  BY DEF Init, FailIsDefinite, Unset
<1>2. TypeOK /\ Sound /\ FailIsDefinite /\ [Next]_vars => FailIsDefinite'
  <2> SUFFICES ASSUME TypeOK, Sound, FailIsDefinite, [Next]_vars, dmarc' = "fail",
                      count <= MaxSignatures
               PROVE  ~Passes'
    BY Kept DEF FailIsDefinite, msgVars
  <2>1. CASE pc = "decide" /\ Decide
    <3>1. ~Passes
      BY <2>1, NoFailWithoutTruth
    <3>2. UNCHANGED msgVars /\ UNCHANGED <<dkim, skipped, spf, modes>>
      BY <2>1 DEF Decide, Decided, dkimVars, policyVars
    <3> QED
      BY <3>1, <3>2, PassesStays
  <2>2. CASE UNCHANGED <<dmarc, dkim, skipped, spf, modes>>
    BY <2>2, Kept, PassesStays DEF FailIsDefinite
  <2> QED
    BY <2>1, <2>2, VerdictSteps DEF Sound, Unset
<1> QED
  BY <1>1, <1>2, SoundAlways, PTL DEF Spec

\* Signatures are compared only if the body was there to verify them.
BodyCompared == pc = "claims" => body

LEMMA BodyComparedAlways == Spec => []BodyCompared
<1>1. Init => BodyCompared
  BY DEF Init, BodyCompared
<1>2. BodyCompared /\ [Next]_vars => BodyCompared'
  <2> SUFFICES ASSUME BodyCompared, [Next]_vars, pc' = "claims" PROVE body'
    BY DEF BodyCompared
  <2>1. body' = body
    BY Kept DEF msgVars
  <2>2. ASSUME NEW d, NEW s, NEW r, Conclude(d, s, r) PROVE pc' = pc
    BY <2>2 DEF Conclude
  <2>3. pc = "claims" \/ \E s : Compare(s)
    BY <2>2, StepCases
    DEF Steps, vars, VerifyUnparsable, VerifyUnusable, Verify, SkipSignature, AllVerified,
        SpfNotEvaluated, CheckSpf, BadFrom, Discover, Decided, Decide, NothingToCompare,
        CompareDkim, AllCompared
  <2> QED
    BY <2>1, <2>3 DEF BodyCompared, Compare
<1> QED
  BY <1>1, <1>2, PTL DEF Spec

\* The checks of spf and dmarc hold nothing against a truthful receiver.
LEMMA ChecksAgree ==
    ASSUME TypeOK, Sound, PassIsReal, FailIsDefinite, count <= MaxSignatures
    PROVE  ~Differs(ClaimedSpf, spf.result) /\ ~Differs(ClaimedDmarc, ComputedDmarc)
<1>1. ~Differs(ClaimedDmarc, ComputedDmarc)
  BY DEF TypeOK, DmarcResults, Differs, ClaimedDmarc, ComputedDmarc, PassIsReal, FailIsDefinite, Unset
<1>2. CASE spf.result \in {Unset, "temperror"}
  BY <1>1, <1>2 DEF Differs
<1>3. CASE spf.result \in {"pass", "fail"}
  <2>1. spf.domain # NoDomain
    BY <1>3 DEF Sound, SpfTruth, Unset
  <2> QED
    BY <1>1, <1>3, <2>1 DEF Sound, SpfTruth, Differs, ClaimedSpf
<1> QED
  BY <1>1, <1>2, <1>3 DEF TypeOK, SpfResults

\* The result the receiver states for a verified signature is the one computed,
\* unless that is open.
LEMMA SignatureAgrees ==
    ASSUME Sound, body, NEW v \in Verified
    PROVE  ~Differs(ClaimedDkim(v), v.result)
BY DEF Sound, SignatureTruth, DkimResults, Differs, ClaimedDkim, Unset

\* Of the signatures that fit, one is the first: finite intervals are well-founded.
LEMMA LeastNumber ==
    ASSUME NEW S \in SUBSET Nat, S # {}
    PROVE  \E m \in S : \A k \in S : m <= k
<1>1. PICK n \in S : TRUE
      OBVIOUS
<1> DEFINE U == 1..n
           T == {1..k : k \in {j \in S : j <= n}}
<1>2. n \in Nat /\ IsFiniteSet(U)
      BY FS_Interval
<1>3. T \subseteq FiniteSubsetsOf(U) /\ T # {}
  <2>1. ASSUME NEW k \in S, k <= n PROVE 1..k \in FiniteSubsetsOf(U)
    <3>1. k \in Nat /\ 1..k \subseteq U
          BY <1>2, <2>1
    <3>2. IsFiniteSet(1..k)
          BY <3>1, FS_Interval
    <3> QED
        BY <3>1, <3>2 DEF FiniteSubsetsOf
  <2>2. 1..n \in T
        BY <1>2
  <2> QED
      BY <2>1, <2>2
<1>4. \E x \in T : \A y \in T : <<y, x>> \notin StrictSubsetOrdering(U)
  <2> HIDE DEF T, U
  <2>1. IsWellFoundedOn(StrictSubsetOrdering(U), FiniteSubsetsOf(U))
        BY FS_StrictSubsetOrderingWellFounded
  <2> QED
      BY <1>3, <2>1, WFMin
<1>5. PICK m \in S : m <= n /\ \A y \in T : <<y, 1..m>> \notin StrictSubsetOrdering(U)
      BY <1>4
<1>6. ASSUME NEW k \in S, k < m PROVE FALSE
  <2> DEFINE a == 1..k
             b == 1..m
  <2>1. k \in Nat /\ m \in Nat /\ k <= n
        BY <1>2, <1>5, <1>6
  <2>2. a \in T
        BY <2>1
  <2>3. m \in b /\ m \notin a
        BY <1>6, <2>1
  <2>4. a \in SUBSET U /\ b \in SUBSET U /\ a \subseteq b /\ a # b
        BY <1>5, <1>6, <2>1, <2>3
  <2>5. <<a, b>> \in StrictSubsetOrdering(U)
    <3> HIDE DEF a, b, U
    <3> QED
        BY <2>4 DEF StrictSubsetOrdering
  <2> QED
      BY <1>5, <2>2, <2>5
<1> QED
    BY <1>5, <1>6

\* Nor does the comparison of a dkim result that names its signature clearly:
\* what is matched has the result stated, and a pass is matched.
LEMMA ClaimAgrees ==
    ASSUME TypeOK, Sound, body, NEW i \in DOMAIN dkim, NEW n \in Namings,
           Names(n, dkim[i], i), Clear(n, dkim[i], i)
    PROVE  /\ \A j \in Matched(n) : ~Differs(ClaimedDkim(dkim[i]), dkim[j].result)
           /\ Matched(n) = {} => ClaimedDkim(dkim[i]) # "pass"
<1> DEFINE v == dkim[i]
<1>1. v \in Verified /\ i \in Nat
  BY DEF Verified, TypeOK
<1>2. v.domain = NoDomain => ClaimedDkim(v) # "pass"
  BY <1>1 DEF Sound, SignatureTruth, ClaimedDkim, Unset
<1>3. CASE n.by = "short_b"
  BY <1>3 DEF Clear
<1>4. CASE n.by = "b"
  <2>1. n.alike \subseteq {i}
    BY <1>4 DEF Clear
  <2>2. v.domain # NoDomain => i \in n.alike
    BY <1>4 DEF Names
  <2>3. Matched(n) = {j \in n.alike : n.alike = {j}}
    BY <1>4 DEF Matched
  <2>4. \A j \in Matched(n) : j = i
    BY <2>1, <2>3
  <2>5. v.domain # NoDomain => i \in Matched(n)
    BY <2>1, <2>2, <2>3
  <2> QED
    BY <1>1, <1>2, <2>4, <2>5, SignatureAgrees
<1>5. CASE n.by = "domain"
  <2>1. Matched(n) = {j \in OfDomain(n) : \A k \in OfDomain(n) : j <= k}
    BY <1>5 DEF Matched
  <2>2. ASSUME NEW j \in Matched(n)
        PROVE  ~Differs(ClaimedDkim(v), dkim[j].result)
    <3>1. /\ j \in DOMAIN dkim /\ dkim[j] \in Verified
          /\ dkim[j].domain = n.domain /\ n.sel \in {Unset, dkim[j].sel}
      BY <2>1, <2>2 DEF OfDomain, Verified
    <3>2. ClaimedDkim(dkim[j]) = ClaimedDkim(v)
      BY <1>5, <3>1 DEF Clear
    <3> QED
      BY <3>1, <3>2, SignatureAgrees
  <2>3. CASE v.domain = NoDomain
    BY <1>2, <2>2, <2>3
  <2>4. CASE v.domain # NoDomain
    <3>1. i \in OfDomain(n)
      BY <1>5, <2>4 DEF Clear, Names, OfDomain
    <3>2. OfDomain(n) \subseteq Nat
      BY DEF OfDomain, TypeOK
    <3>3. \E j \in OfDomain(n) : \A k \in OfDomain(n) : j <= k
      BY <3>1, <3>2, LeastNumber
    <3> QED
      BY <2>1, <2>2, <3>3
  <2> QED
    BY <2>3, <2>4
<1> QED
  BY <1>3, <1>4, <1>5 DEF Namings

\* Compare holds nothing against a receiver that reported the truth about a
\* message whose signatures were all verified, and whose results leave no doubt
\* what they are about: not by a lookup that failed, a body that is missing, a
\* verdict left open, nor by the order of the signatures.
THEOREM HonestReceiverIsNotContradicted == Spec => []HonestReceiverAgrees
<1>1. Init => HonestReceiverAgrees
  BY DEF Init, HonestReceiverAgrees
<1>2. TypeOK /\ Sound /\ BodyCompared /\ PassIsReal /\ FailIsDefinite /\ HonestReceiverAgrees
        /\ [Next]_vars
        => HonestReceiverAgrees'
  <2> SUFFICES ASSUME TypeOK, Sound, BodyCompared, PassIsReal, FailIsDefinite,
                      HonestReceiverAgrees, [Next]_vars, count <= MaxSignatures, ~unclear'
               PROVE  diffs' = {}
    BY Kept DEF HonestReceiverAgrees, msgVars
  <2>1. CASE UNCHANGED compareVars
    BY <2>1 DEF HonestReceiverAgrees, compareVars
  <2>2. ASSUME NEW s, Compare(s) PROVE diffs' = {}
    BY <2>2, ChecksAgree DEF Compare
  <2>3. ASSUME NEW i \in DOMAIN (dkim \o skipped), NEW n \in Namings,
               CompareDkim(n, (dkim \o skipped)[i], i)
        PROVE  diffs' = {}
    <3>1. skipped = <<>>
      BY VerdictAssumption DEF Sound, Complete, TypeOK
    <3>2. dkim \o skipped = dkim
      BY <3>1 DEF TypeOK
    <3>3. /\ i \in DOMAIN dkim /\ body
          /\ Names(n, dkim[i], i) /\ Clear(n, dkim[i], i) /\ ~unclear
      BY <2>3, <3>2 DEF CompareDkim, BodyCompared
    <3>4. diffs = {}
      BY <3>3 DEF HonestReceiverAgrees
    <3> QED
      BY <2>3, <3>2, <3>3, <3>4, ClaimAgrees DEF CompareDkim
  <2>4. ASSUME NEW d, NEW s, NEW r, Conclude(d, s, r) PROVE UNCHANGED compareVars
    BY <2>4 DEF Conclude
  <2> QED
    BY <2>1, <2>2, <2>3, <2>4, StepCases
    DEF Steps, vars, VerifyUnparsable, VerifyUnusable, Verify, SkipSignature, AllVerified,
        SpfNotEvaluated, CheckSpf, BadFrom, Discover, Decided, Decide, NothingToCompare, AllCompared
<1> QED
  BY <1>1, <1>2, SoundAlways, BodyComparedAlways, PassNeedsAlignedPass, FailNeedsDefiniteInputs,
     PTL DEF Spec

\* keyLookup's cache: a key whose retrieval failed for one signature was not
\* retrieved for another one of the same message.
THEOREM OneRetrievalPerKey == Spec => []OneKeyOneAnswer
BY SoundAlways, PTL

\* Discover inherits a policy only if the author domain has no record at all.
THEOREM OwnRecordDecides == Spec => []OwnRecordWins
<1>1. Init => OwnRecordWins
  BY DEF Init, OwnRecordWins
<1>2. Sound /\ OwnRecordWins /\ [Next]_vars => OwnRecordWins'
  <2> SUFFICES ASSUME Phases, OwnRecordWins, [Next]_vars PROVE OwnRecordWins'
    BY DEF Sound
  <2>1. CASE UNCHANGED <<inherited, ownRecords>>
    BY <2>1 DEF OwnRecordWins
  <2>2. ASSUME NEW o, NEW n \in 0..2, NEW usable, NEW m, Discover(o, n, usable, m)
        PROVE  OwnRecordWins'
    BY <2>2 DEF Discover, Decided, OwnRecordWins, Phases, policyVars, Found
  <2>3. ASSUME NEW d, NEW s, NEW r, Conclude(d, s, r) PROVE UNCHANGED <<inherited, ownRecords>>
    BY <2>3 DEF Conclude, policyVars
  <2> QED
    BY <2>1, <2>2, <2>3, StepCases
    DEF Steps, vars, policyVars, VerifyUnparsable, VerifyUnusable, Verify, SkipSignature,
        AllVerified, SpfNotEvaluated, CheckSpf, BadFrom, Decided, Decide, Compare,
        NothingToCompare, CompareDkim, AllCompared
<1> QED
  BY <1>1, <1>2, SoundAlways, PTL DEF Spec

\* A HELO name that passes SPF authenticates the author for a null sender only.
THEOREM HeloStandsInForNullSender == Spec => []HeloOnlyForNullSender
<1>1. Init => HeloOnlyForNullSender
  BY DEF Init, HeloOnlyForNullSender, Unset
<1>2. Sound /\ HeloOnlyForNullSender /\ [Next]_vars => HeloOnlyForNullSender'
  <2> SUFFICES ASSUME Sound, HeloOnlyForNullSender, [Next]_vars, dmarc' = "pass",
                      ~inputs.nullSender
               PROVE  \/ DkimAligned("pass")'
                      \/ inputs'.mailFrom # NoDomain /\ Aligned(inputs'.mailFrom, from', modes'.aspf)
    BY Kept DEF HeloOnlyForNullSender, msgVars
  <2>1. CASE pc = "decide" /\ Decide
    <3>1. SpfAligned \/ DkimAligned("pass")
      BY <2>1 DEF Decide, Decided
    <3>2. UNCHANGED <<inputs, from, dkim, modes>>
      BY <2>1 DEF Decide, Decided, msgVars, dkimVars, policyVars
    <3>3. CASE DkimAligned("pass")
      BY <3>2, <3>3 DEF DkimAligned, Verified, Aligned
    <3>4. CASE SpfAligned
      BY <3>2, <3>4 DEF SpfAligned, Sound, SpfTruth, Identity, Aligned, Unset
    <3> QED
      BY <3>1, <3>3, <3>4
  <2>2. CASE UNCHANGED <<dmarc, dkim, skipped, spf, modes>>
    BY <2>2, Kept DEF HeloOnlyForNullSender, DkimAligned, Verified, Aligned, msgVars
  <2> QED
    BY <2>1, <2>2, VerdictSteps DEF Sound, Unset
<1> QED
  BY <1>1, <1>2, SoundAlways, PTL DEF Spec

\* Once there is a policy, a verdict is left open only if an open identifier
\* would align with From.
THEOREM OpenVerdictHasOpenIdentifier == Spec => []UndecidedOnlyIfOpen
<1>1. Init => UndecidedOnlyIfOpen
  BY DEF Init, UndecidedOnlyIfOpen, Unset
<1>2. TypeOK /\ Sound /\ UndecidedOnlyIfOpen /\ [Next]_vars => UndecidedOnlyIfOpen'
  <2> SUFFICES ASSUME TypeOK, Sound, UndecidedOnlyIfOpen, [Next]_vars,
                      dmarc' \in {"temperror", "indeterminate"}, modes'.adkim # Unset
               PROVE  \E d \in Open' \ {NoDomain} : Org[d] = Org[from']
    BY DEF UndecidedOnlyIfOpen
  <2>1. CASE pc = "decide" /\ Decide
    <3>1. Temp \/ Incomplete
      BY <2>1 DEF Decide, Decided
    <3>2. Open' = Open /\ from' = from
      BY <2>1 DEF Decide, Decided, Open, Verified, msgVars, dkimVars
    <3>3. CASE spf.result = Unset
      BY <2>1, <3>2, <3>3, VerdictAssumption DEF Open, Sound, Phases, TypeOK, SomeDomain
    <3>4. CASE spf.result = "temperror" /\ Aligned(spf.domain, from, modes.aspf)
      BY <3>2, <3>4 DEF Open, Aligned, Unset
    <3>5. ASSUME NEW r \in {"temperror", "neutral"}, DkimAligned(r)
          PROVE  \E d \in Open \ {NoDomain} : Org[d] = Org[from]
      BY <3>5 DEF DkimAligned, Open, Aligned
    <3> QED
      BY <3>1, <3>2, <3>3, <3>4, <3>5 DEF Temp, Incomplete
  <2>2. CASE UNCHANGED <<dmarc, dkim, skipped, spf, modes>>
    BY <2>2, Kept DEF UndecidedOnlyIfOpen, Open, Verified, msgVars
  <2> QED
    BY <2>1, <2>2, VerdictSteps DEF Sound, Unset
<1> QED
  BY <1>1, <1>2, SoundAlways, PTL DEF Spec
=============================================================================
