------------------------------ MODULE ArcChain ------------------------------
(***************************************************************************)
(* arc.Summarize: the ARC headers of a message, read kind by kind, become  *)
(* the sets of a chain, whose structure is judged; no signature is.        *)
(***************************************************************************)
EXTENDS Naturals, Sequences, FiniteSets

CONSTANTS
    MaxInstances,   \* the largest instance number
    MaxOfKind       \* bound: headers of a kind

\* ARC-Seal, ARC-Message-Signature, ARC-Authentication-Results.
ArcKinds == <<"seal", "signature", "results">>
CVs == {"none", "pass", "fail", "other"}

\* An ARC header; i is 0 if there is no number. Only a seal has a cv.
ArcHeaders(kind) ==
    [i : 0..MaxInstances + 1, cv : IF kind = "seal" THEN CVs ELSE {"other"}]

ASSUME ArcAssumption == MaxInstances \in Nat \ {0} /\ MaxOfKind \in Nat

VARIABLES
    arcAt,      \* the kind read: an index of ArcKinds, 4 when all are
    arcRead,    \* history: the headers of each kind
    present,    \* of each kind, the instances that have it
    cv,         \* Set.CV of every instance
    problems,   \* whether there are any
    verdict     \* "open", "absent", "invalid", "fail", "present"

arcVars == <<arcAt, arcRead, present, cv, problems, verdict>>

Instances == 1..MaxInstances
KindNames == {ArcKinds[k] : k \in 1..3}

ArcInit ==
    /\ arcAt = 1
    /\ arcRead = [kind \in KindNames |-> <<>>]
    /\ present = [kind \in KindNames |-> {}]
    /\ cv = [i \in Instances |-> "other"]
    /\ problems = FALSE /\ verdict = "open"

ReadArcHeader(h) ==
    /\ arcAt <= 3
    /\ LET kind == ArcKinds[arcAt]
       IN  /\ h \in ArcHeaders(kind) /\ Len(arcRead[kind]) < MaxOfKind
           /\ arcRead' = [arcRead EXCEPT ![kind] = Append(@, h)]
           /\ IF h.i \in Instances
                THEN /\ present' = [present EXCEPT ![kind] = @ \cup {h.i}]
                     /\ cv' = IF kind = "seal" THEN [cv EXCEPT ![h.i] = h.cv] ELSE cv
                     /\ problems' = (problems \/ h.i \in present[kind])
                ELSE problems' = TRUE /\ UNCHANGED <<present, cv>>
    /\ UNCHANGED <<arcAt, verdict>>

NextArcKind ==
    /\ arcAt <= 3
    /\ arcAt' = arcAt + 1
    /\ UNCHANGED <<arcRead, present, cv, problems, verdict>>

Sets == UNION {present[kind] : kind \in KindNames}

\* Mutant: a chain may begin anywhere.
GapsWithin == \E i, j \in Sets : i + 1 < j /\ i + 1 \notin Sets
\* An instance number that is not its position in the sorted list.
Gaps == \E i \in Sets : Cardinality({j \in Sets : j <= i}) # i

Incomplete == \E i \in Sets, kind \in KindNames : i \notin present[kind]

InvalidCV ==
    \E i \in present["seal"] : cv[i] \notin (IF i = 1 THEN {"none"} ELSE {"pass", "fail"})

JudgeChain ==
    /\ arcAt = 4 /\ verdict = "open"
    /\ problems' = (problems \/ Gaps \/ Incomplete \/ InvalidCV)
    /\ verdict' = IF \A kind \in KindNames : arcRead[kind] = <<>> THEN "absent"
                  ELSE IF problems' THEN "invalid"
                  ELSE IF \E i \in Sets : cv[i] = "fail" /\ \A j \in Sets : j <= i THEN "fail"
                  ELSE "present"
    /\ UNCHANGED <<arcAt, arcRead, present, cv>>

ArcNext ==
    \/ \E h \in UNION {ArcHeaders(kind) : kind \in KindNames} : ReadArcHeader(h)
    \/ NextArcKind
    \/ JudgeChain

ArcSpec == ArcInit /\ [][ArcNext]_arcVars

-----------------------------------------------------------------------------
ArcTypeOK ==
    /\ arcAt \in 1..4
    /\ arcRead \in [KindNames -> Seq(ArcHeaders("seal"))]
    /\ present \in [KindNames -> SUBSET Instances]
    /\ cv \in [Instances -> CVs]
    /\ problems \in BOOLEAN
    /\ verdict \in {"open", "absent", "invalid", "fail", "present"}

\* RFC 8617: n headers of every kind, one for each instance from 1 to n.
WholeChain(n) ==
    \A kind \in KindNames :
        /\ Len(arcRead[kind]) = n
        /\ \A i \in 1..n : \E k \in 1..n : arcRead[kind][k].i = i

SealOf(i) == CHOOSE h \in {arcRead["seal"][k] : k \in DOMAIN arcRead["seal"]} : h.i = i

\* A chain is taken for whole exactly if it is one: no instance is missing,
\* doubled or numbered out of range, and every seal says what its place in the
\* chain lets it say. It is called broken if the last instance says so.
ChainIsComplete ==
    verdict # "open" =>
        /\ verdict \in {"present", "fail"} <=>
             \E n \in Instances :
                /\ WholeChain(n)
                /\ SealOf(1).cv = "none"
                /\ \A i \in 2..n : SealOf(i).cv \in {"pass", "fail"}
        /\ verdict \in {"present", "fail"} =>
             (verdict = "fail" <=> SealOf(Len(arcRead["seal"])).cv = "fail")
=============================================================================
