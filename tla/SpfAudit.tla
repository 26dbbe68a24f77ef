------------------------------ MODULE SpfAudit ------------------------------
(***************************************************************************)
(* What the analysis of a policy (SpfAnalyze) promises about evaluating it *)
(* (SpfCheckHost): first the domain is audited, then a receiver evaluates  *)
(* a message under the same records, for any client, if the audit could    *)
(* read them all.  The evaluation may meet other answers for hosts than    *)
(* the audit did, and failures, and a client of the other address family.  *)
(***************************************************************************)
EXTENDS SpfAnalyze, SpfCheckHost

VARIABLE client     \* the address family of the client

auditVars == <<client, analysisVars, vars>>

AuditInit == AnalysisInit /\ Init /\ call.domain = Root /\ client \in Families

\* The term the evaluation is at; that of an include while its record is read.
Evaluated == zone[Top.domain]
EvalAt == MaxTerms - Top.left + 1
EvalTerm == Evaluated.terms[EvalAt]

\* What a target may expand to. The audit leaves those of one kind to any name;
\* a receiver still meets them in records that the audit did not read.
Meant(target, family) == IF target = Dynamic THEN Targets ELSE {Expanded(target, family)}

ReadsZone(d, what) == Publishes(d, what) /\ UNCHANGED <<analysis, path, nodes, total, voidTotal, noted, infraErr, cutOff>>

EvaluateEnter ==
    \/ (EnterInvalid \/ EnterLoop \/ EnterDeep \/ \E err \in Errs : FetchFails(err))
       /\ UNCHANGED analysisVars
    \/ FetchNothing /\ ReadsZone(call.domain, NoRecord)
    \/ FetchUnusable("several_records") /\ ReadsZone(call.domain, Several)
    \/ FetchUnusable("syntax_error") /\ ReadsZone(call.domain, Malformed)
    \/ FetchRecord /\ \E what \in Records : ReadsZone(call.domain, what)

EvaluateTerm ==
    /\ AtTerm /\ EvalAt <= Len(Evaluated.terms)
    /\ UNCHANGED analysisVars
    /\ LET kind == EvalTerm.kind
           q == EvalTerm.qualifier
       IN  \/ kind = "all" /\ PlainTerm(q) /\ pc' = "resume"
           \/ kind = "range" /\ PlainTerm(q)
           \/ kind \in {"include", "ptr", "host", "exists"} /\ TermOverLimit
           \/ kind = "ptr" /\ \E n \in 0..MaxPTRNames : PTRTerm(q, n, 0)
           \/ kind = "include" /\ \E d \in Meant(EvalTerm.target, client) : Include(d, 0)
           \/ kind \in {"host", "exists"} /\ \E o \in LookupResults : AddressTerm(q, o, 0)
           \/ kind = "host" /\ \E o \in LookupResults \cup {"too_many"} : MXTermUnusable(o, 0)
           \/ /\ kind = "host"
              /\ \E o \in LookupResults, n \in 0..MaxMXNames : MXTerm(q, o, n, 0)

EvaluateEnd ==
    /\ pc = "term" /\ EvalAt > Len(Evaluated.terms)
    /\ UNCHANGED analysisVars
    /\ IF Evaluated.redirect = NoRedirect
         THEN DefaultResult
         ELSE \/ RedirectOverLimit
              \/ \E d \in Meant(Evaluated.redirect, client) : Redirect(d, 0)

EvaluateReturn ==
    /\ pc = "resume"
    /\ UNCHANGED analysisVars
    /\ \/ call.via = "include" /\ ReturnToInclude(EvalTerm.qualifier)
       \/ ReturnToRedirect \/ ReturnToCheckHost

\* Every record was read: none depends on the message, no retrieval failed.
ReadInFull == ~Has("SPFDynamic") /\ ~Has("SPFTempError") /\ ~Has("DNSLookupFailed")

Evaluate ==
    /\ analysis = "done" /\ ReadInFull
    /\ EvaluateEnter \/ EvaluateTerm \/ EvaluateEnd \/ EvaluateReturn

Analyze == AnalysisNext /\ UNCHANGED vars

AuditNext == UNCHANGED client /\ (Analyze \/ Evaluate)

AuditSpec == AuditInit /\ [][AuditNext]_auditVars

-----------------------------------------------------------------------------
\* A target of an include or a redirect differs with the client's family.
VersionDependent ==
    \E d \in Domains :
        /\ zone[d] \in Records
        /\ \/ zone[d].redirect \in DOMAIN OfVersion
           \/ \E i \in 1..Len(zone[d].terms) :
                /\ zone[d].terms[i].kind = "include"
                /\ zone[d].terms[i].target \in DOMAIN OfVersion

Foretold ==
    /\ ret.why = "lookups" => Has("SPFLookupLimit")
    /\ lookups > total => Has("SPFLookupLimit")

\* "the worst-case number of DNS lookups a receiver may need": no evaluation
\* needs more than the audit counted, and none is stopped by the lookup limit
\* unless the audit said so, whatever part of a large tree it left out. Not so
\* for a client of the family that a target with %{v} was not expanded for.
LimitForeseen ==
    MaxLookups <= MaxNodes /\ (client = NoClient \/ ~VersionDependent) => Foretold
=============================================================================
