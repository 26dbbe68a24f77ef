---------------------------- MODULE SpfAnalyze ----------------------------
(***************************************************************************)
(* The static analysis of an SPF policy: spf/analyze.go.  The recursion of *)
(* walk and follow is the stack path.  What a domain publishes is chosen   *)
(* when it is first retrieved and then stays; a retrieval may also fail.   *)
(* A node of the tree keeps its own counts; here they are summed, as       *)
(* Analyze sums them in the end.  Evidence and wording are left out, and   *)
(* so are the remarks on exp, unknown modifiers, the p macro and length.   *)
(***************************************************************************)
EXTENDS SpfLimits, FiniteSets, FiniteSetsExt

CONSTANTS
    Records,        \* what a policy may be: [terms, redirect]
    NoRecord,       \* what else it may publish: nothing, several records,
    Several,        \* or one with a syntax error
    Malformed,
    Dynamic,        \* a target with a macro of dynamicLetters
    OfVersion,      \* targets with no macro but %{v}: what each expands to
    NoRedirect,
    NotAsked,       \* what a domain publishes has not been asked
    MaxNodes,       \* maxAnalysisNodes
    MaxPerRule      \* maxFindingsPerRule

\* A term is [kind, qualifier] with, for some kinds, [target] or [width].
TermKinds == {"all", "include", "ptr", "host", "exists", "range"}

Published == {NoRecord, Several, Malformed} \cup Records

\* The v macro, by the address of the client. The analysis has no client: what
\* it expands the macro to is what receivers expand it to for IPv6.
Families == {"in-addr", "ip6"}
Expanded(target, family) ==
    IF target \in DOMAIN OfVersion THEN OfVersion[target][family] ELSE target
NoClient == "ip6"

\* Domains stand for names up to letter case here: a walk compares them in lower
\* case, and how they are spelled changes no lookup that is counted.
ASSUME AnalyzeAssumption ==
    /\ Domains # {} /\ \A d \in Domains : Folded[d] = d
    /\ MaxNodes \in Nat /\ MaxPerRule \in Nat \ {0}
    /\ Dynamic \notin Targets /\ NoRedirect \notin Targets \cup {Dynamic}
    /\ \A t \in DOMAIN OfVersion : t \notin Targets \cup {Dynamic, NoRedirect}
                                  /\ OfVersion[t] \in [Families -> Targets]
    /\ NotAsked \notin Published /\ {NoRecord, Several, Malformed} \cap Records = {}
    /\ \A r \in Records : /\ Len(r.terms) \in 0..MaxTerms
                          /\ r.redirect \in Targets \cup DOMAIN OfVersion \cup {Dynamic, NoRedirect}
                          /\ \A i \in 1..Len(r.terms) :
                               /\ r.terms[i].kind \in TermKinds
                               /\ r.terms[i].kind = "range" => r.terms[i].width \in Nat

VARIABLES
    zone,           \* what each domain publishes
    analysis,       \* "start", "walk" or "done"
    path,           \* the records being walked: [domain, at]
    nodes,          \* st.nodes
    total,          \* sum of Node.Lookups over the tree
    voidTotal,      \* sum of Node.VoidLookups over the tree
    noted,          \* st.perRule, and the severity of what was found and listed
    infraErr,       \* st.infraErr is set
    cutOff          \* history: a target was not followed, without a finding

analysisVars == <<zone, analysis, path, nodes, total, voidTotal, noted, infraErr, cutOff>>

-----------------------------------------------------------------------------
\* findings/catalog.go: 1 is pass, 6 critical.
Severity == [
    DNSLookupFailed |-> 5, SPFMissing |-> 4, SPFMultiple |-> 5, SPFSyntax |-> 5,
    SPFLoop |-> 5, SPFLookupLimit |-> 5, SPFVoidLimit |-> 4, SPFPassAll |-> 6,
    SPFNeutralAll |-> 4, SPFSoftFailAll |-> 3, SPFNoAll |-> 4, SPFBroadRange |-> 4,
    SPFPTR |-> 3, SPFIncludeNoRecord |-> 5, SPFTempError |-> 4, SPFTermsAfterAll |-> 3,
    SPFRedirectIgnored |-> 3, SPFLookupsNearLimit |-> 3, SPFMXLimit |-> 5,
    SPFValid |-> 1, SPFDynamic |-> 2, SPFVoidTarget |-> 3]

Rules == DOMAIN Severity
Medium == 4

\* add, for each of fs: beyond MaxPerRule findings of a rule they are counted
\* only. (The model stops counting there.)
Admitted(n, fs) ==
    {i \in DOMAIN fs :
        n.count[fs[i].rule] + Cardinality({j \in 1..i - 1 : fs[j].rule = fs[i].rule}) < MaxPerRule}
Highest(severity, fs, is) == Max({severity} \cup {fs[i].severity : i \in is})
Added(n, fs) ==
    [count |-> [r \in Rules |-> n.count[r] + Cardinality({i \in Admitted(n, fs) : fs[i].rule = r})],
     found |-> Highest(n.found, fs, DOMAIN fs),
     listed |-> Highest(n.listed, fs, Admitted(n, fs))]

Note(fs) == noted' = Added(noted, fs)
AsRuled(rule) == [rule |-> rule, severity |-> Severity[rule]]
If(condition, f) == IF condition THEN <<f>> ELSE <<>>
Has(rule) == noted.count[rule] > 0

AnalysisInit ==
    /\ zone = [d \in Domains |-> NotAsked]
    /\ analysis = "start"
    /\ path = <<>>
    /\ nodes = 0 /\ total = 0 /\ voidTotal = 0
    /\ noted = [count |-> [r \in Rules |-> 0], found |-> 0, listed |-> 0]
    /\ infraErr = FALSE
    /\ cutOff = FALSE

\* What the domain publishes, decided when it is asked for.
Publishes(d, what) ==
    /\ zone[d] \in {NotAsked, what}
    /\ zone' = [zone EXCEPT ![d] = what]

-----------------------------------------------------------------------------
Here == path[Len(path)]
Policy == zone[Here.domain]
Term == Policy.terms[Here.at]
AllSeen(policy, at) == \E i \in 1..at - 1 : policy.terms[i].kind = "all"
AtRecord == Len(path) = 1       \* in the record of the domain under analysis

Advanced == [path EXCEPT ![Len(path)] = [Here EXCEPT !.at = @ + 1]]
Advance == path' = Advanced

\* Analyze: the record of the domain itself.
RootFails(d) ==
    /\ analysis = "start"
    /\ Note(<<AsRuled("DNSLookupFailed")>>)
    /\ infraErr' = TRUE
    /\ analysis' = "done"
    /\ UNCHANGED <<zone, path, nodes, total, voidTotal, cutOff>>

RootUnusable(d, what, rule) ==
    /\ analysis = "start"
    /\ Publishes(d, what)
    /\ Note(<<AsRuled(rule)>>)
    /\ analysis' = "done"
    /\ UNCHANGED <<path, nodes, total, voidTotal, infraErr, cutOff>>

RootRecord(d, what) ==
    /\ analysis = "start"
    /\ Publishes(d, what)
    /\ analysis' = "walk"
    /\ path' = IF what = Malformed THEN <<>> ELSE <<[domain |-> d, at |-> 1]>>
    /\ Note(If(what = Malformed, AsRuled("SPFSyntax")))
    /\ UNCHANGED <<nodes, total, voidTotal, infraErr, cutOff>>

-----------------------------------------------------------------------------
(* follow, for the term or redirect the record of Here is at. Also says     *)
(* what was noted about that record before.                                 *)

OnPath(d) == \E i \in DOMAIN path : path[i].domain = d
\* Mutant: cut off one level early.
LimitReachedEarly == Len(path) >= MaxDepth \/ nodes >= MaxNodes
LimitReached == Len(path) > MaxDepth \/ nodes >= MaxNodes

NotFollowed(target, before) ==
    /\ \/ target = Dynamic /\ Note(before \o <<AsRuled("SPFDynamic")>>) /\ UNCHANGED cutOff
       \/ OnPath(target) /\ Note(before \o <<AsRuled("SPFLoop")>>) /\ UNCHANGED cutOff
       \/ target # Dynamic /\ ~OnPath(target) /\ LimitReached /\ Note(before) /\ cutOff' = TRUE
    /\ Advance
    /\ UNCHANGED <<zone, nodes, infraErr>>

Following(target) ==
    /\ target # Dynamic /\ ~OnPath(target) /\ ~LimitReached
    /\ nodes' = nodes + 1
    /\ UNCHANGED cutOff

InvalidTarget(target, before) ==
    /\ Following(target)
    /\ target = BadName
    /\ Note(before \o <<AsRuled("SPFSyntax")>>)
    /\ Advance
    /\ UNCHANGED <<zone, infraErr>>

TargetFails(target, err, before) ==
    /\ Following(target)
    /\ target \in Domains
    /\ err # "nil" /\ ~IsNXDomain(err)
    /\ Note(before \o <<AsRuled("SPFTempError")>>)
    /\ infraErr' = (infraErr \/ IsInfrastructure(err))
    /\ Advance
    /\ UNCHANGED zone

TargetUnusable(target, what, before) ==
    /\ Following(target)
    /\ target \in Domains
    /\ what \notin Records
    /\ Publishes(target, what)
    /\ Note(before \o <<AsRuled(CASE what = NoRecord -> "SPFIncludeNoRecord"
                                  [] what = Several -> "SPFMultiple"
                                  [] what = Malformed -> "SPFSyntax")>>)
    /\ Advance
    /\ UNCHANGED infraErr

WalkTarget(target, what, before) ==
    /\ Following(target)
    /\ target \in Domains
    /\ what \in Records
    /\ Publishes(target, what)
    /\ path' = Append(Advanced, [domain |-> target, at |-> 1])
    /\ Note(before)
    /\ UNCHANGED infraErr

Follow(target, before) ==
    \/ NotFollowed(target, before)
    \/ InvalidTarget(target, before)
    \/ \E err \in Errs : TargetFails(target, err, before)
    \/ \E what \in Published : \/ TargetUnusable(target, what, before)
                               \/ WalkTarget(target, what, before)

-----------------------------------------------------------------------------
(* walk: one term of the record                                             *)

AtTermOf(kinds) ==
    /\ analysis = "walk" /\ path # <<>>
    /\ Here.at <= Len(Policy.terms)
    /\ ~AllSeen(Policy, Here.at)
    /\ Term.kind \in kinds
    /\ UNCHANGED analysis

\* Loop detection leaves the root of the tree only the first place on the path.
AllRemarks(q) ==
    If(q = "pass", AsRuled("SPFPassAll"))
    \o If(q = "neutral" /\ AtRecord, AsRuled("SPFNeutralAll"))
    \o If(q = "softfail" /\ AtRecord, AsRuled("SPFSoftFailAll"))

AllTerm ==
    /\ AtTermOf({"all"})
    /\ Note(AllRemarks(Term.qualifier))
    /\ Advance
    /\ UNCHANGED <<zone, nodes, total, voidTotal, infraErr, cutOff>>

\* ip4 and ip6, or a prefix length of a and mx; width is a severity or 0.
RangeTerm ==
    /\ AtTermOf({"range"})
    /\ Note(If(Term.width # 0 /\ Term.qualifier \notin {"fail", "softfail"},
               [rule |-> "SPFBroadRange", severity |-> Term.width]))
    /\ Advance
    /\ UNCHANGED <<zone, nodes, total, voidTotal, infraErr, cutOff>>

PTRMechanism ==
    /\ AtTermOf({"ptr"})
    /\ total' = total + 1
    /\ Note(<<AsRuled("SPFPTR")>>)
    /\ Advance
    /\ UNCHANGED <<zone, nodes, voidTotal, infraErr, cutOff>>

\* Mutant: a target that is not followed is not counted.
IncludeTermIfFollowed ==
    /\ AtTermOf({"include"})
    /\ Follow(Expanded(Term.target, NoClient), <<>>)
    /\ total' = total + (IF nodes' = nodes THEN 0 ELSE 1)
    /\ UNCHANGED voidTotal

IncludeTerm ==
    /\ AtTermOf({"include"})
    /\ total' = total + 1
    /\ Follow(Expanded(Term.target, NoClient), <<>>)
    /\ UNCHANGED voidTotal

\* isVoid for a and mx: o is what the lookups found together.
HostTerm(o) ==
    /\ AtTermOf({"host"})
    /\ total' = total + 1
    /\ IF Term.target = Dynamic
         THEN Note(<<AsRuled("SPFDynamic")>>) /\ UNCHANGED voidTotal
         ELSE CASE o = "records" -> Note(<<>>) /\ UNCHANGED voidTotal
                [] o = "too_many" -> Note(<<AsRuled("SPFMXLimit")>>) /\ UNCHANGED voidTotal
                [] o = "failed" -> Note(<<AsRuled("SPFTempError")>>) /\ UNCHANGED voidTotal
                [] o = "empty" -> Note(<<AsRuled("SPFVoidTarget")>>) /\ voidTotal' = voidTotal + 1
    /\ Advance
    /\ UNCHANGED <<zone, nodes, infraErr, cutOff>>

\* isVoid for exists: without records it is void, a failed lookup included.
ExistsTerm(o) ==
    /\ AtTermOf({"exists"})
    /\ total' = total + 1
    /\ Note(If(Term.target = Dynamic, AsRuled("SPFDynamic")))
    /\ voidTotal' = IF Term.target # Dynamic /\ o # "records" THEN voidTotal + 1 ELSE voidTotal
    /\ Advance
    /\ UNCHANGED <<zone, nodes, infraErr, cutOff>>

\* A directive after "all" is neither counted nor followed.
TermAfterAll ==
    /\ analysis = "walk" /\ path # <<>>
    /\ Here.at <= Len(Policy.terms)
    /\ AllSeen(Policy, Here.at)
    /\ Advance
    /\ UNCHANGED <<zone, analysis, nodes, total, voidTotal, noted, infraErr, cutOff>>

-----------------------------------------------------------------------------
(* walk: after the last term, and back in the record that referenced this   *)

HasAll == AllSeen(Policy, Len(Policy.terms) + 1)
AfterAllRemarks ==
    If(\E i \in DOMAIN Policy.terms : AllSeen(Policy, i), AsRuled("SPFTermsAfterAll"))

AtEnd ==
    /\ analysis = "walk" /\ path # <<>>
    /\ Here.at = Len(Policy.terms) + 1
    /\ UNCHANGED <<analysis, voidTotal>>

NoRedirectToFollow ==
    /\ AtEnd
    /\ Policy.redirect = NoRedirect \/ HasAll
    /\ Note(AfterAllRemarks
            \o If(Policy.redirect # NoRedirect, AsRuled("SPFRedirectIgnored"))
            \o If(~HasAll, [rule |-> "SPFNoAll",
                            severity |-> IF AtRecord THEN Severity["SPFNoAll"] ELSE 2]))
    /\ Advance
    /\ UNCHANGED <<zone, nodes, total, infraErr, cutOff>>

RedirectTerm ==
    /\ AtEnd
    /\ Policy.redirect # NoRedirect /\ ~HasAll
    /\ total' = total + 1
    /\ Follow(Expanded(Policy.redirect, NoClient), AfterAllRemarks)

WalkReturns ==
    /\ analysis = "walk" /\ path # <<>>
    /\ Here.at = Len(Policy.terms) + 2
    /\ path' = SubSeq(path, 1, Len(path) - 1)
    /\ UNCHANGED <<zone, analysis, nodes, total, voidTotal, noted, infraErr, cutOff>>

\* Analyze, once the tree is complete.
Summarize ==
    /\ analysis = "walk" /\ path = <<>>
    /\ analysis' = "done"
    /\ LET limits == If(total > MaxLookups, AsRuled("SPFLookupLimit"))
                     \o If(total <= MaxLookups /\ total + 2 >= MaxLookups, AsRuled("SPFLookupsNearLimit"))
                     \o If(voidTotal > MaxVoidLookups, AsRuled("SPFVoidLimit"))
           worst == Added(noted, limits).listed
       IN  Note(limits \o If(worst < Medium, AsRuled("SPFValid")))
    /\ UNCHANGED <<zone, path, nodes, total, voidTotal, infraErr, cutOff>>

Root == CHOOSE d \in Domains : TRUE     \* the domain under analysis

AnalysisNext ==
    \/ RootFails(Root)
    \/ RootUnusable(Root, NoRecord, "SPFMissing") \/ RootUnusable(Root, Several, "SPFMultiple")
    \/ \E what \in {Malformed} \cup Records : RootRecord(Root, what)
    \/ AllTerm \/ RangeTerm \/ PTRMechanism \/ IncludeTerm
    \/ \E o \in {"records", "too_many", "failed", "empty"} : HostTerm(o)
    \/ \E o \in {"records", "failed", "empty"} : ExistsTerm(o)
    \/ TermAfterAll
    \/ NoRedirectToFollow \/ RedirectTerm \/ WalkReturns \/ Summarize

AnalysisSpec == AnalysisInit /\ [][AnalysisNext]_analysisVars
-----------------------------------------------------------------------------
AnalysisTypeOK ==
    /\ zone \in [Domains -> {NotAsked} \cup Published]
    /\ analysis \in {"start", "walk", "done"}
    /\ path \in Seq([domain : Domains, at : 1..MaxTerms + 2])
    /\ nodes \in 0..MaxNodes
    /\ total \in Nat /\ voidTotal \in Nat
    /\ noted \in [count : [Rules -> 0..MaxPerRule], found : 0..6, listed : 0..6]
    /\ infraErr \in BOOLEAN /\ cutOff \in BOOLEAN

\* A target that is left out because the tree is too deep or too large leaves
\* no finding. It need not: so many lookups were counted on the way that, with
\* the default limits, the report says the policy exceeds the lookup limit.
CutOffIsPaid ==
    cutOff => total > (IF MaxDepth < MaxNodes THEN MaxDepth ELSE MaxNodes)

\* "Exit with status 1 if any finding is at least ...": of what was found, the
\* most severe is in the report. Not so beyond MaxPerRule findings of a rule.
MostSevereListed == noted.listed = noted.found
=============================================================================
