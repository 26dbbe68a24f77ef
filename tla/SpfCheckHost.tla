---------------------------- MODULE SpfCheckHost ----------------------------
(***************************************************************************)
(* One check_host() evaluation: internal/spf/eval.go, and the parts of     *)
(* expand.go that query the DNS. The recursion of checkHost is an explicit *)
(* stack of records. The SPF records are chosen term by term as they are   *)
(* read, and every lookup returns anything a Resolver can return, so the   *)
(* properties hold for any zone, also one that changes under way.          *)
(*                                                                         *)
(*   enter   checkHost called for call.domain, record not yet fetched      *)
(*   term    in the loop over the terms of the record on top of frames     *)
(*   resume  that call has returned ret to its caller                      *)
(*   done    CheckHost has returned                                        *)
(***************************************************************************)
EXTENDS SpfLimits

Results == Qualifiers \cup {"none", "permerror", "temperror"}
Vias == {"root", "include", "redirect"}

Frame == [domain : Domains, via : Vias, left : 0..MaxTerms]

VARIABLES
    pc,
    call,       \* the checkHost call being entered or resumed
    frames,     \* records being evaluated; e.stack is their domains
    ret,        \* what the last checkHost call returned; why # "nil" is an error
    lookups, voids, limitHit, loop,     \* Evaluation: Lookups, VoidLookups,
                                        \* LookupLimitExceeded, LoopDetected
    reason, matched,                    \* Evaluation: Reason, MatchedDomain
    pCache,     \* domains, as spelled, whose "p" macro has been resolved
    \* history
    queries,    \* DNS queries made
    failed,     \* a lookup that matters to the result failed
    decider     \* how the record of the last matching directive was reached

vars == <<pc, call, frames, ret, lookups, voids, limitHit, loop, reason, matched, pCache,
          queries, failed, decider>>

Init ==
    /\ pc = "enter"
    /\ call \in [domain : Domains \cup {BadName}, via : {"root"}]
    /\ frames = <<>>
    /\ ret = [res |-> "none", why |-> "nil"]
    /\ lookups = 0 /\ voids = 0 /\ limitHit = FALSE /\ loop = FALSE
    /\ reason = "unset" /\ matched = BadName
    /\ pCache = {} /\ queries = 0 /\ failed = FALSE /\ decider = {}

-----------------------------------------------------------------------------
Top == frames[Len(frames)]
Outermost == Len(frames) = 0        \* depth == 0 on entry to checkHost ...
AtRoot == Len(frames) = 1           \* ... and inside it

ViasOnStack == {frames[i].via : i \in 1..Len(frames)}
\* strings.EqualFold with a domain on e.stack.
OnStack(d) == \E i \in 1..Len(frames) : Folded[frames[i].domain] = Folded[d]

\* Next directive of the record on top, if it has one.
AtTerm == pc = "term" /\ Top.left > 0
ReadTerm ==
    frames' = [frames EXCEPT ![Len(frames)] =
                 [domain |-> Top.domain, via |-> Top.via, left |-> Top.left - 1]]
NextTerm == pc' = "term" /\ ReadTerm /\ UNCHANGED <<call, ret>>

\* The deferred function of a checkHost call that has pushed its domain.
PopFrame ==
    /\ call' = [domain |-> Top.domain, via |-> Top.via]
    /\ frames' = SubSeq(frames, 1, Len(frames) - 1)

\* checkHost returns ...
Leave(res, why) ==
    /\ pc' = "resume"
    /\ ret' = [res |-> res, why |-> why]
    /\ PopFrame

\* ... before its domain is on e.stack.
LeaveAtOnce(res, why) ==
    /\ pc' = "resume"
    /\ ret' = [res |-> res, why |-> why]
    /\ UNCHANGED <<call, frames>>

\* Mutant: every use of the macro in a domain-spec resolves it, say two of them.
MacroCostsPerUse == {0, 1 + MaxPTRNames, 2 * (1 + MaxPTRNames)}

\* Expanding a domain-spec may need the "p" macro: a PTR lookup and an address
\* lookup per name, once per domain and never counted as an SPF lookup.
MacroCosts == {0} \cup (IF Top.domain \in pCache THEN {} ELSE 1..(1 + MaxPTRNames))
Expand(cost) == pCache' = IF cost = 0 THEN pCache ELSE pCache \cup {Top.domain}

\* explanation(): the queries that expanding and fetching "exp" takes.
ExpCosts == 0..(1 + (IF Top.domain \in pCache' THEN 0 ELSE 1 + MaxPTRNames))

\* Mutant: checks before it counts.
CountLookupLate == lookups' = lookups + 1 /\ lookups <= MaxLookups
\* countLookup, when the limit is kept.
CountLookup == lookups' = lookups + 1 /\ lookups' <= MaxLookups

\* What an address or exists lookup returns: usable records or an error. A
\* missing or invalid name and an empty answer are void; other errors abort.
Answers == {"match", "nomatch", "empty"}
LookupResults == Answers \cup (Errs \ {"nil"})
Void(o) == o = "empty" \/ (o \in Errs /\ (IsNXDomain(o) \/ KindOf(o) = "InvalidName"))
Failing(o) == o \in Errs /\ ~Void(o)

-----------------------------------------------------------------------------
\* checkHost up to the loop over the terms.
EnterInvalid ==
    /\ pc = "enter" /\ call.domain = BadName
    /\ reason' = IF Outermost THEN "invalid_domain" ELSE reason
    /\ LeaveAtOnce("none", "nil")
    /\ UNCHANGED <<lookups, voids, limitHit, loop, matched, pCache, queries, failed, decider>>

EnterLoop ==
    /\ pc = "enter" /\ call.domain # BadName /\ OnStack(call.domain)
    /\ loop' = TRUE
    /\ LeaveAtOnce("permerror", "loop")
    /\ UNCHANGED <<lookups, voids, limitHit, reason, matched, pCache, queries, failed, decider>>

\* depth is the number of records around the one to be entered.
TooDeep == Len(frames) > MaxDepth

EnterDeep ==
    /\ pc = "enter" /\ call.domain # BadName /\ ~OnStack(call.domain)
    /\ TooDeep
    /\ LeaveAtOnce("permerror", "depth")
    /\ UNCHANGED <<lookups, voids, limitHit, loop, reason, matched, pCache, queries, failed, decider>>

\* Mutant: no loop detection.
FetchingAnyway == pc = "enter" /\ call.domain # BadName /\ ~TooDeep /\ queries' = queries + 1
Fetching ==
    /\ pc = "enter" /\ call.domain # BadName
    /\ ~OnStack(call.domain) /\ ~TooDeep
    /\ queries' = queries + 1

FetchFails(err) ==
    /\ Fetching
    /\ err # "nil" /\ ~IsNXDomain(err)
    /\ failed' = TRUE
    /\ LeaveAtOnce("temperror", "TXT_lookup_failed")
    /\ UNCHANGED <<lookups, voids, limitHit, loop, reason, matched, pCache, decider>>

\* NXDOMAIN, or no SPF record among the TXT records.
FetchNothing ==
    /\ Fetching
    /\ reason' = IF Outermost THEN "no_record" ELSE reason
    /\ LeaveAtOnce("none", "nil")
    /\ UNCHANGED <<lookups, voids, limitHit, loop, matched, pCache, failed, decider>>

FetchUnusable(why) ==
    /\ Fetching
    /\ LeaveAtOnce("permerror", why)
    /\ UNCHANGED <<lookups, voids, limitHit, loop, reason, matched, pCache, failed, decider>>

PushFrame ==
    frames' = Append(frames, [domain |-> call.domain, via |-> call.via, left |-> MaxTerms])

FetchRecord ==
    /\ Fetching
    /\ pc' = "term"
    /\ PushFrame
    /\ UNCHANGED <<call, ret, lookups, voids, limitHit, loop, reason, matched, pCache, failed, decider>>

-----------------------------------------------------------------------------
\* A directive with qualifier q matched: the record's result. For the initial
\* domain a fail may come with an explanation.
Matched(q, base) ==
    /\ Leave(q, "nil")
    /\ decider' = ViasOnStack
    /\ IF AtRoot
       THEN /\ matched' = Top.domain
            /\ reason' = "matched"
            /\ \E n \in (IF q = "fail" THEN ExpCosts ELSE {0}) : queries' = base + n
       ELSE /\ UNCHANGED <<matched, reason>>
            /\ queries' = base

NoMatch(base) ==
    /\ NextTerm
    /\ queries' = base
    /\ UNCHANGED <<matched, reason, decider>>

\* The directive aborts the evaluation.
Abort(res, why, base) ==
    /\ Leave(res, why)
    /\ queries' = base
    /\ UNCHANGED <<matched, reason, decider>>

\* all, ip4, ip6: no lookup.
PlainTerm(q) ==
    /\ AtTerm
    /\ UNCHANGED <<lookups, voids, limitHit, loop, pCache, failed>>
    /\ Matched(q, queries) \/ NoMatch(queries)

\* countLookup rejects the term: checkHost returns before it is evaluated.
TermOverLimit ==
    /\ AtTerm
    /\ lookups' = lookups + 1 /\ lookups' > MaxLookups
    /\ limitHit' = TRUE
    /\ Abort("permerror", "lookups", queries)
    /\ UNCHANGED <<voids, loop, pCache, failed>>

Include(target, cost) ==
    /\ AtTerm /\ CountLookup /\ Expand(cost)
    /\ queries' = queries + cost
    /\ IF target = BadName
       THEN Leave("permerror", "invalid_target")
       ELSE /\ pc' = "enter"
            /\ call' = [domain |-> target, via |-> "include"]
            /\ UNCHANGED <<frames, ret>>
    /\ UNCHANGED <<voids, limitHit, loop, reason, matched, failed, decider>>

\* The lookup of a term was void: no match, up to the limit.
VoidTerm(base) ==
    /\ voids' = voids + 1
    /\ IF voids' > MaxVoidLookups
       THEN limitHit' = TRUE /\ Abort("permerror", "void_lookups", base)
       ELSE NoMatch(base) /\ UNCHANGED limitHit

\* Mutant: a failed lookup is "no match".
FailingTermSkipped(base) ==
    /\ failed' = TRUE
    /\ NoMatch(base)
    /\ UNCHANGED <<voids, limitHit>>

\* The lookup of a term failed.
FailingTerm(base) ==
    /\ failed' = TRUE
    /\ Abort("temperror", "lookup_failed", base)
    /\ UNCHANGED <<voids, limitHit>>

\* a and exists: one lookup decides. An exists that finds anything matches.
AddressTerm(q, o, cost) ==
    /\ AtTerm /\ CountLookup /\ Expand(cost)
    /\ LET base == queries + cost + 1 IN
       \/ Void(o) /\ VoidTerm(base) /\ UNCHANGED failed
       \/ Failing(o) /\ FailingTerm(base)
       \/ o = "match" /\ Matched(q, base) /\ UNCHANGED <<voids, limitHit, failed>>
       \/ o = "nomatch" /\ NoMatch(base) /\ UNCHANGED <<voids, limitHit, failed>>
    /\ UNCHANGED loop

\* mx whose MX lookup was void, failed, or named too many hosts.
MXTermUnusable(o, cost) ==
    /\ AtTerm /\ CountLookup /\ Expand(cost)
    /\ LET base == queries + cost + 1 IN
       \/ Void(o) /\ VoidTerm(base) /\ UNCHANGED failed
       \/ Failing(o) /\ FailingTerm(base)
       \/ /\ o = "too_many"
          /\ limitHit' = TRUE
          /\ Abort("permerror", "mx_names", base)
          /\ UNCHANGED <<voids, failed>>
    /\ UNCHANGED loop

\* mx with n of its hosts looked up before the outcome was known: an address
\* matched, a lookup failed, or no host was left. Missing hosts are skipped.
MXTerm(q, o, n, cost) ==
    /\ AtTerm /\ CountLookup /\ Expand(cost)
    /\ LET base == queries + cost + 1 + n IN
       \/ o = "match" /\ n > 0 /\ Matched(q, base) /\ UNCHANGED <<voids, limitHit, failed>>
       \/ Failing(o) /\ n > 0 /\ IsTemporary(o) /\ FailingTerm(base)
       \/ o = "nomatch" /\ NoMatch(base) /\ UNCHANGED <<voids, limitHit, failed>>
    /\ UNCHANGED loop

\* ptr: whatever fails is "no match" (RFC 7208 section 5.5). n names are
\* looked up again, and only a name that resolves can match.
PTRTerm(q, n, cost) ==
    /\ AtTerm /\ CountLookup /\ Expand(cost)
    /\ LET base == queries + cost + 1 + n IN
       NoMatch(base) \/ (n > 0 /\ Matched(q, base))
    /\ UNCHANGED <<voids, limitHit, loop, failed>>

-----------------------------------------------------------------------------
\* After the last term.
RedirectOverLimit ==
    /\ pc = "term"
    /\ lookups' = lookups + 1 /\ lookups' > MaxLookups
    /\ limitHit' = TRUE
    /\ Leave("permerror", "lookups")
    /\ UNCHANGED <<voids, loop, reason, matched, pCache, queries, failed, decider>>

Redirect(target, cost) ==
    /\ pc = "term" /\ CountLookup /\ Expand(cost)
    /\ queries' = queries + cost
    /\ IF target = BadName
       THEN Leave("permerror", "invalid_target")
       ELSE /\ pc' = "enter"
            /\ call' = [domain |-> target, via |-> "redirect"]
            /\ UNCHANGED <<frames, ret>>
    /\ UNCHANGED <<voids, limitHit, loop, reason, matched, failed, decider>>

DefaultResult ==
    /\ pc = "term"
    /\ reason' = IF AtRoot THEN "default" ELSE reason
    /\ Leave("neutral", "nil")
    /\ UNCHANGED <<lookups, voids, limitHit, loop, matched, pCache, queries, failed, decider>>

-----------------------------------------------------------------------------
\* Mutant: the result of the included record is taken over.
ReturnToIncludeAsRedirect(q) ==
    /\ pc = "resume" /\ call.via = "include"
    /\ \/ ret.why # "nil" /\ Abort(ret.res, ret.why, queries)
       \/ ret.why = "nil" /\ Abort(ret.res, "nil", queries)
    /\ UNCHANGED <<lookups, voids, limitHit, loop, pCache, failed>>

\* A nested checkHost returns to match (include) ...
ReturnToInclude(q) ==
    /\ pc = "resume" /\ call.via = "include"
    /\ UNCHANGED <<lookups, voids, limitHit, loop, pCache, failed>>
    /\ \/ ret.why # "nil" /\ Abort(ret.res, ret.why, queries)
       \/ ret.why = "nil" /\ ret.res = "none"
          /\ Abort("permerror", "target_has_no_record", queries)
       \/ ret.why = "nil" /\ ret.res = "pass" /\ Matched(q, queries)
       \/ ret.why = "nil" /\ ret.res \in {"fail", "softfail", "neutral"} /\ NoMatch(queries)

\* ... or to checkHost (redirect): its result is the caller's ...
ReturnToRedirect ==
    /\ pc = "resume" /\ call.via = "redirect"
    /\ IF ret.why = "nil" /\ ret.res = "none"
       THEN Leave("permerror", "target_has_no_record")
       ELSE Leave(ret.res, ret.why)
    /\ reason' = IF ret.why = "nil" /\ ret.res # "none" /\ AtRoot /\ reason = "unset"
                 THEN "redirect" ELSE reason
    /\ UNCHANGED <<lookups, voids, limitHit, loop, matched, pCache, queries, failed, decider>>

\* ... or the initial call to CheckHost, which reports an error's reason.
ReturnToCheckHost ==
    /\ pc = "resume" /\ call.via = "root"
    /\ reason' = IF ret.why # "nil" THEN ret.why ELSE reason
    /\ pc' = "done"
    /\ UNCHANGED <<call, frames, ret, lookups, voids, limitHit, loop, matched, pCache, queries,
                   failed, decider>>

Enter ==
    \/ EnterInvalid \/ EnterLoop \/ EnterDeep
    \/ \E err \in Errs : FetchFails(err)
    \/ FetchNothing
    \/ \E why \in {"several_records", "syntax_error"} : FetchUnusable(why)
    \/ FetchRecord

Directive ==
    \/ TermOverLimit
    \/ \E q \in Qualifiers : PlainTerm(q)
    \/ /\ AtTerm
       /\ \E cost \in MacroCosts :
          \/ \E d \in Targets : Include(d, cost)
          \/ \E o \in LookupResults \cup {"too_many"} : MXTermUnusable(o, cost)
          \/ \E q \in Qualifiers :
                \/ \E o \in LookupResults : AddressTerm(q, o, cost)
                \/ \E o \in LookupResults, n \in 0..MaxMXNames : MXTerm(q, o, n, cost)
                \/ \E n \in 0..MaxPTRNames : PTRTerm(q, n, cost)

EndOfRecord ==
    /\ pc = "term"
    /\ \/ RedirectOverLimit \/ DefaultResult
       \/ \E d \in Targets, cost \in MacroCosts : Redirect(d, cost)

Return ==
    \/ \E q \in Qualifiers : ReturnToInclude(q)
    \/ ReturnToRedirect \/ ReturnToCheckHost

Next == Enter \/ Directive \/ EndOfRecord \/ Return

Spec == Init /\ [][Next]_vars

-----------------------------------------------------------------------------
Whys == {"nil", "loop", "depth", "TXT_lookup_failed", "several_records",
         "syntax_error", "lookups", "void_lookups", "mx_names", "lookup_failed",
         "invalid_target", "target_has_no_record"}

TypeOK ==
    /\ pc \in {"enter", "term", "resume", "done"}
    /\ call \in [domain : Targets, via : Vias]
    /\ frames \in Seq(Frame)
    /\ ret \in [res : Results, why : Whys]
    /\ lookups \in Nat /\ voids \in Nat /\ queries \in Nat
    /\ limitHit \in BOOLEAN /\ loop \in BOOLEAN /\ failed \in BOOLEAN
    /\ reason \in Whys \cup {"unset", "invalid_domain", "no_record", "default",
                             "matched", "redirect"}
    /\ matched \in Targets
    /\ pCache \subseteq Domains
    /\ decider \subseteq Vias

\* "Include loops are detected explicitly (domain already on the evaluation
\* stack)": no domain is ever being evaluated inside its own evaluation, under
\* whatever spelling of its name.
StackAcyclic ==
    \A i, j \in 1..Len(frames) :
        Folded[frames[i].domain] = Folded[frames[j].domain] => i = j

\* The limits of RFC 7208 stop the evaluation at the first term beyond them,
\* however deeply nested: nothing is looked up or matched any more.
LimitStops ==
    lookups > MaxLookups \/ voids > MaxVoidLookups \/ limitHit =>
        /\ pc \in {"resume", "done"} /\ ret.res = "permerror"
        /\ lookups <= MaxLookups + 1 /\ voids <= MaxVoidLookups + 1

\* "LookupLimitExceeded is set when the result is permerror due to limits",
\* and never with another result.
LimitReported ==
    pc = "done" => (limitHit <=> ret.why \in {"lookups", "void_lookups", "mx_names"})

\* MaxDepth is a safety net "independent of MaxLookups": every record below the
\* first costs a lookup, so no report blames nesting before more than MaxDepth
\* lookups were counted, which the default MaxLookups does not allow.
DepthIsPaid == ret.why = "depth" => MaxDepth < lookups

\* Never more than MaxDepth records inside the first one.
NestingBounded == Len(frames) <= MaxDepth + 1

\* "%{p} is resolved once per domain": whatever the records say, one evaluation
\* makes a bounded number of queries; a record, an explanation, MaxLookups
\* terms with their hosts, and one "p" macro for each record on the way.
QueriesBounded ==
    LET perTerm == 1 + (IF MaxMXNames > MaxPTRNames THEN MaxMXNames ELSE MaxPTRNames) IN
    queries <= 2 + MaxLookups * perTerm + (MaxLookups + 1) * (1 + MaxPTRNames)

\* "Temporary DNS failures are returned as temperror, which aborts evaluation":
\* once a lookup of a record, an address or an MX failed, at any depth, the
\* evaluation can only end in temperror, never in pass or fail.
FailureDecides == failed => pc \in {"resume", "done"} /\ ret.res = "temperror"

\* An include only says whether its term matches: pass, fail and softfail come
\* from a directive of the initial record or of one reached by redirects.
OwnDirectiveDecides ==
    pc = "done" /\ ret.res \in {"pass", "fail", "softfail"} => "include" \notin decider

=============================================================================
