-------------------------------- MODULE Scan --------------------------------
(***************************************************************************)
(* One command from its first lookup to its exit code: analyzer.Domain and *)
(* analyzer.Message, the assessments they call, and cli.finish. A record's *)
(* contents are a choice; what is kept is which lookups an assessment      *)
(* makes, how it folds their errors into the one it returns, and how that  *)
(* becomes findings, report errors and the exit code. Cache(Budget(Client))*)
(* is reduced to what a lookup returns and what it costs (see ScanResolver *)
(* for its inside). The program counter names the next lookup or step.     *)
(***************************************************************************)
EXTENDS Naturals, DnsErrors

CONSTANTS
    QueryBudget,     \* Options.QueryBudget
    SpfQueryBudget,  \* spfQueryBudget
    MaxItems,        \* bound: hosts, terms, selectors, ... of one record
    Outputs,         \* of {"json", "text", "quiet"}: --json, --quiet or neither
    Thresholds       \* of the severities, 0 being none: --fail-on

ASSUME ScanAssumption ==
    /\ {QueryBudget, SpfQueryBudget, MaxItems} \subseteq Nat
    /\ QueryBudget > 0 /\ SpfQueryBudget > 0

\* What a Client answers. "Temporary" stands for every failure kind.
ClientResults == {"nil", "NXDomain", "Temporary"}
Results == ClientResults \cup {"Budget"}

VARIABLES
    cmd, out, failOn,       \* command, output mode and --fail-on threshold
    pc, left, held, result, \* step, items left, first error of a pair of lookups,
                            \* error the assessment will return
    nullMX,
    ctx,                    \* the context: live, past its deadline, interrupted
    sent, exhausted,        \* Budget
    spfSent,                \* the SPF checks' Budget in front of the Cache
    dialer, dialErr,        \* the goroutine that dials the MTA-STS policy host
    orphan,                 \* policy fetched although there is no record
    findings, errors,       \* Report.Findings (those about lookups), Report.Errors
    scanErr,                \* what analyzer.Message returned
    written, code,          \* report written; exit code
    trouble                 \* history: whose lookups failed, the budget apart

checkVars == <<pc, left, held, result, nullMX, findings, errors, trouble>>
lookupVars == <<sent, exhausted, spfSent>>
fetchVars == <<dialer, dialErr, orphan>>
flagVars == <<cmd, out, failOn>>
endVars == <<scanErr, written, code>>
vars == <<checkVars, lookupVars, fetchVars, flagVars, endVars, ctx>>

Medium == 4
High == 5
Severity(id) == IF id \in {"lookup_failed", "sts_failed"} THEN High ELSE Medium

Init ==
    /\ cmd \in {"domain", "stdin", "file"} /\ out \in Outputs /\ failOn \in Thresholds
    /\ pc = IF cmd = "domain" THEN "mx" ELSE "read"
    /\ left = 0 /\ held = "nil" /\ result = "nil" /\ nullMX = FALSE
    /\ ctx = "live"
    /\ sent = 0 /\ exhausted = FALSE /\ spfSent = 0
    /\ dialer = "idle" /\ dialErr = "nil" /\ orphan = FALSE
    /\ findings = {} /\ errors = {} /\ trouble = {}
    /\ scanErr = FALSE /\ written = FALSE /\ code = 0

-----------------------------------------------------------------------------

\* A lookup that returns o: answered by the Cache, asked of the Client, or
\* rejected by the Budget.
Ask(o) ==
    \/ o \in {"nil", "NXDomain"} /\ UNCHANGED <<sent, exhausted>>
    \/ /\ sent < QueryBudget /\ o \in ClientResults
       /\ sent' = sent + 1 /\ UNCHANGED exhausted
    \/ /\ sent >= QueryBudget /\ o = "Budget"
       /\ exhausted' = TRUE /\ UNCHANGED sent

Lookup(o) == Ask(o) /\ UNCHANGED <<spfSent, fetchVars, flagVars, endVars, ctx>>

\* The SPF checks look up through a Budget of their own, in front of the Cache.
SpfLookup(o) ==
    /\ IF spfSent < SpfQueryBudget
       THEN Ask(o) /\ spfSent' = spfSent + 1
       ELSE o = "Budget" /\ UNCHANGED lookupVars
    /\ UNCHANGED <<fetchVars, flagVars, endVars, ctx>>

Bad(o) == o # "nil" /\ ~IsNXDomain(o)

Blame(comp, o) == trouble' = IF IsInfrastructure(o) THEN trouble \cup {comp} ELSE trouble
Find(id, o) == findings' = findings \cup {[id |-> id, err |-> o]}
Goto(next) == pc' = next /\ UNCHANGED <<left, held, result, nullMX, findings, errors>>

\* Mutant: everything IsTemporary, a rejected lookup too, is a DNS failure.
RecordedIfTemporary(comp, err) == IF IsTemporary(err) THEN errors \cup {comp} ELSE errors
\* session.dnsError. What a rejected lookup left is no DNS failure.
Recorded(comp, err) ==
    IF KindOf(err) # "Budget" /\ IsInfrastructure(err) THEN errors \cup {comp} ELSE errors

\* The assessment returns err (Domain records the first four errors together,
\* after the last of them has returned; nothing reads them before).
Return(comp, err, next) ==
    /\ pc' = next /\ errors' = Recorded(comp, err)
    /\ left' = 0 /\ held' = "nil" /\ result' = "nil"
    /\ UNCHANGED nullMX
\* The first lookup of an assessment failed.
FailAtOnce(comp, o, next) == Find("lookup_failed", o) /\ Return(comp, o, next)

\* The next item of a list, whose errors are folded into err.
NextItem(next, err) ==
    /\ left' = left - 1 /\ result' = err /\ held' = "nil" /\ pc' = next
    /\ UNCHANGED <<nullMX, errors>>
Items(next) ==
    /\ left' \in 0..MaxItems /\ pc' = next
    /\ UNCHANGED <<held, result, nullMX, findings, errors>>

-----------------------------------------------------------------------------
\* mx.Assess
MXRecords(o) ==
    /\ pc = "mx" /\ Lookup(o) /\ Blame("mx", o)
    /\ \/ Bad(o) /\ FailAtOnce("mx", o, "spf")
       \/ IsNXDomain(o) /\ Return("mx", "nil", "spf") /\ UNCHANGED findings
       \/ o = "nil" /\ Goto("implicit_a")
       \/ /\ o = "nil" /\ pc' \in {"spf", "mx_hosts"} /\ nullMX' \in BOOLEAN
          /\ pc' = "spf" => nullMX'
          /\ left' \in (IF pc' = "spf" THEN {0} ELSE 1..MaxItems)
          /\ UNCHANGED <<held, result, findings, errors>>

\* A CNAME lookup that fails is not reported; an address literal has none.
MXHost(o) ==
    /\ pc = "mx_hosts" /\ left > 0
    /\ \/ Lookup(o) /\ Goto("host_a")
       \/ /\ o = "nil" /\ NextItem("mx_hosts", result)
          /\ UNCHANGED <<findings, lookupVars, fetchVars, flagVars, endVars, ctx>>
    /\ UNCHANGED trouble

FirstAddress(o) ==
    /\ \/ pc = "host_a" /\ pc' = "host_aaaa"
       \/ pc = "implicit_a" /\ pc' = "implicit_aaaa"
    /\ Lookup(o) /\ Blame("mx", o)
    /\ held' = o
    /\ UNCHANGED <<left, result, nullMX, findings, errors>>

\* resolveAddresses, held being what LookupA returned.
AddressError(o) ==
    IF IsTemporary(held) THEN held
    ELSE IF IsTemporary(o) THEN o
    ELSE IF IsNXDomain(held) THEN held
    ELSE o

\* Mutant: the last error wins, whatever its kind.
LastError(err, o) == o
\* The last infrastructure failure among a list's items wins.
FoldError(err, o) == IF IsInfrastructure(o) THEN o ELSE err

HostAddresses(o) ==
    /\ pc = "host_aaaa" /\ Lookup(o) /\ Blame("mx", o)
    /\ LET err == AddressError(o) IN
       IF IsTemporary(err)
       THEN Find("incomplete", err) /\ NextItem("mx_hosts", FoldError(result, err))
       ELSE NextItem("mx_hosts", result) /\ UNCHANGED findings

ImplicitAddresses(o) ==
    /\ pc = "implicit_aaaa" /\ Lookup(o) /\ Blame("mx", o)
    /\ LET err == AddressError(o) IN
       IF IsTemporary(err)
       THEN FailAtOnce("mx", err, "spf")
       ELSE Return("mx", "nil", "spf") /\ UNCHANGED findings

-----------------------------------------------------------------------------
\* spf.Analyzer.Analyze
SpfRecord(o) ==
    /\ pc = "spf" /\ SpfLookup(o) /\ Blame("spf", o)
    /\ \/ Bad(o) /\ FailAtOnce("spf", o, "dmarc")
       \/ ~Bad(o) /\ Return("spf", "nil", "dmarc") /\ UNCHANGED findings
       \/ o = "nil" /\ Items("spf_terms")

\* follow: the error that fetchRecord returns quotes the lookup's error, and
\* wraps none (KindOf gives 0).
SpfTarget(o) ==
    /\ pc = "spf_terms" /\ left > 0
    /\ SpfLookup(o) /\ Blame("spf", o)
    /\ IF Bad(o)
       THEN Find("incomplete", o) /\ NextItem("spf_terms", FoldError(result, "other"))
       ELSE NextItem("spf_terms", result) /\ UNCHANGED findings

\* isVoid: the lookup of an a, mx or exists term; Analyze returns no error for
\* them. One of an exists term that fails counts as void and leaves no finding.
SpfVoid(o, exists) ==
    /\ pc = "spf_terms" /\ left > 0
    /\ SpfLookup(o) /\ UNCHANGED trouble
    /\ IF IsTemporary(o) /\ ~exists THEN Find("incomplete", o) ELSE UNCHANGED findings
    /\ NextItem("spf_terms", result)

\* dmarc.Assess and Discover: the domain, then its organizational domain.
DmarcRecord(o) ==
    /\ pc \in {"dmarc", "dmarc_org"} /\ Lookup(o) /\ Blame("dmarc", o)
    /\ \/ Bad(o) /\ FailAtOnce("dmarc", o, "dkim")
       \/ ~Bad(o) /\ Return("dmarc", "nil", "dkim") /\ UNCHANGED findings
       \/ ~Bad(o) /\ pc = "dmarc" /\ Goto("dmarc_org")
       \/ o = "nil" /\ Items("dmarc_reports")

\* dkim.Assess: the selectors, given or guessed.
Selectors ==
    /\ pc = "dkim" /\ Items("dkim_keys")
    /\ UNCHANGED <<trouble, lookupVars, fetchVars, flagVars, endVars, ctx>>

Comp == CASE pc = "mx_hosts" -> "mx" [] pc = "spf_terms" -> "spf"
          [] pc = "dmarc_reports" -> "dmarc" [] pc = "dkim_keys" -> "dkim"

\* checkExternalDestinations, assessSelector
ListedLookup(o) ==
    /\ pc \in {"dmarc_reports", "dkim_keys"} /\ left > 0
    /\ Lookup(o) /\ Blame(Comp, o)
    /\ IF Bad(o) THEN Find("lookup_failed", o) ELSE UNCHANGED findings
    /\ NextItem(pc, FoldError(result, o))

\* An assessment that went through a list returns the error it kept.
\* Domain goes on to the next; MTA-STS is not for a domain with a null MX.
EndOfList ==
    /\ pc \in {"mx_hosts", "spf_terms", "dmarc_reports", "dkim_keys"} /\ left = 0
    /\ Return(Comp, result, CASE Comp = "mx" -> "spf" [] Comp = "spf" -> "dmarc"
                              [] Comp = "dmarc" -> "dkim"
                              [] Comp = "dkim" -> IF nullMX THEN "tlsrpt" ELSE "sts")
    /\ UNCHANGED <<findings, trouble, lookupVars, fetchVars, flagVars, endVars, ctx>>

-----------------------------------------------------------------------------
\* mtasts.Assess. Without a record, a policy is looked for if its host exists;
\* then no failure matters.
StsRecord(o) ==
    /\ pc = "sts" /\ Lookup(o) /\ Blame("sts", o)
    /\ \/ Bad(o) /\ FailAtOnce("sts", o, "tlsrpt")
       \/ ~Bad(o) /\ Goto("sts_a")                  \* no record
       \/ o = "nil" /\ Goto("tlsrpt")               \* unusable
       \/ o = "nil" /\ Goto("fetch")

StsHost(o) ==
    /\ \/ pc = "sts_a" /\ pc' = "sts_aaaa" /\ held' = o
       \/ /\ pc = "sts_aaaa" /\ held' = "nil"
          /\ pc' = "tlsrpt" \/ (pc' = "fetch" /\ "nil" \in {held, o})
    /\ Ask(o) /\ orphan' = TRUE
    /\ UNCHANGED <<left, result, nullMX, findings, errors, trouble, spfSent, dialer, dialErr,
                   flagVars, endVars, ctx>>

\* HTTPFetcher.Fetch: the transport dials in a goroutine of its own.
Fetch ==
    /\ pc = "fetch" /\ Goto("fetching")
    /\ dialer' = "a"
    /\ UNCHANGED <<dialErr, orphan, trouble, lookupVars, flagVars, endVars, ctx>>

\* resolve. NoRecords: the error for a host without A and AAAA records is no
\* *dnsresolver.Error.
NoRecords == "other"
Dial(o) ==
    /\ pc # "exit" /\ Ask(o)
    /\ \/ dialer = "a" /\ dialer' = "aaaa" /\ dialErr' = o
       \/ /\ dialer = "aaaa"
          /\ \/ "nil" \in {o, dialErr} /\ dialer' = "connect" /\ UNCHANGED dialErr
             \/ /\ dialer' = "failed"
                /\ dialErr' = IF dialErr # "nil" THEN dialErr
                              ELSE IF o # "nil" THEN o ELSE NoRecords
    /\ UNCHANGED <<spfSent, orphan, checkVars, flagVars, endVars, ctx>>

\* client.Do returns the dialer's error, ...
FetchUnresolved ==
    /\ pc = "fetching" /\ dialer = "failed"
    /\ IF orphan THEN UNCHANGED trouble
       ELSE trouble' = IF dialErr = "Temporary" THEN trouble \cup {"sts"} ELSE trouble
    /\ \/ orphan /\ Goto("tlsrpt")
       \/ ~orphan /\ IsInfrastructure(dialErr) /\ FailAtOnce("sts", dialErr, "tlsrpt")
       \/ /\ ~orphan /\ ~IsInfrastructure(dialErr)
          /\ Find("sts_failed", dialErr) /\ Return("sts", "nil", "tlsrpt")
    /\ UNCHANGED <<lookupVars, fetchVars, flagVars, endVars, ctx>>

\* ... what became of the connection, or nothing in time: then the dialer is
\* abandoned, and goes on by itself.
FetchResponse ==
    /\ pc = "fetching"
    /\ \/ Goto("tlsrpt") /\ dialer = "connect"
       \/ ~orphan /\ Find("sts_failed", "nil") /\ Return("sts", "nil", "tlsrpt")
       \/ orphan /\ Goto("tlsrpt")
    /\ UNCHANGED <<trouble, lookupVars, fetchVars, flagVars, endVars, ctx>>

\* tlsrpt.Assess
TlsRecord(o) ==
    /\ pc = "tlsrpt" /\ Lookup(o) /\ Blame("tlsrpt", o)
    /\ \/ Bad(o) /\ FailAtOnce("tlsrpt", o, "finish")
       \/ ~Bad(o) /\ Return("tlsrpt", "nil", "finish") /\ UNCHANGED findings

-----------------------------------------------------------------------------
\* analyzer.Message: the input, read through a contextReader if it is stdin.
ReadMessage ==
    /\ pc = "read" /\ pc' \in {"finish", "keys"}
    /\ IF pc' = "finish"
       THEN scanErr' = TRUE /\ errors' = errors \cup {"input"} /\ left' = 0
       ELSE UNCHANGED <<scanErr, errors>> /\ left' \in 0..MaxItems
    /\ UNCHANGED <<held, result, nullMX, findings, trouble, written, code, lookupVars,
                   fetchVars, flagVars, ctx>>

\* Mutant: the reader waits for its input only.
ReadAbandonedNever == FALSE
ReadAbandoned ==
    /\ pc = "read" /\ cmd = "stdin" /\ ctx # "live"
    /\ pc' = "finish" /\ scanErr' = TRUE /\ errors' = errors \cup {"input"}
    /\ UNCHANGED <<left, held, result, nullMX, findings, trouble, written, code, lookupVars,
                   fetchVars, flagVars, ctx>>

\* A check of a message: it reports every temperror, whatever caused it.
TempError(comp, o) ==
    errors' = IF IsTemporary(o) THEN errors \cup {comp} ELSE errors

\* dkim.VerifyMessage: the keys of the signatures.
MessageKey(o) ==
    /\ pc = "keys" /\ left > 0 /\ left' = left - 1
    /\ Lookup(o) /\ Blame("dkim", o) /\ TempError("dkim", o)
    /\ UNCHANGED <<pc, held, result, nullMX, findings>>

\* Checker.CheckMessage: the lookups of both evaluations (see SpfCheckHost);
\* a failure may also be one that check_host() ignores.
MessageSpf(o) ==
    /\ pc = "check_host" /\ left > 0 /\ left' = left - 1
    /\ SpfLookup(o)
    /\ \/ Blame("spf", o) /\ TempError("spf", o)
       \/ UNCHANGED <<trouble, errors>>
    /\ UNCHANGED <<pc, held, result, nullMX, findings>>

NextMessageCheck ==
    /\ left = 0
    /\ \/ pc = "keys" /\ Items("check_host")
       \/ pc = "check_host" /\ Goto("policy")
       \/ pc = "check_host" /\ Goto("finish")           \* no usable From domain
    /\ UNCHANGED <<trouble, lookupVars, fetchVars, flagVars, endVars, ctx>>

\* dmarc.EvaluateMessage: discovery, then a decision that is temperror only if
\* an aligned identifier's check was.
MessagePolicy(o) ==
    /\ pc \in {"policy", "policy_org"} /\ Lookup(o) /\ Blame("dmarc", o)
    /\ \/ TempError("dmarc", o) /\ pc' = "finish"
       \/ ~Bad(o) /\ pc = "policy" /\ pc' = "policy_org" /\ UNCHANGED errors
       \/ /\ ~Bad(o) /\ errors \cap {"spf", "dkim"} # {}
          /\ errors' = errors \cup {"dmarc"} /\ pc' = "finish"
    /\ UNCHANGED <<left, held, result, nullMX, findings>>

-----------------------------------------------------------------------------
\* session.finish: one finding stands for all lookups the Budget rejected.
KeptFindings == {f \in findings : ~(f.id = "lookup_failed" /\ f.err = "Budget")}

\* Mutants: a Budget that is used up counts as exhausted; only the deadline shows.
SummaryOfSent == IF sent >= QueryBudget THEN {[id |-> "budget", err |-> "Budget"]} ELSE {}
ScanErrorsOfDeadline == IF ctx = "deadline" THEN {"scan"} ELSE {}

Summary == IF exhausted THEN {[id |-> "budget", err |-> "Budget"]} ELSE {}
ScanErrors == IF ctx # "live" THEN {"scan"} ELSE {}

Finish ==
    /\ pc = "finish" /\ pc' = "cli"
    /\ findings' = (IF exhausted THEN KeptFindings ELSE findings) \cup Summary
    /\ errors' = errors \cup ScanErrors
    /\ UNCHANGED <<left, held, result, nullMX, trouble, lookupVars, fetchVars, flagVars,
                   endVars, ctx>>

\* App.finish writes the report unless it is text about an unusable input ...
Writes == out = "json" \/ (out = "text" /\ ~scanErr)

\* ... and the outcome gives the exit code. Other findings may reach the
\* threshold too.
ExitCodes ==
    IF scanErr THEN {3}
    ELSE IF errors \ {"input"} # {} THEN {4}
    ELSE IF failOn = 0 THEN {0}
    ELSE IF \E f \in findings : Severity(f.id) >= failOn THEN {1}
    ELSE {0, 1}

Exit(c) ==
    /\ pc' = "exit" /\ code' = c
    /\ UNCHANGED <<left, held, result, nullMX, findings, errors, trouble, scanErr, lookupVars,
                   fetchVars, flagVars, ctx>>
Cli ==
    /\ pc = "cli"
    /\ \/ written' = Writes /\ \E c \in ExitCodes : Exit(c)
       \/ Writes /\ UNCHANGED written /\ Exit(5)        \* writing failed

\* Execute recovers a panic of the main goroutine.
Panic == pc # "exit" /\ UNCHANGED written /\ Exit(5)

\* --timeout expires, or the first Ctrl-C is pressed.
Expire == ctx = "live" /\ pc # "exit" /\ ctx' = "deadline"
          /\ UNCHANGED <<checkVars, lookupVars, fetchVars, flagVars, endVars>>
Interrupt == ctx = "live" /\ pc # "exit" /\ ctx' = "interrupted"
             /\ UNCHANGED <<checkVars, lookupVars, fetchVars, flagVars, endVars>>

DomainStep ==
    \/ \E o \in Results :
          \/ MXRecords(o) \/ MXHost(o) \/ FirstAddress(o) \/ HostAddresses(o)
          \/ ImplicitAddresses(o)
          \/ SpfRecord(o) \/ SpfTarget(o) \/ \E exists \in BOOLEAN : SpfVoid(o, exists)
          \/ DmarcRecord(o) \/ ListedLookup(o)
          \/ StsRecord(o) \/ StsHost(o) \/ TlsRecord(o)
    \/ Selectors \/ EndOfList \/ Fetch \/ FetchUnresolved \/ FetchResponse

MessageStep ==
    \/ \E o \in Results : MessageKey(o) \/ MessageSpf(o) \/ MessagePolicy(o)
    \/ NextMessageCheck \/ ReadAbandoned

Proceed == DomainStep \/ MessageStep \/ Finish \/ Cli

Next ==
    \/ Proceed \/ ReadMessage \/ Panic
    \/ \E o \in Results : Dial(o)
    \/ Expire \/ Interrupt

Spec == Init /\ [][Next]_vars

\* Every lookup and the fetch end by their own timeouts, and the deadline
\* comes; that the input ever ends, or a dialer ever returns, is not assumed.
FairSpec == Spec /\ WF_vars(Proceed) /\ WF_vars(Expire)
-----------------------------------------------------------------------------
Components == {"mx", "spf", "dmarc", "dkim", "sts", "tlsrpt"}
Reported == pc = "cli" \/ (pc = "exit" /\ code # 5)

TypeOK ==
    /\ pc \in {"mx", "implicit_a", "implicit_aaaa", "mx_hosts", "host_a", "host_aaaa", "spf",
              "spf_terms", "dmarc", "dmarc_org", "dmarc_reports", "dkim", "dkim_keys", "sts",
              "sts_a", "sts_aaaa", "fetch", "fetching", "tlsrpt", "read", "keys", "check_host",
              "policy", "policy_org", "finish", "cli", "exit"}
    /\ left \in 0..MaxItems /\ held \in Results /\ result \in Results \cup {"other"}
    /\ nullMX \in BOOLEAN /\ ctx \in {"live", "deadline", "interrupted"}
    /\ sent \in 0..QueryBudget /\ exhausted \in BOOLEAN /\ spfSent \in 0..SpfQueryBudget
    /\ dialer \in {"idle", "a", "aaaa", "connect", "failed"} /\ orphan \in BOOLEAN
    /\ dialErr \in Results \cup {"other"}
    /\ findings \subseteq [id : {"lookup_failed", "incomplete", "sts_failed", "budget"},
                          err : Results \cup {"other"}]
    /\ errors \subseteq Components \cup {"scan", "input"} /\ trouble \subseteq Components
    /\ scanErr \in BOOLEAN /\ written \in BOOLEAN /\ code \in 0..5

\* "4: DNS or network failures made the result unreliable": a failed lookup
\* that an assessment depends on is never lost on the way to the exit code, by
\* being overwritten with a rejected one, an absent name or a later success.
FailuresExit == pc = "exit" /\ trouble # {} => code \in {4, 5}

\* "Budget exhaustion is reported once as a finding instead": without a failed
\* lookup these assessments of a domain record no DNS error ...
ErrorsAreReal ==
    cmd = "domain" => errors \cap {"mx", "dmarc", "dkim", "tlsrpt"} \subseteq trouble

\* ... but the SPF assessment does (a finding: see README).
SpfErrorsAreReal == cmd = "domain" /\ "spf" \in errors => "spf" \in trouble

\* "budget rejections are [...] summarised in one finding": no rejected lookup
\* is left as a failed one in a report, the summary is there whenever a
\* rejection of the scan's Budget left a finding, and never without rejection.
RejectionsSummarised ==
    Reported =>
        /\ \A f \in findings : f.err = "Budget" => f.id # "lookup_failed"
        /\ (\E f \in findings : f.id = "budget") => exhausted
        /\ (\E f \in findings : f.err = "Budget") /\ spfSent < SpfQueryBudget =>
              \E f \in findings : f.id = "budget"

\* Ctrl-C or the deadline at any moment before the report is finished shows in
\* the exit code, although checks may have ignored the lookups it made fail.
InterruptionShows ==
    [](ctx # "live" /\ pc \notin {"cli", "exit"} => [](pc = "exit" => code \in {3, 4, 5}))

\* "--timeout: Deadline for the whole scan, including reading standard input".
ScanEnds == cmd # "file" ~> pc = "exit"
=============================================================================
