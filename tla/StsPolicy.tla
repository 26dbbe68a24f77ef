----------------------------- MODULE StsPolicy -----------------------------
(***************************************************************************)
(* mtasts.Assess: the _mta-sts record of a domain, the retrieval of its    *)
(* policy over HTTPS, the policy read line by line, and its patterns       *)
(* compared with the domain's mail hosts.  Host names and patterns are     *)
(* sequences of labels; how a name is spelled is not modelled.             *)
(***************************************************************************)
EXTENDS Naturals, Sequences, DnsErrors

CONSTANTS
    Labels,         \* the labels names consist of
    MailHosts,      \* sets of names of mail hosts; <<>> is the root, of a null MX
    Patterns,       \* patterns that a policy may list, well-formed or not
    Star,           \* the label *
    MaxAges,        \* values of max_age
    MaxMaxAge,      \* the largest that is valid
    Day,            \* what less than is short
    MaxFields,      \* bound: fields of a record after its version
    MaxLines        \* bound: lines of a policy

StsModes == {"enforce", "testing", "none"}

\* Two of the keys a policy may have besides; each may come once.
UnknownKeys == {"unknown", "other"}

\* A line of a policy; "bad" is every value that is none of the known ones,
\* and of max_age one that is no number.
Lines ==
    [key : {"version"}, known : BOOLEAN]
    \cup [key : {"mode"}, mode : StsModes \cup {"bad"}]
    \cup [key : {"max_age"}, number : BOOLEAN, age : MaxAges]
    \cup [key : {"mx"}, pattern : Patterns]
    \cup [key : UnknownKeys]

ASSUME StsAssumption ==
    /\ MaxAges \subseteq Nat /\ MaxMaxAge \in Nat /\ Day \in 1..MaxMaxAge
    /\ MaxFields \in Nat /\ MaxLines \in Nat
    /\ Patterns \cup UNION MailHosts \subseteq Seq(Labels)
    /\ \A h \in UNION MailHosts : \A i \in DOMAIN h : h[i] # Star

VARIABLES
    mxHosts,    \* Options.MXHosts, and whether there is a Fetcher
    fetching,
    stsStep,    \* "record", "orphan", "resolve", "fetch", "lines", "assess", "done"
    lines,      \* history: the lines read
    keys,       \* seen
    policy,     \* Policy
    response,   \* what matters of the Response and its certificate
    stsFound,   \* the rules of Assessment.Findings
    stsErr      \* the error Assess returns, "nil" for none

policyVars == <<lines, keys, policy>>
stsVars == <<mxHosts, fetching, stsStep, policyVars, response, stsFound, stsErr>>

NoResponse == [expiring |-> FALSE, textPlain |-> FALSE]
NoPolicyYet == [version |-> FALSE, mode |-> "bad", aged |-> FALSE, maxAge |-> 0, mx |-> {}]

StsInit ==
    /\ mxHosts \in MailHosts /\ fetching \in BOOLEAN
    /\ stsStep = "record"
    /\ lines = <<>> /\ keys = {} /\ policy = NoPolicyYet
    /\ response = NoResponse
    /\ stsFound = {} /\ stsErr = "nil"

StsRule(condition, rule) == IF condition THEN {rule} ELSE {}

\* Assess ends, with one more finding and an error.
StsReturns(rule, err) ==
    /\ stsStep' = "done"
    /\ stsFound' = stsFound \cup {rule} /\ stsErr' = err
    /\ UNCHANGED <<mxHosts, fetching>>

StsGoesOn(to) == stsStep' = to /\ UNCHANGED <<mxHosts, fetching, stsErr>>

-----------------------------------------------------------------------------
(* The record                                                              *)

StsRecordFails(err) ==
    /\ stsStep = "record" /\ err # "nil" /\ ~IsNXDomain(err)
    /\ StsReturns("DNSLookupFailed", err)
    /\ UNCHANGED <<policyVars, response>>

NoStsRecord ==
    /\ stsStep = "record" /\ StsGoesOn("orphan")
    /\ UNCHANGED <<policyVars, response, stsFound>>

\* A policy nobody asks for, if its host exists and the retrieval succeeds.
Orphan(exists, served) ==
    /\ stsStep = "orphan"
    /\ StsReturns(IF exists /\ fetching /\ served THEN "MTASTSPolicyWithoutRecord"
                                                  ELSE "MTASTSMissing", "nil")
    /\ UNCHANGED <<policyVars, response>>

SeveralStsRecords ==
    /\ stsStep = "record" /\ StsReturns("MTASTSInvalidRecord", "nil")
    /\ UNCHANGED <<policyVars, response>>

\* ParseRecord: the fields after the version. "=" is a field without a name
\* or a value, "v" the version again; two extensions stand for any.
Fields == [name : {"id"}, valid : BOOLEAN] \cup [name : {"v", "ext", "other", "="}]
ParseRecord(fields) ==
    /\ \A i \in DOMAIN fields :
         /\ fields[i].name \notin {"=", "v"}
         /\ \A j \in 1..i - 1 : fields[j].name # fields[i].name
         /\ fields[i].name = "id" => fields[i].valid
    /\ \E i \in DOMAIN fields : fields[i].name = "id"

OneStsRecord(fields) ==
    /\ stsStep = "record"
    /\ \/ ~ParseRecord(fields) /\ StsReturns("MTASTSInvalidRecord", "nil")
       \/ /\ ParseRecord(fields)
          /\ StsGoesOn(IF fetching THEN "resolve" ELSE "done")
          /\ UNCHANGED stsFound
    /\ UNCHANGED <<policyVars, response>>

-----------------------------------------------------------------------------
(* HTTPFetcher.Fetch                                                       *)

\* resolve: the addresses of the policy host. One family suffices; only public
\* addresses are dialled. That there is none is no *dnsresolver.Error.
Resolve(err4, err6, addrs) ==
    /\ stsStep = "resolve"
    /\ addrs # {} => "nil" \in {err4, err6}
    /\ LET err == IF err4 # "nil" THEN err4 ELSE IF err6 # "nil" THEN err6 ELSE "other"
       IN  \/ /\ addrs = {} /\ IsInfrastructure(err)
              /\ StsReturns("DNSLookupFailed", err)
           \/ /\ addrs = {} /\ ~IsInfrastructure(err)
              /\ StsReturns("MTASTSFetchFailed", "nil")
           \/ addrs = {"private"} /\ StsReturns("MTASTSFetchFailed", "nil")
           \/ "public" \in addrs /\ StsGoesOn("fetch") /\ UNCHANGED stsFound
    /\ UNCHANGED <<policyVars, response>>

\* What can go wrong then, and the rule for it. Only a failure to connect
\* leaves no certificate to look at.
FetchFailures == [
    connect |-> "MTASTSFetchFailed", certificate |-> "MTASTSCertificate",
    redirect |-> "MTASTSRedirect", status |-> "MTASTSFetchFailed",
    body |-> "MTASTSFetchFailed", size |-> "MTASTSPolicyTooLarge"]

Expiring(expiring) == StsRule(expiring, "MTASTSCertExpiring")

RetrievalFails(kind, expiring) ==
    /\ stsStep = "fetch" /\ (kind = "connect" => ~expiring)
    /\ stsStep' = "done"
    /\ stsFound' = stsFound \cup Expiring(expiring) \cup {FetchFailures[kind]}
    /\ response' = [response EXCEPT !.expiring = expiring]
    /\ UNCHANGED <<mxHosts, fetching, policyVars, stsErr>>

Fetched(expiring, textPlain) ==
    /\ stsStep = "fetch" /\ StsGoesOn("lines")
    /\ response' = [expiring |-> expiring, textPlain |-> textPlain]
    /\ stsFound' = stsFound \cup Expiring(expiring)
                            \cup StsRule(~textPlain, "MTASTSContentType")
    /\ UNCHANGED policyVars

-----------------------------------------------------------------------------
(* ParsePolicy                                                             *)

\* validMXPattern: one * at most, leftmost, before a name of two labels.
ValidMXPattern(pattern) ==
    LET name == IF pattern # <<>> /\ Head(pattern) = Star THEN Tail(pattern) ELSE pattern
    IN  Len(name) >= 2 /\ \A i \in DOMAIN name : name[i] # Star

\* A line that ParsePolicy accepts: its key is new, or mx, and its value valid.
Accepted(l) ==
    /\ l.key \in keys => l.key = "mx"
    /\ l.key = "max_age" => l.number /\ l.age <= MaxMaxAge
    /\ l.key = "mx" => ValidMXPattern(l.pattern)

InvalidPolicy ==
    /\ StsReturns("MTASTSInvalidPolicy", "nil")
    /\ UNCHANGED response

ReadLine(l) ==
    /\ stsStep = "lines" /\ Len(lines) < MaxLines
    /\ lines' = Append(lines, l)
    /\ \/ ~Accepted(l) /\ InvalidPolicy /\ UNCHANGED <<keys, policy>>
       \/ /\ Accepted(l) /\ UNCHANGED <<mxHosts, fetching, stsStep, stsFound, stsErr, response>>
          /\ keys' = keys \cup {l.key}
          /\ policy' =
               CASE l.key = "version" -> [policy EXCEPT !.version = l.known]
                 [] l.key = "mode" -> [policy EXCEPT !.mode = l.mode]
                 [] l.key = "max_age" -> [policy EXCEPT !.aged = TRUE, !.maxAge = l.age]
                 [] l.key = "mx" -> [policy EXCEPT !.mx = @ \cup {l.pattern}]
                 [] OTHER -> policy

\* A line without a colon.
MalformedLine == stsStep = "lines" /\ InvalidPolicy /\ UNCHANGED policyVars

PolicyComplete ==
    /\ policy.version /\ policy.mode # "bad" /\ policy.aged
    /\ policy.mode # "none" => policy.mx # {}

EndOfPolicy(lfOnly) ==
    /\ stsStep = "lines"
    /\ \/ ~PolicyComplete /\ InvalidPolicy
       \/ /\ PolicyComplete /\ StsGoesOn("assess")
          /\ stsFound' = stsFound \cup StsRule(lfOnly, "MTASTSLineEndings")
          /\ UNCHANGED response
    /\ UNCHANGED policyVars

-----------------------------------------------------------------------------
(* The policy assessed                                                     *)

\* Mutant: a wildcard stands for any number of labels.
MatchesSuffix(pattern, host) ==
    IF Head(pattern) = Star
      THEN \E i \in 1..Len(host) : SubSeq(host, i, Len(host)) = Tail(pattern)
      ELSE host = pattern
\* A wildcard stands for the leftmost label.
Matches(pattern, host) ==
    IF Head(pattern) = Star
      THEN host # <<>> /\ Tail(host) = Tail(pattern)
      ELSE host = pattern

Covers(host) == \E pattern \in policy.mx : Matches(pattern, host)

\* findings/catalog.go: 1 is pass, 6 critical; a mismatch is less severe in
\* testing mode.
StsSeverity == [
    DNSLookupFailed |-> 5, MTASTSMissing |-> 3, MTASTSInvalidRecord |-> 5,
    MTASTSFetchFailed |-> 5, MTASTSCertificate |-> 5, MTASTSRedirect |-> 5,
    MTASTSContentType |-> 4, MTASTSInvalidPolicy |-> 5, MTASTSTesting |-> 3,
    MTASTSModeNone |-> 4, MTASTSShortMaxAge |-> 3, MTASTSMXMismatch |-> 5,
    MTASTSCertExpiring |-> 3, MTASTSPolicyWithoutRecord |-> 4, MTASTSValid |-> 1,
    MTASTSLineEndings |-> 2, MTASTSPolicyTooLarge |-> 4]
AtMostInfo(rules) == \A rule \in rules : StsSeverity[rule] <= 2

AssessPolicy ==
    /\ stsStep = "assess" /\ StsGoesOn("done")
    /\ LET known == stsFound
             \cup StsRule(policy.mode = "testing", "MTASTSTesting")
             \cup StsRule(policy.mode = "none", "MTASTSModeNone")
             \cup StsRule(policy.maxAge < Day /\ policy.mode # "none", "MTASTSShortMaxAge")
             \cup StsRule(/\ \E h \in mxHosts \ {<<>>} : ~Covers(h)
                          /\ policy.mode # "none", "MTASTSMXMismatch")
       IN  stsFound' = known \cup
             StsRule(AtMostInfo(known) /\ policy.mode = "enforce", "MTASTSValid")
    /\ UNCHANGED <<policyVars, response>>

-----------------------------------------------------------------------------
StsNext ==
    \/ \E err \in Errs : StsRecordFails(err)
    \/ NoStsRecord
    \/ \E exists, served \in BOOLEAN : Orphan(exists, served)
    \/ SeveralStsRecords
    \/ \E n \in 0..MaxFields : \E fields \in [1..n -> Fields] : OneStsRecord(fields)
    \/ \E err4, err6 \in Errs, addrs \in SUBSET {"public", "private"} : Resolve(err4, err6, addrs)
    \/ \E kind \in DOMAIN FetchFailures, expiring \in BOOLEAN : RetrievalFails(kind, expiring)
    \/ \E expiring, textPlain \in BOOLEAN : Fetched(expiring, textPlain)
    \/ \E l \in Lines : ReadLine(l)
    \/ MalformedLine
    \/ \E lfOnly \in BOOLEAN : EndOfPolicy(lfOnly)
    \/ AssessPolicy

StsSpec == StsInit /\ [][StsNext]_stsVars

-----------------------------------------------------------------------------
StsTypeOK ==
    /\ mxHosts \in MailHosts /\ fetching \in BOOLEAN
    /\ stsStep \in {"record", "orphan", "resolve", "fetch", "lines", "assess", "done"}
    /\ lines \in Seq(Lines) /\ Len(lines) <= MaxLines
    /\ keys \subseteq {"version", "mode", "max_age", "mx"} \cup UnknownKeys
    /\ policy \in [version : BOOLEAN, mode : StsModes \cup {"bad"}, aged : BOOLEAN,
                   maxAge : MaxAges \cup {0}, mx : SUBSET Patterns]
    /\ response \in [expiring : BOOLEAN, textPlain : BOOLEAN]
    /\ stsFound \subseteq DOMAIN StsSeverity /\ stsErr \in Errs

LinesOf(key) == {i \in DOMAIN lines : lines[i].key = key}

\* A pattern names a host: label by label, * being any one label.
Names(pattern, host) ==
    /\ Len(pattern) = Len(host)
    /\ \A i \in DOMAIN host : pattern[i] = host[i] \/ (i = 1 /\ pattern[i] = Star)

\* "MTA-STS is enforced" is a pass: a sender that follows the policy, which it
\* can retrieve and read, delivers to each of the domain's mail hosts, for a day
\* at least and to none without TLS. An enforced policy that would make senders
\* refuse one of them is never passed over.
ValidMeansCovered ==
    /\ "MTASTSValid" \in stsFound =>
         /\ fetching /\ response.textPlain /\ ~response.expiring
         /\ \A h \in mxHosts \ {<<>>} : \E i \in LinesOf("mx") : Names(lines[i].pattern, h)
         /\ \E i \in LinesOf("mode") : LinesOf("mode") = {i} /\ lines[i].mode = "enforce"
         /\ \E i \in LinesOf("max_age") :
              LinesOf("max_age") = {i} /\ lines[i].age \in Day..MaxMaxAge
    /\ stsStep = "done" /\ policy.mode = "enforce" /\ stsFound \cap
         {"MTASTSValid", "MTASTSInvalidPolicy", "MTASTSMXMismatch"} = {} =>
         \A h \in mxHosts \ {<<>>} : \E i \in LinesOf("mx") : Names(lines[i].pattern, h)
=============================================================================
