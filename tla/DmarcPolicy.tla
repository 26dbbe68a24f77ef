---------------------------- MODULE DmarcPolicy ----------------------------
(***************************************************************************)
(* From the TXT records of a domain to the DMARC policy that is applied    *)
(* and reported: dmarc.Discover, Parse, Assess and the policy that         *)
(* EvaluateMessage takes.  A record is read tag by tag; every tag is a     *)
(* choice, so every record of a length is covered.  Of the tags that cause *)
(* remarks only, ri stands for rf, np, psd and t too.                      *)
(***************************************************************************)
EXTENDS Naturals, Sequences, DnsErrors

CONSTANTS
    Org, Sub,       \* an organizational domain and a domain below it
    Outside,        \* domains of other organizations
    BadURI,         \* an entry of rua or ruf that is no usable URI
    Percentages,    \* values of pct; beyond 100 for all that is not valid
    MaxTags         \* bound: tags of a record

Policies == {"none", "quarantine", "reject"}
Modes == {"r", "s"}
Destinations == {Org} \cup Outside

\* "bad" is every value the tag does not allow.
Tags ==
    [name : {"p", "sp"}, policy : Policies \cup {"bad"}]
    \cup [name : {"pct"}, pct : Percentages]
    \cup [name : {"adkim", "aspf"}, mode : Modes \cup {"bad"}]
    \cup [name : {"rua", "ruf"}, uris : (SUBSET (Destinations \cup {BadURI})) \ {{}}]
    \cup [name : {"fo", "ri"}, valid : BOOLEAN]
    \cup [name : {"v", "unknown"}]

ASSUME PolicyAssumption ==
    /\ Org # Sub /\ {Org, Sub} \cap Outside = {}
    /\ BadURI \notin Destinations \cup {Sub}
    /\ Percentages \subseteq Nat /\ MaxTags \in Nat

VARIABLES
    subject,    \* the domain audited, or the author domain of a message
    step,       \* what is done next
    discovery,  \* "none", "several", "invalid", "usable", "failed"; "unknown" before
    policyDomain,   \* where the record was found
    tags,       \* history: the tags read of it
    seen,       \* seen
    record,     \* Record, with its defaults
    pValid, spInvalid,
    unchecked,  \* report destinations still to verify
    reportsErr, \* infraErr is set
    found,      \* the rules of Assessment.Findings
    authorized  \* history: destinations that proved to accept the reports

recordVars == <<tags, seen, record, pValid, spInvalid>>
reportVars == <<unchecked, reportsErr, authorized>>
dmarcVars == <<subject, step, discovery, policyDomain, recordVars, reportVars, found>>

\* The defaults; an absent p or sp is "unset".
Defaults == [policy |-> "unset", sp |-> "unset", pct |-> 100, adkim |-> "r", aspf |-> "r",
             rua |-> {}, ruf |-> {}, implied |-> FALSE]

DmarcInit ==
    /\ subject \in {Org, Sub}
    /\ step = "own"
    /\ discovery = "unknown" /\ policyDomain = subject
    /\ tags = <<>> /\ seen = {"v"} /\ record = Defaults
    /\ pValid = FALSE /\ spInvalid = FALSE
    /\ unchecked = {} /\ reportsErr = FALSE /\ authorized = {}
    /\ found = {}

Inherited == policyDomain # subject

-----------------------------------------------------------------------------
(* Discover and try: the domain, then its organizational domain            *)

Looking == step \in {"own", "org"}

Discovered(result, rule) ==
    /\ discovery' = result
    /\ found' = found \cup {rule}
    /\ step' = "done"
    /\ UNCHANGED <<subject, recordVars, reportVars>>

LookupFails(err) ==
    /\ Looking /\ err # "nil" /\ ~IsNXDomain(err)
    /\ Discovered("failed", "DNSLookupFailed")
    /\ UNCHANGED policyDomain

NoTXTRecord ==
    /\ Looking
    /\ IF step = "own" /\ subject # Org
         THEN /\ step' = "org" /\ policyDomain' = Org
              /\ UNCHANGED <<subject, discovery, recordVars, reportVars, found>>
         ELSE Discovered("none", "DMARCMissing") /\ UNCHANGED policyDomain

SeveralRecords ==
    /\ Looking
    /\ Discovered("several", "DMARCMultiple")
    /\ UNCHANGED policyDomain

OneRecord ==
    /\ Looking
    /\ step' = "tags"
    /\ UNCHANGED <<subject, discovery, policyDomain, recordVars, reportVars, found>>

-----------------------------------------------------------------------------
(* Parse                                                                   *)

Rule(condition, rule) == IF condition THEN {rule} ELSE {}

Reading(t) ==
    /\ step = "tags" /\ Len(tags) < MaxTags
    /\ tags' = Append(tags, t)
    /\ UNCHANGED <<subject, step, discovery, policyDomain, reportVars>>

\* Only the first occurrence of a tag is used.
First(t) == Reading(t) /\ t.name \notin seen /\ seen' = seen \cup {t.name}

RepeatedTag(t) ==
    /\ Reading(t) /\ t.name \in seen
    /\ found' = found \cup {"DMARCDuplicateTag"}
    /\ UNCHANGED <<seen, record, pValid, spInvalid>>

PolicyTag(t) ==
    /\ First(t) /\ t.name = "p"
    /\ IF t.policy \in Policies
         THEN /\ record' = [record EXCEPT !.policy = t.policy]
              /\ pValid' = TRUE
              /\ UNCHANGED found
         ELSE /\ found' = found \cup {"DMARCInvalidValue"}
              /\ UNCHANGED <<record, pValid>>
    /\ UNCHANGED spInvalid

SubdomainPolicyTag(t) ==
    /\ First(t) /\ t.name = "sp"
    /\ IF t.policy \in Policies
         THEN /\ record' = [record EXCEPT !.sp = t.policy]
              /\ UNCHANGED <<spInvalid, found>>
         ELSE /\ spInvalid' = TRUE
              /\ found' = found \cup {"DMARCInvalidValue"}
              /\ UNCHANGED record
    /\ UNCHANGED pValid

PercentTag(t) ==
    /\ First(t) /\ t.name = "pct"
    /\ record' = IF t.pct <= 100 THEN [record EXCEPT !.pct = t.pct] ELSE record
    /\ found' = found \cup Rule(t.pct > 100, "DMARCInvalidValue")
    /\ UNCHANGED <<pValid, spInvalid>>

ModeTag(t) ==
    /\ First(t) /\ t.name \in {"adkim", "aspf"}
    /\ record' = IF t.mode \notin Modes THEN record
                 ELSE IF t.name = "adkim" THEN [record EXCEPT !.adkim = t.mode]
                                          ELSE [record EXCEPT !.aspf = t.mode]
    /\ found' = found \cup Rule(t.mode \notin Modes, "DMARCInvalidValue")
    /\ UNCHANGED <<pValid, spInvalid>>

\* The entries that are usable are kept.
parseURIs(t) == t.uris \ {BadURI}

ReportTag(t) ==
    /\ First(t) /\ t.name \in {"rua", "ruf"}
    /\ record' = IF t.name = "rua" THEN [record EXCEPT !.rua = parseURIs(t)]
                                   ELSE [record EXCEPT !.ruf = parseURIs(t)]
    /\ found' = found \cup Rule(BadURI \in t.uris, "DMARCInvalidURI")
    /\ UNCHANGED <<pValid, spInvalid>>

OtherTag(t) ==
    /\ First(t) /\ t.name \in {"fo", "ri", "unknown"}
    /\ found' = found \cup (IF t.name = "unknown" THEN {"DMARCUnknownTag"}
                            ELSE Rule(~t.valid, "DMARCInvalidValue"))
    /\ UNCHANGED <<record, pValid, spInvalid>>

ReadTag(t) ==
    \/ RepeatedTag(t)
    \/ PolicyTag(t) \/ SubdomainPolicyTag(t) \/ PercentTag(t)
    \/ ModeTag(t) \/ ReportTag(t) \/ OtherTag(t)

\* Findings about single tags are only reported for a record that is used.
Unusable ==
    /\ discovery' = "invalid"
    /\ found' = {"DMARCInvalid"}
    /\ step' = "done"
    /\ UNCHANGED <<subject, policyDomain, recordVars, reportVars>>

\* A part of the record that is no tag=value.
MalformedTag == step = "tags" /\ Unusable

\* Mutant: an invalid sp does no harm to p.
NoPolicyWithoutP == ~pValid
\* p is missing or invalid, or sp is invalid.
NoPolicy == ~pValid \/ spInvalid

EndOfTags ==
    /\ step = "tags"
    /\ IF NoPolicy /\ record.rua = {}
         THEN Unusable
         ELSE /\ record' = IF NoPolicy
                             THEN [record EXCEPT !.policy = "none", !.sp = "unset", !.implied = TRUE]
                             ELSE record
              /\ discovery' = "usable"
              /\ step' = "assess"
              /\ UNCHANGED <<subject, policyDomain, tags, seen, pValid, spInvalid, reportVars, found>>

-----------------------------------------------------------------------------
(* Assess                                                                  *)

Strength == [p \in Policies |-> CASE p = "reject" -> 3 [] p = "quarantine" -> 2 [] OTHER -> 1]

EffectiveSubdomainPolicy == IF record.sp # "unset" THEN record.sp ELSE record.policy

\* The policy for the subject, the same in Assess and in EvaluateMessage.
Effective == IF Inherited THEN EffectiveSubdomainPolicy ELSE record.policy

\* Mutant: only an inherited policy is compared.
WeakSubdomainsIfInherited ==
    Inherited /\ record.sp # "unset" /\ Strength[record.sp] < Strength[record.policy]
WeakSubdomains ==
    ~Inherited /\ record.sp # "unset" /\ Strength[record.sp] < Strength[record.policy]

Assess ==
    /\ step = "assess"
    /\ found' = found
         \cup Rule(Inherited, "DMARCInherited")
         \cup Rule(record.implied, "DMARCInvalid")
         \cup Rule(Effective = "none", "DMARCPolicyNone")
         \cup Rule(Effective = "quarantine", "DMARCPolicyQuarantine")
         \cup Rule(record.pct < 100 /\ Effective # "none", "DMARCPartialPct")
         \cup Rule(WeakSubdomains, "DMARCWeakSubdomainPolicy")
         \cup Rule(record.rua = {}, "DMARCNoRUA")
         \cup Rule(record.ruf # {}, "DMARCRUF")
         \cup Rule(record.ruf = {} /\ "fo" \in seen, "DMARCFONoRUF")
         \cup Rule("s" \in {record.adkim, record.aspf}, "DMARCStrictAlignment")
    /\ unchecked' = (record.rua \cup record.ruf) \cap Outside
    /\ step' = "reports"
    /\ UNCHANGED <<subject, discovery, policyDomain, recordVars, reportsErr, authorized>>

\* checkExternalDestinations: d is asked once, whether or not it accepts.
CheckDestination(d, err, accepts) ==
    /\ step = "reports" /\ d \in unchecked
    /\ unchecked' = unchecked \ {d}
    /\ accepts => err = "nil"
    /\ IF err # "nil" /\ ~IsNXDomain(err)
         THEN /\ found' = found \cup {"DNSLookupFailed"}
              /\ reportsErr' = (reportsErr \/ IsInfrastructure(err))
              /\ UNCHANGED authorized
         ELSE /\ found' = found \cup Rule(~accepts, "DMARCExternalUnauthorized")
              /\ authorized' = authorized \cup Rule(accepts, d)
              /\ UNCHANGED reportsErr
    /\ UNCHANGED <<subject, step, discovery, policyDomain, recordVars>>

\* findings/catalog.go: 1 is pass, 6 critical.
DmarcSeverity == [
    DNSLookupFailed |-> 5, DMARCMissing |-> 5, DMARCMultiple |-> 5, DMARCInvalid |-> 4,
    DMARCPolicyNone |-> 4, DMARCPolicyQuarantine |-> 3, DMARCPartialPct |-> 4,
    DMARCWeakSubdomainPolicy |-> 4, DMARCNoRUA |-> 3, DMARCRUF |-> 2, DMARCInvalidValue |-> 4,
    DMARCDuplicateTag |-> 4, DMARCUnknownTag |-> 2, DMARCInvalidURI |-> 4,
    DMARCExternalUnauthorized |-> 4, DMARCInherited |-> 2, DMARCStrictAlignment |-> 2,
    DMARCEnforced |-> 1, DMARCFONoRUF |-> 2]
Info == 2

Conclude ==
    /\ step = "reports" /\ unchecked = {}
    /\ step' = "done"
    /\ found' = found \cup Rule(/\ ~reportsErr /\ Effective = "reject"
                                /\ \A rule \in found : DmarcSeverity[rule] <= Info,
                                "DMARCEnforced")
    /\ UNCHANGED <<subject, discovery, policyDomain, recordVars, reportVars>>

-----------------------------------------------------------------------------
DmarcNext ==
    \/ \E err \in Errs : LookupFails(err)
    \/ NoTXTRecord \/ SeveralRecords \/ OneRecord
    \/ \E t \in Tags : ReadTag(t)
    \/ MalformedTag \/ EndOfTags
    \/ Assess
    \/ \E d \in Outside, err \in Errs, accepts \in BOOLEAN : CheckDestination(d, err, accepts)
    \/ Conclude

DmarcSpec == DmarcInit /\ [][DmarcNext]_dmarcVars

-----------------------------------------------------------------------------
Record == [policy : Policies \cup {"unset"}, sp : Policies \cup {"unset"}, pct : 0..100,
           adkim : Modes, aspf : Modes, rua : SUBSET Destinations, ruf : SUBSET Destinations,
           implied : BOOLEAN]

DmarcTypeOK ==
    /\ subject \in {Org, Sub} /\ policyDomain \in {subject, Org}
    /\ step \in {"own", "org", "tags", "assess", "reports", "done"}
    /\ discovery \in {"unknown", "none", "several", "invalid", "usable", "failed"}
    /\ tags \in Seq(Tags) /\ Len(tags) <= MaxTags
    /\ record \in Record
    /\ pValid \in BOOLEAN /\ spInvalid \in BOOLEAN /\ reportsErr \in BOOLEAN
    /\ unchecked \subseteq Outside /\ authorized \subseteq Outside
    /\ found \subseteq DOMAIN DmarcSeverity

\* The occurrences of a tag that count, and whether one allows its value.
FirstOnes(name) ==
    {i \in DOMAIN tags : tags[i].name = name /\ \A j \in 1..i - 1 : tags[j].name # name}
Spoilt(name) == \E i \in FirstOnes(name) : tags[i].policy = "bad"

\* What is applied is what the text says, by its first occurrences: p and sp
\* unless one is spoilt or p is missing; then nothing is asked for, and only
\* if reports are. The other values are those given, or the defaults.
PolicyIsPublished ==
    discovery = "usable" =>
        /\ record.implied <=> FirstOnes("p") = {} \/ Spoilt("p") \/ Spoilt("sp")
        /\ record.implied => /\ record.policy = "none" /\ EffectiveSubdomainPolicy = "none"
                             /\ \E i \in FirstOnes("rua") : tags[i].uris # {BadURI}
        /\ ~record.implied =>
             /\ \A i \in FirstOnes("p") : record.policy = tags[i].policy
             /\ \A i \in FirstOnes("sp") : EffectiveSubdomainPolicy = tags[i].policy
             /\ FirstOnes("sp") = {} => EffectiveSubdomainPolicy = record.policy
        /\ record.pct = 100 \/ \E i \in FirstOnes("pct") : record.pct = tags[i].pct
        /\ \A i \in FirstOnes("pct") : tags[i].pct < 100 => record.pct = tags[i].pct
        /\ (record.adkim = "s") <=> (\E i \in FirstOnes("adkim") : tags[i].mode = "s")
        /\ (record.aspf = "s") <=> (\E i \in FirstOnes("aspf") : tags[i].mode = "s")

\* "DMARC policy is enforced": failing mail from the domain, and from every
\* subdomain that has no record of its own, is rejected and all of it; the
\* record says so without a doubt, and reports are sent to everyone named.
EnforcedIsEarned ==
    "DMARCEnforced" \in found =>
        /\ \A i \in DOMAIN tags : tags[i].name = "sp" => tags[i].policy = "reject"
        /\ \A i \in DOMAIN tags : tags[i].name = "p" =>
             tags[i].policy = "reject" \/ (Inherited /\ FirstOnes("sp") # {})
        /\ FirstOnes("p") # {}
        /\ \A i \in DOMAIN tags : tags[i].name = "pct" => tags[i].pct = 100
        /\ FirstOnes("rua") # {}
        /\ \A i \in DOMAIN tags : tags[i].name \in {"rua", "ruf"} =>
             tags[i].uris \subseteq {Org} \cup authorized
=============================================================================
