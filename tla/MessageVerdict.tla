--------------------------- MODULE MessageVerdict ---------------------------
(***************************************************************************)
(* The verdict on a message: dkim.VerifyMessage, spf.CheckMessage,         *)
(* dmarc.EvaluateMessage and authres.Compare, in the order in which        *)
(* analyzer.analyzeMessage runs them.                                      *)
(*                                                                         *)
(* A scan knows less than the receiver did: DNS may fail now, the body may *)
(* be missing, SMTP inputs may be unknown. Each identifier therefore has a *)
(* result (what the code computes) and a truth: whether it passes when     *)
(* everything is known. A definite result is the truth, an open one leaves *)
(* it free.                                                                *)
(***************************************************************************)
EXTENDS Naturals, Sequences, DnsErrors

CONSTANTS
    Domains,        \* domain names
    Org,            \* OrganizationalDomain, a function on Domains
    NoDomain,       \* the empty string
    Selectors,      \* DKIM selectors
    InitialInputs,  \* spf.MessageInputs that spfInputs may have put together
    MaxSignatures,
    MaxCount        \* bound: DKIM-Signature fields of a message

ASSUME VerdictAssumption ==
    /\ NoDomain \notin Domains
    /\ Org \in [Domains -> Domains]
    /\ \A d \in Domains : Org[Org[d]] = Org[d]
    /\ \A i \in InitialInputs :
          /\ i \in [ip : BOOLEAN, mailFrom : Domains \cup {NoDomain},
                   helo : Domains \cup {NoDomain}, nullSender : BOOLEAN]
          /\ i.nullSender => i.mailFrom = NoDomain
    /\ MaxSignatures \in Nat /\ MaxCount \in Nat

SomeDomain == Domains \cup {NoDomain}
Modes == {"r", "s"}

DkimResults == {"pass", "fail", "neutral", "temperror", "permerror"}
\* "fail" stands for every definite SPF result but "pass".
SpfResults == {"pass", "fail", "temperror"}
DmarcResults == {"pass", "fail", "none", "temperror", "permerror", "indeterminate"}

\* "unset" is the empty string: not evaluated, or not looked up yet.
Unset == "unset"

VARIABLES
    pc,
    body,       \* msg.BodyAvailable
    reported,   \* whether there is an Authentication-Results field to compare with
    from,       \* author domain, NoDomain if there is no single valid one
    inputs,     \* spf.MessageInputs: ip known, MAIL FROM, HELO, null sender
    count, next,    \* DKIM-Signature fields: how many, how many were dealt with
    keys,       \* keyLookup cache, per selector and domain
    dkim,       \* verified signatures in message order: domain, selector, result, truth
    skipped,    \* history: the signatures beyond MaxSignatures, which have no result
    spf,        \* MessageCheck.Result, .Domain; truth: domain that passes
    inherited,  \* Discovery.Inherited
    ownRecords, \* history: DMARC records at the author domain itself
    modes,      \* adkim, aspf of the usable record, if there is one
    dmarc,      \* MessageEvaluation.Result
    compared,   \* dkim results of the receiver that Compare has dealt with
    diffs,      \* what Compare holds against a receiver that told the truth
    unclear     \* history: one of its results may be taken for one about something else

msgVars == <<body, reported, from, inputs, count>>
dkimVars == <<next, keys, dkim, skipped>>
policyVars == <<inherited, ownRecords, modes>>
compareVars == <<compared, diffs, unclear>>
vars == <<pc, msgVars, dkimVars, spf, policyVars, dmarc, compareVars>>

KeyNames == Selectors \X Domains
\* No usable key: absent, invalid, revoked.
KeyStates == {"temperror", "none", "short", "usable"}
Signature == [domain : SomeDomain, sel : Selectors, result : DkimResults \cup {Unset}, truth : BOOLEAN]
Verified == {dkim[i] : i \in DOMAIN dkim}
LeftOut == {skipped[i] : i \in DOMAIN skipped}

Init ==
    /\ pc = "dkim"
    /\ body \in BOOLEAN /\ reported \in BOOLEAN
    /\ from \in SomeDomain
    /\ inputs \in InitialInputs
    /\ count \in 0..MaxCount /\ next = 0
    /\ keys = [k \in KeyNames |-> Unset]
    /\ dkim = <<>> /\ skipped = <<>>
    /\ spf = [result |-> Unset, domain |-> NoDomain, truth |-> NoDomain]
    /\ inherited = FALSE /\ ownRecords = 0 /\ modes = [adkim |-> Unset, aspf |-> Unset]
    /\ dmarc = Unset
    /\ compared = 0 /\ diffs = {} /\ unclear = FALSE

-----------------------------------------------------------------------------
Aligned(auth, f, mode) ==
    /\ auth # NoDomain /\ f # NoDomain
    /\ auth = f \/ (mode # "s" /\ Org[auth] = Org[f])

\* What an open result leaves to be the truth.
TruthOf(result) ==
    CASE result = "pass" -> {TRUE}
      [] result \in {"temperror", "neutral"} -> BOOLEAN
      [] OTHER -> {FALSE}

-----------------------------------------------------------------------------
\* dkim.verifyOne after the key was retrieved, in the order of its checks. A
\* key may be unsuitable for the signature: other type, hash, service or i=.
KeyVerdicts(key) ==
    CASE key = "temperror" -> {"temperror"}
      [] key = "none" -> {"permerror"}
      [] key = "short" -> {"permerror"} \cup (IF body THEN {"fail"} ELSE {})
      [] key = "usable" ->
           {"permerror",                                  \* unsuitable, sha1
            "fail",                                       \* body hash, signature
            IF body THEN "pass" ELSE "neutral"}

Conclude(d, s, result) ==
    /\ \E t \in TruthOf(result) :
          dkim' = Append(dkim, [domain |-> d, sel |-> s, result |-> result, truth |-> t])
    /\ next' = next + 1
    /\ UNCHANGED <<pc, skipped, msgVars, spf, policyVars, dmarc, compareVars>>

Verifying == pc = "dkim" /\ next < count /\ next < MaxSignatures

\* The field does not parse: no domain is known.
VerifyUnparsable(s) == Verifying /\ Conclude(NoDomain, s, "permerror") /\ UNCHANGED keys

\* Unsupported algorithm, or expired: no key is looked up.
VerifyUnusable(d, s) == Verifying /\ Conclude(d, s, "permerror") /\ UNCHANGED keys

\* Retrieval, cached per selector and domain within the message.
KeyOf(s, d, key) ==
    /\ keys[<<s, d>>] \in {Unset, key}
    /\ keys' = [keys EXCEPT ![<<s, d>>] = key]

Verify(d, s, key, result) ==
    /\ Verifying
    /\ KeyOf(s, d, key)
    /\ result \in KeyVerdicts(key)
    /\ Conclude(d, s, result)

\* VerifyMessage leaves out the signatures beyond MaxSignatures: a passing one
\* may be by any domain.
SkipSignature(d, s) ==
    /\ pc = "dkim" /\ next < count /\ next >= MaxSignatures
    /\ next' = next + 1
    /\ \E t \in BOOLEAN :
          /\ t => d # NoDomain
          /\ skipped' = Append(skipped, [domain |-> d, sel |-> s, result |-> Unset, truth |-> t])
    /\ UNCHANGED <<pc, keys, dkim, msgVars, spf, policyVars, dmarc, compareVars>>

\* The keys were VerifyMessage's own.
AllVerified ==
    /\ pc = "dkim" /\ next = count
    /\ pc' = "spf"
    /\ keys' = [k \in KeyNames |-> Unset]
    /\ UNCHANGED <<msgVars, next, dkim, skipped, spf, policyVars, dmarc, compareVars>>

-----------------------------------------------------------------------------

\* CheckMessage: the identity whose SPF result DMARC is given, if any. HELO
\* stands in for a null sender only.
Identity ==
    IF ~inputs.ip THEN NoDomain
    ELSE IF inputs.nullSender THEN inputs.helo
    ELSE inputs.mailFrom

CheckSpf(result) ==
    /\ pc = "spf" /\ Identity # NoDomain
    /\ \E t \in BOOLEAN :
          /\ t \in (IF result = "temperror" THEN BOOLEAN ELSE {result = "pass"})
          /\ spf' = [result |-> result, domain |-> Identity,
                     truth |-> IF t THEN Identity ELSE NoDomain]
    /\ pc' = "own"
    /\ UNCHANGED <<msgVars, dkimVars, policyVars, dmarc, compareVars>>

\* Whatever domain the sender really used may have passed.
SpfNotEvaluated(d) ==
    /\ pc = "spf" /\ Identity = NoDomain
    /\ spf' = [spf EXCEPT !.truth = d]
    /\ pc' = "own"
    /\ UNCHANGED <<msgVars, dkimVars, policyVars, dmarc, compareVars>>

-----------------------------------------------------------------------------
Decided(result) ==
    /\ dmarc' = result /\ pc' = "compare"
    /\ UNCHANGED <<msgVars, dkimVars, spf, compareVars>>

BadFrom ==
    /\ pc = "own" /\ from = NoDomain
    /\ Decided("permerror")
    /\ UNCHANGED policyVars

\* Discovery.try stops at a name with at least one DMARC record.
Found(n, usable) == n > 0

\* Discover at the author domain (own) or its organizational domain (org): the
\* lookup returns o and n DMARC records, usable if there is one and it parses.
Discover(o, n, usable, m) ==
    /\ \/ pc = "own" /\ from # NoDomain /\ ownRecords' = n
       \/ pc = "org" /\ UNCHANGED ownRecords
    /\ o # "nil" => n = 0
    /\ usable => n = 1
    /\ IF o # "nil" /\ ~IsNXDomain(o)
       THEN Decided("temperror") /\ UNCHANGED <<inherited, modes>>
       ELSE IF Found(n, usable)
       THEN /\ inherited' = (pc = "org")
            /\ IF usable
               THEN modes' = m /\ pc' = "decide"
                    /\ UNCHANGED <<msgVars, dkimVars, spf, dmarc, compareVars>>
               ELSE Decided("none") /\ UNCHANGED modes
       ELSE IF pc = "own" /\ Org[from] # from
       THEN pc' = "org" /\ UNCHANGED <<msgVars, dkimVars, spf, inherited, modes, dmarc, compareVars>>
       ELSE Decided("none") /\ UNCHANGED <<inherited, modes>>

\* Mutant: the domain is compared whatever its result.
SpfAlignedAlways == Aligned(spf.domain, from, modes.aspf)
SpfAligned == spf.result = "pass" /\ Aligned(spf.domain, from, modes.aspf)
DkimAligned(result) == \E v \in Verified : v.result = result /\ Aligned(v.domain, from, modes.adkim)

\* Mutant: any identifier's temporary failure counts.
TempUnaligned == spf.result = "temperror" \/ \E v \in Verified : v.result = "temperror"
\* Only identifiers that could align matter.
Temp ==
    \/ spf.result = "temperror" /\ Aligned(spf.domain, from, modes.aspf)
    \/ DkimAligned("temperror")

\* Mutant: SPF that was not evaluated counts as no pass.
IncompleteDkim == DkimAligned("neutral")
Incomplete == spf.result = Unset \/ DkimAligned("neutral")

Decide ==
    /\ pc = "decide"
    /\ Decided(IF SpfAligned \/ DkimAligned("pass") THEN "pass"
               ELSE IF Temp THEN "temperror"
               ELSE IF Incomplete THEN "indeterminate"
               ELSE "fail")
    /\ UNCHANGED policyVars

-----------------------------------------------------------------------------
\* What passes when everything is known.
Passes ==
    \/ Aligned(spf.truth, from, modes.aspf)
    \/ \E v \in Verified \cup LeftOut : v.truth /\ Aligned(v.domain, from, modes.adkim)

\* The Authentication-Results of a receiver that knew everything: spf for the
\* identity DMARC uses, dmarc, and dkim for each signature.
ClaimedSpf == IF spf.domain # NoDomain /\ spf.truth = spf.domain THEN "pass" ELSE "fail"
ClaimedDmarc ==
    IF dmarc \in {"none", "permerror"} THEN dmarc ELSE IF Passes THEN "pass" ELSE "fail"
ClaimedDkim(v) == IF v.result \in {"temperror", "neutral", Unset}
                  THEN IF v.truth THEN "pass" ELSE "fail"
                  ELSE v.result

\* How a dkim result names its signature: by header.b, of fewer than 8
\* characters or of more (alike: the verified signatures that begin so); or by
\* the domain of header.d or header.i, if any, with header.s or without.
Namings ==
    [by : {"short_b"}]
    \cup [by : {"b"}, alike : SUBSET {i \in DOMAIN dkim : dkim[i].domain # NoDomain}]
    \cup [by : {"domain"}, domain : SomeDomain, sel : Selectors \cup {Unset}]

\* A receiver names a signature by what stands in it: header.i may be of a
\* subdomain. What it makes of one that does not parse here is its own affair.
Names(n, v, i) ==
    CASE n.by = "short_b" -> TRUE
      [] n.by = "b" -> i \in DOMAIN dkim /\ v.domain # NoDomain => i \in n.alike
      [] n.by = "domain" ->
           v.domain # NoDomain =>
               /\ n.domain # NoDomain => Org[n.domain] = Org[v.domain]
               /\ n.sel \in {Unset, v.sel}

\* The verified signatures that a domain and, if it is given, a selector fit.
\* Mutant: the selector is not looked at.
OfDomainAnySelector(n) == {i \in DOMAIN dkim : n.domain # NoDomain /\ dkim[i].domain = n.domain}
OfDomain(n) ==
    {i \in DOMAIN dkim : /\ n.domain # NoDomain /\ dkim[i].domain = n.domain
                        /\ n.sel \in {Unset, dkim[i].sel}}

\* matchDKIM: header.b, once given, is the only criterion and must match exactly
\* one signature. Otherwise the first signature of the domain is taken.
Matched(n) ==
    CASE n.by = "short_b" -> {}
      [] n.by = "b" -> {i \in n.alike : n.alike = {i}}
      [] n.by = "domain" -> {i \in OfDomain(n) : \A j \in OfDomain(n) : i <= j}

\* A naming that leaves no doubt about its i-th signature v: a header.b that is
\* long enough and no other's, or the domain it was signed for if every
\* signature that fits has the same result.
Clear(n, v, i) ==
    CASE n.by = "short_b" -> FALSE
      [] n.by = "b" -> n.alike \subseteq {i}
      [] n.by = "domain" ->
           /\ v.domain \in {NoDomain, n.domain}
           /\ \A w \in Verified :
                 w.domain = n.domain /\ n.sel \in {Unset, w.sel} => ClaimedDkim(w) = ClaimedDkim(v)

\* analyzeMessage gives Compare no verdict that DMARC does not know.
ComputedDmarc == IF dmarc \in {"permerror", "indeterminate"} THEN Unset ELSE dmarc

\* Compare's check: a local temporary failure says nothing.
Differs(claimed, computed) ==
    claimed # Unset /\ computed \notin {Unset, "temperror"} /\ claimed # computed

\* The first spf result is compared whatever identity it is for: s may be for
\* another than the one DMARC uses. Without the body, signatures are not
\* compared.
Compare(s) ==
    /\ pc = "compare" /\ reported
    /\ spf.result = Unset => s = ClaimedSpf
    /\ pc' = IF body THEN "claims" ELSE "done"
    /\ diffs' = (IF Differs(s, spf.result) THEN {"spf"} ELSE {})
         \cup (IF Differs(ClaimedDmarc, ComputedDmarc) THEN {"dmarc"} ELSE {})
    /\ unclear' = (s # ClaimedSpf)
    /\ UNCHANGED <<msgVars, dkimVars, spf, policyVars, dmarc, compared>>

NothingToCompare ==
    /\ pc = "compare" /\ ~reported
    /\ pc' = "done"
    /\ UNCHANGED <<msgVars, dkimVars, spf, policyVars, dmarc, compareVars>>

\* The next dkim result, about signature v, the i-th of the message.
CompareDkim(n, v, i) ==
    /\ pc = "claims"
    /\ i = compared + 1 /\ compared' = i
    /\ Names(n, v, i)
    /\ diffs' = diffs
         \cup (IF \E j \in Matched(n) : Differs(ClaimedDkim(v), dkim[j].result)
               THEN {"dkim"} ELSE {})
         \cup (IF Matched(n) = {} /\ ClaimedDkim(v) = "pass" THEN {"not_present"} ELSE {})
    /\ unclear' = (unclear \/ ~Clear(n, v, i))
    /\ UNCHANGED <<pc, msgVars, dkimVars, spf, policyVars, dmarc>>

AllCompared ==
    /\ pc = "claims" /\ compared = Len(dkim \o skipped)
    /\ pc' = "done"
    /\ UNCHANGED <<msgVars, dkimVars, spf, policyVars, dmarc, compareVars>>

Next ==
    \/ \E s \in Selectors :
          \/ VerifyUnparsable(s)
          \/ \E d \in SomeDomain : SkipSignature(d, s)
          \/ \E d \in Domains :
                \/ VerifyUnusable(d, s)
                \/ \E key \in KeyStates, r \in DkimResults : Verify(d, s, key, r)
    \/ \E d \in SomeDomain : SpfNotEvaluated(d)
    \/ AllVerified \/ BadFrom \/ Decide \/ NothingToCompare \/ AllCompared
    \/ \E r \in SpfResults : CheckSpf(r)
    \/ \E o \in Errs, n \in 0..2, usable \in BOOLEAN, a \in Modes, b \in Modes :
          Discover(o, n, usable, [adkim |-> a, aspf |-> b])
    \/ \E s \in {"pass", "fail"} : Compare(s)
    \/ \E i \in DOMAIN (dkim \o skipped), n \in Namings : CompareDkim(n, (dkim \o skipped)[i], i)

Spec == Init /\ [][Next]_vars

-----------------------------------------------------------------------------
TypeOK ==
    /\ pc \in {"dkim", "spf", "own", "org", "decide", "compare", "claims", "done"}
    /\ body \in BOOLEAN /\ reported \in BOOLEAN /\ from \in SomeDomain
    /\ inputs \in InitialInputs
    /\ count \in 0..MaxCount /\ next \in 0..count
    /\ keys \in [KeyNames -> KeyStates \cup {Unset}]
    /\ dkim \in Seq(Signature) /\ skipped \in Seq(Signature)
    /\ spf \in [result : SpfResults \cup {Unset}, domain : SomeDomain, truth : SomeDomain]
    /\ inherited \in BOOLEAN /\ ownRecords \in 0..2
    /\ modes \in [adkim : Modes \cup {Unset}, aspf : Modes \cup {Unset}]
    /\ dmarc \in DmarcResults \cup {Unset}
    /\ compared \in Nat /\ unclear \in BOOLEAN
    /\ diffs \subseteq {"spf", "dmarc", "dkim", "not_present"}

\* DMARC "pass" needs an aligned identifier that really passes, whatever failed,
\* was missing or was left out.
PassIsReal == dmarc = "pass" => Passes

\* "Fail only if every input produced a definite result": what the scan calls
\* a fail, no complete evaluation of the same message could call a pass. True
\* as long as all signatures were verified ...
FailIsDefinite == dmarc = "fail" /\ count <= MaxSignatures => ~Passes

\* ... but not beyond MaxSignatures (a finding: see README).
FailIsAlwaysDefinite == dmarc = "fail" => ~Passes

\* The domains of identifiers whose result is open.
Open ==
    {v.domain : v \in {w \in Verified : w.result \in {"temperror", "neutral"}}}
    \cup (IF spf.result = Unset THEN Domains
          ELSE IF spf.result = "temperror" THEN {spf.domain} ELSE {})

\* "Only identifiers that could align with the From domain matter: an unrelated
\* domain's temperror cannot turn into an aligned pass": once there is a policy,
\* a verdict is left open only if an open identifier would align with From.
UndecidedOnlyIfOpen ==
    dmarc \in {"temperror", "indeterminate"} /\ modes.adkim # Unset =>
        \E d \in Open \ {NoDomain} : Org[d] = Org[from]

\* Two signatures with one key never disagree about its retrieval: if it failed
\* for one, none of the others was verified with it.
OneKeyOneAnswer ==
    \A v, w \in Verified :
        /\ v.sel = w.sel /\ v.domain = w.domain
        /\ v.result = "temperror"
        => w.result \in {"temperror", "permerror"}

\* A policy is inherited from the organizational domain only if the author
\* domain has no DMARC record at all, not even an unusable one.
OwnRecordWins == inherited => ownRecords = 0

\* "It is not the identity DMARC uses for a non-null sender": a HELO name that
\* passes SPF authenticates the author only when the sender was null.
HeloOnlyForNullSender ==
    dmarc = "pass" /\ ~inputs.nullSender =>
        \/ DkimAligned("pass")
        \/ inputs.mailFrom # NoDomain /\ Aligned(inputs.mailFrom, from, modes.aspf)

\* A receiver that reported the truth about the same connection is not
\* contradicted, however much less the scan knows, if all signatures were
\* verified, its first spf result is for the identity that DMARC uses and each
\* of its dkim results leaves no doubt about its signature. Without these it may
\* be: told that its signature "is not present in the message" if that is beyond
\* MaxSignatures, or named by a short header.b, by one that two signatures share
\* or by the subdomain of a header.i; held to the result of the first signature
\* of its domain if it names two by header.d; held to the result for MAIL FROM
\* if it reports HELO first.
HonestReceiverAgrees == count <= MaxSignatures /\ ~unclear => diffs = {}
=============================================================================
