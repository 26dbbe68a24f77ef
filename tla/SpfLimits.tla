----------------------------- MODULE SpfLimits -----------------------------
\* What the evaluation and the analysis of SPF policies share: the names and
\* the limits of internal/spf.
EXTENDS Naturals, Sequences, DnsErrors

CONSTANTS
    Domains,        \* valid multi-label names, as they are spelled
    Folded,         \* the name that each of them is, up to letter case
    BadName,        \* stands for every name that is not one
    MaxLookups,     \* Limits
    MaxVoidLookups,
    MaxMXNames,
    MaxPTRNames,
    MaxDepth,
    MaxTerms        \* bound: directives per record

ASSUME SpfAssumption ==
    /\ BadName \notin Domains
    /\ Folded \in [Domains -> Domains]
    /\ {MaxLookups, MaxVoidLookups, MaxMXNames, MaxPTRNames, MaxDepth, MaxTerms}
         \subseteq Nat

Qualifiers == {"pass", "fail", "softfail", "neutral"}   \* Qualifier.Result()

Targets == Domains \cup {BadName}
=============================================================================
