------------------------ MODULE MCPublishedPolicies ------------------------
\* The audits of what a domain publishes, each by itself: its mail hosts, its
\* SPF policy (with a receiver that evaluates it), its DMARC policy and its
\* MTA-STS policy. A behaviour follows one of them.
EXTENDS MCSpfAudit, DmarcPolicy, MailExchangers, StsPolicy

VARIABLE audit

policiesVars == <<audit, auditVars, dmarcVars, mxVars, stsVars>>

CONSTANTS sub, mail, example, net

MCMailHosts ==
    LET host == <<mail, example, net>>
        deep == <<sub>> \o host
    IN  {{<<>>, host, deep}}
MCPatterns ==
    {<<sub, mail, example, net>>, <<Star, example, net>>, <<Star, net>>}

\* Bounds. A record or policy has its full length only if it was found and
\* retrieved as those of most domains are, else one tag or line less; and a
\* report tag names one place, or two that are treated differently.
BoundedTags ==
    /\ subject = Org \/ Inherited \/ Len(tags') < MaxTags
    /\ \A i \in DOMAIN tags' : tags'[i].name \in {"rua", "ruf"} =>
         \/ tags'[i].uris \in {{d} : d \in Destinations}
         \/ tags'[i].uris \subseteq Outside \cup {BadURI}
BoundedLines == response = [expiring |-> FALSE, textPlain |-> TRUE] \/ Len(lines') < MaxLines

PoliciesInit ==
    /\ audit \in {"mx", "spf", "dmarc", "sts"}
    /\ AuditInit /\ (audit = "spf" \/ client = NoClient)
    /\ MxInit
    /\ DmarcInit /\ (audit = "dmarc" \/ subject = Org)
    /\ StsInit /\ (audit = "sts" \/ fetching)

PoliciesNext ==
    /\ UNCHANGED audit
    /\ \/ audit = "spf" /\ AuditNext /\ UNCHANGED <<dmarcVars, mxVars, stsVars>>
       \/ audit = "dmarc" /\ DmarcNext /\ BoundedTags /\ UNCHANGED <<auditVars, mxVars, stsVars>>
       \/ audit = "mx" /\ MxNext /\ UNCHANGED <<auditVars, dmarcVars, stsVars>>
       \/ audit = "sts" /\ StsNext /\ BoundedLines /\ UNCHANGED <<auditVars, dmarcVars, mxVars>>

PoliciesSpec == PoliciesInit /\ [][PoliciesNext]_policiesVars
=============================================================================
