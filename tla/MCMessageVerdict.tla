-------------------------- MODULE MCMessageVerdict --------------------------
(* A small instance of MessageVerdict for TLC: an organization with two names *)
(* (an author may use either) and an unrelated one.                           *)
EXTENDS MessageVerdict

CONSTANTS org, sub, other, s1, s2

MCDomains == {org, sub, other}
MCOrg == [d \in MCDomains |-> IF d = sub THEN org ELSE d]

Input(ip, mailFrom, helo, nullSender) ==
    [ip |-> ip, mailFrom |-> mailFrom, helo |-> helo, nullSender |-> nullSender]

\* Each way to an identity: MAIL FROM beside an unrelated HELO name, a null
\* sender, HELO alone; and no client.
MCInputs ==
    {Input(TRUE, org, other, FALSE), Input(TRUE, NoDomain, other, TRUE),
     Input(TRUE, NoDomain, org, FALSE), Input(FALSE, org, other, FALSE)}

\* Which messages are looked at. With a receiver's results to compare: up to
\* two signatures of the organization's names, by two selectors. Without: up to
\* MaxCount by one selector, which only the comparison looks at. Selectors carry
\* no meaning, so the first is s1; a signature left out that does not pass is
\* like one without a domain, and then the author uses the name for which own
\* and inherited records differ.
Considered ==
    LET signatures == dkim \o skipped
    IN  /\ signatures # <<>> => signatures[1].sel = s1
        /\ \A i \in DOMAIN skipped : skipped[i].truth \/ skipped[i].domain = NoDomain
        /\ count > MaxSignatures => from = sub
        /\ IF reported
           THEN /\ count <= 2 /\ inputs.mailFrom = org /\ from \in {sub, NoDomain}
                /\ \A i \in DOMAIN signatures : signatures[i].domain # other
           ELSE inputs.ip /\ \A i \in DOMAIN signatures : signatures[i].sel = s1

MCInit == Init /\ Considered
MCNext == Next /\ Considered'
MCSpec == MCInit /\ [][MCNext]_vars
=============================================================================
