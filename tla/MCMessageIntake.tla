--------------------------- MODULE MCMessageIntake ---------------------------
\* Four readers of one message that share nothing but its bytes: the header
\* section, the MIME structure of the body, the trace headers from which the
\* SMTP inputs are taken, and the ARC headers. A behaviour follows one of them.
EXTENDS HeaderSection, MimeWalk, SmtpInputs, ArcChain

VARIABLE reader

intakeVars == <<reader, sectionVars, mimeVars, inputsVars, arcVars>>

CONSTANTS p1, p2, r1, odd, h1, h2, bad, m1, m2, badm

Flags(i, h, f) == [ip |-> i, helo |-> h, from |-> f]
MCOperators == {Flags(NoValue, NoValue, NoValue), Flags(p2, NoValue, NoValue),
                Flags(odd, NoValue, NoValue), Flags(NoValue, h2, Null), Flags(p1, bad, m2)}
MCPeers == [ip : {p1, r1}, helo : {h1, bad}, from : {m1, Null}]
MCSenderHops == {Postfix(h2, p1), Exim(h2, p2), Qmail(h2, p1), Announced(p2, p1)}
MCSenderRecords == [client : {p1, p2}, helo : {h2, NoValue}, from : {m2, badm}]
MCSenderPaths == {m2, Null, badm}

Init ==
    /\ reader \in {"headers", "mime", "inputs", "arc"}
    /\ IF reader = "headers" THEN SectionInit ELSE SectionInit /\ input = 0
    /\ IF reader = "mime" THEN MimeInit ELSE MimeInit /\ bodySize = 0
    /\ IF reader = "inputs"
         THEN InputsInit
         ELSE InputsInit /\ peer = CHOOSE p \in Peers : TRUE
    /\ ArcInit

Next ==
    /\ UNCHANGED reader
    /\ \/ reader = "headers" /\ SectionNext /\ UNCHANGED <<mimeVars, inputsVars, arcVars>>
       \/ reader = "mime" /\ MimeNext /\ UNCHANGED <<sectionVars, inputsVars, arcVars>>
       \/ reader = "inputs" /\ InputsNext /\ UNCHANGED <<sectionVars, mimeVars, arcVars>>
       \/ reader = "arc" /\ ArcNext /\ UNCHANGED <<sectionVars, mimeVars, inputsVars>>

Spec == Init /\ [][Next]_intakeVars /\ WF_intakeVars(reader = "mime" /\ Next)
==============================================================================
