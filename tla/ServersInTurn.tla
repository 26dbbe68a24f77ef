--------------------------- MODULE ServersInTurn ---------------------------
(***************************************************************************)
(* What dnsresolver.Client promises for one query, without connections,    *)
(* attempts or time: the servers are consulted in order, a definite answer *)
(* ends the query, and it fails only once every server has failed or the   *)
(* caller's context has ended (client.go:31-34, 218-223).                  *)
(***************************************************************************)
EXTENDS DnsErrors, Naturals

CONSTANTS MaxServers

VARIABLES
    servers,    \* how many servers are configured
    consulted,  \* how many of them have failed for good
    reason,     \* why the last one failed
    over,       \* the caller's context has ended
    reply       \* "pending", or the kind of error returned ("nil": an answer)

vars == <<servers, consulted, reason, over, reply>>

Failures == {"Temporary", "Refused", "Malformed", "TooLarge"}

Init ==
    /\ servers \in 0..MaxServers
    /\ consulted = 0
    /\ reason = "nil"
    /\ over = FALSE
    /\ reply = "pending"

End ==
    /\ over' = TRUE
    /\ UNCHANGED <<servers, consulted, reason, reply>>

\* An attempt failed; the server may be tried again.
Retry ==
    /\ reply = "pending" /\ consulted < servers
    /\ reason' = "Temporary"
    /\ UNCHANGED <<servers, consulted, over, reply>>

ServerFails(kind) ==
    /\ reply = "pending" /\ consulted < servers
    /\ consulted' = consulted + 1
    /\ reason' = kind
    /\ UNCHANGED <<servers, over, reply>>

Answer(err) ==
    /\ reply = "pending" /\ consulted < servers
    /\ reply' = err
    /\ UNCHANGED <<servers, consulted, reason, over>>

\* Nobody is left to ask.
Fail ==
    /\ reply = "pending" /\ consulted = servers
    /\ reply' = IF servers = 0 THEN "Temporary" ELSE reason
    /\ UNCHANGED <<servers, consulted, reason, over>>

Stop ==
    /\ reply = "pending" /\ consulted < servers /\ over
    /\ reply' = "Temporary"
    /\ UNCHANGED <<servers, consulted, reason, over>>

Reject ==
    /\ reply = "pending" /\ consulted = 0 /\ reason = "nil"
    /\ reply' = "InvalidName"
    /\ UNCHANGED <<servers, consulted, reason, over>>

Next ==
    \/ End \/ Retry \/ Fail \/ Stop \/ Reject
    \/ \E kind \in Failures : ServerFails(kind)
    \/ \E err \in {"nil", "NXDomain"} : Answer(err)

Spec == Init /\ [][Next]_vars
=============================================================================
