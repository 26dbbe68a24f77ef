--------------------------- MODULE MailExchangers ---------------------------
(***************************************************************************)
(* mx.Assess: the MX records of a domain, the addresses of the hosts they  *)
(* name, and what is reported of them.                                     *)
(***************************************************************************)
EXTENDS Naturals, Sequences, FiniteSets, DnsErrors

CONSTANTS
    Hosts,          \* targets of MX records
    NullHost,           \* the target "." of a null MX
    Own,            \* the domain itself: the implicit mail host
    Literals,       \* targets that are IP addresses
    BadHosts,      \* targets that are no host names
    LookupErrs,     \* bound: the errors a lookup of addresses meets
    MaxResolved,    \* MaxHosts of the code
    MaxRecords      \* bound: MX records in an answer

\* The records in the order of the sort; of the preference, what matters is
\* whether it is 0.
MxRecords == [host : Hosts \cup {NullHost}, zero : BOOLEAN]
InOrder(rs) == \A j \in DOMAIN rs : rs[j].zero => \A i \in 1..j : rs[i].zero
MxLists == {rs \in UNION {[1..n -> MxRecords] : n \in 0..MaxRecords} : InOrder(rs)}

\* What a lookup of A or AAAA yields: addresses, none, or an error.
Addresses == {"public", "private"}
Outcomes == Addresses \cup {"empty"} \cup LookupErrs
ErrOf(o) == IF o \in Errs THEN o ELSE "nil"

ASSUME ExchangersAssumption ==
    /\ NullHost \notin Hosts /\ Own \notin Hosts \cup {NullHost}
    /\ Literals \cup BadHosts \subseteq Hosts /\ Literals \cap BadHosts = {}
    /\ LookupErrs \subseteq Errs \ {"nil"}
    /\ MaxResolved \in Nat \ {0} /\ MaxRecords \in Nat

VARIABLES
    mxStep,     \* "lookup", "implicit", "hosts", "done"
    records,    \* the answer
    at,         \* the record looked at next
    hosts,      \* Result.Hosts: [name, v4, v6], with v4 and v6 whether there are addresses
    checked,    \* hosts resolved
    mxErr,   \* the error Assess returns, "nil" for none
    nullMX, implicit,
    mxFound,    \* the rules of Result.Findings
    resolved    \* history: the hosts that proved to have only public addresses

mxResult == <<hosts, nullMX, implicit>>
mxVars == <<mxStep, records, at, mxResult, checked, mxErr, mxFound, resolved>>

MxInit ==
    /\ mxStep = "lookup"
    /\ records = <<>> /\ at = 1
    /\ hosts = <<>> /\ nullMX = FALSE /\ implicit = FALSE
    /\ checked = 0 /\ mxErr = "nil"
    /\ mxFound = {} /\ resolved = {}

Remark(condition, rule) == IF condition THEN {rule} ELSE {}

MxReturns(err) == mxStep' = "done" /\ mxErr' = err

-----------------------------------------------------------------------------
MxFails(err) ==
    /\ mxStep = "lookup" /\ err # "nil"
    /\ MxReturns(IF IsNXDomain(err) THEN "nil" ELSE err)
    /\ mxFound' = {IF IsNXDomain(err) THEN "MXDomainNotFound" ELSE "DNSLookupFailed"}
    /\ UNCHANGED <<records, at, mxResult, checked, resolved>>

NoMx ==
    /\ mxStep = "lookup" /\ mxStep' = "implicit"
    /\ UNCHANGED <<records, at, mxResult, checked, mxErr, mxFound, resolved>>

Nulls(rs) == {i \in DOMAIN rs : rs[i].host = NullHost}
RootHost == [name |-> NullHost, v4 |-> FALSE, v6 |-> FALSE]

MxAnswer(rs) ==
    /\ mxStep = "lookup" /\ rs # <<>>
    /\ records' = rs
    /\ nullMX' = (Nulls(rs) # {})
    /\ LET alone == Nulls(rs) = DOMAIN rs
       IN  /\ mxFound' = Remark(\E i \in Nulls(rs) : ~rs[i].zero, "MXNullPreference")
                         \cup Remark(alone, "MXNullMX")
                         \cup Remark(~alone /\ Nulls(rs) # {}, "MXNullMixed")
           /\ mxStep' = IF alone THEN "done" ELSE "hosts"
           /\ hosts' = IF alone THEN [i \in DOMAIN rs |-> RootHost] ELSE <<>>
    /\ UNCHANGED <<at, implicit, checked, mxErr, resolved>>

\* resolveAddresses: the first error that is not NODATA, a temporary one first.
ResolveErr(v4, v6) ==
    IF IsTemporary(ErrOf(v4)) \/ (IsNXDomain(ErrOf(v4)) /\ ~IsTemporary(ErrOf(v6)))
    THEN ErrOf(v4) ELSE ErrOf(v6)

Resolved(name, v4, v6) ==
    [name |-> name, v4 |-> v4 \in Addresses, v6 |-> v6 \in Addresses]

ImplicitMx(v4, v6) ==
    /\ mxStep = "implicit"
    /\ LET err == ResolveErr(v4, v6)
           host == Resolved(Own, v4, v6)
       IN  \/ /\ IsTemporary(err)
              /\ MxReturns(err) /\ mxFound' = {"DNSLookupFailed"}
              /\ UNCHANGED mxResult
           \/ /\ ~IsTemporary(err) /\ ~host.v4 /\ ~host.v6
              /\ MxReturns("nil") /\ mxFound' = {"MXNoMailHost"}
              /\ UNCHANGED mxResult
           \/ /\ ~IsTemporary(err) /\ (host.v4 \/ host.v6)
              /\ MxReturns("nil") /\ mxFound' = {"MXNone"}
              /\ implicit' = TRUE /\ hosts' = <<host>>
              /\ UNCHANGED nullMX
    /\ UNCHANGED <<records, at, checked, resolved>>

-----------------------------------------------------------------------------
(* The hosts, record by record                                             *)

Target == records[at].host
AtMx == mxStep = "hosts" /\ at <= Len(records)
Seen == {records[i].host : i \in 1..at - 1} \ {NullHost}
ToNext == at' = at + 1 /\ UNCHANGED <<mxStep, records, nullMX, implicit>>

NullRecord ==
    /\ AtMx /\ Target = NullHost
    /\ ToNext /\ hosts' = Append(hosts, RootHost)
    /\ UNCHANGED <<checked, mxErr, mxFound, resolved>>

RepeatedHost ==
    /\ AtMx /\ Target \in Seen
    /\ ToNext
    /\ UNCHANGED <<hosts, checked, mxErr, mxFound, resolved>>

\* Beyond MaxHosts a host is listed, without addresses.
ListedHost ==
    /\ AtMx /\ Target # NullHost /\ Target \notin Seen /\ checked >= MaxResolved
    /\ ToNext /\ hosts' = Append(hosts, Resolved(Target, "empty", "empty"))
    /\ UNCHANGED <<checked, mxErr, mxFound, resolved>>

\* assessHost. No address is asked for if the target is one.
AssessHost(alias, v4, v6) ==
    /\ AtMx /\ Target # NullHost /\ Target \notin Seen /\ checked < MaxResolved
    /\ Target \in Literals => ~alias /\ v4 = "empty" /\ v6 = "empty"
    /\ ToNext /\ checked' = checked + 1
    /\ hosts' = Append(hosts, Resolved(Target, v4, v6))
    /\ LET err == ResolveErr(v4, v6)
           failed == IsTemporary(err)
           none == {v4, v6} \cap Addresses = {}
       IN  /\ mxErr' = IF failed /\ IsInfrastructure(err) THEN err ELSE mxErr
           /\ mxFound' = mxFound
                \cup Remark(Target \in Literals, "MXIPLiteral")
                \cup Remark(Target \in BadHosts, "MXInvalidHostname")
                \cup Remark(alias, "MXCNAME")
                \cup Remark(failed, "MXLookupInconsistent")
                \cup Remark(Target \notin Literals /\ ~failed /\ none, "MXNoAddress")
                \cup Remark(~failed /\ "private" \in {v4, v6}, "MXNonPublicAddress")
           /\ resolved' = resolved \cup
                Remark(~failed /\ "public" \in {v4, v6} /\ "private" \notin {v4, v6}, Target)

-----------------------------------------------------------------------------
(* summarize                                                               *)

\* findings/catalog.go: 1 is pass, 6 critical. That no host has an address
\* raises MXNoAddress further.
MxSeverity == [
    DNSLookupFailed |-> 5, MXNone |-> 4, MXNoMailHost |-> 3, MXDomainNotFound |-> 5,
    MXNullMX |-> 2, MXNullMixed |-> 5, MXNullPreference |-> 3, MXDuplicateHost |-> 3,
    MXIPLiteral |-> 5, MXCNAME |-> 4, MXNoAddress |-> 4, MXNonPublicAddress |-> 5,
    MXLookupInconsistent |-> 4, MXIPv4Only |-> 2, MXSingleHost |-> 2, MXValid |-> 1,
    MXInvalidHostname |-> 5, MXTooMany |-> 2]
Low == 3

\* Mutant: the host at the limit is counted twice.
TooManyByTwo == checked >= MaxResolved /\ Cardinality(Seen) > MaxResolved + 1
TooMany == checked >= MaxResolved /\ Cardinality(Seen) > MaxResolved

Listed == {i \in DOMAIN hosts : hosts[i].name # NullHost}

SummarizeMx ==
    /\ mxStep = "hosts" /\ at > Len(records)
    /\ MxReturns(mxErr)
    /\ LET usable == {i \in Listed : hosts[i].v4 \/ hosts[i].v6}
           known == mxFound
             \cup Remark(TooMany, "MXTooMany")
             \cup Remark(Len(records) # Cardinality(Nulls(records)) + Cardinality(Seen),
                         "MXDuplicateHost")
           counted == known
             \cup Remark(\A i \in Listed : ~hosts[i].v6, "MXIPv4Only")
             \cup Remark(Cardinality(Listed) = 1, "MXSingleHost")
       IN  mxFound' = IF usable = {} THEN known
                      ELSE counted \cup Remark(\A rule \in counted : MxSeverity[rule] < Low,
                                               "MXValid")
    /\ UNCHANGED <<records, at, mxResult, checked, resolved>>

-----------------------------------------------------------------------------
MxNext ==
    \/ \E err \in Errs : MxFails(err)
    \/ NoMx
    \/ mxStep = "lookup" /\ \E rs \in MxLists : MxAnswer(rs)
    \/ \E v4, v6 \in Outcomes : ImplicitMx(v4, v6)
    \/ NullRecord \/ RepeatedHost \/ ListedHost
    \/ \E alias \in BOOLEAN, v4, v6 \in Outcomes : AssessHost(alias, v4, v6)
    \/ SummarizeMx

MxSpec == MxInit /\ [][MxNext]_mxVars

-----------------------------------------------------------------------------
MxTypeOK ==
    /\ mxStep \in {"lookup", "implicit", "hosts", "done"}
    /\ records \in Seq(MxRecords) /\ Len(records) <= MaxRecords
    /\ at \in 1..Len(records) + 1
    /\ hosts \in Seq([name : Hosts \cup {NullHost, Own}, v4 : BOOLEAN, v6 : BOOLEAN])
    /\ checked \in 0..MaxResolved
    /\ mxErr \in Errs /\ nullMX \in BOOLEAN /\ implicit \in BOOLEAN
    /\ mxFound \subseteq DOMAIN MxSeverity
    /\ resolved \subseteq Hosts

\* "%d MX host(s) resolve to public addresses" is a pass: every host that the
\* domain names does, each is named once, and no lookup failed; or hosts beyond
\* the limit were not looked at, and that is said.
MxValidIsEarned ==
    "MXValid" \in mxFound =>
        /\ mxErr = "nil" /\ resolved # {}
        /\ Cardinality({records[i].host : i \in DOMAIN records}) = Len(records)
        /\ \A i \in DOMAIN records :
             records[i].host \notin resolved => i > MaxResolved /\ "MXTooMany" \in mxFound
=============================================================================
