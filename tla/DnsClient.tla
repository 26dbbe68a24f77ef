----------------------------- MODULE DnsClient -----------------------------
(***************************************************************************)
(* One lookup of dnsresolver.Client (client.go): exchange tries every      *)
(* server up to Attempts times; an attempt is a round trip over UDP and,   *)
(* if the response is truncated, a second one over TCP. Each round trip    *)
(* has a deadline of its own and ends early when the caller's context      *)
(* does. answersFor then picks the records from the response. The network  *)
(* delivers anything: late, foreign, broken, oversized or no messages.     *)
(*                                                                         *)
(* Time is counted in ticks; code between two waits takes none.            *)
(***************************************************************************)
EXTENDS DnsErrors, Naturals, FiniteSets, Sequences, SequencesExt

CONSTANTS
    MaxServers,     \* bound: at most so many servers are configured
    Attempts,       \* Client.Attempts
    Timeout,        \* Client.Timeout, in ticks
    Names,          \* owner names in a response, in lower case
    Owner,          \* Fqdn(name), the name that is looked up
    NoName,         \* not a name: the record is no CNAME
    MaxCnameChain,  \* maxCNAMEChain
    MaxAnswers,     \* bound: length of an answer section
    NoMsg           \* no message ended the round trip

ASSUME ClientAssumption ==
    /\ MaxServers \in Nat /\ MaxCnameChain \in Nat /\ MaxAnswers \in Nat
    /\ Attempts \in Nat \ {0} /\ Timeout \in Nat \ {0}
    /\ Owner \in Names /\ NoName \notin Names

Rcodes == {"Success", "NameError", "Refused", "ServerFailure"}

\* What parseResponse tells apart in a received message. Several questions
\* count as another question. Nothing but the size of a message that is too big
\* is looked at, and nothing but the ID of one that does not unpack: the other
\* fields of such a message have a fixed value.
Messages ==
    {m \in [mine : BOOLEAN, unpacks : BOOLEAN, response : BOOLEAN,
            question : {"own", "other", "none"}, truncated : BOOLEAN,
            rcode : Rcodes, big : BOOLEAN] :
        /\ m.big => ~m.unpacks
        /\ ~m.unpacks => /\ ~m.response /\ m.question = "none"
                         /\ ~m.truncated /\ m.rcode = "Success"}

ASSUME NoMsgAssumption == NoMsg \notin Messages

Failures == {"Temporary", "Refused", "Malformed", "TooLarge"}

VARIABLES
    servers,    \* len(c.Servers)
    pc,         \* where exchange and the calls below it are
    server,     \* index of the server in turn, beyond servers: none left
    attempt,    \* the attempt at this server
    network,    \* of the round trip under way
    left,       \* ticks to the deadline of the round trip
    cut,        \* AfterFunc has moved the connection's deadline to the past
    msg,        \* the message that ended the round trip
    lastErr,    \* kind of lastErr
    reply,      \* kind of the error exchange returned
    ended,      \* the caller's context has ended
    late,       \* history: queries sent after the context ended
    elapsed,    \* history: ticks since the lookup began
    answers     \* history: the answer section of the response returned

turn == <<servers, server, attempt>>
conn == <<network, left, cut>>
history == <<late, elapsed, answers>>
vars == <<turn, pc, conn, msg, lastErr, reply, ended, history>>

Waiting == pc \in {"dial", "read"}
RoundTrip == {"dial", "write", "read"}

TypeOK ==
    /\ servers \in 0..MaxServers
    /\ pc \in RoundTrip \cup {"start", "attempt", "answers", "done"}
    /\ server \in 1..MaxServers + 1 /\ attempt \in 1..Attempts
    /\ network \in {"udp", "tcp"} /\ left \in 0..Timeout /\ cut \in BOOLEAN
    /\ msg \in Messages \cup {NoMsg}
    /\ lastErr \in Failures \cup {"nil"}
    /\ reply \in Failures \cup {"pending", "nil", "NXDomain", "InvalidName"}
    /\ ended \in BOOLEAN
    /\ late \in Nat /\ elapsed \in Nat

Init ==
    /\ servers \in 0..MaxServers
    /\ pc = "start"
    /\ server = 1 /\ attempt = 1
    /\ network = "udp" /\ left = Timeout /\ cut = FALSE
    /\ msg = NoMsg
    /\ lastErr = "nil" /\ reply = "pending"
    /\ ended = FALSE
    /\ late = 0 /\ elapsed = 0
    /\ answers = <<>>

----------------------------------------------------------------------------
(* exchange: the loops over servers and attempts.                          *)

Return(err) == pc' = "done" /\ reply' = err

\* The name is not valid; a valid one always makes a query.
RejectName ==
    /\ pc = "start"
    /\ Return("InvalidName")
    /\ UNCHANGED <<turn, conn, msg, lastErr, ended, history>>

NoServers ==
    /\ pc = "start" /\ servers = 0
    /\ Return("Temporary")
    /\ UNCHANGED <<turn, conn, msg, lastErr, ended, history>>

Begin ==
    /\ pc = "start" /\ servers > 0
    /\ pc' = "attempt"
    /\ UNCHANGED <<turn, conn, msg, lastErr, reply, ended, history>>

\* roundTrip begins: a deadline of its own, a new connection.
StartRoundTrip(net) ==
    /\ pc' = "dial"
    /\ network' = net /\ left' = Timeout /\ cut' = FALSE

StartAttempt ==
    /\ pc = "attempt" /\ server <= servers
    /\ ~ended
    /\ StartRoundTrip("udp")
    /\ msg' = NoMsg
    /\ UNCHANGED <<turn, lastErr, reply, ended, history>>

ContextEnded ==
    /\ pc = "attempt" /\ server <= servers
    /\ ended
    /\ Return("Temporary")
    /\ UNCHANGED <<turn, conn, msg, lastErr, ended, history>>

ServersExhausted ==
    /\ pc = "attempt" /\ server > servers
    /\ Return(lastErr)
    /\ UNCHANGED <<turn, conn, msg, lastErr, ended, history>>

\* break: a definite failure, or the last attempt at this server.
NextServer(kind) ==
    /\ pc' = "attempt"
    /\ server' = server + 1 /\ attempt' = 1
    /\ lastErr' = kind
    /\ UNCHANGED <<servers, reply>>

\* Only a temporary error without a response is worth another attempt.
AttemptFails(kind) ==
    IF kind = "Temporary" /\ attempt < Attempts
    THEN /\ pc' = "attempt"
         /\ attempt' = attempt + 1
         /\ lastErr' = kind
         /\ UNCHANGED <<servers, server, reply>>
    ELSE NextServer(kind)

\* Mutant: REFUSED ends the query.
RespondedRefusedFinal(m) ==
    \/ /\ m.rcode = "Success"
       /\ pc' = "answers"
       /\ reply' = "nil"
       /\ UNCHANGED <<turn, lastErr>>
    \/ /\ m.rcode \in {"NameError", "Refused"}
       /\ Return(IF m.rcode = "Refused" THEN "Refused" ELSE "NXDomain")
       /\ UNCHANGED <<turn, lastErr>>
    \/ m.rcode = "ServerFailure" /\ NextServer("Temporary")

\* exchangeOnce returned a message.
Responded(m) ==
    \/ /\ m.rcode = "Success"
       /\ pc' = "answers"
       /\ reply' = "nil"
       /\ UNCHANGED <<turn, lastErr>>
    \/ /\ m.rcode = "NameError"
       /\ Return("NXDomain")
       /\ UNCHANGED <<turn, lastErr>>
    \/ m.rcode = "Refused" /\ NextServer("Refused")
    \/ m.rcode = "ServerFailure" /\ NextServer("Temporary")

----------------------------------------------------------------------------
(* exchangeOnce and roundTrip: dial, write, read.                          *)

RoundTripFails(kind) ==
    AttemptFails(kind) /\ msg' = NoMsg /\ UNCHANGED <<conn, ended, history>>

\* Mutant: the dialer is given the deadline only, not the caller's context.
DialableInTime == left > 0

\* The dialer gives up when the context or the deadline ends.
Dialable == left > 0 /\ ~ended

Dial ==
    /\ pc = "dial" /\ Dialable
    /\ pc' = "write"
    /\ UNCHANGED <<turn, conn, msg, lastErr, reply, ended, history>>

DialFails == pc = "dial" /\ RoundTripFails("Temporary")

\* The goroutine of context.AfterFunc, from the moment the connection exists.
CutOffDue == ended /\ ~cut /\ pc \in {"write", "read"}

CutOff ==
    /\ CutOffDue
    /\ cut' = TRUE
    /\ UNCHANGED <<turn, pc, network, left, msg, lastErr, reply, ended, history>>

Write ==
    /\ pc = "write" /\ ~cut
    /\ pc' = "read"
    /\ late' = IF ended THEN late + 1 ELSE late
    /\ UNCHANGED <<turn, conn, msg, lastErr, reply, ended, elapsed, answers>>

WriteFails == pc = "write" /\ RoundTripFails("Temporary")

\* Mutant: no SetDeadline.
ExpiredByEndOnly == cut

Expired == left = 0 \/ cut

ReadTimeout == pc = "read" /\ Expired /\ RoundTripFails("Temporary")

\* classifyNetErr: the port is closed, the network unreachable.
ReadError == pc = "read" /\ ~Expired /\ RoundTripFails("Temporary")

\* The server closes the connection before the response is complete.
ReadEof ==
    pc = "read" /\ network = "tcp" /\ ~Expired /\ RoundTripFails("Malformed")

\* Mutant: a datagram that does not unpack is an answer.
MismatchIfParsed(m) ==
    m.unpacks /\ (~m.mine \/ ~m.response \/ m.question # "own")

\* Mutant: a missing question will do.
MismatchIfNamed(m) ==
    ~m.mine \/ (m.unpacks /\ (~m.response \/ m.question = "other"))

\* parseResponse: errMismatch is found by errors.Is also inside the Malformed
\* error that a wrong or missing question makes. Without a question only a
\* truncated or an error response is accepted.
Mismatch(m) ==
    \/ ~m.mine
    \/ m.unpacks /\ (~m.response \/ m.question = "other")
    \/ /\ m.unpacks /\ m.question = "none" /\ ~m.truncated
       /\ m.rcode \in {"Success", "NameError"}

Broken(m) == ~m.unpacks /\ ~Mismatch(m)

Accepted(m) == ~m.big /\ m.unpacks /\ ~Mismatch(m)

\* Mutant: every datagram starts the clock again.
KeepWaitingAnew ==
    left' = Timeout /\ UNCHANGED <<network, cut>>

\* The deadline of the connection stays where it is.
KeepWaiting == UNCHANGED conn

ReceiveUdp(m) ==
    /\ pc = "read" /\ network = "udp" /\ ~Expired
    /\ UNCHANGED <<ended, history>>
    /\ \/ /\ ~m.big /\ Mismatch(m)
          /\ KeepWaiting
          /\ UNCHANGED <<turn, pc, msg, lastErr, reply>>
       \/ /\ m.big \/ Broken(m)
          /\ AttemptFails(IF m.big THEN "TooLarge" ELSE "Malformed")
          /\ msg' = m /\ UNCHANGED conn
       \/ /\ Accepted(m)
          /\ msg' = m
          /\ IF m.truncated
             THEN StartRoundTrip("tcp") /\ UNCHANGED <<turn, lastErr, reply>>
             ELSE Responded(m) /\ UNCHANGED conn

ReceiveTcp(m) ==
    /\ pc = "read" /\ network = "tcp" /\ ~Expired
    /\ msg' = m
    /\ UNCHANGED <<conn, ended, history>>
    /\ \/ m.big /\ AttemptFails("TooLarge")
       \/ ~m.big /\ (~Accepted(m) \/ m.truncated) /\ AttemptFails("Malformed")
       \/ Accepted(m) /\ ~m.truncated /\ Responded(m)

----------------------------------------------------------------------------
(* answersFor: the records of the answer section.                           *)

\* A CNAME record has a target; others are of the type that was asked for.
Records == [owner : Names, cname : Names \cup {NoName}]

\* The CNAME records of a name, by their places in the answer section.
CnamesOf(name, ans) == {i \in DOMAIN ans : ans[i].cname # NoName /\ ans[i].owner = name}

First(places) == CHOOSE i \in places : \A j \in places : i <= j

\* One round of the loop; only the first CNAME of a name counts.
Followed(chain, ans) ==
    LET cnames == CnamesOf(Last(chain), ans)
        next == ans[First(cnames)].cname
    IN  IF cnames = {} \/ Contains(chain, next) THEN chain ELSE Append(chain, next)

\* Mutant: one link less.
ChainOfShorter(ans) ==
    LET chain[n \in 0..MaxCnameChain] ==
            IF n = 0 THEN <<Owner>> ELSE Followed(chain[n - 1], ans)
    IN  ToSet(chain[MaxCnameChain - 1])

\* The names after all rounds.
ChainOf(ans) ==
    LET chain[n \in 0..MaxCnameChain] ==
            IF n = 0 THEN <<Owner>> ELSE Followed(chain[n - 1], ans)
    IN  ToSet(chain[MaxCnameChain])

\* The records returned, by their places.
AnswersFor(ans) ==
    {i \in DOMAIN ans : ans[i].cname = NoName /\ ans[i].owner \in ChainOf(ans)}

\* The response is returned; AnswersFor is read off its answer section.
ReturnAnswers ==
    /\ pc = "answers"
    /\ answers' \in SeqOf(Records, MaxAnswers)
    /\ pc' = "done"
    /\ UNCHANGED <<turn, conn, msg, lastErr, reply, ended, late, elapsed>>

----------------------------------------------------------------------------
\* The caller's context is cancelled, or its own deadline comes.
EndContext ==
    /\ ~ended /\ pc # "done"
    /\ ended' = TRUE
    /\ UNCHANGED <<turn, pc, conn, msg, lastErr, reply, history>>

\* Time passes while the client waits for the network, and not after what it
\* waits for has been called off.
CalledOff == (pc = "dial" /\ ended) \/ (pc = "read" /\ cut) \/ CutOffDue

Tick ==
    /\ pc \in {"dial", "read"} /\ left > 0 /\ ~CalledOff
    /\ left' = left - 1
    /\ elapsed' = elapsed + 1
    /\ UNCHANGED <<turn, pc, network, cut, msg, lastErr, reply, ended, late, answers>>

Loop ==
    \/ RejectName \/ NoServers \/ Begin
    \/ StartAttempt \/ ContextEnded \/ ServersExhausted
    \/ ReturnAnswers

Network ==
    \/ Dial \/ DialFails \/ Write \/ WriteFails \/ ReadError \/ ReadEof
    \/ \E m \in Messages : ReceiveUdp(m) \/ ReceiveTcp(m)

Next == Loop \/ Network \/ ReadTimeout \/ CutOff \/ Tick \/ EndContext

Spec == Init /\ [][Next]_vars

\* The client's own steps are taken, clocks advance, and the kernel and the
\* dialer report an expired deadline. Nothing is assumed of the servers.
FairSpec ==
    /\ Spec
    /\ WF_vars(Loop) /\ WF_vars(Tick) /\ WF_vars(CutOff) /\ WF_vars(ReadTimeout)
    /\ WF_vars(Dial \/ DialFails) /\ WF_vars(Write \/ WriteFails)

----------------------------------------------------------------------------
(* Safety.                                                                 *)

\* What a lookup concludes of the name, records or NXDOMAIN, rests on a
\* complete response to this very query, whatever else was received before
\* and whichever transport brought it (exchangeUDP, exchangeTCP, parseResponse).
AnswerIsOwn ==
    reply \in {"nil", "NXDomain"} =>
        /\ msg # NoMsg
        /\ msg.mine /\ msg.response /\ msg.unpacks /\ ~msg.big
        /\ msg.question = "own" /\ ~msg.truncated
        /\ msg.rcode = IF reply = "nil" THEN "Success" ELSE "NameError"

\* However many foreign datagrams arrive, a lookup takes at most two timeouts
\* per attempt, one for UDP and one for TCP (roundTrip).
TimeBounded == elapsed <= servers * Attempts * 2 * Timeout

\* Once the caller's context has ended, at most the query that was about to be
\* written is sent: neither the TCP fallback nor another attempt follows.
EndStopsQueries == late <= 1

\* A malformed datagram makes the client give up on a server only if it carries
\* the ID of the query: a late or foreign one does not (parseResponse, exchangeUDP).
NoiseIsHarmless ==
    [][network = "udp" /\ lastErr' = "Malformed" /\ server' # server => msg'.mine]_vars

----------------------------------------------------------------------------
(* The records of the answer section.                                      *)

\* What belongs to the owner: the least set closed under the CNAME records.
Reachable(ans) ==
    {name \in Names : \A S \in SUBSET Names :
        Owner \in S /\ (\A rr \in ToSet(ans) :
                            rr.owner \in S /\ rr.cname # NoName => rr.cname \in S)
            => name \in S}

\* No record is returned for a name the looked-up name does not lead to.
AnswersReachable ==
    \A i \in AnswersFor(answers) : answers[i].owner \in Reachable(answers)

\* No name has two CNAME records.
Functional(ans) ==
    \A i, j \in DOMAIN ans :
        ans[i].owner = ans[j].owner /\ ans[i].cname # NoName /\ ans[j].cname # NoName
            => i = j

\* In a well-formed response, every record at the end of a chain of at most
\* MaxCnameChain aliases is returned, wherever it stands in the answer section
\* and even if the chain is a loop.
AnswersComplete ==
    Functional(answers)
    /\ Cardinality(Reachable(answers) \ {Owner}) <= MaxCnameChain =>
        \A i \in DOMAIN answers :
            answers[i].cname = NoName /\ answers[i].owner \in Reachable(answers) =>
                i \in AnswersFor(answers)

\* What a response says of the looked-up name is returned, and nothing else.
AnswersExact == AnswersReachable /\ AnswersComplete

----------------------------------------------------------------------------
(* What the client promises: see ServersInTurn.                            *)

Promise == INSTANCE ServersInTurn WITH
    consulted <- server - 1, reason <- lastErr, over <- ended,
    reply <- reply

\* The detailed client consults the servers in order, reports a failure only
\* when all of them have failed or the context has ended, and the last reason.
ConsultsInTurn == Promise!Spec

\* Every lookup ends, although servers may stay silent and foreign datagrams
\* may arrive for ever.
LookupEnds == <>(pc = "done")
=============================================================================
