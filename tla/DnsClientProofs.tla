-------------------------- MODULE DnsClientProofs --------------------------
(***************************************************************************)
(* Proofs about DnsClient: for any number of servers, attempts and ticks,  *)
(* and whatever the network delivers.                                      *)
(***************************************************************************)
EXTENDS DnsClient, FiniteSetTheorems, SequenceTheorems, WellFoundedInduction, TLAPS

\* Everything but the answer section, which no later step reads.
Types ==
    /\ servers \in 0..MaxServers
    /\ pc \in RoundTrip \cup {"start", "attempt", "answers", "done"}
    /\ server \in 1..MaxServers + 1 /\ attempt \in 1..Attempts
    /\ network \in {"udp", "tcp"} /\ left \in 0..Timeout /\ cut \in BOOLEAN
    /\ msg \in Messages \cup {NoMsg}
    /\ lastErr \in Failures \cup {"nil"}
    /\ reply \in Failures \cup {"pending", "nil", "NXDomain", "InvalidName"}
    /\ ended \in BOOLEAN
    /\ late \in Nat /\ elapsed \in Nat

\* Where the loops stand at each point of the code.
Position ==
    /\ server <= servers + 1
    /\ pc = "start" => server = 1 /\ attempt = 1 /\ lastErr = "nil" /\ elapsed = 0
    /\ pc \in RoundTrip => server <= servers
    /\ pc = "attempt" => servers > 0
    /\ pc = "attempt" /\ server > servers => lastErr # "nil" /\ attempt = 1
    /\ pc \notin {"answers", "done"} => reply = "pending"

IInv == Types /\ Position

LEMMA TypesAreTypeOK == Types <=> TypeOK
BY DEF Types, TypeOK

LEMMA Initially == Init => IInv
<1> SUFFICES ASSUME Init PROVE IInv
    OBVIOUS
<1>1. cut \in BOOLEAN /\ ended \in BOOLEAN
      BY Zenon DEF Init
<1> QED
    BY <1>1, ClientAssumption DEF Init, IInv, Types, Position, RoundTrip, Failures

LEMMA Stable == IInv /\ [Next]_vars => IInv'
<1> SUFFICES ASSUME IInv, [Next]_vars PROVE IInv'
    OBVIOUS
<1> USE ClientAssumption DEF IInv, Types, Position, RoundTrip, Failures, Return,
        turn, conn, history
<1>1. CASE RejectName BY <1>1 DEF RejectName
<1>2. CASE NoServers
  <2>1. UNCHANGED <<servers, server, attempt, network, left, cut, msg, lastErr, ended,
                    late, elapsed>> /\ pc' = "done" /\ reply' = "Temporary"
        BY <1>2 DEF NoServers
  <2> QED
      BY <2>1
<1>3. CASE Begin BY <1>3 DEF Begin
<1>4. CASE StartAttempt
  <2>1. cut' \in BOOLEAN
        BY <1>4, Zenon DEF StartAttempt, StartRoundTrip
  <2> QED
      BY <1>4, <2>1 DEF StartAttempt, StartRoundTrip
<1>5. CASE ContextEnded BY <1>5 DEF ContextEnded
<1>6. CASE ServersExhausted BY <1>6 DEF ServersExhausted
<1>7. CASE ReturnAnswers BY <1>7 DEF ReturnAnswers
<1>8. CASE Dial BY <1>8 DEF Dial
<1>9. CASE DialFails
      BY <1>9 DEF DialFails, RoundTripFails, AttemptFails, NextServer
<1>10. CASE Write BY <1>10 DEF Write
<1>11. CASE WriteFails
       BY <1>11 DEF WriteFails, RoundTripFails, AttemptFails, NextServer
<1>12. CASE ReadError
       BY <1>12 DEF ReadError, RoundTripFails, AttemptFails, NextServer
<1>13. CASE ReadEof
       BY <1>13 DEF ReadEof, RoundTripFails, AttemptFails, NextServer
<1>14. CASE ReadTimeout
       BY <1>14 DEF ReadTimeout, RoundTripFails, AttemptFails, NextServer
<1>15. ASSUME NEW m \in Messages, ReceiveUdp(m) PROVE IInv'
  <2> USE <1>15 DEF ReceiveUdp
  <2>1. CASE KeepWaiting /\ UNCHANGED <<turn, pc, msg, lastErr, reply>>
        BY <2>1 DEF KeepWaiting
  <2>2. CASE /\ AttemptFails(IF m.big THEN "TooLarge" ELSE "Malformed")
             /\ msg' = m /\ UNCHANGED conn
        BY <2>2 DEF AttemptFails, NextServer
  <2>3. CASE /\ msg' = m
             /\ StartRoundTrip("tcp") /\ UNCHANGED <<turn, lastErr, reply>>
    <3>1. cut' \in BOOLEAN
          BY <2>3, Zenon DEF StartRoundTrip
    <3> QED
        BY <2>3, <3>1 DEF StartRoundTrip
  <2>4. CASE msg' = m /\ Responded(m) /\ UNCHANGED conn
        BY <2>4 DEF Responded, NextServer
  <2> QED
      BY <2>1, <2>2, <2>3, <2>4
<1>16. ASSUME NEW m \in Messages, ReceiveTcp(m) PROVE IInv'
       BY <1>16 DEF ReceiveTcp, AttemptFails, NextServer, Responded
<1>17. CASE CutOff BY <1>17 DEF CutOff
<1>18. CASE Tick BY <1>18 DEF Tick
<1>19. CASE EndContext BY <1>19 DEF EndContext
<1>20. CASE UNCHANGED vars BY <1>20 DEF vars
<1> QED
    BY <1>1, <1>2, <1>3, <1>4, <1>5, <1>6, <1>7, <1>8, <1>9, <1>10, <1>11, <1>12,
       <1>13, <1>14, <1>15, <1>16, <1>17, <1>18, <1>19, <1>20
       DEF Next, Loop, Network

LEMMA Invariant == Spec => []IInv
<1>1. Init => IInv
      BY Initially
<1>2. IInv /\ [Next]_vars => IInv'
      BY Stable
<1> QED
    BY <1>1, <1>2, PTL DEF Spec

\* The variables of a lookup keep their types.
THEOREM TypeCorrect == Spec => []TypeOK
<1>1. IInv => TypeOK
      BY TypesAreTypeOK DEF IInv
<1> QED
    BY <1>1, Invariant, PTL

----------------------------------------------------------------------------
\* An answer or NXDOMAIN rests on a complete response to the query itself,
\* received over UDP or TCP (exchangeUDP, exchangeTCP, parseResponse).
Own(m, err) ==
    /\ m # NoMsg
    /\ m.mine /\ m.response /\ m.unpacks /\ ~m.big
    /\ m.question = "own" /\ ~m.truncated
    /\ m.rcode = IF err = "nil" THEN "Success" ELSE "NameError"

LEMMA AcceptedIsOwn ==
    ASSUME NEW m \in Messages, Accepted(m), ~m.truncated,
           NEW err \in {"nil", "NXDomain"},
           m.rcode = IF err = "nil" THEN "Success" ELSE "NameError"
    PROVE  Own(m, err)
<1>1. m # NoMsg
      BY NoMsgAssumption
<1>2. m.question \in {"own", "other", "none"}
      BY DEF Messages
<1>3. m.rcode \in {"Success", "NameError"}
      OBVIOUS
<1>4. m.mine /\ m.response /\ m.unpacks /\ ~m.big /\ m.question = "own"
      BY <1>2, <1>3, Zenon DEF Accepted, Mismatch
<1> QED
    BY <1>1, <1>4, Zenon DEF Own

LEMMA RespondedOwn ==
    ASSUME NEW m \in Messages, Accepted(m), ~m.truncated, Responded(m),
           msg' = m, reply = "pending"
    PROVE  AnswerIsOwn'
<1>1. CASE m.rcode = "Success" /\ reply' = "nil"
  <2>1. Own(m, "nil")
        BY <1>1, AcceptedIsOwn
  <2> QED
      BY <1>1, <2>1, Zenon DEF Own, AnswerIsOwn
<1>2. CASE m.rcode = "NameError" /\ reply' = "NXDomain"
  <2>1. Own(m, "NXDomain")
        BY <1>2, AcceptedIsOwn
  <2> QED
      BY <1>2, <2>1, Zenon DEF Own, AnswerIsOwn
<1>3. CASE reply' = "pending"
      BY <1>3 DEF AnswerIsOwn
<1> QED
    BY <1>1, <1>2, <1>3 DEF Responded, NextServer, Return

\* A step that concludes nothing keeps what was concluded.
LEMMA SameConclusion ==
    ASSUME AnswerIsOwn,
           \/ UNCHANGED <<msg, reply>>
           \/ reply' \notin {"nil", "NXDomain"}
    PROVE  AnswerIsOwn'
<1>1. CASE UNCHANGED <<msg, reply>>
  <2>1. msg' = msg /\ reply' = reply
        BY <1>1
  <2> QED
      BY <2>1, Zenon DEF AnswerIsOwn
<1>2. CASE reply' \notin {"nil", "NXDomain"}
      BY <1>2, Zenon DEF AnswerIsOwn
<1> QED
    BY <1>1, <1>2

THEOREM AnswersAreOwn == Spec => []AnswerIsOwn
<1>1. Init => AnswerIsOwn
      BY DEF Init, AnswerIsOwn
<1>2. AnswerIsOwn /\ IInv /\ [Next]_vars => AnswerIsOwn'
  <2> SUFFICES ASSUME AnswerIsOwn, IInv, [Next]_vars PROVE AnswerIsOwn'
      OBVIOUS
  <2> DEFINE Concludes == \/ UNCHANGED <<msg, reply>>
                          \/ reply' \notin {"nil", "NXDomain"}
  <2>1. CASE Loop
    <3>1. Concludes
          BY <2>1 DEF Loop, RejectName, NoServers, Begin, StartAttempt, ContextEnded,
             ServersExhausted, ReturnAnswers, Return, IInv, Position, Types, Failures
    <3> QED
        BY <3>1, SameConclusion
  <2>2. CASE DialFails \/ WriteFails \/ ReadError \/ ReadEof \/ ReadTimeout
    <3>1. Concludes
          BY <2>2 DEF DialFails, WriteFails, ReadError, ReadEof, ReadTimeout,
             RoundTripFails, AttemptFails, NextServer, IInv, Position
    <3> QED
        BY <3>1, SameConclusion
  <2>3. CASE Dial \/ Write \/ CutOff \/ Tick \/ EndContext \/ UNCHANGED vars
    <3>1. Concludes
          BY <2>3 DEF Dial, Write, CutOff, Tick, EndContext, vars
    <3> QED
        BY <3>1, SameConclusion
  <2>4. ASSUME NEW m \in Messages, ReceiveUdp(m) PROVE AnswerIsOwn'
    <3>0. reply = "pending"
          BY <2>4 DEF ReceiveUdp, IInv, Position
    <3>1. CASE Accepted(m) /\ ~m.truncated /\ msg' = m /\ Responded(m)
          BY <3>0, <3>1, RespondedOwn
    <3>2. CASE Concludes
          BY <3>2, SameConclusion
    <3> QED
        BY <2>4, <3>0, <3>1, <3>2
           DEF ReceiveUdp, AttemptFails, NextServer
  <2>5. ASSUME NEW m \in Messages, ReceiveTcp(m) PROVE AnswerIsOwn'
    <3>0. reply = "pending"
          BY <2>5 DEF ReceiveTcp, IInv, Position
    <3>1. CASE Accepted(m) /\ ~m.truncated /\ msg' = m /\ Responded(m)
          BY <3>0, <3>1, RespondedOwn
    <3>2. CASE Concludes
          BY <3>2, SameConclusion
    <3> QED
        BY <2>5, <3>0, <3>1, <3>2
           DEF ReceiveTcp, AttemptFails, NextServer
  <2> QED
      BY <2>1, <2>2, <2>3, <2>4, <2>5 DEF Next, Network
<1> QED
    BY <1>1, <1>2, Invariant, PTL DEF Spec

----------------------------------------------------------------------------
\* The context ended before the query was written: it is the last one.
LateInv ==
    /\ late \in {0, 1}
    /\ late = 1 => ended /\ pc # "write"

\* At most one query is sent after the context has ended (roundTrip, exchange).
THEOREM EndStops == Spec => []EndStopsQueries
<1>1. Init => LateInv
      BY DEF Init, LateInv
<1>2. LateInv /\ [Next]_vars => LateInv'
  <2> SUFFICES ASSUME LateInv, [Next]_vars PROVE LateInv'
      OBVIOUS
  <2> USE DEF history, Return
  <2>1. CASE Loop
    <3>1. late' = late /\ ended' = ended /\ pc' # "write"
          BY <2>1 DEF Loop, RejectName, NoServers, Begin, StartAttempt, ContextEnded,
             ServersExhausted, ReturnAnswers, StartRoundTrip
    <3> QED
        BY <3>1, Zenon DEF LateInv
  <2>2. CASE DialFails \/ WriteFails \/ ReadError \/ ReadEof \/ ReadTimeout
    <3>1. late' = late /\ ended' = ended /\ pc' # "write"
          BY <2>2 DEF DialFails, WriteFails, ReadError, ReadEof, ReadTimeout,
             RoundTripFails, AttemptFails, NextServer
    <3> QED
        BY <3>1, Zenon DEF LateInv
  <2>3. CASE Dial
    <3>1. late' = late /\ ended' = ended /\ ~ended
          BY <2>3, Zenon DEF Dial, Dialable
    <3> QED
        BY <3>1, Zenon DEF LateInv
  <2>4. CASE Write
    <3>1. late = 0
          BY <2>4 DEF Write, LateInv
    <3>2. pc' # "write" /\ ended' = ended
          BY <2>4 DEF Write
    <3>3. CASE ended
      <4>1. late' = 1
            BY <2>4, <3>1, <3>3 DEF Write
      <4> QED
          BY <3>2, <3>3, <4>1, Zenon DEF LateInv
    <3>4. CASE ~ended
      <4>1. late' = 0
            BY <2>4, <3>1, <3>4 DEF Write
      <4>2. 0 # 1
            OBVIOUS
      <4> QED
          BY <4>1, <4>2, Zenon DEF LateInv
    <3> QED
        BY <3>3, <3>4
  <2>5. CASE CutOff \/ Tick \/ UNCHANGED vars
    <3>1. late' = late /\ ended' = ended /\ pc' = pc
          BY <2>5 DEF CutOff, Tick, vars
    <3> QED
        BY <3>1, Zenon DEF LateInv
  <2>6. CASE EndContext
    <3>1. late' = late /\ ended' /\ ~ended
          BY <2>6, Zenon DEF EndContext
    <3> QED
        BY <3>1, Zenon DEF LateInv
  <2>7. ASSUME NEW m \in Messages, ReceiveUdp(m) \/ ReceiveTcp(m)
        PROVE  LateInv'
    <3>1. late' = late /\ ended' = ended
          BY <2>7 DEF ReceiveUdp, ReceiveTcp
    <3>2. pc' # "write"
          BY <2>7 DEF ReceiveUdp, ReceiveTcp, AttemptFails, NextServer, Responded,
             StartRoundTrip
    <3> QED
        BY <3>1, <3>2, Zenon DEF LateInv
  <2> QED
      BY <2>1, <2>2, <2>3, <2>4, <2>5, <2>6, <2>7 DEF Next, Network
<1>3. LateInv => EndStopsQueries
      BY DEF LateInv, EndStopsQueries
<1> QED
    BY <1>1, <1>2, <1>3, PTL DEF Spec

\* A datagram without the query's ID never costs a server its turn as malformed.
THEOREM NoiseDoesNoHarm == Spec => NoiseIsHarmless
<1>1. [Next]_vars =>
          (network = "udp" /\ lastErr' = "Malformed" /\ server' # server => msg'.mine)
  <2> SUFFICES ASSUME [Next]_vars,
                      network = "udp", lastErr' = "Malformed", server' # server
               PROVE  msg'.mine
      OBVIOUS
  <2> USE DEF turn
  <2>1. ASSUME NEW m \in Messages, ReceiveUdp(m) PROVE msg'.mine
    <3>1. Broken(m) /\ msg' = m
          BY <2>1 DEF ReceiveUdp, AttemptFails, NextServer, Responded, StartRoundTrip
    <3>2. m.mine
          BY <3>1, Zenon DEF Broken, Mismatch
    <3> QED
        BY <3>1, <3>2
  <2>2. ~Loop
        BY DEF Loop, RejectName, NoServers, Begin, StartAttempt, ContextEnded,
           ServersExhausted, ReturnAnswers
  <2>3. ~(DialFails \/ WriteFails \/ ReadError \/ ReadEof \/ ReadTimeout)
        BY DEF DialFails, WriteFails, ReadError, ReadEof, ReadTimeout, RoundTripFails,
           AttemptFails, NextServer
  <2>4. ~(Dial \/ Write \/ CutOff \/ Tick \/ EndContext \/ UNCHANGED vars)
        BY DEF Dial, Write, CutOff, Tick, EndContext, vars
  <2>5. \A m \in Messages : ~ReceiveTcp(m)
        BY DEF ReceiveTcp
  <2> QED
      BY <2>1, <2>2, <2>3, <2>4, <2>5 DEF Next, Network
<1> QED
    BY <1>1, PTL DEF Spec, NoiseIsHarmless

----------------------------------------------------------------------------
\* The detailed client implements ServersInTurn.

LEMMA FailureRefined ==
    ASSUME IInv, NEW kind \in Failures, AttemptFails(kind),
           pc \in RoundTrip, ended' = ended
    PROVE  Promise!Next
<1> USE DEF IInv, Position, Types
<1>1. kind \in Promise!Failures
      BY DEF Failures, Promise!Failures
<1>2. CASE kind = "Temporary" /\ attempt < Attempts
  <2>1. Promise!Retry
        BY <1>2 DEF AttemptFails, Promise!Retry, RoundTrip
  <2> QED
      BY <2>1 DEF Promise!Next
<1>3. CASE ~(kind = "Temporary" /\ attempt < Attempts)
  <2>1. Promise!ServerFails(kind)
        BY <1>3 DEF AttemptFails, NextServer, Promise!ServerFails, RoundTrip
  <2> QED
      BY <1>1, <2>1 DEF Promise!Next
<1> QED
    BY <1>2, <1>3

LEMMA ResponseRefined ==
    ASSUME IInv, NEW m \in Messages, Responded(m), pc = "read", ended' = ended
    PROVE  Promise!Next
<1> USE DEF IInv, Position, Types, RoundTrip, turn
<1>1. CASE m.rcode = "Success" /\ reply' = "nil" /\ UNCHANGED <<turn, lastErr>>
  <2>1. Promise!Answer("nil")
        BY <1>1 DEF Promise!Answer
  <2> QED
      BY <2>1 DEF Promise!Next
<1>2. CASE m.rcode = "NameError" /\ Return("NXDomain") /\ UNCHANGED <<turn, lastErr>>
  <2>1. Promise!Answer("NXDomain")
        BY <1>2 DEF Promise!Answer, Return
  <2> QED
      BY <2>1 DEF Promise!Next
<1>3. ASSUME NEW kind \in {"Refused", "Temporary"}, NextServer(kind)
      PROVE  Promise!Next
  <2>1. Promise!ServerFails(kind)
        BY <1>3 DEF NextServer, Promise!ServerFails
  <2> QED
      BY <2>1 DEF Promise!Next, Promise!Failures
<1> QED
    BY <1>1, <1>2, <1>3 DEF Responded

LEMMA StepRefined ==
    IInv /\ [Next]_vars => [Promise!Next]_(Promise!vars)
<1> SUFFICES ASSUME IInv, [Next]_vars PROVE Promise!Next \/ UNCHANGED Promise!vars
    OBVIOUS
<1> USE DEF turn, Return
<1>1. CASE RejectName
  <2>1. Promise!Reject
        BY <1>1 DEF RejectName, Promise!Reject, IInv, Position
  <2> QED
      BY <2>1 DEF Promise!Next
<1>2. CASE NoServers \/ ServersExhausted
  <2>1. Promise!Fail
        BY <1>2 DEF NoServers, ServersExhausted, Promise!Fail, IInv, Position, Types
  <2> QED
      BY <2>1 DEF Promise!Next
<1>3. CASE ContextEnded
  <2>1. Promise!Stop
        BY <1>3 DEF ContextEnded, Promise!Stop, IInv, Position, Types
  <2> QED
      BY <2>1 DEF Promise!Next
<1>4. CASE Begin \/ StartAttempt \/ ReturnAnswers \/ Dial \/ Write \/ CutOff \/ Tick
           \/ UNCHANGED vars
  <2>1. UNCHANGED <<servers, server, lastErr, ended, reply>>
        BY <1>4 DEF Begin, StartAttempt, ReturnAnswers, Dial, Write, CutOff, Tick, vars
  <2> QED
      BY <2>1 DEF Promise!vars
<1>5. CASE DialFails \/ WriteFails \/ ReadError \/ ReadEof \/ ReadTimeout
  <2>1. pc \in RoundTrip /\ ended' = ended
        BY <1>5 DEF DialFails, WriteFails, ReadError, ReadEof, ReadTimeout,
           RoundTripFails, RoundTrip
  <2>2. AttemptFails("Temporary") \/ AttemptFails("Malformed")
        BY <1>5, Zenon DEF DialFails, WriteFails, ReadError, ReadEof, ReadTimeout,
           RoundTripFails
  <2>3. "Temporary" \in Failures /\ "Malformed" \in Failures
        BY DEF Failures
  <2> QED
      BY <2>1, <2>2, <2>3, FailureRefined
<1>6. CASE EndContext
  <2>1. Promise!End
        BY <1>6, Zenon DEF EndContext, Promise!End
  <2> QED
      BY <2>1 DEF Promise!Next
<1>7. ASSUME NEW m \in Messages, ReceiveUdp(m) \/ ReceiveTcp(m)
      PROVE  Promise!Next \/ UNCHANGED Promise!vars
  <2>1. pc = "read" /\ ended' = ended
        BY <1>7 DEF ReceiveUdp, ReceiveTcp
  <2>2. CASE UNCHANGED <<turn, lastErr, reply>>
        BY <2>1, <2>2 DEF Promise!vars
  <2>3. ASSUME NEW kind \in Failures, AttemptFails(kind) PROVE Promise!Next
        BY <2>1, <2>3, FailureRefined DEF RoundTrip
  <2>4. CASE Responded(m)
        BY <2>1, <2>4, ResponseRefined
  <2>5. \/ UNCHANGED <<turn, lastErr, reply>>
        \/ \E kind \in Failures : AttemptFails(kind)
        \/ Responded(m)
    <3>1. "TooLarge" \in Failures /\ "Malformed" \in Failures
          BY DEF Failures
    <3>2. (IF m.big THEN "TooLarge" ELSE "Malformed") \in Failures
          BY <3>1
    <3>3. \/ UNCHANGED <<turn, lastErr, reply>>
          \/ AttemptFails(IF m.big THEN "TooLarge" ELSE "Malformed")
          \/ AttemptFails("TooLarge") \/ AttemptFails("Malformed")
          \/ Responded(m)
          BY <1>7 DEF ReceiveUdp, ReceiveTcp
    <3> QED
        BY <3>1, <3>2, <3>3, Zenon
  <2> QED
      BY <2>2, <2>3, <2>4, <2>5
<1> QED
    BY <1>1, <1>2, <1>3, <1>4, <1>5, <1>6, <1>7 DEF Next, Loop, Network

\* The servers are consulted in order, and a failure is reported only when all
\* of them have failed or the context has ended (exchange).
THEOREM ServersAreConsultedInTurn == Spec => ConsultsInTurn
<1>1. Init => Promise!Init
      BY DEF Init, Promise!Init
<1>2. IInv /\ [Next]_vars => [Promise!Next]_(Promise!vars)
      BY StepRefined
<1> QED
    BY <1>1, <1>2, Invariant, PTL DEF Spec, ConsultsInTurn, Promise!Spec

----------------------------------------------------------------------------
\* Time: what all attempts before this one took, and this one so far.

RoundTrips == 2 * Timeout
Begun == (server - 1) * Attempts + (attempt - 1)
Spent == IF pc \notin RoundTrip THEN 0
         ELSE IF network = "udp" THEN Timeout - left ELSE RoundTrips - left

TimeInv ==
    IF pc \in {"answers", "done"} THEN TimeBounded
    ELSE elapsed <= Begun * RoundTrips + Spent

LEMMA MulMonotonic ==
    ASSUME NEW x \in Nat, NEW y \in Nat, NEW z \in Nat, x <= y
    PROVE  x * z <= y * z
<1>1. PICK d \in Nat : y = x + d
  <2>1. y - x \in Nat /\ y = x + (y - x)
        OBVIOUS
  <2> QED
      BY <2>1
<1>2. y * z = x * z + d * z
      BY <1>1
<1>3. d * z \in Nat /\ x * z \in Nat
      OBVIOUS
<1> QED
    BY <1>2, <1>3

\* An attempt under way is one of those the client may make.
LEMMA AttemptCounts ==
    ASSUME IInv, server <= servers
    PROVE  /\ Begun \in Nat
           /\ Begun + 1 <= servers * Attempts
           /\ Begun + 1 <= server * Attempts
<1> USE ClientAssumption DEF IInv, Types
<1>1. (server - 1) * Attempts \in Nat
      OBVIOUS
<1>2. server * Attempts = (server - 1) * Attempts + Attempts
      OBVIOUS
<1>3. server * Attempts <= servers * Attempts
      BY MulMonotonic
<1>4. server * Attempts \in Nat /\ servers * Attempts \in Nat
      OBVIOUS
<1> HIDE DEF IInv
<1> DEFINE a == (server - 1) * Attempts
           b == server * Attempts
           c == servers * Attempts
<1>5. a \in Nat /\ b \in Nat /\ c \in Nat /\ b = a + Attempts /\ b <= c
      BY <1>1, <1>2, <1>3, <1>4
<1>6. Begun = a + (attempt - 1)
      BY DEF Begun
<1>7. attempt \in 1..Attempts
      BY DEF IInv
<1> HIDE DEF a, b, c
<1>8. Begun \in Nat /\ Begun + 1 <= c /\ Begun + 1 <= b
      BY <1>5, <1>6, <1>7
<1> QED
    BY <1>8 DEF b, c

\* One more attempt's worth of time covers the one under way.
LEMMA WithinAttempt ==
    ASSUME IInv, TimeInv, pc \notin {"answers", "done"},
           NEW n \in Nat, Begun \in Nat, Begun + 1 <= n
    PROVE  elapsed <= n * RoundTrips
<1>1. RoundTrips \in Nat /\ Spent \in Nat /\ Spent <= RoundTrips
      BY ClientAssumption DEF RoundTrips, Spent, IInv, Types
<1>2. elapsed \in Nat /\ elapsed <= Begun * RoundTrips + Spent
      BY DEF TimeInv, IInv, Types
<1>3. (Begun + 1) * RoundTrips <= n * RoundTrips
      BY <1>1, MulMonotonic
<1>4. (Begun + 1) * RoundTrips = Begun * RoundTrips + RoundTrips
      BY <1>1
<1>5. Begun * RoundTrips \in Nat /\ n * RoundTrips \in Nat
      BY <1>1
<1> QED
    BY <1>1, <1>2, <1>3, <1>4, <1>5

LEMMA BoundIsProduct ==
    ASSUME IInv
    PROVE  /\ servers * Attempts \in Nat
           /\ servers * Attempts * 2 * Timeout = (servers * Attempts) * RoundTrips
BY ClientAssumption DEF IInv, Types, RoundTrips

\* A failed attempt leaves its whole time to the attempts begun so far.
LEMMA FailureTime ==
    ASSUME IInv, TimeInv, pc \in RoundTrip, NEW kind, AttemptFails(kind),
           elapsed' = elapsed
    PROVE  TimeInv'
<1>1. server <= servers /\ pc \notin {"answers", "done"}
      BY DEF IInv, Position, RoundTrip
<1>2. Begun \in Nat /\ Begun + 1 <= server * Attempts
      BY <1>1, AttemptCounts
<1>3. server * Attempts \in Nat
      BY ClientAssumption DEF IInv, Types
<1>4. pc' = "attempt" /\ Spent' = 0
      BY DEF AttemptFails, NextServer, Spent, RoundTrip
<1>5. Begun' = Begun + 1 \/ Begun' = server * Attempts
      BY ClientAssumption DEF AttemptFails, NextServer, Begun, IInv, Types
<1>6. Begun' \in Nat /\ Begun + 1 <= Begun'
      BY <1>2, <1>3, <1>5
<1>7. elapsed <= Begun' * RoundTrips
      BY <1>1, <1>2, <1>6, WithinAttempt
<1>8. Begun' * RoundTrips + 0 = Begun' * RoundTrips
      BY <1>6, ClientAssumption DEF RoundTrips
<1>9. elapsed' <= Begun' * RoundTrips + Spent'
      BY <1>4, <1>7, <1>8
<1>10. RoundTrips' = RoundTrips /\ pc' \notin {"answers", "done"}
       BY <1>4 DEF RoundTrips
<1> QED
    BY <1>9, <1>10 DEF TimeInv

\* A lookup that ends with a server in turn is within the bound.
LEMMA EndTime ==
    ASSUME IInv, TimeInv, pc \notin {"answers", "done"}, server <= servers,
           pc' \in {"answers", "done"}, UNCHANGED <<servers, elapsed>>
    PROVE  TimeInv'
<1>1. Begun \in Nat /\ Begun + 1 <= servers * Attempts /\ servers * Attempts \in Nat
      BY AttemptCounts, BoundIsProduct
<1>2. elapsed <= (servers * Attempts) * RoundTrips
      BY <1>1, WithinAttempt
<1>3. TimeBounded
      BY <1>2, BoundIsProduct DEF TimeBounded
<1> QED
    BY <1>3 DEF TimeInv, TimeBounded

LEMMA ResponseTime ==
    ASSUME IInv, TimeInv, pc = "read", NEW m \in Messages, Responded(m),
           elapsed' = elapsed
    PROVE  TimeInv'
<1>1. server <= servers
      BY DEF IInv, Position, RoundTrip
<1>2. CASE pc' \in {"answers", "done"} /\ UNCHANGED turn
      BY <1>1, <1>2, EndTime DEF turn
<1>3. ASSUME NEW kind \in {"Refused", "Temporary"}, NextServer(kind)
      PROVE  TimeInv'
  <2>1. Begun \in Nat /\ Begun + 1 <= server * Attempts
        BY <1>1, AttemptCounts
  <2>2. server * Attempts \in Nat
        BY ClientAssumption DEF IInv, Types
  <2>3. elapsed <= (server * Attempts) * RoundTrips
        BY <2>1, <2>2, WithinAttempt
  <2>4. pc' = "attempt" /\ Spent' = 0
        BY <1>3 DEF NextServer, Spent, RoundTrip
  <2>5. Begun' = server * Attempts
        BY <1>3, ClientAssumption DEF NextServer, Begun, IInv, Types
  <2>6. elapsed' <= Begun' * RoundTrips + Spent'
        BY <2>2, <2>3, <2>4, <2>5, ClientAssumption DEF RoundTrips
  <2> QED
      BY <2>4, <2>6 DEF TimeInv, RoundTrips
<1> QED
    BY <1>2, <1>3 DEF Responded, Return

LEMMA StepTime == IInv /\ TimeInv /\ [Next]_vars => TimeInv'
<1> SUFFICES ASSUME IInv, TimeInv, [Next]_vars PROVE TimeInv'
    OBVIOUS
<1> USE DEF turn, conn, history, Return
<1>1. CASE RejectName \/ NoServers
  <2>1. elapsed' = 0 /\ servers' = servers /\ pc' = "done"
        BY <1>1 DEF RejectName, NoServers, IInv, Position
  <2>2. 0 <= servers * Attempts * 2 * Timeout
        BY ClientAssumption DEF IInv, Types
  <2> QED
      BY <2>1, <2>2 DEF TimeInv, TimeBounded
<1>2. CASE ServersExhausted
  <2>1. Begun = servers * Attempts /\ Spent = 0 /\ pc = "attempt"
        BY <1>2, ClientAssumption
           DEF ServersExhausted, Begun, Spent, IInv, Types, Position, RoundTrip
  <2>2. elapsed <= (servers * Attempts) * RoundTrips + 0
        BY <2>1 DEF TimeInv
  <2>3. TimeBounded
        BY <2>2, BoundIsProduct, ClientAssumption
           DEF TimeBounded, IInv, Types, RoundTrips
  <2> QED
      BY <1>2, <2>3 DEF ServersExhausted, TimeInv, TimeBounded
<1>3. CASE ContextEnded
      BY <1>3, EndTime DEF ContextEnded
<1>4. CASE ReturnAnswers
      BY <1>4 DEF ReturnAnswers, TimeInv, TimeBounded
<1>5. CASE Begin \/ StartAttempt
  <2>1. UNCHANGED <<server, attempt, elapsed>> /\ pc' \notin {"answers", "done"}
        BY <1>5 DEF Begin, StartAttempt, StartRoundTrip
  <2>2. pc \notin {"answers", "done"} /\ Spent = 0 /\ Spent' = 0
        BY <1>5, ClientAssumption DEF Begin, StartAttempt, StartRoundTrip, Spent, RoundTrip
  <2> QED
      BY <2>1, <2>2 DEF TimeInv, Begun, RoundTrips
<1>6. CASE Dial \/ Write \/ CutOff
  <2>1. UNCHANGED <<server, attempt, elapsed, network, left>>
        /\ pc \in RoundTrip /\ pc' \in RoundTrip
        BY <1>6 DEF Dial, Write, CutOff, CutOffDue, RoundTrip
  <2> QED
      BY <2>1 DEF TimeInv, Begun, RoundTrips, Spent, RoundTrip
<1>7. CASE Tick
  <2>1. /\ UNCHANGED <<server, attempt, network, pc>> /\ pc \in RoundTrip
        /\ left' = left - 1 /\ elapsed' = elapsed + 1
        BY <1>7 DEF Tick, RoundTrip
  <2>2. Begun' = Begun /\ Spent' = Spent + 1 /\ Spent \in Nat
        BY <2>1, ClientAssumption DEF Begun, Spent, RoundTrips, IInv, Types
  <2>3. Begun * RoundTrips \in Int
    <3>1. Begun \in Int /\ RoundTrips \in Int
          BY ClientAssumption DEF Begun, RoundTrips, IInv, Types
    <3> QED
        BY <3>1
  <2>4. elapsed \in Nat /\ elapsed <= Begun * RoundTrips + Spent
        BY <2>1 DEF TimeInv, IInv, Types, RoundTrip
  <2>5. elapsed' <= Begun' * RoundTrips + Spent'
        BY <2>1, <2>2, <2>3, <2>4
  <2> QED
      BY <2>1, <2>5 DEF TimeInv, RoundTrip, RoundTrips
<1>8. CASE DialFails \/ WriteFails \/ ReadError \/ ReadEof \/ ReadTimeout
  <2>1. pc \in RoundTrip /\ elapsed' = elapsed
        BY <1>8 DEF DialFails, WriteFails, ReadError, ReadEof, ReadTimeout,
           RoundTripFails, RoundTrip
  <2>2. AttemptFails("Temporary") \/ AttemptFails("Malformed")
        BY <1>8, Zenon DEF DialFails, WriteFails, ReadError, ReadEof, ReadTimeout,
           RoundTripFails
  <2> QED
      BY <2>1, <2>2, FailureTime
<1>9. CASE EndContext \/ UNCHANGED vars
  <2>1. UNCHANGED <<servers, pc, server, attempt, network, left, elapsed>>
        BY <1>9 DEF EndContext, vars
  <2> QED
      BY <2>1 DEF TimeInv, TimeBounded, Begun, Spent, RoundTrips
<1>10. ASSUME NEW m \in Messages, ReceiveUdp(m) \/ ReceiveTcp(m)
       PROVE  TimeInv'
  <2>1. pc = "read" /\ pc \in RoundTrip /\ elapsed' = elapsed
        BY <1>10 DEF ReceiveUdp, ReceiveTcp, RoundTrip
  <2>2. CASE KeepWaiting /\ UNCHANGED <<turn, pc>>
        BY <2>1, <2>2 DEF KeepWaiting, TimeInv, Begun, Spent, RoundTrips
  <2>3. CASE \/ AttemptFails(IF m.big THEN "TooLarge" ELSE "Malformed")
             \/ AttemptFails("TooLarge") \/ AttemptFails("Malformed")
        BY <2>1, <2>3, FailureTime
  <2>4. CASE Responded(m)
        BY <2>1, <2>4, ResponseTime
  <2>5. CASE network = "udp" /\ StartRoundTrip("tcp") /\ UNCHANGED turn
    <3>1. Begun' = Begun /\ pc' = "dial"
          BY <2>5 DEF Begun, StartRoundTrip
    <3>2. Spent = Timeout - left /\ Spent' = Timeout
          BY <2>1, <2>5, ClientAssumption DEF Spent, RoundTrips, RoundTrip, StartRoundTrip
    <3>3. Begun * RoundTrips \in Int
      <4>1. Begun \in Int /\ RoundTrips \in Int
            BY ClientAssumption DEF Begun, RoundTrips, IInv, Types
      <4> QED
          BY <4>1
    <3>4. elapsed \in Nat /\ elapsed <= Begun * RoundTrips + Spent /\ left \in 0..Timeout
          BY <2>1 DEF TimeInv, IInv, Types
    <3>5. elapsed' <= Begun' * RoundTrips + Spent'
          BY <2>1, <3>1, <3>2, <3>3, <3>4, ClientAssumption
    <3> QED
        BY <3>1, <3>5 DEF TimeInv, RoundTrips
  <2> QED
      BY <1>10, <2>2, <2>3, <2>4, <2>5 DEF ReceiveUdp, ReceiveTcp
<1> QED
    BY <1>1, <1>2, <1>3, <1>4, <1>5, <1>6, <1>7, <1>8, <1>9, <1>10
       DEF Next, Loop, Network

\* A lookup never takes more than two timeouts per attempt, however many foreign
\* datagrams arrive (roundTrip, exchangeUDP).
THEOREM LookupTimeBounded == Spec => []TimeBounded
<1>1. Init => TimeInv
  <2> SUFFICES ASSUME Init PROVE TimeInv
      OBVIOUS
  <2>1. Begun = 0 /\ Spent = 0 /\ elapsed = 0 /\ pc = "start"
        BY ClientAssumption DEF Init, Begun, Spent, RoundTrip
  <2>2. 0 <= 0 * RoundTrips + 0
        BY ClientAssumption DEF RoundTrips
  <2> QED
      BY <2>1, <2>2 DEF TimeInv
<1>2. IInv /\ TimeInv /\ [Next]_vars => TimeInv'
      BY StepTime
<1>3. IInv /\ TimeInv => TimeBounded
  <2> SUFFICES ASSUME IInv, TimeInv PROVE TimeBounded
      OBVIOUS
  <2>1. CASE pc \in {"answers", "done"}
        BY <2>1 DEF TimeInv
  <2>2. CASE pc \notin {"answers", "done"} /\ server <= servers
    <3>1. Begun \in Nat /\ Begun + 1 <= servers * Attempts /\ servers * Attempts \in Nat
          BY <2>2, AttemptCounts, BoundIsProduct
    <3>2. elapsed <= (servers * Attempts) * RoundTrips
          BY <2>2, <3>1, WithinAttempt
    <3> QED
        BY <3>2, BoundIsProduct DEF TimeBounded
  <2>3. CASE pc \in {"start", "attempt"} /\ server > servers
    <3>1. CASE pc = "start"
      <4>1. elapsed = 0 /\ 0 <= servers * Attempts * 2 * Timeout
            BY <3>1, ClientAssumption DEF IInv, Types, Position
      <4> QED
          BY <4>1 DEF TimeBounded
    <3>2. CASE pc = "attempt"
      <4>1. Begun = servers * Attempts /\ Spent = 0
            BY <2>3, <3>2, ClientAssumption
               DEF Begun, Spent, IInv, Types, Position, RoundTrip
      <4>2. elapsed <= (servers * Attempts) * RoundTrips + 0
            BY <3>2, <4>1 DEF TimeInv
      <4> QED
          BY <4>2, BoundIsProduct, ClientAssumption DEF TimeBounded, IInv, Types, RoundTrips
    <3> QED
        BY <2>3, <3>1, <3>2
  <2> QED
      BY <2>1, <2>2, <2>3 DEF IInv, Types, Position, RoundTrip
<1> QED
    BY <1>1, <1>2, <1>3, Invariant, PTL DEF Spec

----------------------------------------------------------------------------
(* The records of the answer section. What the loop over the CNAME records  *)
(* computes is shown by induction on its rounds. The induction is that of   *)
(* the least number outside a set: finite intervals are well-founded.       *)

LEMMA LeastNumber ==
    ASSUME NEW S \in SUBSET Nat, S # {}
    PROVE  \E m \in S : \A k \in S : m <= k
<1>1. PICK n \in S : TRUE
      OBVIOUS
<1> DEFINE U == 1..n
           T == {1..k : k \in {j \in S : j <= n}}
<1>2. n \in Nat /\ IsFiniteSet(U)
      BY FS_Interval
<1>3. T \subseteq FiniteSubsetsOf(U) /\ T # {}
  <2>1. ASSUME NEW k \in S, k <= n PROVE 1..k \in FiniteSubsetsOf(U)
    <3>1. k \in Nat /\ 1..k \subseteq U
          BY <1>2, <2>1
    <3>2. IsFiniteSet(1..k)
          BY <3>1, FS_Interval
    <3> QED
        BY <3>1, <3>2 DEF FiniteSubsetsOf
  <2>2. 1..n \in T
        BY <1>2
  <2> QED
      BY <2>1, <2>2
<1>4. \E x \in T : \A y \in T : <<y, x>> \notin StrictSubsetOrdering(U)
  <2> HIDE DEF T, U
  <2>1. IsWellFoundedOn(StrictSubsetOrdering(U), FiniteSubsetsOf(U))
        BY FS_StrictSubsetOrderingWellFounded
  <2> QED
      BY <1>3, <2>1, WFMin
<1>5. PICK m \in S : m <= n /\ \A y \in T : <<y, 1..m>> \notin StrictSubsetOrdering(U)
      BY <1>4
<1>6. ASSUME NEW k \in S, k < m PROVE FALSE
  <2> DEFINE a == 1..k
             b == 1..m
  <2>1. k \in Nat /\ m \in Nat /\ k <= n
        BY <1>2, <1>5, <1>6
  <2>2. a \in T
        BY <2>1
  <2>3. m \in b /\ m \notin a
        BY <1>6, <2>1
  <2>4. a \in SUBSET U /\ b \in SUBSET U /\ a \subseteq b /\ a # b
        BY <1>5, <1>6, <2>1, <2>3
  <2>5. <<a, b>> \in StrictSubsetOrdering(U)
    <3> HIDE DEF a, b, U
    <3> QED
        BY <2>4 DEF StrictSubsetOrdering
  <2> QED
      BY <1>5, <2>2, <2>5
<1> QED
    BY <1>5, <1>6

LEMMA Induction ==
    ASSUME NEW S, 0 \in S, \A n \in Nat : n \in S => n + 1 \in S
    PROVE  Nat \subseteq S
<1>1. SUFFICES ASSUME Nat \ S # {} PROVE FALSE
      OBVIOUS
<1>2. PICK m \in Nat \ S : \A k \in Nat \ S : m <= k
  <2>1. Nat \ S \in SUBSET Nat
        OBVIOUS
  <2> QED
      BY <1>1, <2>1, LeastNumber
<1>3. m # 0 /\ m - 1 \in Nat /\ (m - 1) + 1 = m
      BY <1>2
<1>4. m - 1 \in S
      BY <1>2, <1>3
<1> QED
    BY <1>2, <1>3, <1>4

\* An answer section, as ReturnAnswers chooses it.
IsSection(ans) == ans \in Seq(Records)

Closed(S, ans) ==
    /\ Owner \in S
    /\ \A k \in DOMAIN ans : ans[k].owner \in S /\ ans[k].cname # NoName => ans[k].cname \in S

\* The loop's names so far: distinct, from the owner on, each the alias of the
\* one before it.
Linked(chain, ans) ==
    /\ chain \in Seq(Names) /\ Len(chain) > 0 /\ chain[1] = Owner
    /\ \A i, j \in 1..Len(chain) : chain[i] = chain[j] => i = j
    /\ \A i \in 1..Len(chain) - 1 : \E k \in DOMAIN ans :
           ans[k].owner = chain[i] /\ ans[k].cname = chain[i + 1]

Elements(chain) == {chain[i] : i \in 1..Len(chain)}

LEMMA FirstIsLeast ==
    ASSUME NEW S \in SUBSET Nat, S # {}
    PROVE  First(S) \in S /\ \A k \in S : First(S) <= k
BY LeastNumber DEF First

\* A round adds the next name, or none if the names are closed.
LEMMA RoundFacts ==
    ASSUME NEW ans, IsSection(ans), NEW c, Linked(c, ans)
    PROVE  /\ Linked(Followed(c, ans), ans)
           /\ Followed(c, ans) = c \/ Len(Followed(c, ans)) = Len(c) + 1
           /\ Closed(Elements(c), ans) => Followed(c, ans) = c
           /\ Functional(ans) /\ Followed(c, ans) = c => Closed(Elements(c), ans)
<1> DEFINE cnames == CnamesOf(Last(c), ans)
           k0 == First(cnames)
           next == ans[k0].cname
<1>1. /\ c \in Seq(Names) /\ Len(c) \in Nat /\ Len(c) > 0 /\ c[1] = Owner
      /\ \A i \in 1..Len(c) : c[i] \in Names
      /\ Last(c) = c[Len(c)] /\ Last(c) \in Elements(c) /\ Owner \in Elements(c)
      BY DEF Linked, Last, Elements
<1>2. DOMAIN ans = 1..Len(ans) /\ Len(ans) \in Nat /\ \A k \in DOMAIN ans : ans[k] \in Records
      BY DEF IsSection
<1>3. cnames \in SUBSET Nat
      BY <1>2 DEF CnamesOf
<1>4. cnames # {} => /\ k0 \in DOMAIN ans /\ ans[k0].owner = Last(c)
                     /\ next # NoName /\ next \in Names
  <2>1. cnames # {} => k0 \in cnames
        BY <1>3, FirstIsLeast
  <2> QED
      BY <1>2, <2>1 DEF CnamesOf, Records
<1>5. Contains(c, next) <=> next \in Elements(c)
      BY DEF Contains, Elements
<1>6. Followed(c, ans) = IF cnames = {} \/ Contains(c, next) THEN c ELSE Append(c, next)
      BY DEF Followed
<1> HIDE DEF cnames, k0, next
<1>7. CASE cnames = {} \/ Contains(c, next)
  <2>1. Followed(c, ans) = c
        BY <1>6, <1>7
  <2>2. ASSUME Functional(ans), NEW k \in DOMAIN ans,
               ans[k].owner \in Elements(c), ans[k].cname # NoName
        PROVE  ans[k].cname \in Elements(c)
    <3>1. PICK i \in 1..Len(c) : ans[k].owner = c[i]
          BY <2>2 DEF Elements
    <3>2. CASE i = Len(c)
      <4>1. k \in cnames
            BY <1>1, <2>2, <3>1, <3>2 DEF cnames, CnamesOf
      <4>2. k = k0
            BY <1>1, <1>4, <2>2, <3>1, <3>2, <4>1 DEF Functional, next
      <4> QED
          BY <1>5, <1>7, <4>1, <4>2 DEF next
    <3>3. CASE i # Len(c)
      <4>1. i \in 1..Len(c) - 1 /\ i + 1 \in 1..Len(c)
            BY <1>1, <3>3
      <4>2. PICK j \in DOMAIN ans : ans[j].owner = c[i] /\ ans[j].cname = c[i + 1]
            BY <4>1 DEF Linked
      <4>3. ans[j].cname # NoName
            BY <1>1, <4>1, <4>2, ClientAssumption
      <4>4. j = k
            BY <2>2, <3>1, <4>2, <4>3 DEF Functional
      <4> QED
          BY <4>1, <4>2, <4>4 DEF Elements
    <3> QED
        BY <3>2, <3>3
  <2> QED
      BY <1>1, <2>1, <2>2 DEF Closed
<1>8. CASE cnames # {} /\ ~Contains(c, next)
  <2>1. Followed(c, ans) = Append(c, next) /\ next \in Names /\ next \notin Elements(c)
        BY <1>4, <1>5, <1>6, <1>8
  <2> DEFINE d == Append(c, next)
  <2>2. /\ d \in Seq(Names) /\ Len(d) = Len(c) + 1 /\ d[Len(c) + 1] = next
        /\ \A i \in 1..Len(c) : d[i] = c[i]
        BY <1>1, <2>1
  <2> HIDE DEF d
  <2>3. \A i, j \in 1..Len(d) : d[i] = d[j] => i = j
    <3>1. \A i \in 1..Len(c) : c[i] # next
          BY <2>1 DEF Elements
    <3>2. \A i, j \in 1..Len(c) : c[i] = c[j] => i = j
          BY DEF Linked
    <3>3. \A i \in 1..Len(d) : i = Len(c) + 1 \/ i \in 1..Len(c)
          BY <1>1, <2>2
    <3> SUFFICES ASSUME NEW i \in 1..Len(d), NEW j \in 1..Len(d), d[i] = d[j]
                 PROVE  i = j
          OBVIOUS
    <3>4. CASE i = Len(c) + 1
          BY <2>2, <3>1, <3>3, <3>4
    <3>5. CASE j = Len(c) + 1
          BY <2>2, <3>1, <3>3, <3>5
    <3>6. CASE i \in 1..Len(c) /\ j \in 1..Len(c)
          BY <2>2, <3>2, <3>6
    <3> QED
        BY <3>3, <3>4, <3>5, <3>6
  <2>4. ASSUME NEW i \in 1..Len(d) - 1
        PROVE  \E k \in DOMAIN ans : ans[k].owner = d[i] /\ ans[k].cname = d[i + 1]
    <3>1. CASE i = Len(c)
          BY <1>1, <1>4, <1>8, <2>2, <3>1 DEF next
    <3>2. CASE i # Len(c)
      <4>1. i \in 1..Len(c) - 1 /\ d[i] = c[i] /\ d[i + 1] = c[i + 1]
            BY <1>1, <2>2, <3>2
      <4> QED
          BY <4>1 DEF Linked
    <3> QED
        BY <3>1, <3>2
  <2>5. Linked(d, ans)
        BY <1>1, <2>2, <2>3, <2>4 DEF Linked
  <2>6. ~Closed(Elements(c), ans)
        BY <1>1, <1>4, <1>8, <2>1 DEF Closed, next
  <2> QED
      BY <1>1, <2>1, <2>2, <2>5, <2>6 DEF d
<1> QED
    BY <1>7, <1>8

\* The names after all rounds are those of a linked chain, and all that follow
\* from the owner unless each of the MaxCnameChain rounds has added one.
LEMMA RoundsFacts ==
    ASSUME NEW ans, IsSection(ans)
    PROVE  \E c : /\ ChainOf(ans) = Elements(c) /\ Linked(c, ans)
                  /\ Functional(ans) => \/ Closed(Elements(c), ans)
                                        \/ Len(c) = MaxCnameChain + 1
<1> DEFINE Rounds(n, f) == f = [k \in 0..n |-> IF k = 0 THEN <<Owner>>
                                               ELSE Followed(f[k - 1], ans)]
           Good(n, c) == /\ Linked(c, ans)
                         /\ Functional(ans) => Closed(Elements(c), ans) \/ Len(c) = n + 1
           S == {n \in Nat : /\ \E f : Rounds(n, f)
                             /\ \A f : Rounds(n, f) => Good(n, f[n])}
<1>1. Linked(<<Owner>>, ans)
      BY ClientAssumption DEF Linked
<1>2. 0 \in S
  <2> DEFINE g == [k \in 0..0 |-> <<Owner>>]
  <2>1. g = [k \in 0..0 |-> IF k = 0 THEN <<Owner>> ELSE Followed(g[k - 1], ans)]
        OBVIOUS
  <2>2. ASSUME NEW f, Rounds(0, f) PROVE Good(0, f[0])
    <3>1. f[0] = <<Owner>> /\ Len(<<Owner>>) = 1
          BY <2>2
    <3> QED
        BY <1>1, <3>1
  <2> HIDE DEF g
  <2> QED
      BY <2>1, <2>2
<1>3. ASSUME NEW n \in Nat, n \in S PROVE n + 1 \in S
  <2>1. (\E f : Rounds(n, f)) /\ \A f : Rounds(n, f) => Good(n, f[n])
        BY <1>3
  <2>2. \E g : Rounds(n + 1, g)
    <3>1. PICK f : Rounds(n, f)
          BY <2>1
    <3> DEFINE g == [k \in 0..n + 1 |-> IF k = 0 THEN <<Owner>> ELSE Followed(f[k - 1], ans)]
    <3>2. \A k \in 0..n : g[k] = f[k]
      <4>1. \A k \in 0..n : f[k] = IF k = 0 THEN <<Owner>> ELSE Followed(f[k - 1], ans)
            BY <3>1
      <4> QED
          BY <4>1
    <3>3. ASSUME NEW k \in 0..n + 1
          PROVE  (IF k = 0 THEN <<Owner>> ELSE Followed(f[k - 1], ans))
                    = (IF k = 0 THEN <<Owner>> ELSE Followed(g[k - 1], ans))
      <4>1. k # 0 => k - 1 \in 0..n
            OBVIOUS
      <4> HIDE DEF g
      <4> QED
          BY <3>2, <4>1
    <3>4. g = [k \in 0..n + 1 |-> IF k = 0 THEN <<Owner>> ELSE Followed(g[k - 1], ans)]
      <4> DEFINE h == [k \in 0..n + 1 |-> IF k = 0 THEN <<Owner>> ELSE Followed(g[k - 1], ans)]
      <4>1. \A k \in 0..n + 1 : g[k] = h[k]
            BY <3>3
      <4>2. DOMAIN g = 0..n + 1 /\ DOMAIN h = 0..n + 1
            OBVIOUS
      <4>3. g = [k \in DOMAIN g |-> g[k]] /\ h = [k \in DOMAIN h |-> h[k]]
            OBVIOUS
      <4> HIDE DEF g, h
      <4>4. g = h
            BY <4>1, <4>2, <4>3
      <4> QED
          BY <4>4 DEF h
    <3> HIDE DEF g
    <3> QED
        BY <3>4
  <2>3. ASSUME NEW g, Rounds(n + 1, g) PROVE Good(n + 1, g[n + 1])
    <3> DEFINE f == [k \in 0..n |-> g[k]]
    <3>1. \A k \in 0..n + 1 : g[k] = IF k = 0 THEN <<Owner>> ELSE Followed(g[k - 1], ans)
          BY <2>3
    <3>2. ASSUME NEW k \in 0..n
          PROVE  f[k] = IF k = 0 THEN <<Owner>> ELSE Followed(f[k - 1], ans)
      <4>1. k \in 0..n + 1 /\ f[k] = g[k] /\ (k # 0 => k - 1 \in 0..n)
            OBVIOUS
      <4>2. k # 0 => f[k - 1] = g[k - 1]
            BY <4>1
      <4> HIDE DEF f
      <4> QED
          BY <3>1, <4>1, <4>2
    <3>3. Rounds(n, f)
      <4> DEFINE h == [k \in 0..n |-> IF k = 0 THEN <<Owner>> ELSE Followed(f[k - 1], ans)]
      <4>1. \A k \in 0..n : f[k] = h[k]
            BY <3>2
      <4>2. DOMAIN f = 0..n /\ DOMAIN h = 0..n
            OBVIOUS
      <4>3. f = [k \in DOMAIN f |-> f[k]] /\ h = [k \in DOMAIN h |-> h[k]]
            OBVIOUS
      <4> HIDE DEF f, h
      <4>4. f = h
            BY <4>1, <4>2, <4>3
      <4> QED
          BY <4>4 DEF h
    <3> DEFINE c == g[n]
               d == g[n + 1]
    <3>4. /\ Linked(c, ans)
          /\ Functional(ans) => Closed(Elements(c), ans) \/ Len(c) = n + 1
      <4>1. Good(n, f[n])
            BY <2>1, <3>3
      <4>2. f[n] = c
            OBVIOUS
      <4> HIDE DEF c, f
      <4> QED
          BY <4>1, <4>2
    <3>5. d = Followed(c, ans)
      <4>1. n + 1 \in 0..n + 1 /\ n + 1 # 0 /\ (n + 1) - 1 = n
            OBVIOUS
      <4> QED
          BY <3>1, <4>1
    <3> HIDE DEF c, d
    <3>6. /\ Linked(d, ans)
          /\ d = c \/ Len(d) = Len(c) + 1
          /\ Closed(Elements(c), ans) => d = c
          /\ Functional(ans) /\ d = c => Closed(Elements(c), ans)
          BY <3>4, <3>5, RoundFacts
    <3>7. Functional(ans) => Closed(Elements(d), ans) \/ Len(d) = (n + 1) + 1
      <4>1. CASE d = c
            BY <3>6, <4>1
      <4>2. CASE d # c
        <5>1. Len(d) = Len(c) + 1 /\ ~Closed(Elements(c), ans)
              BY <3>6, <4>2
        <5>2. Functional(ans) => Len(c) = n + 1
              BY <3>4, <5>1
        <5> QED
            BY <5>1, <5>2
      <4> QED
          BY <4>1, <4>2
    <3> QED
        BY <3>6, <3>7 DEF d
  <2> HIDE DEF Rounds, Good
  <2> QED
      BY <2>2, <2>3
<1>4. MaxCnameChain \in S
  <2> HIDE DEF S
  <2>1. Nat \subseteq S
        BY <1>2, <1>3, Induction
  <2> QED
      BY <2>1, ClientAssumption
<1> DEFINE chain == CHOOSE f : Rounds(MaxCnameChain, f)
<1>5. Rounds(MaxCnameChain, chain)
      BY <1>4
<1>6. Good(MaxCnameChain, chain[MaxCnameChain])
      BY <1>4, <1>5
<1>7. ChainOf(ans) = ToSet(chain[MaxCnameChain])
      BY DEF ChainOf
<1> DEFINE c == chain[MaxCnameChain]
<1> HIDE DEF chain, c, S
<1>8. Linked(c, ans) /\ (Functional(ans) => Closed(Elements(c), ans) \/ Len(c) = MaxCnameChain + 1)
      BY <1>6 DEF c
<1>9. ToSet(c) = Elements(c)
  <2>1. DOMAIN c = 1..Len(c)
        BY <1>8 DEF Linked
  <2> QED
      BY <2>1 DEF ToSet, Elements
<1> QED
    BY <1>7, <1>8, <1>9 DEF c

\* Every name of a linked chain belongs to the owner.
LEMMA LinkedIsReachable ==
    ASSUME NEW ans, IsSection(ans), NEW c, Linked(c, ans)
    PROVE  Elements(c) \subseteq Reachable(ans)
<1>1. /\ c \in Seq(Names) /\ Len(c) \in Nat /\ Len(c) > 0 /\ c[1] = Owner
      /\ \A i \in 1..Len(c) : c[i] \in Names
      BY DEF Linked
<1>2. ASSUME NEW T \in SUBSET Names, Owner \in T,
             \A rr \in ToSet(ans) : rr.owner \in T /\ rr.cname # NoName => rr.cname \in T
      PROVE  \A i \in 1..Len(c) : c[i] \in T
  <2> DEFINE S == {n \in Nat : n + 1 \in 1..Len(c) => c[n + 1] \in T}
  <2>1. 0 \in S
        BY <1>1, <1>2
  <2>2. ASSUME NEW n \in Nat, n \in S PROVE n + 1 \in S
    <3>1. SUFFICES ASSUME (n + 1) + 1 \in 1..Len(c) PROVE c[(n + 1) + 1] \in T
          OBVIOUS
    <3>2. n + 1 \in 1..Len(c) /\ n + 1 \in 1..Len(c) - 1
          BY <1>1, <3>1
    <3>3. c[n + 1] \in T
          BY <2>2, <3>2
    <3>4. PICK k \in DOMAIN ans : ans[k].owner = c[n + 1] /\ ans[k].cname = c[(n + 1) + 1]
          BY <3>2 DEF Linked
    <3>5. ans[k] \in ToSet(ans) /\ ans[k].cname # NoName
          BY <1>1, <3>1, <3>4, ClientAssumption DEF ToSet
    <3> QED
        BY <1>2, <3>3, <3>4, <3>5
  <2> HIDE DEF S
  <2>3. Nat \subseteq S
        BY <2>1, <2>2, Induction
  <2>4. ASSUME NEW i \in 1..Len(c) PROVE c[i] \in T
    <3>1. i - 1 \in Nat /\ (i - 1) + 1 = i /\ (i - 1) + 1 \in 1..Len(c)
          BY <1>1
    <3>2. i - 1 \in S
          BY <2>3, <3>1
    <3> QED
        BY <3>1, <3>2 DEF S
  <2> QED
      BY <2>4
<1> QED
    BY <1>1, <1>2 DEF Elements, Reachable

LEMMA ClosedHoldsReachable ==
    ASSUME NEW ans, IsSection(ans), NEW T \in SUBSET Names, Closed(T, ans)
    PROVE  Reachable(ans) \subseteq T
<1>1. \A rr \in ToSet(ans) : rr.owner \in T /\ rr.cname # NoName => rr.cname \in T
      BY DEF Closed, ToSet
<1> QED
    BY <1>1 DEF Closed, Reachable

LEMMA ReachableIsFinite ==
    ASSUME NEW ans, IsSection(ans)
    PROVE  IsFiniteSet(Reachable(ans)) /\ Owner \in Reachable(ans)
<1>1. /\ Len(ans) \in Nat /\ DOMAIN ans = 1..Len(ans)
      /\ \A k \in 1..Len(ans) : ans[k].cname \in Names \cup {NoName}
  <2>1. Len(ans) \in Nat /\ DOMAIN ans = 1..Len(ans) /\ \A k \in 1..Len(ans) : ans[k] \in Records
        BY DEF IsSection
  <2>2. \A rr \in Records : rr.cname \in Names \cup {NoName}
        BY DEF Records
  <2> QED
      BY <2>1, <2>2
<1> DEFINE g == [k \in 0..Len(ans) |-> IF k = 0 \/ ans[k].cname = NoName THEN Owner
                                      ELSE ans[k].cname]
           T == {g[k] : k \in 0..Len(ans)}
<1>2. ASSUME NEW k \in 0..Len(ans) PROVE g[k] \in Names
  <2>1. k # 0 => k \in 1..Len(ans) /\ ans[k].cname \in Names \cup {NoName}
        BY <1>1
  <2>2. g[k] = IF k = 0 \/ ans[k].cname = NoName THEN Owner ELSE ans[k].cname
        OBVIOUS
  <2> HIDE DEF g
  <2> QED
      BY <2>1, <2>2, ClientAssumption
<1>3. T \in SUBSET Names
      BY <1>2
<1>4. IsFiniteSet(T)
  <2>1. g \in Surjection(0..Len(ans), T)
        BY DEF Surjection
  <2>2. IsFiniteSet(0..Len(ans))
        BY <1>1, FS_Interval
  <2> HIDE DEF g, T
  <2> QED
      BY <2>1, <2>2, FS_Surjection
<1>5. Closed(T, ans)
  <2>1. Owner \in T
    <3>1. 0 \in 0..Len(ans) /\ g[0] = Owner
          BY <1>1
    <3> QED
        BY <3>1
  <2>2. ASSUME NEW k \in DOMAIN ans, ans[k].cname # NoName PROVE ans[k].cname \in T
    <3>1. k \in 0..Len(ans) /\ k # 0 /\ g[k] = ans[k].cname
          BY <1>1, <2>2
    <3> QED
        BY <3>1
  <2> HIDE DEF T, g
  <2> QED
      BY <2>1, <2>2 DEF Closed
<1> HIDE DEF T, g
<1>6. Reachable(ans) \in SUBSET T
      BY <1>3, <1>5, ClosedHoldsReachable
<1>7. IsFiniteSet(Reachable(ans))
      BY <1>4, <1>6, FS_Subset
<1>8. Owner \in Reachable(ans)
      BY ClientAssumption DEF Reachable
<1> QED
    BY <1>7, <1>8

\* A chain that has grown in every round has all the names, if there are no more
\* than the rounds can add.
LEMMA LongChainIsAll ==
    ASSUME NEW ans, IsSection(ans), NEW c, Linked(c, ans), Len(c) = MaxCnameChain + 1,
           Cardinality(Reachable(ans) \ {Owner}) <= MaxCnameChain
    PROVE  Reachable(ans) \subseteq Elements(c)
<1> DEFINE R == Reachable(ans)
           n == MaxCnameChain + 1
<1>1. IsFiniteSet(R) /\ Owner \in R /\ Elements(c) \subseteq R
      BY ReachableIsFinite, LinkedIsReachable
<1>2. n \in Nat /\ MaxCnameChain \in Nat
      BY ClientAssumption
<1>3. Cardinality(R) \in Nat /\ Cardinality(R) <= n
  <2>1. Cardinality(R \ {Owner}) = Cardinality(R) - 1 /\ Cardinality(R) \in Nat
    <3> HIDE DEF R
    <3> QED
        BY <1>1, FS_RemoveElement, FS_CardinalityType
  <2>2. Cardinality(R \ {Owner}) <= MaxCnameChain
        OBVIOUS
  <2> HIDE DEF R
  <2> QED
      BY <1>2, <2>1, <2>2
<1>4. c \in Injection(1..n, R)
  <2>1. c \in [1..n -> R]
    <3>1. c \in Seq(Names) /\ DOMAIN c = 1..n /\ c = [i \in DOMAIN c |-> c[i]]
          BY DEF Linked
    <3>2. \A i \in 1..n : c[i] \in R
          BY <1>1 DEF Elements
    <3> HIDE DEF n, R
    <3> QED
        BY <3>1, <3>2
  <2>2. \A i, j \in 1..n : c[i] = c[j] => i = j
        BY DEF Linked
  <2> HIDE DEF n, R
  <2> QED
      BY <2>1, <2>2 DEF Injection, IsInjective
<1> HIDE DEF R, n
<1>5. Cardinality(1..n) = n
      BY <1>2, FS_Interval
<1>6. Cardinality(1..n) <= Cardinality(R) /\ (Cardinality(1..n) = Cardinality(R) <=> c \in Surjection(1..n, R))
      BY <1>1, <1>4, FS_Injection
<1>7. c \in Surjection(1..n, R)
      BY <1>2, <1>3, <1>5, <1>6
<1> QED
    BY <1>7 DEF Surjection, Elements, R, n

\* What the records of any answer section come to.
LEMMA SectionIsExact ==
    ASSUME NEW ans, IsSection(ans)
    PROVE  /\ \A i \in AnswersFor(ans) : ans[i].owner \in Reachable(ans)
           /\ Functional(ans) /\ Cardinality(Reachable(ans) \ {Owner}) <= MaxCnameChain =>
                  \A i \in DOMAIN ans :
                      ans[i].cname = NoName /\ ans[i].owner \in Reachable(ans) => i \in AnswersFor(ans)
<1>1. PICK c : /\ ChainOf(ans) = Elements(c) /\ Linked(c, ans)
               /\ Functional(ans) => Closed(Elements(c), ans) \/ Len(c) = MaxCnameChain + 1
      BY RoundsFacts
<1>2. ChainOf(ans) \subseteq Reachable(ans)
      BY <1>1, LinkedIsReachable
<1>3. ASSUME Functional(ans), Cardinality(Reachable(ans) \ {Owner}) <= MaxCnameChain
      PROVE  Reachable(ans) \subseteq ChainOf(ans)
  <2>1. Elements(c) \in SUBSET Names
        BY <1>1 DEF Linked, Elements
  <2>2. CASE Closed(Elements(c), ans)
        BY <1>1, <2>1, <2>2, ClosedHoldsReachable
  <2>3. CASE Len(c) = MaxCnameChain + 1
        BY <1>1, <1>3, <2>3, LongChainIsAll
  <2> QED
      BY <1>1, <1>3, <2>2, <2>3
<1> QED
    BY <1>2, <1>3 DEF AnswersFor

LEMMA OnlyReturnAnswersAnswers == [Next]_vars => ReturnAnswers \/ answers' = answers
<1> SUFFICES ASSUME [Next]_vars PROVE ReturnAnswers \/ answers' = answers
    OBVIOUS
<1> USE DEF history
<1>1. CASE Loop
      BY <1>1 DEF Loop, RejectName, NoServers, Begin, StartAttempt, ContextEnded, ServersExhausted
<1>2. CASE Network
      BY <1>2 DEF Network, Dial, DialFails, Write, WriteFails, ReadError, ReadEof,
                  RoundTripFails, ReceiveUdp, ReceiveTcp
<1>3. CASE ReadTimeout \/ CutOff \/ Tick \/ EndContext
      BY <1>3 DEF ReadTimeout, RoundTripFails, CutOff, Tick, EndContext
<1>4. CASE UNCHANGED vars
      BY <1>4 DEF vars
<1> QED
    BY <1>1, <1>2, <1>3, <1>4 DEF Next

\* Whatever a response contains, all that it says of the looked-up name is
\* returned, and nothing else: the loop of answersFor neither strays from the
\* owner's aliases nor stops before the last of them.
THEOREM AnswersAreExact == Spec => []AnswersExact
<1>1. Init => IsSection(answers)
      BY EmptySeq DEF Init, IsSection
<1>2. IsSection(answers) /\ [Next]_vars => IsSection(answers)'
  <2> SUFFICES ASSUME IsSection(answers), [Next]_vars PROVE IsSection(answers)'
      OBVIOUS
  <2>1. CASE answers' = answers
        BY <2>1 DEF IsSection
  <2>2. CASE ReturnAnswers
    <3>1. PICK n \in 0..MaxAnswers : answers' \in [1..n -> Records]
          BY <2>2 DEF ReturnAnswers, SeqOf
    <3>2. n \in Nat
          BY ClientAssumption
    <3> QED
        BY <3>1, <3>2, SeqDef DEF IsSection
  <2> QED
      BY <2>1, <2>2, OnlyReturnAnswersAnswers
<1>3. IsSection(answers) => AnswersExact
      BY SectionIsExact DEF AnswersExact, AnswersReachable, AnswersComplete
<1> QED
    BY <1>1, <1>2, <1>3, PTL DEF Spec
=============================================================================
