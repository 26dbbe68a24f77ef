---------------------------- MODULE SmtpInputs ----------------------------
(***************************************************************************)
(* The SMTP client, HELO and MAIL FROM that SPF is evaluated for: spfInputs*)
(* of analyzer/message.go, with received.Build and InferSource.  The       *)
(* headers it reads are written by hosts the message passes: the sender    *)
(* writes anything, the border MTA records the connection it accepted, a   *)
(* host behind it may add a hop, and delivery may add a Return-Path.       *)
(***************************************************************************)
EXTENDS ReceivedHop, FiniteSets

CONSTANTS Public, Private,    \* client addresses, in canonical spelling
          OddSpellings,       \* addresses an operator spells in another way
          Names, BadNames,    \* names that are valid as HELO domain, and others
          Mailboxes, BadMailboxes,  \* the same for MAIL FROM
          Null,               \* the null reverse-path, <>
          ReverseName,        \* the reverse name of a client
          MaxHops,            \* received.MaxHops
          Operators,          \* the flags given: [ip, helo, from]
          Peers,              \* connections the border accepts: [ip, helo, from]
          SenderHops, SenderRecords, SenderPaths  \* headers the sender may write

Addresses == Public \cup Private

ASSUME InputsAssumption ==
    /\ Public \cap Private = {}
    /\ NoValue \notin Addresses \cup Names \cup BadNames \cup Mailboxes \cup BadMailboxes \cup {Null}
    /\ Null \notin Mailboxes \cup BadMailboxes
    /\ MaxHops \in Nat \ {0}
    /\ \A op \in Operators : /\ op.ip \in Addresses \cup OddSpellings \cup {NoValue}
                             /\ op.helo \in Names \cup BadNames \cup {NoValue}
                             /\ op.from \in Mailboxes \cup {Null, NoValue}
    /\ Peers \subseteq [ip : Addresses, helo : Names \cup BadNames, from : Mailboxes \cup {Null}]

VARIABLES
    at,          \* where the message is: "sender", "border", "inside", "delivered", "scanned"
    peer,        \* the connection the border accepted: [ip, helo, from]
    operator,    \* the flags of the scan, once it runs
    received,    \* from clauses of the Received headers, most recent first
    receivedSPF, \* the Received-SPF headers, in message order
    returnPath,  \* the Return-Path headers, in message order
    own,         \* history: how many headers of each kind the receiver wrote
    inputs       \* what spfInputs returns

inputsVars == <<at, peer, operator, received, receivedSPF, returnPath, own, inputs>>

----------------------------------------------------------------------------
\* received.Build keeps the most recent headers.
Chain(headers) == SubSeq(headers, 1, IF Len(headers) > MaxHops THEN MaxHops ELSE Len(headers))

\* InferSource: the most recent hop with a public client address.
PublicHops(headers) ==
    {i \in DOMAIN Chain(headers) :
        LET ip == ParseFrom(headers[i]).ip IN ip # NoValue /\ ip.value \in Public}

\* Mutant: the oldest header that fits.
FirstWritten(indices) == CHOOSE i \in indices : \A j \in indices : j <= i
First(indices) == CHOOSE i \in indices : \A j \in indices : i <= j

InferSource(headers) ==
    IF PublicHops(headers) = {} THEN NoValue
    ELSE LET hop == ParseFrom(headers[First(PublicHops(headers))])
         IN  [ip |-> hop.ip.value,
              helo |-> IF hop.helo = NoValue THEN NoValue ELSE hop.helo.value]

Input(v, source) == [value |-> v, source |-> source]

\* The Received-SPF header about the client, if any; only the first counts.
About(address, headers) ==
    LET matching == {i \in DOMAIN headers : headers[i].client = address}
    IN  IF matching = {} THEN NoValue ELSE headers[First(matching)]

\* spfInputs, field by field.  An operator's value always wins.
ClientInput(op, source) ==
    IF op.ip # NoValue THEN Input(op.ip, "flag")
    ELSE IF source # NoValue THEN Input(source.ip, "received")
    ELSE NoValue

\* Mutant: the HELO name of the inferred client, whatever address is used.
HeloInputOfAnyClient(op, source, ip, about) ==
    IF op.helo # NoValue THEN Input(op.helo, "flag")
    ELSE IF about # NoValue /\ about.helo \in Names THEN Input(about.helo, "received-spf")
    ELSE IF source # NoValue /\ source.helo \in Names THEN Input(source.helo, "received")
    ELSE NoValue

HeloInput(op, source, ip, about) ==
    IF op.helo # NoValue THEN Input(op.helo, "flag")
    ELSE IF about # NoValue /\ about.helo \in Names THEN Input(about.helo, "received-spf")
    ELSE IF source # NoValue /\ ip # NoValue /\ ip.value = source.ip /\ source.helo \in Names
           THEN Input(source.helo, "received")
    ELSE NoValue

FromInput(op, about, paths) ==
    IF op.from # NoValue THEN Input(op.from, "flag")
    ELSE IF about # NoValue /\ about.from \in Mailboxes THEN Input(about.from, "received-spf")
    ELSE IF paths # <<>> /\ Head(paths) \in Mailboxes \cup {Null}
           THEN Input(Head(paths), "return-path")
    ELSE NoValue

SpfInputs(op, hops, spf, paths) ==
    LET source == InferSource(hops)
        ip == ClientInput(op, source)
        about == IF ip = NoValue THEN NoValue ELSE About(ip.value, spf)
    IN  [ip |-> ip,
         helo |-> HeloInput(op, source, ip, about),
         from |-> FromInput(op, about, paths)]

----------------------------------------------------------------------------
(* The from clauses MTAs write about a client                              *)

Name(n) == [kind |-> "name", name |-> n]
Literal(a) == [kind |-> "literal", addr |-> a]
Bare(a) == [kind |-> "bare", addr |-> a]
HeloWord(n) == [kind |-> "helo", name |-> n]
From(first, comments) == [first |-> first, comments |-> comments]

Postfix(helo, ip) == From(Name(helo), << <<Name(ReverseName), Literal(ip)>> >>)
Exim(helo, ip) == From(Name(ReverseName), << <<Literal(ip), HeloWord(helo)>> >>)
Exchange(helo, ip) == From(Name(helo), << <<Bare(ip)>> >>)
Qmail(helo, ip) == From(Name(ReverseName), << <<[kind |-> "verb"], Name(helo)>>, <<Bare(ip)>> >>)
\* The client announced itself by an address literal instead of a name.
Announced(addr, ip) == From(Literal(addr), << <<Name(ReverseName), Literal(ip)>> >>)
NoClient == From([kind |-> "none"], <<>>)

Clauses(helo, ip) == {Postfix(helo, ip), Exim(helo, ip), Exchange(helo, ip), Qmail(helo, ip)}

Lists(S) == {<<>>} \cup {<<x>> : x \in S}

----------------------------------------------------------------------------
InputsInit ==
    /\ at = "sender"
    /\ peer \in Peers
    /\ operator = NoValue
    /\ received = <<>>
    /\ receivedSPF = <<>>
    /\ returnPath = <<>>
    /\ own = [received |-> 0, spf |-> 0, path |-> 0]
    /\ inputs = NoValue

\* The sender puts any header into the message.
SenderWrites ==
    /\ at = "sender"
    /\ at' = "border"
    /\ received' \in Lists(SenderHops)
    /\ receivedSPF' \in Lists(SenderRecords)
    /\ returnPath' \in Lists(SenderPaths)
    /\ UNCHANGED <<peer, operator, own, inputs>>

\* The border MTA records its peer, in its own style, above what is there.
BorderRecords ==
    /\ at = "border"
    /\ at' = "inside"
    /\ \E hop \in Clauses(peer.helo, peer.ip) \cup {Announced(a, peer.ip) : a \in Private} \cup {NoClient} :
         received' = <<hop>> \o received
    /\ \E checked \in BOOLEAN :
         LET record == [client |-> peer.ip, helo |-> peer.helo,
                        from |-> IF peer.from = Null THEN NoValue ELSE peer.from]
         IN  /\ receivedSPF' = (IF checked THEN <<record>> ELSE <<>>) \o receivedSPF
             /\ own' = [own EXCEPT !.received = 1, !.spf = IF checked THEN 1 ELSE 0]
    /\ UNCHANGED <<peer, operator, returnPath, inputs>>

\* A host behind the border hands it on; its client is the border.
InsideRelays ==
    /\ at = "inside"
    /\ own.received = 1
    /\ \E a \in Private : received' = <<Exchange(peer.helo, a)>> \o received
    /\ own' = [own EXCEPT !.received = 2]
    /\ UNCHANGED <<at, peer, operator, receivedSPF, returnPath, inputs>>

Deliver ==
    /\ at = "inside"
    /\ at' = "delivered"
    /\ \E recorded \in BOOLEAN :
         /\ returnPath' = (IF recorded THEN <<peer.from>> ELSE <<>>) \o returnPath
         /\ own' = [own EXCEPT !.path = IF recorded THEN 1 ELSE 0]
    /\ UNCHANGED <<peer, operator, received, receivedSPF, inputs>>

ScanMessage ==
    /\ at = "delivered"
    /\ at' = "scanned"
    /\ operator' \in Operators
    /\ inputs' = SpfInputs(operator', received, receivedSPF, returnPath)
    /\ UNCHANGED <<peer, received, receivedSPF, returnPath, own>>

InputsNext == SenderWrites \/ BorderRecords \/ InsideRelays \/ Deliver \/ ScanMessage

InputsSpec == InputsInit /\ [][InputsNext]_inputsVars

----------------------------------------------------------------------------
Sources == {"flag", "received", "received-spf", "return-path"}
Values == Addresses \cup OddSpellings \cup Names \cup BadNames \cup Mailboxes \cup {Null, ReverseName}
InputField == {NoValue} \cup [value : Values, source : Sources]

InputsTypeOK ==
    /\ at \in {"sender", "border", "inside", "delivered", "scanned"}
    /\ peer \in Peers
    /\ operator \in {NoValue} \cup Operators
    /\ own \in [received : 0..2, spf : 0..1, path : 0..1]
    /\ own.received <= Len(received) /\ own.spf <= Len(receivedSPF) /\ own.path <= Len(returnPath)
    /\ inputs \in {NoValue} \cup [ip : InputField, helo : InputField, from : InputField]

Scanned == at = "scanned"

\* What the scan would use if the receiver's own headers were all there is.
OwnInputs == SpfInputs(operator, SubSeq(received, 1, own.received),
                       SubSeq(receivedSPF, 1, own.spf), SubSeq(returnPath, 1, own.path))

OwnRecordAbout(ip) == own.spf = 1 /\ ip # NoValue /\ receivedSPF[1].client = ip.value

\* Nothing a sender puts into the message displaces what the receiver
\* recorded: neither the client address, nor, if the receiver checked SPF for
\* that client, the HELO name and the envelope sender. If it did not, a forged
\* Received-SPF that names the client may supply these; nothing is said of that.
RecordedWins ==
    Scanned =>
        /\ OwnInputs.ip # NoValue => inputs.ip = OwnInputs.ip
        /\ OwnInputs.ip # NoValue /\ OwnRecordAbout(inputs.ip) =>
             /\ OwnInputs.helo # NoValue => inputs.helo = OwnInputs.helo
             /\ OwnInputs.from # NoValue => inputs.from = OwnInputs.from

\* An inferred HELO name is that of the client SPF is evaluated for: some
\* header names both.
OneConnection ==
    Scanned /\ inputs.helo # NoValue /\ inputs.helo.source # "flag" =>
        /\ inputs.ip # NoValue
        /\ \/ \E i \in DOMAIN receivedSPF : /\ receivedSPF[i].client = inputs.ip.value
                                            /\ receivedSPF[i].helo = inputs.helo.value
           \/ \E i \in DOMAIN received : LET hop == ParseFrom(received[i])
                                         IN  /\ hop.ip # NoValue /\ hop.ip.value = inputs.ip.value
                                             /\ hop.helo # NoValue /\ hop.helo.value = inputs.helo.value

\* "The SMTP client used for SPF is inferred from the most recent Received
\* header with a public client address."
ClientIsRecorded ==
    Scanned /\ operator.ip = NoValue /\ peer.ip \in Public
      /\ received[own.received] # NoClient
    => inputs.ip # NoValue /\ inputs.ip.value = peer.ip
============================================================================
