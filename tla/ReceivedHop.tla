---------------------------- MODULE ReceivedHop ----------------------------
(***************************************************************************)
(* What received.go takes from the clauses of one Received header.  A      *)
(* clause is the first of its kind; of its text, the words the parser      *)
(* tells apart are kept:                                                   *)
(*   [kind |-> "helo", name]     helo=name                                 *)
(*   [kind |-> "literal", addr]  an address in brackets                    *)
(*   [kind |-> "bare", addr]     an address without brackets               *)
(*   [kind |-> "verb"]           HELO or EHLO                              *)
(*   [kind |-> "name", name]     any other word                            *)
(* A comment is a sequence of words.                                       *)
(***************************************************************************)
EXTENDS Integers, Sequences, SequencesExt

CONSTANTS NoValue,  \* nil
          Unknown   \* the word "unknown", which stands for no reverse name

Stated(v) == [value |-> v, source |-> "stated"]
Inferred(v) == [value |-> v, source |-> "inferred"]

IsAddress(word) == word.kind \in {"literal", "bare"}

\* The name a word is, where the code takes whatever word it finds.
NameOf(word) == IF word.kind \in {"name", "helo"} THEN word.name ELSE NoValue

\* The first address seen is taken: the word after "from" if it is an
\* address literal, else the first address in a comment.
HopAddress(from) ==
    LET addresses == SelectSeq(FlattenSeq(from.comments), IsAddress)
    IN  IF from.first.kind = "literal" THEN Stated(from.first.addr)
        ELSE IF addresses # <<>> THEN Stated(Head(addresses).addr)
        ELSE NoValue

\* The names a comment states as HELO: helo=name, or the qmail form (HELO name).
StatedIn(comment) ==
    LET explicit == SelectSeq(comment, LAMBDA w : w.kind = "helo")
        qmail == Len(comment) = 2 /\ comment[1].kind = "verb"
    IN  [i \in DOMAIN explicit |-> explicit[i].name]
        \o (IF qmail THEN <<NameOf(comment[2])>> ELSE <<>>)

StatedNames(from) ==
    FlattenSeq([i \in DOMAIN from.comments |-> StatedIn(from.comments[i])])

\* The word after "from" names the host unless it is an address.
FromHost(from) ==
    IF from.first.kind = "literal" THEN NoValue ELSE NameOf(from.first)

\* A stated name wins, the last one if there are several; else the word
\* after "from" is the name by convention, an address literal included.
HopHelo(from) ==
    IF StatedNames(from) # <<>> THEN Stated(Last(StatedNames(from)))
    ELSE IF from.first.kind = "literal" THEN Inferred(from.first)
    ELSE Inferred(FromHost(from))

\* A comment "(reverse.name [address])" without a HELO in it.
ReverseComments(from) ==
    SelectSeq(from.comments, LAMBDA c :
        /\ Len(c) >= 2
        /\ c[Len(c)].kind = "literal"
        /\ \A i \in DOMAIN c : c[i].kind \notin {"helo", "verb"})

HopReverse(from) ==
    IF StatedNames(from) # <<>>
      THEN IF FromHost(from) = NoValue THEN NoValue ELSE Inferred(FromHost(from))
      ELSE IF ReverseComments(from) = <<>> \/ NameOf(ReverseComments(from)[1][1]) \in {NoValue, Unknown}
             THEN NoValue
             ELSE Inferred(NameOf(ReverseComments(from)[1][1]))

\* parseFrom: an empty clause yields nothing.
ParseFrom(from) ==
    IF from.first.kind = "none"
      THEN [ip |-> NoValue, helo |-> NoValue, reverse |-> NoValue]
      ELSE [ip |-> HopAddress(from), helo |-> HopHelo(from), reverse |-> HopReverse(from)]
============================================================================
