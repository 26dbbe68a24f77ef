---------------------- MODULE PublishedPoliciesProofs ----------------------
(***************************************************************************)
(* What the audits of published policies report holds for every record and *)
(* every policy: of DMARC, of MTA-STS and of the MX records.               *)
(***************************************************************************)
EXTENDS DmarcPolicy, MailExchangers, StsPolicy, SequenceTheorems, FiniteSetTheorems, TLAPS

-----------------------------------------------------------------------------
(* DMARC: the tags of a record                                             *)

FirstOf(ts, n) ==
    {i \in DOMAIN ts : ts[i].name = n /\ \A j \in 1..i - 1 : ts[j].name # n}

\* Names are those of tags read, and each but v has a first occurrence.
AllNamed(ts, names) ==
    /\ \A i \in DOMAIN ts : ts[i].name \in names
    /\ \A n \in names \ {"v"} : FirstOf(ts, n) # {}

LEMMA FirstOnesAre ==
    /\ \A n : FirstOnes(n) = FirstOf(tags, n)
    /\ \A n : Spoilt(n) <=> \E i \in FirstOf(tags, n) : tags[i].policy = "bad"
  BY DEF FirstOnes, FirstOf, Spoilt

\* One more tag changes the first occurrences only if its name is new.
LEMMA OneMoreTag ==
    ASSUME NEW ts \in Seq(Tags), NEW names, AllNamed(ts, names), NEW t \in Tags
    PROVE  LET us == Append(ts, t)
           IN  /\ us \in Seq(Tags) /\ Len(us) = Len(ts) + 1
               /\ \A i \in DOMAIN ts : i \in DOMAIN us /\ us[i] = ts[i]
               /\ \A i \in DOMAIN us : i \in DOMAIN ts \/ us[i] = t
               /\ t.name \in names => \A n : n # "v" => FirstOf(us, n) = FirstOf(ts, n)
               /\ t.name \notin names =>
                    /\ \A n : n # t.name => FirstOf(us, n) = FirstOf(ts, n)
                    /\ FirstOf(ts, t.name) = {}
                    /\ \E i \in DOMAIN us : FirstOf(us, t.name) = {i} /\ us[i] = t
                    /\ \A i \in DOMAIN us : i \in DOMAIN ts \/ i \in FirstOf(us, t.name)
               /\ AllNamed(us, names \cup {t.name})
<1> DEFINE us == Append(ts, t)
<1>1. /\ us \in Seq(Tags) /\ Len(us) = Len(ts) + 1
      /\ \A i \in 1..Len(ts) : us[i] = ts[i]
      /\ us[Len(ts) + 1] = t
  BY AppendProperties
<1> HIDE DEF us
<1>0. Len(ts) \in Nat /\ DOMAIN ts = 1..Len(ts) /\ DOMAIN us = 1..Len(ts) + 1
  BY <1>1, LenProperties
<1>2. \A n : FirstOf(ts, n) \subseteq FirstOf(us, n)
  BY <1>0, <1>1 DEF FirstOf
<1>3. \A n : \A i \in FirstOf(us, n) : i \in FirstOf(ts, n) \/ (i = Len(ts) + 1 /\ n = t.name)
  BY <1>0, <1>1 DEF FirstOf
<1>4. ASSUME NEW n, n # t.name PROVE FirstOf(us, n) = FirstOf(ts, n)
  <2>1. FirstOf(us, n) \subseteq FirstOf(ts, n)
    BY <1>3, <1>4
  <2>2. QED
    BY <1>2, <2>1
<1>5. ASSUME t.name \in names, t.name # "v" PROVE FirstOf(us, t.name) = FirstOf(ts, t.name)
  <2>1. PICK j : j \in FirstOf(ts, t.name)
    BY <1>5 DEF AllNamed
  <2>2. j \in 1..Len(ts) /\ us[j].name = t.name
    BY <1>0, <1>1, <2>1 DEF FirstOf
  <2>3. Len(ts) + 1 \notin FirstOf(us, t.name)
    BY <1>0, <1>1, <2>2 DEF FirstOf
  <2>4. QED
    BY <1>2, <1>3, <2>3
<1>6. ASSUME t.name \notin names
      PROVE  FirstOf(ts, t.name) = {} /\ FirstOf(us, t.name) = {Len(ts) + 1}
  <2>1. FirstOf(ts, t.name) = {}
    BY <1>6 DEF FirstOf, AllNamed
  <2>2. \A j \in 1..Len(ts) : us[j].name # t.name
    BY <1>0, <1>1, <1>6 DEF AllNamed
  <2>3. Len(ts) + 1 \in FirstOf(us, t.name)
    BY <1>0, <1>1, <2>2 DEF FirstOf
  <2>4. QED
    BY <1>2, <1>3, <2>1, <2>3
<1>7. AllNamed(us, names \cup {t.name})
  <2>1. \A i \in DOMAIN us : us[i].name \in names \cup {t.name}
    BY <1>0, <1>1 DEF AllNamed
  <2>2. \A n \in (names \cup {t.name}) \ {"v"} : FirstOf(us, n) # {}
    BY <1>2, <1>5, <1>6 DEF AllNamed
  <2>3. QED
    BY <2>1, <2>2 DEF AllNamed
<1>8. QED
  BY <1>0, <1>1, <1>4, <1>5, <1>6, <1>7 DEF us

\* What the record says after its tags, value by value: for p and sp while the
\* tags are read, and for the others from then on.
PInv ==
    /\ pValid => FirstOf(tags, "p") # {} /\ \A i \in FirstOf(tags, "p") : tags[i].policy # "bad"
    /\ ~pValid => FirstOf(tags, "p") = {} \/ \E i \in FirstOf(tags, "p") : tags[i].policy = "bad"
    /\ \A i \in FirstOf(tags, "p") : tags[i].policy # "bad" => record.policy = tags[i].policy

SpInv ==
    /\ spInvalid => \E i \in FirstOf(tags, "sp") : tags[i].policy = "bad"
    /\ ~spInvalid => \A i \in FirstOf(tags, "sp") : tags[i].policy # "bad"
    /\ \A i \in FirstOf(tags, "sp") : tags[i].policy # "bad" => record.sp = tags[i].policy
    /\ FirstOf(tags, "sp") = {} => record.sp = "unset"

PctInv ==
    /\ record.pct = 100 \/ \E i \in FirstOf(tags, "pct") : record.pct = tags[i].pct
    /\ \A i \in FirstOf(tags, "pct") : tags[i].pct < 100 => record.pct = tags[i].pct

ModeInv ==
    /\ (record.adkim = "s") <=> (\E i \in FirstOf(tags, "adkim") : tags[i].mode = "s")
    /\ (record.aspf = "s") <=> (\E i \in FirstOf(tags, "aspf") : tags[i].mode = "s")

UriInv ==
    /\ \A i \in FirstOf(tags, "rua") : record.rua = parseURIs(tags[i])
    /\ FirstOf(tags, "rua") = {} => record.rua = {}
    /\ \A i \in FirstOf(tags, "ruf") : record.ruf = parseURIs(tags[i])

\* What the remarks that were not made say of the tags.
CleanInv ==
    /\ "DMARCDuplicateTag" \notin found =>
         \A i \in DOMAIN tags : i \in FirstOf(tags, tags[i].name)
    /\ "DMARCInvalidValue" \notin found =>
         \A i \in FirstOf(tags, "pct") : tags[i].pct <= 100
    /\ "DMARCInvalidURI" \notin found =>
         \A n \in {"rua", "ruf"} : \A i \in FirstOf(tags, n) : BadURI \notin tags[i].uris

TagsInv == AllNamed(tags, seen) /\ PInv /\ SpInv /\ PctInv /\ ModeInv /\ UriInv /\ CleanInv

\* The occurrences of a name are the same after a step.
SameFirst(n) ==
    /\ FirstOf(tags', n) = FirstOf(tags, n)
    /\ \A i \in FirstOf(tags, n) : tags'[i] = tags[i]

LEMMA OtherName ==
    /\ SameFirst("p") /\ PInv /\ pValid' = pValid /\ record.policy' = record.policy => PInv'
    /\ SameFirst("sp") /\ SpInv /\ spInvalid' = spInvalid /\ record.sp' = record.sp => SpInv'
    /\ SameFirst("pct") /\ PctInv /\ record.pct' = record.pct => PctInv'
    /\ SameFirst("adkim") /\ SameFirst("aspf") /\ ModeInv
         /\ record.adkim' = record.adkim /\ record.aspf' = record.aspf => ModeInv'
    /\ SameFirst("rua") /\ SameFirst("ruf") /\ UriInv
         /\ record.rua' = record.rua /\ record.ruf' = record.ruf => UriInv'
<1>1. SameFirst("p") /\ PInv /\ pValid' = pValid /\ record.policy' = record.policy => PInv'
  <2> SUFFICES ASSUME SameFirst("p"), PInv, pValid' = pValid, record.policy' = record.policy
               PROVE  PInv'
    OBVIOUS
  <2>1. /\ FirstOf(tags', "p") = FirstOf(tags, "p")
        /\ \A i \in FirstOf(tags', "p") : tags'[i] = tags[i]
    BY DEF SameFirst
  <2>2. \A i \in FirstOf(tags', "p") : tags'[i].policy # "bad" => record'.policy = tags'[i].policy
    BY <2>1 DEF PInv
  <2>3. pValid' => FirstOf(tags', "p") # {} /\ \A i \in FirstOf(tags', "p") : tags'[i].policy # "bad"
    BY <2>1, Zenon DEF PInv
  <2>4. ~pValid' => FirstOf(tags', "p") = {}
                    \/ \E i \in FirstOf(tags', "p") : tags'[i].policy = "bad"
    BY <2>1, Zenon DEF PInv
  <2>5. QED
    BY <2>2, <2>3, <2>4, Zenon DEF PInv
<1>2. SameFirst("sp") /\ SpInv /\ spInvalid' = spInvalid /\ record.sp' = record.sp => SpInv'
  <2> SUFFICES ASSUME SameFirst("sp"), SpInv, spInvalid' = spInvalid, record.sp' = record.sp
               PROVE  SpInv'
    OBVIOUS
  <2>1. /\ FirstOf(tags', "sp") = FirstOf(tags, "sp")
        /\ \A i \in FirstOf(tags', "sp") : tags'[i] = tags[i]
    BY DEF SameFirst
  <2>2. /\ \A i \in FirstOf(tags', "sp") : tags'[i].policy # "bad" => record'.sp = tags'[i].policy
        /\ FirstOf(tags', "sp") = {} => record'.sp = "unset"
    BY <2>1 DEF SpInv
  <2>3. spInvalid' => \E i \in FirstOf(tags', "sp") : tags'[i].policy = "bad"
    BY <2>1, Zenon DEF SpInv
  <2>4. ~spInvalid' => \A i \in FirstOf(tags', "sp") : tags'[i].policy # "bad"
    BY <2>1, Zenon DEF SpInv
  <2>5. QED
    BY <2>2, <2>3, <2>4, Zenon DEF SpInv
<1>3. SameFirst("pct") /\ PctInv /\ record.pct' = record.pct => PctInv'
  BY DEF SameFirst, PctInv
<1>4. SameFirst("adkim") /\ SameFirst("aspf") /\ ModeInv
         /\ record.adkim' = record.adkim /\ record.aspf' = record.aspf => ModeInv'
  <2> SUFFICES ASSUME SameFirst("adkim"), SameFirst("aspf"), ModeInv,
                      record.adkim' = record.adkim, record.aspf' = record.aspf
               PROVE  ModeInv'
    OBVIOUS
  <2>1. (record.adkim = "s" <=> \E i \in FirstOf(tags, "adkim") : tags[i].mode = "s")'
    BY DEF SameFirst, ModeInv
  <2>2. (record.aspf = "s" <=> \E i \in FirstOf(tags, "aspf") : tags[i].mode = "s")'
    BY DEF SameFirst, ModeInv
  <2>3. QED
    BY <2>1, <2>2 DEF ModeInv
<1>5. SameFirst("rua") /\ SameFirst("ruf") /\ UriInv
         /\ record.rua' = record.rua /\ record.ruf' = record.ruf => UriInv'
  <2> SUFFICES ASSUME SameFirst("rua"), SameFirst("ruf"), UriInv,
                      record.rua' = record.rua, record.ruf' = record.ruf
               PROVE  UriInv'
    OBVIOUS
  <2>1. (\A i \in FirstOf(tags, "rua") : record.rua = parseURIs(tags[i]))'
    BY DEF SameFirst, UriInv, parseURIs
  <2>2. (FirstOf(tags, "rua") = {} => record.rua = {})'
    BY DEF SameFirst, UriInv
  <2>3. (\A i \in FirstOf(tags, "ruf") : record.ruf = parseURIs(tags[i]))'
    BY DEF SameFirst, UriInv, parseURIs
  <2>4. QED
    BY <2>1, <2>2, <2>3 DEF UriInv
<1>6. QED
  BY <1>1, <1>2, <1>3, <1>4, <1>5

\* A tag that is read has the fields of its name.
LEMMA TagShape ==
    ASSUME NEW t \in Tags
    PROVE  /\ t.name \in {"p", "sp"} => t.policy \in Policies \cup {"bad"}
           /\ t.name = "pct" => t.pct \in Percentages
           /\ t.name \in {"adkim", "aspf"} => t.mode \in Modes \cup {"bad"}
           /\ t.name \in {"rua", "ruf"} => t.uris \subseteq Destinations \cup {BadURI}
  BY DEF Tags

DupInv == "DMARCDuplicateTag" \notin found => \A i \in DOMAIN tags : i \in FirstOf(tags, tags[i].name)
PctClean == "DMARCInvalidValue" \notin found => \A i \in FirstOf(tags, "pct") : tags[i].pct <= 100
UriClean == "DMARCInvalidURI" \notin found =>
              \A n \in {"rua", "ruf"} : \A i \in FirstOf(tags, n) : BadURI \notin tags[i].uris

\* Of a tag that is read: what it leaves as it was, and where it is found.
LEMMA AfterTag ==
    ASSUME DmarcTypeOK, TagsInv, NEW t \in Tags, tags' = Append(tags, t),
           t.name \notin seen, seen' = seen \cup {t.name}, found \subseteq found'
    PROVE  /\ \A n : n # t.name => SameFirst(n)
           /\ \E k \in DOMAIN tags' : FirstOf(tags', t.name) = {k} /\ tags'[k] = t
           /\ AllNamed(tags', seen') /\ DupInv'
<1>1. tags \in Seq(Tags) /\ AllNamed(tags, seen)
  BY DEF DmarcTypeOK, TagsInv
<1>2. /\ \A i \in DOMAIN tags : i \in DOMAIN tags' /\ tags'[i] = tags[i]
      /\ \A i \in DOMAIN tags' : i \in DOMAIN tags \/ tags'[i] = t
      /\ \A n : n # t.name => FirstOf(tags', n) = FirstOf(tags, n)
      /\ \E k \in DOMAIN tags' : FirstOf(tags', t.name) = {k} /\ tags'[k] = t
      /\ \A i \in DOMAIN tags' : i \in DOMAIN tags \/ i \in FirstOf(tags', t.name)
      /\ AllNamed(tags', seen')
  <2> DEFINE us == Append(tags, t)
  <2>1. /\ \A i \in DOMAIN tags : i \in DOMAIN us /\ us[i] = tags[i]
        /\ \A i \in DOMAIN us : i \in DOMAIN tags \/ us[i] = t
        /\ \A n : n # t.name => FirstOf(us, n) = FirstOf(tags, n)
        /\ \E k \in DOMAIN us : FirstOf(us, t.name) = {k} /\ us[k] = t
        /\ \A i \in DOMAIN us : i \in DOMAIN tags \/ i \in FirstOf(us, t.name)
        /\ AllNamed(us, seen \cup {t.name})
    BY <1>1, OneMoreTag, ZenonT(30)
  <2>2. us = tags'
    OBVIOUS
  <2> HIDE DEF us
  <2>3. QED
    BY <2>1, <2>2, Zenon
<1>3. ASSUME NEW n, n # t.name PROVE SameFirst(n)
  <2>1. FirstOf(tags, n) \subseteq DOMAIN tags
    BY DEF FirstOf
  <2>2. FirstOf(tags', n) = FirstOf(tags, n)
    BY <1>2, <1>3
  <2>3. QED
    BY <1>2, <2>1, <2>2 DEF SameFirst
<1>4. DupInv'
  <2>1. SUFFICES ASSUME "DMARCDuplicateTag" \notin found', NEW i \in DOMAIN tags'
                 PROVE  i \in FirstOf(tags', tags'[i].name)
    BY DEF DupInv
  <2>2. CASE i \in DOMAIN tags
    <3>1. tags[i].name \in seen /\ tags'[i] = tags[i]
      BY <1>1, <1>2, <2>2 DEF AllNamed
    <3>2. i \in FirstOf(tags, tags[i].name)
      BY <2>1, <2>2 DEF TagsInv, CleanInv
    <3>3. FirstOf(tags', tags[i].name) = FirstOf(tags, tags[i].name)
      BY <1>2, <3>1
    <3>4. QED
      BY <3>1, <3>2, <3>3
  <2>3. CASE i \notin DOMAIN tags
    BY <1>2, <2>3
  <2>4. QED
    BY <2>2, <2>3
<1>5. QED
  BY <1>2, <1>3, <1>4

LEMMA CleanStays ==
    ASSUME CleanInv, found \subseteq found'
    PROVE  /\ SameFirst("pct") => PctClean'
           /\ SameFirst("rua") /\ SameFirst("ruf") => UriClean'
<1>1. SameFirst("pct") => PctClean'
  BY DEF SameFirst, CleanInv, PctClean
<1>2. ASSUME SameFirst("rua"), SameFirst("ruf") PROVE UriClean'
  <2>1. /\ \A i \in FirstOf(tags', "rua") : i \in FirstOf(tags, "rua") /\ tags'[i] = tags[i]
        /\ \A i \in FirstOf(tags', "ruf") : i \in FirstOf(tags, "ruf") /\ tags'[i] = tags[i]
    BY <1>2 DEF SameFirst
  <2>2. "DMARCInvalidURI" \notin found' =>
          /\ \A i \in FirstOf(tags, "rua") : BadURI \notin tags[i].uris
          /\ \A i \in FirstOf(tags, "ruf") : BadURI \notin tags[i].uris
    BY DEF CleanInv
  <2>3. QED
    BY <2>1, <2>2 DEF UriClean
<1>3. QED
  BY <1>1, <1>2

LEMMA RepeatedStep ==
    ASSUME DmarcTypeOK, TagsInv, NEW t \in Tags, RepeatedTag(t)
    PROVE  TagsInv'
<1>1. /\ tags' = Append(tags, t) /\ t.name \in seen /\ found \subseteq found'
      /\ "DMARCDuplicateTag" \in found'
      /\ seen' = seen /\ record' = record /\ pValid' = pValid /\ spInvalid' = spInvalid
  BY DEF RepeatedTag, Reading
<1>2. tags \in Seq(Tags) /\ AllNamed(tags, seen) /\ seen \cup {t.name} = seen
  BY <1>1 DEF DmarcTypeOK, TagsInv
<1>3. /\ \A i \in DOMAIN tags : i \in DOMAIN tags' /\ tags'[i] = tags[i]
      /\ \A n : n # "v" => FirstOf(tags', n) = FirstOf(tags, n)
      /\ AllNamed(tags', seen')
  <2> DEFINE us == Append(tags, t)
  <2>1. /\ \A i \in DOMAIN tags : i \in DOMAIN us /\ us[i] = tags[i]
        /\ \A n : n # "v" => FirstOf(us, n) = FirstOf(tags, n)
        /\ AllNamed(us, seen \cup {t.name})
    BY <1>1, <1>2, OneMoreTag, Zenon
  <2>2. us = tags'
    BY <1>1
  <2> HIDE DEF us
  <2>3. QED
    BY <1>1, <1>2, <2>1, <2>2, Zenon
<1>4. ASSUME NEW n, n # "v" PROVE SameFirst(n)
  <2>1. FirstOf(tags, n) \subseteq DOMAIN tags
    BY DEF FirstOf
  <2>2. FirstOf(tags', n) = FirstOf(tags, n)
    BY <1>3, <1>4
  <2>3. QED
    BY <1>3, <2>1, <2>2 DEF SameFirst
<1>5. /\ SameFirst("p") /\ SameFirst("sp") /\ SameFirst("pct") /\ SameFirst("adkim")
      /\ SameFirst("aspf") /\ SameFirst("rua") /\ SameFirst("ruf")
  BY <1>4
<1>6. PctClean' /\ UriClean'
  BY <1>1, <1>5, CleanStays DEF TagsInv
<1>7. CleanInv'
  BY <1>1, <1>6 DEF CleanInv, PctClean, UriClean
<1>8. PInv' /\ SpInv'
  BY <1>1, <1>5, OtherName, Zenon DEF TagsInv
<1>9. PctInv' /\ ModeInv' /\ UriInv'
  BY <1>1, <1>5, OtherName DEF TagsInv
<1>10. QED
  BY <1>3, <1>7, <1>8, <1>9 DEF TagsInv

\* A tag that counts: all values but its own are as they were.
LEMMA FirstTagStep ==
    ASSUME DmarcTypeOK, TagsInv, PolicyAssumption, NEW t \in Tags, First(t),
           PolicyTag(t) \/ SubdomainPolicyTag(t) \/ PercentTag(t) \/ ModeTag(t) \/ ReportTag(t)
             \/ OtherTag(t)
    PROVE  TagsInv' /\ record' \in Record /\ found \subseteq found'
<1>1. /\ tags' = Append(tags, t) /\ t.name \notin seen /\ seen' = seen \cup {t.name}
      /\ record \in Record
  BY DEF First, Reading, DmarcTypeOK
<1>2. found \subseteq found'
  BY DEF PolicyTag, SubdomainPolicyTag, PercentTag, ModeTag, ReportTag, OtherTag
<1>3. /\ \A n : n # t.name => SameFirst(n)
      /\ \E k \in DOMAIN tags' : FirstOf(tags', t.name) = {k} /\ tags'[k] = t
      /\ AllNamed(tags', seen') /\ DupInv'
  BY <1>1, <1>2, AfterTag
<1>4. PICK k \in DOMAIN tags' : FirstOf(tags', t.name) = {k} /\ tags'[k] = t
  BY <1>3
<1>5. t.name # "p" => SameFirst("p")
  BY <1>3
<1>6. t.name # "sp" => SameFirst("sp")
  BY <1>3
<1>7. t.name # "pct" => SameFirst("pct")
  BY <1>3
<1>8. t.name \notin {"adkim", "aspf"} => SameFirst("adkim") /\ SameFirst("aspf")
  BY <1>3
<1>9. t.name \notin {"rua", "ruf"} => SameFirst("rua") /\ SameFirst("ruf")
  BY <1>3
<1>10. (t.name # "pct" => PctClean') /\ (t.name \notin {"rua", "ruf"} => UriClean')
  BY <1>2, <1>7, <1>9, CleanStays DEF TagsInv
<1>11. PInv' /\ SpInv' /\ PctInv' /\ ModeInv' /\ UriInv' /\ PctClean' /\ UriClean' => TagsInv'
  BY <1>3, Zenon DEF TagsInv, CleanInv, DupInv, PctClean, UriClean
<1>12. PInv /\ SpInv /\ PctInv /\ ModeInv /\ UriInv
  BY DEF TagsInv
<1>13. CASE PolicyTag(t)
  <2>1. /\ t.name = "p" /\ t.policy \in Policies \cup {"bad"} /\ "bad" \notin Policies
    BY <1>13, TagShape DEF PolicyTag, Policies
  <2>2. spInvalid' = spInvalid
    BY <1>13 DEF PolicyTag
  <2>3. /\ record'.sp = record.sp /\ record'.pct = record.pct /\ record'.adkim = record.adkim
        /\ record'.aspf = record.aspf /\ record'.rua = record.rua /\ record'.ruf = record.ruf
        /\ record' \in Record
    <3>1. record' = record \/ (record' = [record EXCEPT !.policy = t.policy] /\ t.policy \in Policies)
      <4>1. CASE t.policy \in Policies
        BY <1>13, <4>1, Zenon DEF PolicyTag
      <4>2. ASSUME t.policy \notin Policies PROVE record' = record
        BY <1>13, <4>2 DEF PolicyTag
      <4>3. QED
        BY <4>1, <4>2
    <3>2. QED
      BY <1>1, <3>1 DEF Record
  <2>4. SpInv' /\ PctInv' /\ ModeInv' /\ UriInv'
    BY <1>6, <1>7, <1>8, <1>9, <1>12, <2>1, <2>2, <2>3, OtherName, Zenon
  <2>5. PInv'
    <3>1. CASE t.policy \in Policies
      <4>1. record'.policy = t.policy /\ t.policy # "bad"
        BY <1>1, <1>13, <2>1, <3>1 DEF PolicyTag, Record
      <4>2. pValid' = TRUE
        BY <1>13, <3>1 DEF PolicyTag
      <4>3. /\ FirstOf(tags', "p") # {}
            /\ \A i \in FirstOf(tags', "p") : tags'[i].policy # "bad" /\ record'.policy = tags'[i].policy
        BY <1>4, <2>1, <4>1
      <4>4. QED
        BY <4>2, <4>3, Zenon DEF PInv
    <3>2. CASE t.policy \notin Policies
      <4>1. ~pValid
        BY <1>1, <1>12, <2>1, Zenon DEF PInv, TagsInv, AllNamed, FirstOf
      <4>2. \A i \in FirstOf(tags', "p") : tags'[i].policy = "bad"
        BY <1>4, <2>1, <3>2
      <4>3. \E i \in FirstOf(tags', "p") : tags'[i].policy = "bad"
        BY <1>4, <2>1, <4>2
      <4>4. pValid' = pValid
        BY <1>13, <3>2 DEF PolicyTag
      <4>5. QED
        BY <4>1, <4>2, <4>3, <4>4, Zenon DEF PInv
    <3>3. QED
      BY <3>1, <3>2
  <2>6. QED
    BY <1>2, <1>10, <1>11, <2>1, <2>3, <2>4, <2>5
<1>14. CASE SubdomainPolicyTag(t)
  <2>1. /\ t.name = "sp" /\ t.policy \in Policies \cup {"bad"} /\ "bad" \notin Policies
    BY <1>14, TagShape DEF SubdomainPolicyTag, Policies
  <2>2. pValid' = pValid
    BY <1>14 DEF SubdomainPolicyTag
  <2>3. /\ record'.policy = record.policy /\ record'.pct = record.pct /\ record'.adkim = record.adkim
        /\ record'.aspf = record.aspf /\ record'.rua = record.rua /\ record'.ruf = record.ruf
        /\ record' \in Record
    <3>1. record' = record \/ (record' = [record EXCEPT !.sp = t.policy] /\ t.policy \in Policies)
      <4>1. CASE t.policy \in Policies
        BY <1>14, <4>1, Zenon DEF SubdomainPolicyTag
      <4>2. ASSUME t.policy \notin Policies PROVE record' = record
        BY <1>14, <4>2 DEF SubdomainPolicyTag
      <4>3. QED
        BY <4>1, <4>2
    <3>2. QED
      BY <1>1, <3>1 DEF Record
  <2>4. PInv' /\ PctInv' /\ ModeInv' /\ UriInv'
    BY <1>5, <1>7, <1>8, <1>9, <1>12, <2>1, <2>2, <2>3, OtherName, Zenon
  <2>5. SpInv'
    <3>1. CASE t.policy \in Policies
      <4>1. record'.sp = t.policy /\ t.policy # "bad"
        BY <1>1, <1>14, <2>1, <3>1 DEF SubdomainPolicyTag, Record
      <4>2. spInvalid' = spInvalid
        BY <1>14, <3>1 DEF SubdomainPolicyTag
      <4>3. ~spInvalid
        BY <1>1, <1>12, <2>1, Zenon DEF SpInv, TagsInv, AllNamed, FirstOf
      <4>4. /\ FirstOf(tags', "sp") # {}
            /\ \A i \in FirstOf(tags', "sp") : tags'[i].policy # "bad" /\ record'.sp = tags'[i].policy
        BY <1>4, <2>1, <4>1
      <4>5. QED
        BY <4>2, <4>3, <4>4, Zenon DEF SpInv
    <3>2. CASE t.policy \notin Policies
      <4>1. spInvalid' = TRUE
        BY <1>14, <3>2 DEF SubdomainPolicyTag
      <4>2. FirstOf(tags', "sp") # {} /\ \A i \in FirstOf(tags', "sp") : tags'[i].policy = "bad"
        BY <1>4, <2>1, <3>2
      <4>3. \E i \in FirstOf(tags', "sp") : tags'[i].policy = "bad"
        BY <4>2
      <4>4. QED
        BY <4>1, <4>2, <4>3, Zenon DEF SpInv
    <3>3. QED
      BY <3>1, <3>2
  <2>6. QED
    BY <1>2, <1>10, <1>11, <2>1, <2>3, <2>4, <2>5
<1>15. CASE PercentTag(t)
  <2>1. t.name = "pct" /\ t.pct \in Nat
    BY <1>15, TagShape, PolicyAssumption DEF PercentTag
  <2>2. pValid' = pValid /\ spInvalid' = spInvalid
    BY <1>15 DEF PercentTag
  <2>3. /\ record'.policy = record.policy /\ record'.sp = record.sp /\ record'.adkim = record.adkim
        /\ record'.aspf = record.aspf /\ record'.rua = record.rua /\ record'.ruf = record.ruf
        /\ record' \in Record
        /\ record'.pct = IF t.pct <= 100 THEN t.pct ELSE record.pct
        /\ t.pct > 100 => "DMARCInvalidValue" \in found'
    <3>1. record' = IF t.pct <= 100 THEN [record EXCEPT !.pct = t.pct] ELSE record
      BY <1>15 DEF PercentTag
    <3>2. t.pct > 100 => "DMARCInvalidValue" \in found'
      BY <1>15 DEF PercentTag, Rule
    <3>3. t.pct <= 100 => t.pct \in 0..100
      BY <2>1
    <3>4. QED
      BY <1>1, <2>1, <3>1, <3>2, <3>3 DEF Record
  <2>4. PInv' /\ SpInv' /\ ModeInv' /\ UriInv'
    BY <1>5, <1>6, <1>8, <1>9, <1>12, <2>1, <2>2, <2>3, OtherName, Zenon
  <2>5. FirstOf(tags, "pct") = {}
    BY <1>1, <2>1 DEF TagsInv, AllNamed, FirstOf
  <2>6. PctInv'
    BY <1>4, <1>12, <2>1, <2>3, <2>5 DEF PctInv
  <2>7. PctClean'
    BY <1>4, <2>1, <2>3 DEF PctClean
  <2>8. QED
    BY <1>2, <1>10, <1>11, <2>1, <2>3, <2>4, <2>6, <2>7
<1>16. CASE ModeTag(t)
  <2>1. t.name \in {"adkim", "aspf"} /\ t.mode \in Modes \cup {"bad"}
    BY <1>16, TagShape DEF ModeTag
  <2>2. pValid' = pValid /\ spInvalid' = spInvalid
    BY <1>16 DEF ModeTag
  <2>3. /\ record'.policy = record.policy /\ record'.sp = record.sp /\ record'.pct = record.pct
        /\ record'.rua = record.rua /\ record'.ruf = record.ruf
        /\ record' \in Record
        /\ record'.adkim = IF t.name = "adkim" /\ t.mode \in Modes THEN t.mode ELSE record.adkim
        /\ record'.aspf = IF t.name = "aspf" /\ t.mode \in Modes THEN t.mode ELSE record.aspf
    <3>1. CASE t.mode \notin Modes
      BY <1>1, <1>16, <2>1, <3>1 DEF ModeTag
    <3>2. CASE t.mode \in Modes /\ t.name = "adkim"
      BY <1>1, <1>16, <2>1, <3>2 DEF ModeTag, Record
    <3>3. CASE t.mode \in Modes /\ t.name = "aspf"
      BY <1>1, <1>16, <2>1, <3>3 DEF ModeTag, Record
    <3>4. QED
      BY <2>1, <3>1, <3>2, <3>3
  <2>4. PInv' /\ SpInv' /\ PctInv' /\ UriInv'
    BY <1>5, <1>6, <1>7, <1>9, <1>12, <2>1, <2>2, <2>3, OtherName, Zenon
  <2>5. FirstOf(tags, t.name) = {}
    BY <1>1, <2>1 DEF TagsInv, AllNamed, FirstOf
  <2>6. (record'.adkim = "s") <=> (\E i \in FirstOf(tags', "adkim") : tags'[i].mode = "s")
    <3>1. CASE t.name = "adkim"
      BY <1>4, <1>12, <2>1, <2>3, <2>5, <3>1 DEF ModeInv, Modes
    <3>2. CASE t.name # "adkim"
      BY <1>3, <1>12, <2>3, <3>2 DEF ModeInv, SameFirst
    <3>3. QED
      BY <3>1, <3>2
  <2>7. (record'.aspf = "s") <=> (\E i \in FirstOf(tags', "aspf") : tags'[i].mode = "s")
    <3>1. CASE t.name = "aspf"
      BY <1>4, <1>12, <2>1, <2>3, <2>5, <3>1 DEF ModeInv, Modes
    <3>2. CASE t.name # "aspf"
      BY <1>3, <1>12, <2>3, <3>2 DEF ModeInv, SameFirst
    <3>3. QED
      BY <3>1, <3>2
  <2>8. ModeInv'
    BY <2>6, <2>7 DEF ModeInv
  <2>9. QED
    BY <1>2, <1>10, <1>11, <2>1, <2>3, <2>4, <2>8
<1>17. CASE ReportTag(t)
  <2>1. t.name \in {"rua", "ruf"} /\ t.uris \subseteq Destinations \cup {BadURI}
    BY <1>17, TagShape DEF ReportTag
  <2>2. pValid' = pValid /\ spInvalid' = spInvalid
    BY <1>17 DEF ReportTag
  <2>3. parseURIs(t) \subseteq Destinations
    BY <2>1 DEF parseURIs
  <2>4. /\ record'.policy = record.policy /\ record'.sp = record.sp /\ record'.pct = record.pct
        /\ record'.adkim = record.adkim /\ record'.aspf = record.aspf
        /\ record' \in Record
        /\ record'.rua = IF t.name = "rua" THEN parseURIs(t) ELSE record.rua
        /\ record'.ruf = IF t.name = "ruf" THEN parseURIs(t) ELSE record.ruf
    BY <1>1, <1>17, <2>1, <2>3 DEF ReportTag, Record
  <2>5. BadURI \in t.uris => "DMARCInvalidURI" \in found'
    BY <1>17 DEF ReportTag, Rule
  <2>6. PInv' /\ SpInv' /\ PctInv' /\ ModeInv'
    BY <1>5, <1>6, <1>7, <1>8, <1>12, <2>1, <2>2, <2>4, OtherName, Zenon
  <2>7. \A n : n # t.name => FirstOf(tags', n) = FirstOf(tags, n)
                             /\ \A i \in FirstOf(tags', n) : tags'[i] = tags[i]
    BY <1>3 DEF SameFirst
  <2>8. /\ \A i \in FirstOf(tags', "rua") : record'.rua = parseURIs(tags'[i])
        /\ FirstOf(tags', "rua") = {} => record'.rua = {}
    <3>1. CASE t.name = "rua"
      BY <1>4, <2>4, <3>1
    <3>2. CASE t.name # "rua"
      BY <1>12, <2>4, <2>7, <3>2 DEF UriInv
    <3>3. QED
      BY <3>1, <3>2
  <2>9. \A i \in FirstOf(tags', "ruf") : record'.ruf = parseURIs(tags'[i])
    <3>1. CASE t.name = "ruf"
      BY <1>4, <2>4, <3>1
    <3>2. CASE t.name # "ruf"
      BY <1>12, <2>4, <2>7, <3>2 DEF UriInv
    <3>3. QED
      BY <3>1, <3>2
  <2>10. UriInv'
    BY <2>8, <2>9 DEF UriInv
  <2>11. UriClean'
    <3>1. SUFFICES ASSUME "DMARCInvalidURI" \notin found', NEW n \in {"rua", "ruf"},
                          NEW i \in FirstOf(tags', n)
                   PROVE  BadURI \notin tags'[i].uris
      BY DEF UriClean
    <3>2. CASE n = t.name
      BY <1>4, <2>5, <3>1, <3>2
    <3>3. CASE n # t.name
      <4>1. i \in FirstOf(tags, n) /\ tags'[i] = tags[i]
        BY <2>7, <3>1, <3>3
      <4>2. \A j \in FirstOf(tags, n) : BadURI \notin tags[j].uris
        BY <1>2, <3>1 DEF TagsInv, CleanInv
      <4>3. QED
        BY <4>1, <4>2
    <3>4. QED
      BY <3>2, <3>3
  <2>12. QED
    BY <1>2, <1>10, <1>11, <2>1, <2>4, <2>6, <2>10, <2>11
<1>18. CASE OtherTag(t)
  <2>1. /\ t.name \in {"fo", "ri", "unknown"} /\ record' = record
        /\ pValid' = pValid /\ spInvalid' = spInvalid
    BY <1>18 DEF OtherTag
  <2>2. /\ record'.policy = record.policy /\ record'.sp = record.sp /\ record'.pct = record.pct
        /\ record'.adkim = record.adkim /\ record'.aspf = record.aspf
        /\ record'.rua = record.rua /\ record'.ruf = record.ruf
    BY <2>1
  <2>3. /\ SameFirst("p") /\ SameFirst("sp") /\ SameFirst("pct") /\ SameFirst("adkim")
        /\ SameFirst("aspf") /\ SameFirst("rua") /\ SameFirst("ruf") /\ PctClean' /\ UriClean'
    BY <1>5, <1>6, <1>7, <1>8, <1>9, <1>10, <2>1
  <2>4. PInv' /\ SpInv' /\ PctInv' /\ ModeInv' /\ UriInv'
    BY <1>12, <2>1, <2>2, <2>3, OtherName, Zenon
  <2>5. QED
    BY <1>1, <1>2, <1>11, <2>1, <2>3, <2>4
<1>19. QED
  BY <1>13, <1>14, <1>15, <1>16, <1>17, <1>18, Zenon

TagRules == {"DMARCDuplicateTag", "DMARCInvalidValue", "DMARCInvalidURI", "DMARCUnknownTag"}

FirstTag(t) ==
    /\ First(t)
    /\ \/ PolicyTag(t) \/ SubdomainPolicyTag(t) \/ PercentTag(t) \/ ModeTag(t)
       \/ ReportTag(t) \/ OtherTag(t)

\* Reading a tag decides nothing yet.
LEMMA TagFrame ==
    ASSUME DmarcTypeOK, NEW t \in Tags, ReadTag(t)
    PROVE  /\ RepeatedTag(t) \/ FirstTag(t)
           /\ record'.implied = record.implied
           /\ found' \subseteq found \cup TagRules
           /\ pValid' \in BOOLEAN /\ spInvalid' \in BOOLEAN
           /\ step = "tags" /\ Len(tags) < MaxTags /\ tags' = Append(tags, t)
           /\ UNCHANGED <<subject, step, discovery, policyDomain, reportVars>>
<1>1. /\ step = "tags" /\ Len(tags) < MaxTags /\ tags' = Append(tags, t)
      /\ UNCHANGED <<subject, step, discovery, policyDomain, reportVars>>
  BY DEF ReadTag, RepeatedTag, PolicyTag, SubdomainPolicyTag, PercentTag, ModeTag, ReportTag,
         OtherTag, First, Reading
<1>2. RepeatedTag(t) \/ FirstTag(t)
  BY Zenon DEF ReadTag, FirstTag, PolicyTag, SubdomainPolicyTag, PercentTag, ModeTag, ReportTag,
               OtherTag
<1>3. record \in Record /\ pValid \in BOOLEAN /\ spInvalid \in BOOLEAN
  BY DEF DmarcTypeOK
<1>4. CASE RepeatedTag(t)
  <2>1. record' = record /\ found' \subseteq found \cup TagRules
    BY <1>4 DEF RepeatedTag, TagRules
  <2>2. pValid' = pValid /\ spInvalid' = spInvalid
    BY <1>4 DEF RepeatedTag
  <2>3. pValid' \in BOOLEAN /\ spInvalid' \in BOOLEAN
    BY <1>3, <2>2, Zenon
  <2>4. QED
    BY <1>1, <1>2, <2>1, <2>3
<1>5. CASE PolicyTag(t)
  <2>1. CASE t.policy \in Policies
    <3>1. record' = [record EXCEPT !.policy = t.policy] /\ found' = found
      BY <1>5, <2>1 DEF PolicyTag
    <3>2. pValid' = TRUE
      BY <1>5, <2>1 DEF PolicyTag
    <3>3. spInvalid' = spInvalid
      BY <1>5, <2>1 DEF PolicyTag
    <3>4. pValid' \in BOOLEAN /\ spInvalid' \in BOOLEAN
      BY <1>3, <3>2, <3>3, Zenon
    <3>5. record'.implied = record.implied
      BY <1>3, <3>1 DEF Record
    <3>6. QED
      BY <1>1, <1>2, <3>1, <3>4, <3>5
  <2>2. CASE t.policy \notin Policies
    <3>1. record' = record /\ found' \subseteq found \cup TagRules
      BY <1>5, <2>2 DEF PolicyTag, TagRules
    <3>2. pValid' = pValid
      BY <1>5, <2>2 DEF PolicyTag
    <3>3. spInvalid' = spInvalid
      BY <1>5, <2>2 DEF PolicyTag
    <3>4. pValid' \in BOOLEAN /\ spInvalid' \in BOOLEAN
      BY <1>3, <3>2, <3>3, Zenon
    <3>5. QED
      BY <1>1, <1>2, <3>1, <3>4
  <2>3. QED
    BY <2>1, <2>2
<1>6. CASE SubdomainPolicyTag(t)
  <2>1. CASE t.policy \in Policies
    <3>1. record' = [record EXCEPT !.sp = t.policy] /\ found' = found
      BY <1>6, <2>1 DEF SubdomainPolicyTag
    <3>2. pValid' = pValid
      BY <1>6, <2>1 DEF SubdomainPolicyTag
    <3>3. spInvalid' = spInvalid
      BY <1>6, <2>1 DEF SubdomainPolicyTag
    <3>4. pValid' \in BOOLEAN /\ spInvalid' \in BOOLEAN
      BY <1>3, <3>2, <3>3, Zenon
    <3>5. record'.implied = record.implied
      BY <1>3, <3>1 DEF Record
    <3>6. QED
      BY <1>1, <1>2, <3>1, <3>4, <3>5
  <2>2. CASE t.policy \notin Policies
    <3>1. record' = record /\ found' \subseteq found \cup TagRules
      BY <1>6, <2>2 DEF SubdomainPolicyTag, TagRules
    <3>2. pValid' = pValid
      BY <1>6, <2>2 DEF SubdomainPolicyTag
    <3>3. spInvalid' = TRUE
      BY <1>6, <2>2 DEF SubdomainPolicyTag
    <3>4. pValid' \in BOOLEAN /\ spInvalid' \in BOOLEAN
      BY <1>3, <3>2, <3>3, Zenon
    <3>5. QED
      BY <1>1, <1>2, <3>1, <3>4
  <2>3. QED
    BY <2>1, <2>2
<1>7. CASE PercentTag(t) \/ ModeTag(t) \/ ReportTag(t) \/ OtherTag(t)
  <2>1. pValid' = pValid
    BY <1>7 DEF PercentTag, ModeTag, ReportTag, OtherTag
  <2>2. spInvalid' = spInvalid
    BY <1>7 DEF PercentTag, ModeTag, ReportTag, OtherTag
  <2>3. pValid' \in BOOLEAN /\ spInvalid' \in BOOLEAN
    BY <1>3, <2>1, <2>2, Zenon
  <2>4. found' \subseteq found \cup TagRules
    BY <1>7 DEF PercentTag, ModeTag, ReportTag, OtherTag, TagRules, Rule
  <2>5. record'.implied = record.implied
    <3>1. \/ record' = record
          \/ \E v : record' = [record EXCEPT !.pct = v]
          \/ \E v : record' = [record EXCEPT !.adkim = v]
          \/ \E v : record' = [record EXCEPT !.aspf = v]
          \/ \E v : record' = [record EXCEPT !.rua = v]
          \/ \E v : record' = [record EXCEPT !.ruf = v]
      BY <1>7, Zenon DEF PercentTag, ModeTag, ReportTag, OtherTag
    <3>2. QED
      BY <1>3, <3>1 DEF Record
  <2>6. QED
    BY <1>1, <1>2, <2>3, <2>4, <2>5
<1>8. QED
  BY <1>4, <1>5, <1>6, <1>7, Zenon DEF ReadTag

-----------------------------------------------------------------------------
(* DMARC: the audit                                                        *)

\* What was found so far speaks for what may still make the policy enforced.
Reported ==
    /\ record.implied => "DMARCInvalid" \in found
    /\ record.pct < 100 /\ Effective # "none" => "DMARCPartialPct" \in found
    /\ WeakSubdomains => "DMARCWeakSubdomainPolicy" \in found
    /\ record.rua = {} => "DMARCNoRUA" \in found
    /\ \A d \in (record.rua \cup record.ruf) \cap Outside :
         \/ d \in unchecked \cup authorized
         \/ {"DMARCExternalUnauthorized", "DNSLookupFailed"} \cap found # {}

Values == AllNamed(tags, seen) /\ PctInv /\ ModeInv /\ UriInv

DmarcInv ==
    /\ DmarcTypeOK
    /\ Values
    /\ step \in {"own", "org", "tags"} =>
         discovery = "unknown" /\ PInv /\ SpInv /\ ~record.implied
    /\ discovery \in {"unknown", "usable"} => CleanInv
    /\ step \in {"assess", "reports"} => discovery = "usable"
    /\ step # "done" => "DMARCEnforced" \notin found
    /\ step = "reports" => Reported
    /\ PolicyIsPublished

\* At the end of the tags, the values add up to the policy.
LEMMA TagsAddUp ==
    ASSUME DmarcInv, step = "tags", EndOfTags, discovery' = "usable"
    PROVE  /\ PolicyIsPublished' /\ record' \in Record
           /\ Values' /\ CleanInv' /\ step' = "assess"
           /\ UNCHANGED <<subject, policyDomain, tags, seen, pValid, spInvalid, reportVars, found>>
<1>1. record \in Record /\ Values /\ PInv /\ SpInv /\ CleanInv /\ ~record.implied
  BY DEF DmarcInv, DmarcTypeOK
<1>2. /\ record' = IF NoPolicy
                     THEN [record EXCEPT !.policy = "none", !.sp = "unset", !.implied = TRUE]
                     ELSE record
      /\ step' = "assess"
      /\ UNCHANGED <<subject, policyDomain, tags, seen, pValid, spInvalid, reportVars, found>>
      /\ ~(NoPolicy /\ record.rua = {})
  BY DEF EndOfTags, Unusable
<1>3. /\ record'.pct = record.pct /\ record'.adkim = record.adkim /\ record'.aspf = record.aspf
      /\ record'.rua = record.rua /\ record'.ruf = record.ruf /\ record' \in Record
  <2>1. CASE NoPolicy
    <3>1. record' = [record EXCEPT !.policy = "none", !.sp = "unset", !.implied = TRUE]
      BY <1>2, <2>1
    <3>2. QED
      BY <1>1, <3>1 DEF Record, Policies
  <2>2. CASE ~NoPolicy
    BY <1>1, <1>2, <2>2
  <2>3. QED
    BY <2>1, <2>2
<1>4. tags' = tags /\ seen' = seen /\ found' = found
  BY <1>2
<1>5. Values'
  BY <1>1, <1>3, <1>4 DEF Values, PctInv, ModeInv, UriInv
<1>6. CleanInv'
  BY <1>1, <1>4 DEF CleanInv
<1>7. NoPolicy <=> \/ FirstOf(tags, "p") = {}
                   \/ \E i \in FirstOf(tags, "p") : tags[i].policy = "bad"
                   \/ \E i \in FirstOf(tags, "sp") : tags[i].policy = "bad"
  BY <1>1, Zenon DEF NoPolicy, PInv, SpInv
<1>8. ASSUME NoPolicy
      PROVE  /\ record'.implied = TRUE /\ record'.policy = "none" /\ record'.sp = "unset"
             /\ \E i \in FirstOf(tags, "rua") : tags[i].uris # {BadURI}
  <2>1. record'.implied = TRUE /\ record'.policy = "none" /\ record'.sp = "unset"
    BY <1>1, <1>2, <1>8 DEF Record
  <2>2. record.rua # {}
    BY <1>2, <1>8
  <2>3. FirstOf(tags, "rua") # {} /\ \A i \in FirstOf(tags, "rua") : record.rua = parseURIs(tags[i])
    BY <1>1, <2>2 DEF Values, UriInv
  <2>4. QED
    BY <2>1, <2>2, <2>3 DEF parseURIs
<1>9. ASSUME ~NoPolicy
      PROVE  /\ record' = record
             /\ \A i \in FirstOf(tags, "p") : record.policy = tags[i].policy
             /\ \A i \in FirstOf(tags, "sp") : record.sp = tags[i].policy
             /\ \A i \in FirstOf(tags, "sp") : tags[i].policy \in Policies
             /\ FirstOf(tags, "sp") = {} => record.sp = "unset"
  <2>1. record' = record
    BY <1>2, <1>9
  <2>2. /\ \A i \in FirstOf(tags, "p") : record.policy = tags[i].policy
        /\ \A i \in FirstOf(tags, "sp") : tags[i].policy # "bad" /\ record.sp = tags[i].policy
        /\ FirstOf(tags, "sp") = {} => record.sp = "unset"
    BY <1>1, <1>7, <1>9, Zenon DEF PInv, SpInv
  <2>3. ASSUME NEW i \in FirstOf(tags, "sp") PROVE tags[i].policy \in Policies
    <3>1. tags[i] \in Tags /\ tags[i].name = "sp"
      BY LenProperties, ElementOfSeq DEF FirstOf, DmarcInv, DmarcTypeOK
    <3>2. QED
      BY <2>2, <3>1, TagShape
  <2>4. QED
    BY <2>1, <2>2, <2>3
<1>10. (record.implied <=> FirstOnes("p") = {} \/ Spoilt("p") \/ Spoilt("sp"))'
  <2>1. (FirstOnes("p") = {} \/ Spoilt("p") \/ Spoilt("sp"))' <=>
          \/ FirstOf(tags, "p") = {}
          \/ \E i \in FirstOf(tags, "p") : tags[i].policy = "bad"
          \/ \E i \in FirstOf(tags, "sp") : tags[i].policy = "bad"
    BY <1>4 DEF Spoilt, FirstOnes, FirstOf
  <2>2. CASE NoPolicy
    <3>1. record'.implied = TRUE
      BY <1>8, <2>2
    <3>2. QED
      BY <1>7, <2>1, <2>2, <3>1, Zenon
  <2>3. CASE ~NoPolicy
    <3>1. ~record'.implied
      BY <1>1, <1>9, <2>3
    <3>2. QED
      BY <1>7, <2>1, <2>3, <3>1, Zenon
  <2>4. QED
    BY <2>2, <2>3
<1>11. \A n : FirstOnes(n)' = FirstOf(tags, n)
  BY <1>4 DEF FirstOnes, FirstOf
<1>12. (record.implied => /\ record.policy = "none" /\ EffectiveSubdomainPolicy = "none"
                          /\ \E i \in FirstOnes("rua") : tags[i].uris # {BadURI})'
  <2>1. CASE NoPolicy
    BY <1>4, <1>8, <1>11, <2>1 DEF EffectiveSubdomainPolicy
  <2>2. CASE ~NoPolicy
    BY <1>1, <1>9, <2>2
  <2>3. QED
    BY <2>1, <2>2
<1>13. (~record.implied =>
          /\ \A i \in FirstOnes("p") : record.policy = tags[i].policy
          /\ \A i \in FirstOnes("sp") : EffectiveSubdomainPolicy = tags[i].policy
          /\ FirstOnes("sp") = {} => EffectiveSubdomainPolicy = record.policy)'
  <2>1. CASE NoPolicy
    BY <1>8, <2>1
  <2>2. CASE ~NoPolicy
    BY <1>4, <1>9, <1>11, <2>2 DEF EffectiveSubdomainPolicy, Policies
  <2>3. QED
    BY <2>1, <2>2
<1>14. (/\ record.pct = 100 \/ \E i \in FirstOnes("pct") : record.pct = tags[i].pct
        /\ \A i \in FirstOnes("pct") : tags[i].pct < 100 => record.pct = tags[i].pct
        /\ (record.adkim = "s") <=> (\E i \in FirstOnes("adkim") : tags[i].mode = "s")
        /\ (record.aspf = "s") <=> (\E i \in FirstOnes("aspf") : tags[i].mode = "s"))'
  BY <1>4, <1>5, <1>11 DEF Values, PctInv, ModeInv
<1>15. PolicyIsPublished'
  BY <1>10, <1>12, <1>13, <1>14 DEF PolicyIsPublished
<1>16. QED
  BY <1>2, <1>3, <1>5, <1>6, <1>15

\* What holds of a record goes on to hold while the record is as it was.
LEMMA SameRecord ==
    ASSUME Values, UNCHANGED recordVars, found \subseteq found'
    PROVE  /\ Values'
           /\ PInv => PInv'
           /\ SpInv => SpInv'
           /\ CleanInv => CleanInv'
           /\ PolicyIsPublished /\ discovery' = discovery => PolicyIsPublished'
<1>1. tags' = tags /\ seen' = seen /\ record' = record
  BY DEF recordVars
<1>2. pValid' = pValid
  BY DEF recordVars
<1>3. spInvalid' = spInvalid
  BY DEF recordVars
<1>4. Values'
  BY <1>1 DEF Values, PctInv, ModeInv, UriInv
<1>5. PInv => PInv'
  BY <1>1, <1>2, Zenon DEF PInv
<1>6. SpInv => SpInv'
  BY <1>1, <1>3, Zenon DEF SpInv
<1>7. CleanInv => CleanInv'
  BY <1>1 DEF CleanInv
<1>8. PolicyIsPublished /\ discovery' = discovery => PolicyIsPublished'
  BY <1>1 DEF PolicyIsPublished, FirstOnes, Spoilt, EffectiveSubdomainPolicy
<1>9. QED
  BY <1>4, <1>5, <1>6, <1>7, <1>8

LEMMA RuleNames ==
    /\ TagRules \subseteq DOMAIN DmarcSeverity
    /\ {"DNSLookupFailed", "DMARCMissing", "DMARCMultiple", "DMARCInvalid", "DMARCPolicyNone",
        "DMARCPolicyQuarantine", "DMARCPartialPct", "DMARCWeakSubdomainPolicy", "DMARCNoRUA",
        "DMARCRUF", "DMARCFONoRUF", "DMARCStrictAlignment", "DMARCInherited",
        "DMARCExternalUnauthorized", "DMARCEnforced"} \subseteq DOMAIN DmarcSeverity
  BY DEF DmarcSeverity, TagRules

LEMMA DmarcTypeStep ==
    ASSUME DmarcInv, DmarcNext, PolicyAssumption
    PROVE  DmarcTypeOK'
<1>1. DmarcTypeOK /\ Values
  BY DEF DmarcInv
<1>2. CASE \E t \in Tags : ReadTag(t)
  <2>1. PICK t \in Tags : ReadTag(t)
    BY <1>2
  <2>2. /\ RepeatedTag(t) \/ FirstTag(t)
        /\ found' \subseteq found \cup TagRules
        /\ pValid' \in BOOLEAN /\ spInvalid' \in BOOLEAN
        /\ step = "tags" /\ Len(tags) < MaxTags /\ tags' = Append(tags, t)
        /\ UNCHANGED <<subject, step, discovery, policyDomain, reportVars>>
    BY <1>1, <2>1, TagFrame
  <2>3. TagsInv
    BY <2>2 DEF DmarcInv, Values, TagsInv
  <2>4. record' \in Record
    <3>1. CASE RepeatedTag(t)
      BY <1>1, <3>1 DEF RepeatedTag, DmarcTypeOK
    <3>2. CASE FirstTag(t)
      BY <1>1, <2>3, <3>2, FirstTagStep, PolicyAssumption, Zenon DEF FirstTag
    <3>3. QED
      BY <2>2, <3>1, <3>2
  <2>5. tags' \in Seq(Tags) /\ Len(tags') <= MaxTags
    <3>1. tags \in Seq(Tags) /\ Len(tags) \in Nat /\ MaxTags \in Nat
      BY <1>1, PolicyAssumption, LenProperties DEF DmarcTypeOK
    <3>2. Len(tags') = Len(tags) + 1 /\ tags' \in Seq(Tags)
      BY <2>2, <3>1, AppendProperties
    <3>3. QED
      BY <2>2, <3>1, <3>2
  <2>6. found' \subseteq DOMAIN DmarcSeverity
    BY <1>1, <2>2, RuleNames DEF DmarcTypeOK
  <2>7. reportsErr' = reportsErr
    BY <2>2 DEF reportVars
  <2>8. reportsErr' \in BOOLEAN
    BY <1>1, <2>7, Zenon DEF DmarcTypeOK
  <2>9. UNCHANGED <<subject, step, discovery, policyDomain, unchecked, authorized>>
    BY <2>2 DEF reportVars
  <2>10. QED
    BY <1>1, <2>2, <2>4, <2>5, <2>6, <2>8, <2>9, Zenon DEF DmarcTypeOK
<1>3. CASE EndOfTags /\ discovery' = "usable"
  <2>1. /\ record' \in Record /\ step' = "assess"
        /\ UNCHANGED <<subject, policyDomain, tags, seen, pValid, spInvalid, reportVars, found>>
    BY <1>3, TagsAddUp DEF EndOfTags
  <2>2. /\ subject' = subject /\ policyDomain' = policyDomain /\ tags' = tags /\ found' = found
        /\ unchecked' = unchecked /\ authorized' = authorized
    BY <2>1 DEF reportVars
  <2>3. pValid' = pValid
    BY <2>1
  <2>4. spInvalid' = spInvalid
    BY <2>1
  <2>5. reportsErr' = reportsErr
    BY <2>1 DEF reportVars
  <2>6. QED
    BY <1>1, <1>3, <2>1, <2>2, <2>3, <2>4, <2>5, Zenon DEF DmarcTypeOK
<1>4. ASSUME UNCHANGED recordVars,
             subject' = subject, policyDomain' \in {subject, Org},
             step' \in {"own", "org", "tags", "assess", "reports", "done"},
             discovery' \in {discovery, "none", "several", "invalid", "failed"},
             unchecked' \subseteq Outside, authorized' \subseteq Outside,
             found' \subseteq DOMAIN DmarcSeverity, reportsErr' \in BOOLEAN
      PROVE  DmarcTypeOK'
  <2>1. tags' = tags /\ record' = record
    BY <1>4 DEF recordVars
  <2>2. pValid' = pValid
    BY <1>4 DEF recordVars
  <2>3. spInvalid' = spInvalid
    BY <1>4 DEF recordVars
  <2>4. discovery' \in {"unknown", "none", "several", "invalid", "usable", "failed"}
    BY <1>1, <1>4 DEF DmarcTypeOK
  <2>5. QED
    BY <1>1, <1>4, <2>1, <2>2, <2>3, <2>4, Zenon DEF DmarcTypeOK
<1>5. CASE \/ \E err \in Errs : LookupFails(err)
           \/ NoTXTRecord \/ SeveralRecords \/ OneRecord \/ MalformedTag
           \/ EndOfTags /\ discovery' # "usable"
  <2>1. /\ UNCHANGED recordVars /\ UNCHANGED reportVars
        /\ subject' = subject /\ policyDomain' \in {policyDomain, Org}
        /\ step' \in {"org", "tags", "done"}
        /\ discovery' \in {discovery, "none", "several", "invalid", "failed"}
        /\ found' \subseteq found \cup {"DNSLookupFailed", "DMARCMissing", "DMARCMultiple", "DMARCInvalid"}
    BY <1>5 DEF LookupFails, NoTXTRecord, SeveralRecords, OneRecord, MalformedTag, EndOfTags,
                Unusable, Discovered
  <2>2. unchecked' = unchecked /\ authorized' = authorized
    BY <2>1 DEF reportVars
  <2>3. reportsErr' = reportsErr
    BY <2>1 DEF reportVars
  <2>4. reportsErr' \in BOOLEAN
    BY <1>1, <2>3, Zenon DEF DmarcTypeOK
  <2>5. found' \subseteq DOMAIN DmarcSeverity
    BY <1>1, <2>1, RuleNames DEF DmarcTypeOK
  <2>6. QED
    BY <1>1, <1>4, <2>1, <2>2, <2>4, <2>5 DEF DmarcTypeOK
<1>6. CASE Assess
  <2>1. /\ UNCHANGED <<subject, discovery, policyDomain, recordVars, authorized>>
        /\ step' = "reports" /\ unchecked' \subseteq Outside
    BY <1>6 DEF Assess
  <2>2. reportsErr' = reportsErr
    BY <1>6 DEF Assess
  <2>3. reportsErr' \in BOOLEAN
    BY <1>1, <2>2, Zenon DEF DmarcTypeOK
  <2>4. found' \subseteq found \cup
          {"DMARCInvalid", "DMARCPolicyNone", "DMARCPolicyQuarantine", "DMARCPartialPct",
           "DMARCWeakSubdomainPolicy", "DMARCNoRUA", "DMARCRUF", "DMARCFONoRUF",
           "DMARCStrictAlignment", "DMARCInherited"}
    BY <1>6 DEF Assess, Rule
  <2>5. found' \subseteq DOMAIN DmarcSeverity
    BY <1>1, <2>4, RuleNames DEF DmarcTypeOK
  <2>6. QED
    BY <1>1, <1>4, <2>1, <2>3, <2>5 DEF DmarcTypeOK
<1>7. ASSUME NEW d \in Outside, NEW err \in Errs, NEW accepts \in BOOLEAN,
             CheckDestination(d, err, accepts)
      PROVE  DmarcTypeOK'
  <2>1. /\ UNCHANGED <<subject, step, discovery, policyDomain, recordVars>>
        /\ unchecked' \subseteq Outside
    BY <1>1, <1>7 DEF CheckDestination, DmarcTypeOK
  <2>2. CASE err # "nil" /\ ~IsNXDomain(err)
    <3>1. found' = found \cup {"DNSLookupFailed"} /\ authorized' = authorized
      BY <1>7, <2>2 DEF CheckDestination
    <3>2. reportsErr' = (reportsErr \/ IsInfrastructure(err))
      BY <1>7, <2>2, Zenon DEF CheckDestination
    <3>3. reportsErr' \in BOOLEAN
      BY <1>1, <3>2, Zenon DEF DmarcTypeOK
    <3>4. found' \subseteq DOMAIN DmarcSeverity
      BY <1>1, <3>1, RuleNames DEF DmarcTypeOK
    <3>5. QED
      BY <1>1, <1>4, <2>1, <3>1, <3>3, <3>4 DEF DmarcTypeOK
  <2>3. CASE ~(err # "nil" /\ ~IsNXDomain(err))
    <3>1. /\ found' = found \cup Rule(~accepts, "DMARCExternalUnauthorized")
          /\ authorized' = authorized \cup Rule(accepts, d)
      BY <1>7, <2>3, Zenon DEF CheckDestination
    <3>2. reportsErr' = reportsErr
      BY <1>7, <2>3 DEF CheckDestination
    <3>3. reportsErr' \in BOOLEAN
      BY <1>1, <3>2, Zenon DEF DmarcTypeOK
    <3>4. found' \subseteq DOMAIN DmarcSeverity /\ authorized' \subseteq Outside
      BY <1>1, <3>1, RuleNames DEF DmarcTypeOK, Rule
    <3>5. QED
      BY <1>1, <1>4, <2>1, <3>3, <3>4 DEF DmarcTypeOK
  <2>4. QED
    BY <2>2, <2>3
<1>8. CASE Conclude
  <2>1. /\ UNCHANGED <<subject, discovery, policyDomain, recordVars, unchecked, authorized>>
        /\ step' = "done" /\ found' \subseteq found \cup {"DMARCEnforced"}
    BY <1>8 DEF Conclude, reportVars, Rule
  <2>2. reportsErr' = reportsErr
    BY <1>8 DEF Conclude, reportVars
  <2>3. reportsErr' \in BOOLEAN
    BY <1>1, <2>2, Zenon DEF DmarcTypeOK
  <2>4. found' \subseteq DOMAIN DmarcSeverity
    BY <1>1, <2>1, RuleNames DEF DmarcTypeOK
  <2>5. QED
    BY <1>1, <1>4, <2>1, <2>3, <2>4 DEF DmarcTypeOK
<1>9. QED
  BY <1>2, <1>3, <1>5, <1>6, <1>7, <1>8, Zenon DEF DmarcNext

\* The audit of the policy leaves nothing out that speaks against it.
LEMMA AssessReports ==
    ASSUME DmarcInv, Assess
    PROVE  Reported'
<1>1. /\ record' = record /\ subject' = subject /\ policyDomain' = policyDomain
      /\ unchecked' = (record.rua \cup record.ruf) \cap Outside
      /\ found \subseteq found'
  BY DEF Assess, recordVars
<1>2. /\ record.implied => "DMARCInvalid" \in found'
      /\ record.pct < 100 /\ Effective # "none" => "DMARCPartialPct" \in found'
      /\ WeakSubdomains => "DMARCWeakSubdomainPolicy" \in found'
      /\ record.rua = {} => "DMARCNoRUA" \in found'
  <2>1. found' = found
         \cup Rule(Inherited, "DMARCInherited")
         \cup Rule(record.implied, "DMARCInvalid")
         \cup Rule(Effective = "none", "DMARCPolicyNone")
         \cup Rule(Effective = "quarantine", "DMARCPolicyQuarantine")
         \cup Rule(record.pct < 100 /\ Effective # "none", "DMARCPartialPct")
         \cup Rule(WeakSubdomains, "DMARCWeakSubdomainPolicy")
         \cup Rule(record.rua = {}, "DMARCNoRUA")
         \cup Rule(record.ruf # {}, "DMARCRUF")
         \cup Rule(record.ruf = {} /\ "fo" \in seen, "DMARCFONoRUF")
         \cup Rule("s" \in {record.adkim, record.aspf}, "DMARCStrictAlignment")
    BY Zenon DEF Assess
  <2>2. \A c, r : c => r \in Rule(c, r)
    BY Zenon DEF Rule
  <2>3. /\ Rule(record.implied, "DMARCInvalid") \subseteq found'
        /\ Rule(record.pct < 100 /\ Effective # "none", "DMARCPartialPct") \subseteq found'
        /\ Rule(WeakSubdomains, "DMARCWeakSubdomainPolicy") \subseteq found'
        /\ Rule(record.rua = {}, "DMARCNoRUA") \subseteq found'
    BY <2>1, Zenon
  <2>4. QED
    BY <2>2, <2>3, Zenon
<1>3. Effective' = Effective /\ (WeakSubdomains' <=> WeakSubdomains)
  BY <1>1 DEF Effective, WeakSubdomains, Inherited, EffectiveSubdomainPolicy
<1>4. QED
  BY <1>1, <1>2, <1>3, Zenon DEF Reported

LEMMA DmarcStep ==
    ASSUME DmarcInv, DmarcNext, PolicyAssumption
    PROVE  DmarcInv'
<1>1. DmarcTypeOK' /\ DmarcTypeOK /\ Values
  BY DmarcTypeStep DEF DmarcInv
<1>2. CASE \E t \in Tags : ReadTag(t)
  <2>1. PICK t \in Tags : ReadTag(t)
    BY <1>2
  <2>2. /\ RepeatedTag(t) \/ FirstTag(t)
        /\ record'.implied = record.implied /\ found' \subseteq found \cup TagRules
        /\ step = "tags" /\ step' = step /\ discovery' = discovery
    BY <1>1, <2>1, TagFrame
  <2>3. TagsInv /\ discovery = "unknown" /\ ~record.implied /\ "DMARCEnforced" \notin found
    BY <2>2 DEF DmarcInv, Values, TagsInv
  <2>4. TagsInv'
    <3>1. CASE RepeatedTag(t)
      BY <1>1, <2>3, <3>1, RepeatedStep
    <3>2. CASE FirstTag(t)
      BY <1>1, <2>3, <3>2, FirstTagStep, PolicyAssumption, Zenon DEF FirstTag
    <3>3. QED
      BY <2>2, <3>1, <3>2
  <2>5. "DMARCEnforced" \notin found'
    BY <2>2, <2>3 DEF TagRules
  <2>6. PolicyIsPublished'
    BY <2>2, <2>3 DEF PolicyIsPublished
  <2>7. QED
    BY <1>1, <2>2, <2>3, <2>4, <2>5, <2>6 DEF DmarcInv, TagsInv, Values
<1>3. CASE EndOfTags /\ discovery' = "usable"
  <2>1. step = "tags"
    BY <1>3 DEF EndOfTags
  <2>2. PolicyIsPublished' /\ Values' /\ CleanInv' /\ step' = "assess" /\ found' = found
    BY <1>3, <2>1, TagsAddUp
  <2>3. "DMARCEnforced" \notin found'
    BY <2>1, <2>2 DEF DmarcInv
  <2>4. QED
    BY <1>1, <1>3, <2>2, <2>3 DEF DmarcInv
<1>4. CASE \/ \E err \in Errs : LookupFails(err)
           \/ NoTXTRecord \/ SeveralRecords \/ OneRecord
  <2>1. /\ UNCHANGED recordVars /\ found \subseteq found'
        /\ step \in {"own", "org"}
        /\ \/ step' \in {"org", "tags"} /\ discovery' = discovery /\ found' = found
           \/ step' = "done" /\ discovery' \in {"none", "several", "failed"}
    BY <1>4 DEF LookupFails, NoTXTRecord, SeveralRecords, OneRecord, Discovered, Looking
  <2>2. /\ Values' /\ (PInv => PInv') /\ (SpInv => SpInv') /\ (CleanInv => CleanInv')
        /\ record' = record
    BY <1>1, <2>1, SameRecord DEF recordVars
  <2>3. discovery = "unknown" /\ PInv /\ SpInv /\ ~record.implied /\ CleanInv
    BY <2>1 DEF DmarcInv
  <2>4. discovery' # "usable"
    BY <2>1, <2>3
  <2>5. PolicyIsPublished'
    BY <2>4 DEF PolicyIsPublished
  <2>6. CASE step' \in {"org", "tags"} /\ discovery' = discovery /\ found' = found
    BY <1>1, <2>1, <2>2, <2>3, <2>5, <2>6 DEF DmarcInv
  <2>7. CASE step' = "done" /\ discovery' \in {"none", "several", "failed"}
    BY <1>1, <2>2, <2>5, <2>7 DEF DmarcInv
  <2>8. QED
    BY <2>1, <2>6, <2>7
<1>5. CASE MalformedTag \/ (EndOfTags /\ discovery' # "usable")
  <2>1. UNCHANGED recordVars /\ step' = "done" /\ discovery' = "invalid"
    BY <1>5 DEF MalformedTag, EndOfTags, Unusable
  <2>2. Values'
    BY <1>1, <2>1 DEF recordVars, Values, PctInv, ModeInv, UriInv
  <2>3. PolicyIsPublished'
    BY <2>1 DEF PolicyIsPublished
  <2>4. QED
    BY <1>1, <2>1, <2>2, <2>3 DEF DmarcInv
<1>6. ASSUME step \in {"assess", "reports"}, UNCHANGED recordVars, found \subseteq found',
             discovery' = discovery, step' = "done" \/ (step' = "reports" /\ Reported'),
             step' # "done" => "DMARCEnforced" \notin found'
      PROVE  DmarcInv'
  <2>1. discovery = "usable" /\ CleanInv /\ PolicyIsPublished
    BY <1>6 DEF DmarcInv
  <2>2. Values' /\ CleanInv' /\ PolicyIsPublished'
    BY <1>1, <1>6, <2>1, SameRecord
  <2>3. QED
    BY <1>1, <1>6, <2>1, <2>2 DEF DmarcInv
<1>7. CASE Assess
  <2>1. /\ step = "assess" /\ step' = "reports" /\ UNCHANGED recordVars /\ discovery' = discovery
        /\ found \subseteq found'
    BY <1>7 DEF Assess
  <2>2. "DMARCEnforced" \notin found
    BY <2>1 DEF DmarcInv
  <2>3. "DMARCEnforced" \notin found'
    BY <1>7, <2>2 DEF Assess, Rule
  <2>4. QED
    BY <1>6, <1>7, <2>1, <2>3, AssessReports
<1>8. ASSUME NEW d \in Outside, NEW err \in Errs, NEW accepts \in BOOLEAN,
             CheckDestination(d, err, accepts)
      PROVE  DmarcInv'
  <2>1. /\ step = "reports" /\ step' = "reports" /\ UNCHANGED recordVars
        /\ discovery' = discovery /\ unchecked' = unchecked \ {d} /\ found \subseteq found'
        /\ record' = record /\ subject' = subject /\ policyDomain' = policyDomain
    BY <1>8 DEF CheckDestination, recordVars
  <2>2. /\ \/ "DNSLookupFailed" \in found'
           \/ "DMARCExternalUnauthorized" \in found'
           \/ d \in authorized'
        /\ authorized \subseteq authorized'
        /\ found' \subseteq found \cup {"DNSLookupFailed", "DMARCExternalUnauthorized"}
    <3>1. CASE err # "nil" /\ ~IsNXDomain(err)
      <4>1. found' = found \cup {"DNSLookupFailed"} /\ authorized' = authorized
        BY <1>8, <3>1 DEF CheckDestination
      <4>2. QED
        BY <4>1
    <3>2. CASE ~(err # "nil" /\ ~IsNXDomain(err))
      <4>1. /\ found' = found \cup Rule(~accepts, "DMARCExternalUnauthorized")
            /\ authorized' = authorized \cup Rule(accepts, d)
        BY <1>8, <3>2, Zenon DEF CheckDestination
      <4>2. QED
        BY <4>1 DEF Rule
    <3>3. QED
      BY <3>1, <3>2
  <2>3. Reported /\ "DMARCEnforced" \notin found
    BY <2>1 DEF DmarcInv
  <2>4. Effective' = Effective /\ (WeakSubdomains' <=> WeakSubdomains)
    BY <2>1 DEF Effective, WeakSubdomains, Inherited, EffectiveSubdomainPolicy
  <2>5. (\A e \in (record.rua \cup record.ruf) \cap Outside :
           \/ e \in unchecked \cup authorized
           \/ {"DMARCExternalUnauthorized", "DNSLookupFailed"} \cap found # {})'
    BY <2>1, <2>2, <2>3 DEF Reported
  <2>6. (/\ record.implied => "DMARCInvalid" \in found
         /\ record.pct < 100 /\ Effective # "none" => "DMARCPartialPct" \in found
         /\ WeakSubdomains => "DMARCWeakSubdomainPolicy" \in found
         /\ record.rua = {} => "DMARCNoRUA" \in found)'
    BY <2>1, <2>3, <2>4, Zenon DEF Reported
  <2>7. Reported'
    BY <2>5, <2>6, Zenon DEF Reported
  <2>8. "DMARCEnforced" \notin found'
    BY <2>2, <2>3
  <2>9. QED
    BY <1>6, <2>1, <2>7, <2>8
<1>9. CASE Conclude
  <2>1. /\ step = "reports" /\ step' = "done" /\ UNCHANGED recordVars /\ discovery' = discovery
        /\ found \subseteq found'
    BY <1>9 DEF Conclude
  <2>2. QED
    BY <1>6, <2>1
<1>10. QED
  BY <1>2, <1>3, <1>4, <1>5, <1>7, <1>8, <1>9, Zenon DEF DmarcNext

\* Once nothing is left to check, only an enforced policy is without remarks.
LEMMA ConcludeEarns ==
    ASSUME DmarcInv, Conclude, "DMARCEnforced" \in found'
    PROVE  EnforcedIsEarned'
<1>1. /\ step = "reports" /\ unchecked = {} /\ UNCHANGED <<subject, policyDomain, tags, record>>
      /\ authorized' = authorized
  BY DEF Conclude, recordVars, reportVars
<1>2. /\ discovery = "usable" /\ CleanInv /\ PolicyIsPublished /\ Reported /\ Values
      /\ "DMARCEnforced" \notin found /\ record \in Record
      /\ tags \in Seq(Tags)
  BY <1>1 DEF DmarcInv, DmarcTypeOK
<1>3. Effective = "reject" /\ \A rule \in found : DmarcSeverity[rule] <= Info
  BY <1>2 DEF Conclude, Rule
<1>4. {"DMARCInvalid", "DMARCPartialPct", "DMARCWeakSubdomainPolicy", "DMARCNoRUA",
       "DMARCInvalidValue", "DMARCInvalidURI", "DMARCDuplicateTag", "DMARCExternalUnauthorized",
       "DNSLookupFailed"} \cap found = {}
  <2>1. /\ DmarcSeverity["DMARCInvalid"] = 4 /\ DmarcSeverity["DMARCPartialPct"] = 4
        /\ DmarcSeverity["DMARCWeakSubdomainPolicy"] = 4 /\ DmarcSeverity["DMARCNoRUA"] = 3
        /\ DmarcSeverity["DMARCInvalidValue"] = 4 /\ DmarcSeverity["DMARCInvalidURI"] = 4
        /\ DmarcSeverity["DMARCDuplicateTag"] = 4
        /\ DmarcSeverity["DMARCExternalUnauthorized"] = 4 /\ DmarcSeverity["DNSLookupFailed"] = 5
    BY DEF DmarcSeverity
  <2>2. QED
    BY <1>3, <2>1 DEF Info
<1>5. ~record.implied /\ record.pct = 100 /\ ~WeakSubdomains /\ record.rua # {}
  <2>1. record.pct \in 0..100
    BY <1>2 DEF Record
  <2>2. ~(record.pct < 100)
    BY <1>2, <1>3, <1>4 DEF Reported
  <2>3. ~record.implied /\ ~WeakSubdomains /\ record.rua # {}
    BY <1>2, <1>4, Zenon DEF Reported
  <2>4. QED
    BY <2>1, <2>2, <2>3
<1>6. \A i \in DOMAIN tags : i \in FirstOf(tags, tags[i].name)
  BY <1>2, <1>4 DEF CleanInv
<1>7. /\ FirstOf(tags, "p") # {}
      /\ \A i \in FirstOf(tags, "p") : record.policy = tags[i].policy
      /\ \A i \in FirstOf(tags, "sp") : EffectiveSubdomainPolicy = tags[i].policy
      /\ FirstOf(tags, "sp") = {} => EffectiveSubdomainPolicy = record.policy
  <2>1. \A n : FirstOnes(n) = FirstOf(tags, n)
    BY FirstOnesAre
  <2>2. QED
    BY <1>2, <1>5, <2>1 DEF PolicyIsPublished
<1>8. EffectiveSubdomainPolicy = "reject"
  <2>1. CASE Inherited
    BY <1>3, <2>1 DEF Effective
  <2>2. CASE ~Inherited
    <3>1. record.policy = "reject"
      BY <1>3, <2>2 DEF Effective
    <3>2. record.sp \in {"none", "quarantine", "reject", "unset"}
      BY <1>2 DEF Record, Policies
    <3>3. Strength["reject"] = 3 /\ Strength["quarantine"] = 2 /\ Strength["none"] = 1
      BY DEF Strength, Policies
    <3>4. record.sp \in {"reject", "unset"}
      BY <1>5, <2>2, <3>1, <3>2, <3>3 DEF WeakSubdomains
    <3>5. QED
      BY <3>1, <3>4 DEF EffectiveSubdomainPolicy
  <2>3. QED
    BY <2>1, <2>2
<1>9. ASSUME NEW i \in DOMAIN tags, tags[i].name = "p"
      PROVE  tags[i].policy = "reject" \/ (Inherited /\ FirstOf(tags, "sp") # {})
  <2>1. record.policy = tags[i].policy
    BY <1>6, <1>7, <1>9
  <2>2. ~Inherited => record.policy = "reject"
    BY <1>3 DEF Effective
  <2>3. QED
    BY <1>7, <1>8, <2>1, <2>2
<1>10. ASSUME NEW i \in DOMAIN tags, tags[i].name = "pct" PROVE tags[i].pct = 100
  <2>1. i \in FirstOf(tags, "pct") /\ tags[i] \in Tags
    BY <1>2, <1>6, <1>10, ElementOfSeq, LenProperties
  <2>2. tags[i].pct <= 100 /\ (tags[i].pct < 100 => record.pct = tags[i].pct)
    BY <1>2, <1>4, <2>1 DEF CleanInv, Values, PctInv
  <2>3. tags[i].pct \in Nat
    BY <1>10, <2>1, TagShape, PolicyAssumption
  <2>4. QED
    BY <1>5, <2>2, <2>3
<1>11. ASSUME NEW i \in DOMAIN tags, tags[i].name \in {"rua", "ruf"}
       PROVE  tags[i].uris \subseteq {Org} \cup authorized
  <2>1. i \in FirstOf(tags, tags[i].name) /\ tags[i] \in Tags
    BY <1>2, <1>6, ElementOfSeq, LenProperties
  <2>2. BadURI \notin tags[i].uris
    BY <1>2, <1>4, <1>11, <2>1 DEF CleanInv
  <2>3. parseURIs(tags[i]) = tags[i].uris
    BY <2>2 DEF parseURIs
  <2>4. tags[i].uris \subseteq record.rua \cup record.ruf
    BY <1>2, <1>11, <2>1, <2>3 DEF Values, UriInv
  <2>5. record.rua \cup record.ruf \subseteq {Org} \cup Outside
    BY <1>2 DEF Record, Destinations
  <2>6. (record.rua \cup record.ruf) \cap Outside \subseteq authorized
    BY <1>1, <1>2, <1>4 DEF Reported
  <2>7. QED
    BY <2>4, <2>5, <2>6
<1>12. FirstOf(tags, "rua") # {}
  BY <1>2, <1>5 DEF Values, UriInv
<1>13. /\ tags' = tags /\ authorized' = authorized
       /\ \A n : FirstOnes(n)' = FirstOf(tags, n)
       /\ Inherited' <=> Inherited
  BY <1>1 DEF FirstOnes, FirstOf, Inherited
<1>14. \A i \in DOMAIN tags : tags[i].name = "sp" => tags[i].policy = "reject"
  BY <1>6, <1>7, <1>8
<1>15. QED
  BY <1>7, <1>9, <1>10, <1>11, <1>12, <1>13, <1>14 DEF EnforcedIsEarned

\* Discover, Parse and Assess keep every variable in its type, and of a record
\* that is read they keep what it says.
THEOREM RecordIsKept == DmarcSpec => []DmarcInv
<1>1. ASSUME DmarcInit PROVE DmarcInv
  <2>1. /\ tags = <<>> /\ seen = {"v"} /\ record = Defaults /\ step = "own" /\ found = {}
        /\ discovery = "unknown" /\ policyDomain = subject /\ subject \in {Org, Sub}
        /\ unchecked = {} /\ authorized = {}
    BY <1>1 DEF DmarcInit
  <2>2. pValid = FALSE
    BY <1>1 DEF DmarcInit
  <2>3. spInvalid = FALSE
    BY <1>1 DEF DmarcInit
  <2>4. reportsErr = FALSE
    BY <1>1 DEF DmarcInit
  <2>5. tags \in Seq(Tags) /\ Len(tags) = 0 /\ DOMAIN tags = {} /\ \A n : FirstOf(tags, n) = {}
    BY <2>1, EmptySeq DEF FirstOf
  <2>6. record \in Record
    BY <2>1 DEF Record, Defaults, Policies, Modes
  <2>7. DmarcTypeOK
    <3>1. Len(tags) <= MaxTags /\ found \subseteq DOMAIN DmarcSeverity
      BY <2>1, <2>5, PolicyAssumption
    <3>2. unchecked \subseteq Outside /\ authorized \subseteq Outside
      BY <2>1
    <3>3. pValid \in BOOLEAN /\ spInvalid \in BOOLEAN /\ reportsErr \in BOOLEAN
      BY <2>2, <2>3, <2>4, Zenon
    <3>4. QED
      BY <2>1, <2>5, <2>6, <3>1, <3>2, <3>3, Zenon DEF DmarcTypeOK
  <2>8. Values /\ CleanInv
    BY <2>1, <2>5 DEF Values, AllNamed, PctInv, ModeInv, UriInv, CleanInv, Defaults
  <2>9. PInv
    BY <2>2, <2>5, Zenon DEF PInv
  <2>10. SpInv
    <3>1. record.sp = "unset"
      BY <2>1 DEF Defaults
    <3>2. QED
      BY <2>3, <2>5, <3>1, Zenon DEF SpInv
  <2>11. ~record.implied
    BY <2>1 DEF Defaults
  <2>12. QED
    BY <2>1, <2>7, <2>8, <2>9, <2>10, <2>11 DEF DmarcInv, PolicyIsPublished
<1>2. ASSUME DmarcInv, UNCHANGED dmarcVars PROVE DmarcInv'
  <2>1. UNCHANGED recordVars /\ UNCHANGED <<subject, step, discovery, policyDomain, found>>
        /\ unchecked' = unchecked /\ authorized' = authorized
    BY <1>2 DEF dmarcVars, reportVars
  <2>2. /\ tags' = tags /\ record' = record /\ subject' = subject /\ step' = step
        /\ discovery' = discovery /\ policyDomain' = policyDomain /\ found' = found
    BY <2>1 DEF recordVars
  <2>3. pValid' = pValid
    BY <2>1 DEF recordVars
  <2>4. spInvalid' = spInvalid
    BY <2>1 DEF recordVars
  <2>5. reportsErr' = reportsErr
    BY <1>2 DEF dmarcVars, reportVars
  <2>6. DmarcTypeOK'
    BY <1>2, <2>1, <2>2, <2>3, <2>4, <2>5, Zenon DEF DmarcInv, DmarcTypeOK
  <2>7. /\ Values' /\ (PInv => PInv') /\ (SpInv => SpInv') /\ (CleanInv => CleanInv')
        /\ PolicyIsPublished'
    BY <1>2, <2>1, <2>2, SameRecord DEF DmarcInv
  <2>8. Reported => Reported'
    BY <2>1, <2>2 DEF Reported, Effective, WeakSubdomains, Inherited, EffectiveSubdomainPolicy
  <2>9. QED
    BY <1>2, <2>2, <2>6, <2>7, <2>8 DEF DmarcInv
<1>3. QED
  BY <1>1, <1>2, DmarcStep, PolicyAssumption, PTL DEF DmarcSpec

\* For every record: the policy that is applied and reported is the one its
\* text publishes, or none where the text leaves it in doubt.
THEOREM PublishedIsApplied == DmarcSpec => []PolicyIsPublished
<1>1. DmarcInv => PolicyIsPublished
  BY DEF DmarcInv
<1>2. QED
  BY <1>1, RecordIsKept, PTL

\* For every record and every answer about the report destinations: a policy
\* is only said to be enforced if it is, wholly and without a doubt.
THEOREM EnforcedIsTrue == DmarcSpec => []EnforcedIsEarned
<1>1. DmarcInit => EnforcedIsEarned
  BY DEF DmarcInit, EnforcedIsEarned
<1>2. ASSUME DmarcInv, EnforcedIsEarned, [DmarcNext]_dmarcVars PROVE EnforcedIsEarned'
  <2>1. CASE UNCHANGED dmarcVars
    BY <1>2, <2>1 DEF dmarcVars, recordVars, reportVars, EnforcedIsEarned, FirstOnes, Inherited
  <2>2. CASE Conclude
    <3>1. CASE "DMARCEnforced" \in found'
      BY <1>2, <2>2, <3>1, ConcludeEarns
    <3>2. CASE "DMARCEnforced" \notin found'
      BY <3>2 DEF EnforcedIsEarned
    <3>3. QED
      BY <3>1, <3>2
  <2>3. CASE DmarcNext /\ ~Conclude
    <3>1. "DMARCEnforced" \notin found
      <4>1. step # "done"
        BY <2>3 DEF DmarcNext, LookupFails, NoTXTRecord, SeveralRecords, OneRecord, Looking,
                    ReadTag, RepeatedTag, PolicyTag, SubdomainPolicyTag, PercentTag, ModeTag,
                    ReportTag, OtherTag, First, Reading, MalformedTag, EndOfTags, Assess,
                    CheckDestination
      <4>2. QED
        BY <1>2, <4>1 DEF DmarcInv
    <3>2. \/ step' # "done"
          \/ found' \subseteq found \cup {"DNSLookupFailed", "DMARCMissing", "DMARCMultiple",
                                          "DMARCInvalid"}
      BY <2>3 DEF DmarcNext, LookupFails, NoTXTRecord, SeveralRecords, OneRecord, Looking,
                  Discovered, ReadTag, RepeatedTag, PolicyTag, SubdomainPolicyTag, PercentTag,
                  ModeTag, ReportTag, OtherTag, First, Reading, MalformedTag, EndOfTags, Unusable,
                  Assess, CheckDestination
    <3>3. DmarcInv'
      BY <1>2, <2>3, DmarcStep, PolicyAssumption
    <3>4. "DMARCEnforced" \notin found'
      BY <3>1, <3>2, <3>3 DEF DmarcInv
    <3>5. QED
      BY <3>4 DEF EnforcedIsEarned
  <2>4. QED
    BY <1>2, <2>1, <2>2, <2>3
<1>3. QED
  BY <1>1, <1>2, RecordIsKept, PTL DEF DmarcSpec

-----------------------------------------------------------------------------
(* MTA-STS                                                                 *)

LinesWith(ls, k) == {i \in DOMAIN ls : ls[i].key = k}

LEMMA LinesOfAre == \A k : LinesOf(k) = LinesWith(lines, k)
  BY DEF LinesOf, LinesWith

\* One more line is one more of its key.
LEMMA OneMoreLineOf ==
    ASSUME NEW ls \in Seq(Lines), NEW l \in Lines
    PROVE  LET us == Append(ls, l)
           IN  /\ us \in Seq(Lines) /\ Len(us) = Len(ls) + 1
               /\ \A i \in DOMAIN ls : i \in DOMAIN us /\ us[i] = ls[i]
               /\ \A i \in DOMAIN us : i \in DOMAIN ls \/ us[i] = l
               /\ \A k : k # l.key => LinesWith(us, k) = LinesWith(ls, k)
               /\ \E i \in DOMAIN us : /\ us[i] = l /\ i \in LinesWith(us, l.key)
                                       /\ LinesWith(us, l.key) = LinesWith(ls, l.key) \cup {i}
<1> DEFINE us == Append(ls, l)
<1>1. /\ us \in Seq(Lines) /\ Len(us) = Len(ls) + 1
      /\ \A i \in 1..Len(ls) : us[i] = ls[i]
      /\ us[Len(ls) + 1] = l
  BY AppendProperties
<1> HIDE DEF us
<1>2. Len(ls) \in Nat /\ DOMAIN ls = 1..Len(ls) /\ DOMAIN us = 1..Len(ls) + 1
  BY <1>1, LenProperties
<1>3. ASSUME NEW k, k # l.key PROVE LinesWith(us, k) = LinesWith(ls, k)
  BY <1>1, <1>2, <1>3 DEF LinesWith
<1>4. LinesWith(us, l.key) = LinesWith(ls, l.key) \cup {Len(ls) + 1}
  BY <1>1, <1>2 DEF LinesWith
<1>5. QED
  BY <1>1, <1>2, <1>3, <1>4 DEF us

\* A well-formed pattern that matches a host names it label by label.
LEMMA MatchesNames ==
    ASSUME NEW pattern \in Patterns, NEW h \in UNION MailHosts,
           ValidMXPattern(pattern), Matches(pattern, h), StsAssumption
    PROVE  Names(pattern, h)
<1>1. pattern \in Seq(Labels) /\ h \in Seq(Labels)
  BY DEF StsAssumption
<1>2. CASE Head(pattern) = Star
  <2>1. h # <<>> /\ Tail(h) = Tail(pattern)
    BY <1>2 DEF Matches
  <2>2. pattern # <<>>
    BY DEF ValidMXPattern
  <2>3. ASSUME NEW s \in Seq(Labels), s # <<>>
        PROVE  /\ Len(s) \in Nat \ {0} /\ DOMAIN s = 1..Len(s) /\ Head(s) = s[1]
               /\ Len(Tail(s)) = Len(s) - 1
               /\ \A i \in 1..Len(s) - 1 : Tail(s)[i] = s[i + 1]
    <3>1. Len(s) \in Nat /\ Len(s) # 0 /\ DOMAIN s = 1..Len(s)
      BY <2>3, LenProperties, EmptySeq
    <3>2. Len(Tail(s)) = Len(s) - 1 /\ \A i \in 1..Len(Tail(s)) : Tail(s)[i] = s[i + 1]
      BY <2>3, HeadTailProperties
    <3>3. Head(s) = s[1]
      OBVIOUS
    <3>4. QED
      BY <3>1, <3>2, <3>3
  <2>4. Len(pattern) = Len(h)
    BY <1>1, <2>1, <2>2, <2>3
  <2>5. ASSUME NEW i \in DOMAIN h
        PROVE  pattern[i] = h[i] \/ (i = 1 /\ pattern[i] = Star)
    <3>1. CASE i = 1
      BY <1>1, <1>2, <2>2, <2>3, <3>1
    <3>2. CASE i # 1
      <4>1. i - 1 \in 1..Len(h) - 1 /\ (i - 1) + 1 = i
        BY <1>1, <2>1, <2>3, <3>2
      <4>2. QED
        BY <1>1, <2>1, <2>2, <2>3, <2>4, <4>1
    <3>3. QED
      BY <3>1, <3>2
  <2>6. QED
    BY <2>4, <2>5 DEF Names
<1>3. CASE Head(pattern) # Star
  BY <1>3 DEF Matches, Names
<1>4. QED
  BY <1>2, <1>3

\* What the policy is, by the lines that were accepted.
MxLines == \A pattern \in policy.mx :
             ValidMXPattern(pattern) /\ \E i \in LinesWith(lines, "mx") : lines[i].pattern = pattern
ModeLine == policy.mode # "bad" =>
              \E i \in LinesWith(lines, "mode") :
                LinesWith(lines, "mode") = {i} /\ lines[i].mode = policy.mode
AgeLine == policy.aged =>
             \E i \in LinesWith(lines, "max_age") :
               /\ LinesWith(lines, "max_age") = {i} /\ lines[i].age = policy.maxAge
               /\ policy.maxAge <= MaxMaxAge
LinesInv ==
    /\ \A i \in DOMAIN lines : lines[i].key \in keys
    /\ MxLines /\ ModeLine /\ AgeLine

StsInv ==
    /\ StsTypeOK
    /\ stsStep # "done" => "MTASTSValid" \notin stsFound /\ LinesInv
    /\ stsStep \in {"record", "orphan", "resolve", "fetch"} => policy.mode = "bad"
    /\ stsStep \in {"resolve", "fetch", "lines", "assess"} => fetching
    /\ stsStep \in {"lines", "assess"} =>
         /\ ~response.textPlain => "MTASTSContentType" \in stsFound
         /\ response.expiring => "MTASTSCertExpiring" \in stsFound
    /\ stsStep = "assess" => PolicyComplete
    /\ ValidMeansCovered

Policy == [version : BOOLEAN, mode : StsModes \cup {"bad"}, aged : BOOLEAN,
           maxAge : MaxAges \cup {0}, mx : SUBSET Patterns]

LEMMA LineShape ==
    ASSUME NEW l \in Lines
    PROVE  /\ l.key \in {"version", "mode", "max_age", "mx"} \cup UnknownKeys
           /\ l.key = "version" => l.known \in BOOLEAN
           /\ l.key = "mode" => l.mode \in StsModes \cup {"bad"}
           /\ l.key = "max_age" => l.age \in MaxAges
           /\ l.key = "mx" => l.pattern \in Patterns
  BY DEF Lines, UnknownKeys

LEMMA StsRuleNames ==
    /\ {"DNSLookupFailed", "MTASTSMissing", "MTASTSInvalidRecord", "MTASTSFetchFailed",
        "MTASTSContentType", "MTASTSInvalidPolicy", "MTASTSTesting", "MTASTSModeNone",
        "MTASTSShortMaxAge", "MTASTSMXMismatch", "MTASTSCertExpiring",
        "MTASTSPolicyWithoutRecord", "MTASTSValid", "MTASTSLineEndings"} \subseteq DOMAIN StsSeverity
    /\ \A kind \in DOMAIN FetchFailures :
         FetchFailures[kind] \in DOMAIN StsSeverity /\ FetchFailures[kind] # "MTASTSValid"
  BY DEF StsSeverity, FetchFailures

\* A line is accepted into the policy, or ends the reading of it.
LEMMA ReadLineStep ==
    ASSUME StsInv, NEW l \in Lines, ReadLine(l), Accepted(l), stsStep' = "lines", StsAssumption
    PROVE  LinesInv' /\ policy' \in Policy /\ keys' = keys \cup {l.key}
<1>1. /\ lines' = Append(lines, l) /\ stsStep = "lines"
      /\ lines \in Seq(Lines) /\ policy \in Policy /\ LinesInv
  BY DEF ReadLine, StsInv, StsTypeOK, Policy
<1>2. /\ \A i \in DOMAIN lines : i \in DOMAIN lines' /\ lines'[i] = lines[i]
      /\ \A i \in DOMAIN lines' : i \in DOMAIN lines \/ lines'[i] = l
      /\ \A k : k # l.key => LinesWith(lines', k) = LinesWith(lines, k)
      /\ \E i \in DOMAIN lines' : /\ lines'[i] = l /\ i \in LinesWith(lines', l.key)
                                  /\ LinesWith(lines', l.key) = LinesWith(lines, l.key) \cup {i}
  <2> DEFINE us == Append(lines, l)
  <2>1. /\ \A i \in DOMAIN lines : i \in DOMAIN us /\ us[i] = lines[i]
        /\ \A i \in DOMAIN us : i \in DOMAIN lines \/ us[i] = l
        /\ \A k : k # l.key => LinesWith(us, k) = LinesWith(lines, k)
        /\ \E i \in DOMAIN us : /\ us[i] = l /\ i \in LinesWith(us, l.key)
                                /\ LinesWith(us, l.key) = LinesWith(lines, l.key) \cup {i}
    BY <1>1, OneMoreLineOf, Zenon
  <2>2. us = lines'
    BY <1>1
  <2> HIDE DEF us
  <2>3. QED
    BY <2>1, <2>2, Zenon
<1>3. /\ keys' = keys \cup {l.key}
      /\ policy' = CASE l.key = "version" -> [policy EXCEPT !.version = l.known]
                     [] l.key = "mode" -> [policy EXCEPT !.mode = l.mode]
                     [] l.key = "max_age" -> [policy EXCEPT !.aged = TRUE, !.maxAge = l.age]
                     [] l.key = "mx" -> [policy EXCEPT !.mx = policy.mx \cup {l.pattern}]
                     [] OTHER -> policy
  BY <1>1 DEF ReadLine
<1>4. /\ l.key \in {"version", "mode", "max_age", "mx"} \cup UnknownKeys
      /\ l.key = "version" => l.known \in BOOLEAN
      /\ l.key = "mode" => l.mode \in StsModes \cup {"bad"}
      /\ l.key = "max_age" => l.age \in MaxAges
      /\ l.key = "mx" => l.pattern \in Patterns
  BY LineShape
<1>5. PICK n \in DOMAIN lines' : /\ lines'[n] = l /\ n \in LinesWith(lines', l.key)
                                 /\ LinesWith(lines', l.key) = LinesWith(lines, l.key) \cup {n}
  BY <1>2
<1>6. \A i \in DOMAIN lines' : lines'[i].key \in keys'
  BY <1>1, <1>2, <1>3 DEF LinesInv
<1>7. \A k : \A i \in LinesWith(lines, k) : i \in LinesWith(lines', k) /\ lines'[i] = lines[i]
  BY <1>2 DEF LinesWith
<1>8. l.key # "mx" => LinesWith(lines, l.key) = {}
  BY <1>1 DEF Accepted, LinesInv, LinesWith
<1>9. CASE l.key \in {"version"} \cup UnknownKeys
  <2>1. policy'.mode = policy.mode /\ policy'.mx = policy.mx /\ policy'.aged = policy.aged
        /\ policy'.maxAge = policy.maxAge /\ policy' \in Policy
    <3>1. policy' = policy \/ (l.known \in BOOLEAN /\ policy' = [policy EXCEPT !.version = l.known])
      BY <1>3, <1>4, <1>9 DEF UnknownKeys
    <3>2. QED
      BY <1>1, <3>1 DEF Policy
  <2>2. /\ LinesWith(lines', "mode") = LinesWith(lines, "mode")
        /\ LinesWith(lines', "max_age") = LinesWith(lines, "max_age")
    BY <1>2, <1>9 DEF UnknownKeys
  <2>3. MxLines'
    BY <1>1, <1>7, <2>1 DEF LinesInv, MxLines
  <2>4. ModeLine' /\ AgeLine'
    BY <1>1, <1>7, <2>1, <2>2 DEF LinesInv, ModeLine, AgeLine
  <2>5. QED
    BY <1>3, <1>6, <2>1, <2>3, <2>4 DEF LinesInv
<1>10. CASE l.key = "mode"
  <2>1. policy' = [policy EXCEPT !.mode = l.mode]
    BY <1>3, <1>10
  <2>2. policy'.mode = l.mode /\ policy'.mx = policy.mx /\ policy'.aged = policy.aged
        /\ policy'.maxAge = policy.maxAge /\ policy' \in Policy
    BY <1>1, <1>4, <1>10, <2>1 DEF Policy
  <2>3. LinesWith(lines', "max_age") = LinesWith(lines, "max_age")
    BY <1>2, <1>10
  <2>4. LinesWith(lines', "mode") = {n}
    BY <1>5, <1>8, <1>10
  <2>5. MxLines'
    BY <1>1, <1>7, <2>2 DEF LinesInv, MxLines
  <2>6. AgeLine'
    BY <1>1, <1>7, <2>2, <2>3 DEF LinesInv, AgeLine
  <2>7. ModeLine'
    BY <1>5, <2>2, <2>4 DEF ModeLine
  <2>8. QED
    BY <1>3, <1>6, <2>2, <2>5, <2>6, <2>7 DEF LinesInv
<1>11. CASE l.key = "max_age"
  <2>1. policy' = [policy EXCEPT !.aged = TRUE, !.maxAge = l.age]
    BY <1>3, <1>11
  <2>2. policy'.mode = policy.mode /\ policy'.mx = policy.mx
        /\ policy'.maxAge = l.age /\ policy' \in Policy
    BY <1>1, <1>4, <1>11, <2>1 DEF Policy
  <2>3. LinesWith(lines', "mode") = LinesWith(lines, "mode")
    BY <1>2, <1>11
  <2>4. LinesWith(lines', "max_age") = {n} /\ l.age <= MaxMaxAge
    BY <1>5, <1>8, <1>11 DEF Accepted
  <2>5. MxLines'
    BY <1>1, <1>7, <2>2 DEF LinesInv, MxLines
  <2>6. ModeLine'
    BY <1>1, <1>7, <2>2, <2>3 DEF LinesInv, ModeLine
  <2>7. AgeLine'
    BY <1>5, <2>2, <2>4 DEF AgeLine
  <2>8. QED
    BY <1>3, <1>6, <2>2, <2>5, <2>6, <2>7 DEF LinesInv
<1>12. CASE l.key = "mx"
  <2>1. policy' = [policy EXCEPT !.mx = policy.mx \cup {l.pattern}]
    BY <1>3, <1>12
  <2>2. policy'.mode = policy.mode /\ policy'.mx = policy.mx \cup {l.pattern}
        /\ policy'.aged = policy.aged /\ policy'.maxAge = policy.maxAge /\ policy' \in Policy
    BY <1>1, <1>4, <1>12, <2>1 DEF Policy
  <2>3. /\ LinesWith(lines', "mode") = LinesWith(lines, "mode")
        /\ LinesWith(lines', "max_age") = LinesWith(lines, "max_age")
    BY <1>2, <1>12
  <2>4. ValidMXPattern(l.pattern)
    BY <1>12 DEF Accepted
  <2>5. ASSUME NEW pattern \in policy'.mx
        PROVE  /\ ValidMXPattern(pattern)
               /\ \E i \in LinesWith(lines', "mx") : lines'[i].pattern = pattern
    <3>1. CASE pattern \in policy.mx
      BY <1>1, <1>7, <3>1 DEF LinesInv, MxLines
    <3>2. CASE pattern = l.pattern
      BY <1>5, <1>12, <2>4, <3>2
    <3>3. QED
      BY <2>2, <2>5, <3>1, <3>2
  <2>6. ModeLine' /\ AgeLine'
    BY <1>1, <1>7, <2>2, <2>3 DEF LinesInv, ModeLine, AgeLine
  <2>7. QED
    BY <1>3, <1>6, <2>2, <2>5, <2>6 DEF LinesInv, MxLines
<1>13. QED
  BY <1>4, <1>9, <1>10, <1>11, <1>12

\* A host that the policy covers is named by one of its lines.
LEMMA CoveredIsNamed ==
    ASSUME StsTypeOK, MxLines, NEW h \in mxHosts, Covers(h), StsAssumption
    PROVE  \E i \in LinesOf("mx") : Names(lines[i].pattern, h)
<1>1. PICK pattern \in policy.mx : Matches(pattern, h)
  BY DEF Covers
<1>2. pattern \in Patterns /\ h \in UNION MailHosts
  BY DEF StsTypeOK
<1>3. ValidMXPattern(pattern) /\ \E i \in LinesWith(lines, "mx") : lines[i].pattern = pattern
  BY DEF MxLines
<1>4. Names(pattern, h)
  BY <1>1, <1>2, <1>3, MatchesNames
<1>5. QED
  BY <1>3, <1>4, LinesOfAre

StsSteps == {"record", "orphan", "resolve", "fetch", "lines", "assess", "done"}

LEMMA StsStepKeeps ==
    ASSUME StsInv, StsNext, StsAssumption
    PROVE  StsInv'
<1>1. /\ StsTypeOK /\ lines \in Seq(Lines) /\ policy \in Policy
      /\ response \in [expiring : BOOLEAN, textPlain : BOOLEAN]
  BY DEF StsInv, StsTypeOK, Policy
\* What does not touch the policy keeps its type.
<1>2. ASSUME UNCHANGED policyVars, mxHosts' = mxHosts, fetching' = fetching, stsStep' \in StsSteps,
             response' \in [expiring : BOOLEAN, textPlain : BOOLEAN],
             stsFound' \subseteq DOMAIN StsSeverity, stsErr' \in Errs
      PROVE  StsTypeOK' /\ (LinesInv => LinesInv')
  <2>1. lines' = lines /\ keys' = keys /\ policy' = policy
    BY <1>2 DEF policyVars
  <2>2. fetching' \in BOOLEAN
    BY <1>1, <1>2, Zenon DEF StsTypeOK
  <2>3. StsTypeOK'
    BY <1>1, <1>2, <2>1, <2>2, Zenon DEF StsTypeOK, StsSteps
  <2>4. LinesInv => LinesInv'
    BY <2>1 DEF LinesInv, MxLines, ModeLine, AgeLine
  <2>5. QED
    BY <2>3, <2>4
\* An audit that ends before there is a policy promises nothing.
<1>3. ASSUME policy.mode = "bad", UNCHANGED policyVars, mxHosts' = mxHosts, fetching' = fetching,
             stsStep # "done", stsStep' = "done",
             response' \in [expiring : BOOLEAN, textPlain : BOOLEAN],
             stsFound' \subseteq DOMAIN StsSeverity, stsErr' \in Errs,
             "MTASTSValid" \notin stsFound => "MTASTSValid" \notin stsFound'
      PROVE  StsInv'
  <2>1. "MTASTSValid" \notin stsFound' /\ policy' = policy
    BY <1>3 DEF StsInv, policyVars
  <2>2. ValidMeansCovered'
    BY <1>3, <2>1 DEF ValidMeansCovered
  <2>3. StsTypeOK'
    BY <1>2, <1>3 DEF StsSteps
  <2>4. QED
    BY <1>3, <2>2, <2>3 DEF StsInv
\* So does one whose policy is refused.
<1>4. ASSUME stsStep = "lines", StsReturns("MTASTSInvalidPolicy", "nil"), response' = response,
             lines' \in Seq(Lines), Len(lines') <= MaxLines, keys' = keys, policy' = policy
      PROVE  StsInv'
  <2>1. /\ mxHosts' = mxHosts /\ fetching' = fetching /\ stsStep' = "done" /\ stsErr' = "nil"
        /\ stsFound' = stsFound \cup {"MTASTSInvalidPolicy"}
    BY <1>4 DEF StsReturns
  <2>2. fetching' \in BOOLEAN
    BY <1>1, <2>1, Zenon DEF StsTypeOK
  <2>3. stsFound' \subseteq DOMAIN StsSeverity /\ stsErr' \in Errs
    BY <1>1, <2>1, StsRuleNames DEF StsTypeOK, Errs
  <2>4. StsTypeOK'
    BY <1>1, <1>4, <2>1, <2>2, <2>3, Zenon DEF StsTypeOK
  <2>5. "MTASTSValid" \notin stsFound' /\ "MTASTSInvalidPolicy" \in stsFound'
    BY <1>4, <2>1 DEF StsInv
  <2>6. ValidMeansCovered'
    BY <2>5 DEF ValidMeansCovered
  <2>7. QED
    BY <2>1, <2>4, <2>6 DEF StsInv
<1>5. CASE \/ \E err \in Errs : StsRecordFails(err)
           \/ \E exists, served \in BOOLEAN : Orphan(exists, served)
           \/ SeveralStsRecords
  <2>1. /\ stsStep \in {"record", "orphan"} /\ stsStep' = "done" /\ UNCHANGED policyVars
        /\ mxHosts' = mxHosts /\ fetching' = fetching /\ response' = response /\ stsErr' \in Errs
        /\ stsFound' \subseteq stsFound \cup
             {"DNSLookupFailed", "MTASTSPolicyWithoutRecord", "MTASTSMissing", "MTASTSInvalidRecord"}
    BY <1>5 DEF StsRecordFails, Orphan, SeveralStsRecords, StsReturns, Errs
  <2>2. policy.mode = "bad" /\ "MTASTSValid" \notin stsFound
    BY <2>1 DEF StsInv
  <2>3. stsFound' \subseteq DOMAIN StsSeverity
    BY <1>1, <2>1, StsRuleNames DEF StsTypeOK
  <2>4. "MTASTSValid" \notin stsFound'
    BY <2>1, <2>2
  <2>5. QED
    BY <1>1, <1>3, <2>1, <2>2, <2>3, <2>4
\* Going on towards a policy.
<1>6. ASSUME NEW to \in {"orphan", "resolve", "fetch", "lines"}, StsGoesOn(to),
             stsStep \in {"record", "resolve", "fetch"}, to \in {"resolve", "fetch", "lines"} => fetching,
             UNCHANGED policyVars, response' \in [expiring : BOOLEAN, textPlain : BOOLEAN],
             stsFound' \subseteq DOMAIN StsSeverity, "MTASTSValid" \notin stsFound',
             to = "lines" => /\ ~response'.textPlain => "MTASTSContentType" \in stsFound'
                             /\ response'.expiring => "MTASTSCertExpiring" \in stsFound'
      PROVE  StsInv'
  <2>1. stsStep' = to /\ mxHosts' = mxHosts /\ fetching' = fetching /\ stsErr' = stsErr
    BY <1>6 DEF StsGoesOn
  <2>2. LinesInv /\ policy.mode = "bad" /\ policy' = policy
    BY <1>6 DEF StsInv, policyVars
  <2>3. StsTypeOK' /\ LinesInv'
    BY <1>1, <1>2, <1>6, <2>1, <2>2 DEF StsTypeOK, StsSteps
  <2>4. ValidMeansCovered'
    BY <1>6, <2>1, <2>2 DEF ValidMeansCovered
  <2>5. to \in {"resolve", "fetch", "lines"} => fetching'
    BY <1>6, <2>1, Zenon
  <2>6. QED
    BY <1>6, <2>1, <2>2, <2>3, <2>4, <2>5 DEF StsInv
<1>7. CASE NoStsRecord
  <2>1. /\ stsStep = "record" /\ StsGoesOn("orphan") /\ UNCHANGED policyVars
        /\ response' = response /\ stsFound' = stsFound
    BY <1>7 DEF NoStsRecord
  <2>2. "MTASTSValid" \notin stsFound /\ stsFound \subseteq DOMAIN StsSeverity
    BY <1>1, <2>1 DEF StsInv, StsTypeOK
  <2>3. QED
    BY <1>1, <1>6, <2>1, <2>2
<1>8. ASSUME NEW fields, OneStsRecord(fields) PROVE StsInv'
  <2>1. stsStep = "record" /\ UNCHANGED policyVars /\ response' = response
    BY <1>8 DEF OneStsRecord
  <2>2. policy.mode = "bad" /\ "MTASTSValid" \notin stsFound /\ stsFound \subseteq DOMAIN StsSeverity
    BY <1>1, <2>1 DEF StsInv, StsTypeOK
  <2>3. CASE StsReturns("MTASTSInvalidRecord", "nil")
    <3>1. /\ stsStep' = "done" /\ mxHosts' = mxHosts /\ fetching' = fetching /\ stsErr' = "nil"
          /\ stsFound' = stsFound \cup {"MTASTSInvalidRecord"}
      BY <2>3 DEF StsReturns
    <3>2. stsFound' \subseteq DOMAIN StsSeverity /\ stsErr' \in Errs /\ "MTASTSValid" \notin stsFound'
      BY <2>2, <3>1, StsRuleNames DEF Errs
    <3>3. QED
      BY <1>1, <1>3, <2>1, <2>2, <3>1, <3>2
  <2>4. CASE StsGoesOn(IF fetching THEN "resolve" ELSE "done") /\ stsFound' = stsFound
    <3>1. CASE fetching
      <4>1. StsGoesOn("resolve")
        BY <2>4, <3>1, Zenon
      <4>2. QED
        BY <1>1, <1>6, <2>1, <2>2, <2>4, <3>1, <4>1
    <3>2. CASE ~fetching
      <4>1. StsGoesOn("done")
        BY <2>4, <3>2, Zenon
      <4>2. stsStep' = "done" /\ mxHosts' = mxHosts /\ fetching' = fetching /\ stsErr' \in Errs
        BY <1>1, <4>1 DEF StsGoesOn, StsTypeOK
      <4>3. QED
        BY <1>1, <1>3, <2>1, <2>2, <2>4, <4>2
    <3>3. QED
      BY <3>1, <3>2
  <2>5. QED
    BY <1>8, <2>3, <2>4, Zenon DEF OneStsRecord
<1>9. ASSUME NEW err4 \in Errs, NEW err6 \in Errs, NEW addrs, Resolve(err4, err6, addrs) PROVE StsInv'
  <2>1. stsStep = "resolve" /\ UNCHANGED policyVars /\ response' = response
    BY <1>9 DEF Resolve
  <2>2. /\ policy.mode = "bad" /\ "MTASTSValid" \notin stsFound /\ stsFound \subseteq DOMAIN StsSeverity
        /\ fetching
    BY <1>1, <2>1 DEF StsInv, StsTypeOK
  <2>3. \/ \E err \in Errs : StsReturns("DNSLookupFailed", err) \/ StsReturns("MTASTSFetchFailed", err)
        \/ StsGoesOn("fetch") /\ stsFound' = stsFound
    BY <1>9, Zenon DEF Resolve, Errs
  <2>4. CASE StsGoesOn("fetch") /\ stsFound' = stsFound
    BY <1>1, <1>6, <2>1, <2>2, <2>4
  <2>5. CASE \E err \in Errs : StsReturns("DNSLookupFailed", err) \/ StsReturns("MTASTSFetchFailed", err)
    <3>1. /\ stsStep' = "done" /\ mxHosts' = mxHosts /\ fetching' = fetching /\ stsErr' \in Errs
          /\ stsFound' \subseteq stsFound \cup {"DNSLookupFailed", "MTASTSFetchFailed"}
      BY <2>5 DEF StsReturns
    <3>2. stsFound' \subseteq DOMAIN StsSeverity /\ "MTASTSValid" \notin stsFound'
      BY <2>2, <3>1, StsRuleNames
    <3>3. QED
      BY <1>1, <1>3, <2>1, <2>2, <3>1, <3>2
  <2>6. QED
    BY <2>3, <2>4, <2>5
<1>10. ASSUME NEW kind \in DOMAIN FetchFailures, NEW expiring \in BOOLEAN,
              RetrievalFails(kind, expiring)
       PROVE  StsInv'
  <2>1. /\ stsStep = "fetch" /\ stsStep' = "done" /\ UNCHANGED policyVars
        /\ mxHosts' = mxHosts /\ fetching' = fetching /\ stsErr' = stsErr
        /\ response' = [response EXCEPT !.expiring = expiring]
        /\ stsFound' = stsFound \cup Expiring(expiring) \cup {FetchFailures[kind]}
    BY <1>10 DEF RetrievalFails
  <2>2. policy.mode = "bad" /\ "MTASTSValid" \notin stsFound
    BY <2>1 DEF StsInv
  <2>3. Expiring(expiring) \subseteq {"MTASTSCertExpiring"}
    BY DEF Expiring, StsRule
  <2>4. FetchFailures[kind] \in DOMAIN StsSeverity /\ FetchFailures[kind] # "MTASTSValid"
        /\ "MTASTSCertExpiring" \in DOMAIN StsSeverity
    BY StsRuleNames
  <2>5. stsFound' \subseteq DOMAIN StsSeverity /\ "MTASTSValid" \notin stsFound'
    <3> HIDE DEF FetchFailures
    <3>1. QED
      BY <1>1, <2>1, <2>2, <2>3, <2>4 DEF StsTypeOK
  <2>6. response' \in [expiring : BOOLEAN, textPlain : BOOLEAN] /\ stsErr' \in Errs
    BY <1>1, <2>1 DEF StsTypeOK
  <2>7. QED
    BY <1>3, <2>1, <2>2, <2>5, <2>6
<1>11. ASSUME NEW expiring \in BOOLEAN, NEW textPlain \in BOOLEAN, Fetched(expiring, textPlain)
       PROVE  StsInv'
  <2>1. /\ stsStep = "fetch" /\ StsGoesOn("lines") /\ UNCHANGED policyVars
        /\ response' = [expiring |-> expiring, textPlain |-> textPlain]
        /\ stsFound' = stsFound \cup Expiring(expiring) \cup StsRule(~textPlain, "MTASTSContentType")
    BY <1>11 DEF Fetched
  <2>2. "MTASTSValid" \notin stsFound /\ fetching
    BY <2>1 DEF StsInv
  <2>3. /\ Expiring(expiring) \subseteq {"MTASTSCertExpiring"}
        /\ StsRule(~textPlain, "MTASTSContentType") \subseteq {"MTASTSContentType"}
    BY DEF Expiring, StsRule
  <2>4. stsFound' \subseteq DOMAIN StsSeverity /\ "MTASTSValid" \notin stsFound'
    BY <1>1, <2>1, <2>2, <2>3, StsRuleNames DEF StsTypeOK
  <2>5. response' \in [expiring : BOOLEAN, textPlain : BOOLEAN]
    BY <2>1
  <2>6. /\ ~response'.textPlain => "MTASTSContentType" \in stsFound'
        /\ response'.expiring => "MTASTSCertExpiring" \in stsFound'
    BY <2>1 DEF Expiring, StsRule
  <2>7. QED
    BY <1>6, <2>1, <2>2, <2>4, <2>5, <2>6
<1>12. ASSUME NEW l \in Lines, ReadLine(l) PROVE StsInv'
  <2>1. stsStep = "lines" /\ Len(lines) < MaxLines /\ lines' = Append(lines, l)
    BY <1>12 DEF ReadLine
  <2>2. lines' \in Seq(Lines) /\ Len(lines') <= MaxLines
    <3>1. Len(lines) \in Nat /\ MaxLines \in Nat
      BY <1>1, StsAssumption, LenProperties
    <3>2. lines' \in Seq(Lines) /\ Len(lines') = Len(lines) + 1
      BY <1>1, <2>1, AppendProperties
    <3>3. QED
      BY <2>1, <3>1, <3>2
  <2>3. CASE ~Accepted(l)
    <3>1. InvalidPolicy /\ keys' = keys /\ policy' = policy
      BY <1>12, <2>3 DEF ReadLine
    <3>2. QED
      BY <1>4, <2>1, <2>2, <3>1 DEF InvalidPolicy
  <2>4. CASE Accepted(l)
    <3>1. UNCHANGED <<mxHosts, fetching, stsStep, stsFound, stsErr, response>>
      BY <1>12, <2>4 DEF ReadLine
    <3>2. LinesInv' /\ policy' \in Policy /\ keys' = keys \cup {l.key}
      BY <1>12, <2>1, <2>4, <3>1, ReadLineStep, StsAssumption
    <3>3. fetching' = fetching
      BY <3>1
    <3>4. fetching' \in BOOLEAN
      BY <1>1, <3>3, Zenon DEF StsTypeOK
    <3>5. keys' \subseteq {"version", "mode", "max_age", "mx"} \cup UnknownKeys
      BY <1>1, <3>2, LineShape DEF StsTypeOK
    <3>6. /\ mxHosts' = mxHosts /\ stsStep' = stsStep /\ stsFound' = stsFound /\ stsErr' = stsErr
          /\ response' = response
      BY <3>1
    <3>7. StsTypeOK'
      BY <1>1, <2>2, <3>2, <3>4, <3>5, <3>6, Zenon DEF StsTypeOK, Policy
    <3>8. fetching'
      BY <2>1, <3>3, Zenon DEF StsInv
    <3>9. "MTASTSValid" \notin stsFound'
      BY <2>1, <3>6 DEF StsInv
    <3>10. ValidMeansCovered'
      BY <2>1, <3>6, <3>9 DEF ValidMeansCovered
    <3>11. QED
      BY <2>1, <3>2, <3>6, <3>7, <3>8, <3>9, <3>10 DEF StsInv
  <2>5. QED
    BY <2>3, <2>4
<1>13. CASE MalformedLine
  <2>1. /\ stsStep = "lines" /\ StsReturns("MTASTSInvalidPolicy", "nil") /\ response' = response
        /\ lines' = lines /\ keys' = keys /\ policy' = policy
    BY <1>13 DEF MalformedLine, InvalidPolicy, policyVars
  <2>2. QED
    BY <1>1, <1>4, <2>1 DEF StsTypeOK
<1>14. ASSUME NEW lfOnly \in BOOLEAN, EndOfPolicy(lfOnly) PROVE StsInv'
  <2>1. stsStep = "lines" /\ lines' = lines /\ keys' = keys /\ policy' = policy /\ UNCHANGED policyVars
    BY <1>14 DEF EndOfPolicy, policyVars
  <2>2. CASE InvalidPolicy
    BY <1>1, <1>4, <2>1, <2>2 DEF InvalidPolicy, StsTypeOK
  <2>3. CASE /\ PolicyComplete /\ StsGoesOn("assess")
             /\ stsFound' = stsFound \cup StsRule(lfOnly, "MTASTSLineEndings") /\ response' = response
    <3>1. /\ stsStep' = "assess" /\ mxHosts' = mxHosts /\ fetching' = fetching /\ stsErr' = stsErr
      BY <2>3 DEF StsGoesOn
    <3>2. stsFound \subseteq stsFound' /\ stsFound' \subseteq stsFound \cup {"MTASTSLineEndings"}
      BY <2>3 DEF StsRule
    <3>3. stsFound' \subseteq DOMAIN StsSeverity
      BY <1>1, <3>2, StsRuleNames DEF StsTypeOK
    <3>4. StsTypeOK' /\ LinesInv'
      BY <1>1, <1>2, <2>1, <2>3, <3>1, <3>3 DEF StsTypeOK, StsSteps, StsInv
    <3>5. "MTASTSValid" \notin stsFound'
      BY <2>1, <3>2 DEF StsInv
    <3>6. PolicyComplete'
      BY <2>1, <2>3, Zenon DEF PolicyComplete
    <3>7. fetching'
      BY <2>1, <3>1, Zenon DEF StsInv
    <3>8. /\ ~response'.textPlain => "MTASTSContentType" \in stsFound'
          /\ response'.expiring => "MTASTSCertExpiring" \in stsFound'
      BY <2>1, <2>3, <3>2 DEF StsInv
    <3>9. ValidMeansCovered'
      BY <3>1, <3>5 DEF ValidMeansCovered
    <3>10. QED
      BY <3>1, <3>4, <3>5, <3>6, <3>7, <3>8, <3>9 DEF StsInv
  <2>4. QED
    BY <1>14, <2>2, <2>3, Zenon DEF EndOfPolicy
<1>15. CASE AssessPolicy
  <2> DEFINE known == stsFound
             \cup StsRule(policy.mode = "testing", "MTASTSTesting")
             \cup StsRule(policy.mode = "none", "MTASTSModeNone")
             \cup StsRule(policy.maxAge < Day /\ policy.mode # "none", "MTASTSShortMaxAge")
             \cup StsRule(/\ \E h \in mxHosts \ {<<>>} : ~Covers(h)
                          /\ policy.mode # "none", "MTASTSMXMismatch")
  <2>1. /\ stsStep = "assess" /\ StsGoesOn("done") /\ UNCHANGED policyVars /\ response' = response
        /\ stsFound' = known \cup
             StsRule(AtMostInfo(known) /\ policy.mode = "enforce", "MTASTSValid")
    BY <1>15, Zenon DEF AssessPolicy
  <2>2. /\ stsStep' = "done" /\ mxHosts' = mxHosts /\ fetching' = fetching /\ stsErr' = stsErr
        /\ lines' = lines /\ policy' = policy
    BY <2>1 DEF StsGoesOn, policyVars
  <2>3. \A c, r : StsRule(c, r) \subseteq {r} /\ (c => r \in StsRule(c, r))
    BY Zenon DEF StsRule
  <2>4. known \subseteq stsFound \cup {"MTASTSTesting", "MTASTSModeNone", "MTASTSShortMaxAge",
                                       "MTASTSMXMismatch"}
    BY DEF StsRule
  <2>5. /\ stsFound \subseteq known
        /\ policy.maxAge < Day /\ policy.mode # "none" => "MTASTSShortMaxAge" \in known
        /\ (\E h \in mxHosts \ {<<>>} : ~Covers(h)) /\ policy.mode # "none" =>
             "MTASTSMXMismatch" \in known
    BY <2>3, Zenon
  <2>6. /\ known \subseteq stsFound' /\ stsFound' \subseteq known \cup {"MTASTSValid"}
        /\ "MTASTSValid" \in stsFound' => "MTASTSValid" \in known \/ (AtMostInfo(known) /\ policy.mode = "enforce")
    <3> HIDE DEF known
    <3>1. QED
      BY <2>1 DEF StsRule
  <2> HIDE DEF known
  <2>7. stsFound' \subseteq DOMAIN StsSeverity
    BY <1>1, <2>4, <2>6, StsRuleNames DEF StsTypeOK
  <2>8. StsTypeOK' /\ LinesInv'
    BY <1>1, <1>2, <2>1, <2>2, <2>7 DEF StsTypeOK, StsSteps, StsInv
  <2>9. "MTASTSValid" \notin known
    BY <2>1, <2>4 DEF StsInv
  <2>10. ASSUME policy.mode = "enforce", "MTASTSMXMismatch" \notin known
         PROVE  \A h \in mxHosts \ {<<>>} : \E i \in LinesOf("mx") : Names(lines[i].pattern, h)
    <3>1. \A h \in mxHosts \ {<<>>} : Covers(h)
      BY <2>5, <2>10
    <3>2. MxLines
      BY <2>1 DEF StsInv, LinesInv
    <3>3. QED
      BY <1>1, <3>1, <3>2, CoveredIsNamed, StsAssumption
  <2>11. \A k : LinesOf(k)' = LinesOf(k)
    BY <2>2 DEF LinesOf
  <2>12. ASSUME "MTASTSValid" \in stsFound'
         PROVE  /\ fetching' /\ response'.textPlain /\ ~response'.expiring
                /\ \A h \in mxHosts \ {<<>>} : \E i \in LinesOf("mx") : Names(lines[i].pattern, h)
                /\ \E i \in LinesOf("mode") : LinesOf("mode") = {i} /\ lines[i].mode = "enforce"
                /\ \E i \in LinesOf("max_age") :
                     LinesOf("max_age") = {i} /\ lines[i].age \in Day..MaxMaxAge
    <3>1. AtMostInfo(known) /\ policy.mode = "enforce"
      BY <2>6, <2>9, <2>12
    <3>2. {"MTASTSContentType", "MTASTSCertExpiring", "MTASTSShortMaxAge", "MTASTSMXMismatch"}
            \cap known = {}
      <4>1. /\ StsSeverity["MTASTSContentType"] = 4 /\ StsSeverity["MTASTSCertExpiring"] = 3
            /\ StsSeverity["MTASTSShortMaxAge"] = 3 /\ StsSeverity["MTASTSMXMismatch"] = 5
        BY DEF StsSeverity
      <4>2. QED
        BY <3>1, <4>1 DEF AtMostInfo
    <3>3. response.textPlain /\ ~response.expiring
      BY <2>1, <2>5, <3>2 DEF StsInv
    <3>4. fetching'
      BY <2>1, <2>2, Zenon DEF StsInv
    <3>5. ~(policy.maxAge < Day)
      BY <2>5, <3>1, <3>2
    <3>6. policy.aged /\ LinesInv
      BY <2>1 DEF StsInv, PolicyComplete
    <3>7. PICK i \in LinesWith(lines, "max_age") :
            /\ LinesWith(lines, "max_age") = {i} /\ lines[i].age = policy.maxAge
            /\ policy.maxAge <= MaxMaxAge
      BY <3>6 DEF LinesInv, AgeLine
    <3>8. policy.maxAge \in Nat /\ MaxMaxAge \in Nat /\ Day \in Nat
      <4>1. policy.maxAge \in MaxAges \cup {0}
        BY <1>1 DEF Policy
      <4>2. MaxAges \subseteq Nat /\ MaxMaxAge \in Nat /\ Day \in 1..MaxMaxAge
        BY Zenon DEF StsAssumption
      <4>3. \A x \in MaxAges \cup {0} : x \in Nat
        BY <4>2
      <4>4. policy.maxAge \in Nat
        BY <4>1, <4>3, Zenon
      <4>5. QED
        BY <4>2, <4>4
    <3>9. \E j \in LinesOf("max_age") : LinesOf("max_age") = {j} /\ lines[j].age \in Day..MaxMaxAge
      BY <3>5, <3>7, <3>8, LinesOfAre
    <3>10. \E j \in LinesOf("mode") : LinesOf("mode") = {j} /\ lines[j].mode = "enforce"
      BY <3>1, <3>6, LinesOfAre DEF LinesInv, ModeLine
    <3>11. QED
      BY <2>1, <2>10, <3>1, <3>2, <3>3, <3>4, <3>9, <3>10
  <2>13. ASSUME policy.mode = "enforce", "MTASTSMXMismatch" \notin stsFound'
         PROVE  \A h \in mxHosts \ {<<>>} : \E i \in LinesOf("mx") : Names(lines[i].pattern, h)
    BY <2>6, <2>10, <2>13
  <2>14. ValidMeansCovered'
    BY <2>2, <2>11, <2>12, <2>13 DEF ValidMeansCovered
  <2>15. QED
    BY <2>2, <2>8, <2>14 DEF StsInv
<1>16. QED
  BY <1>5, <1>7, <1>8, <1>9, <1>10, <1>11, <1>12, <1>13, <1>14, <1>15, Zenon DEF StsNext

\* The audit of MTA-STS keeps every variable in its type, and the policy is
\* what its lines say.
THEOREM StsPolicyIsKept == StsSpec => []StsInv
<1>1. ASSUME StsInit PROVE StsInv
  <2>1. /\ mxHosts \in MailHosts /\ stsStep = "record" /\ lines = <<>> /\ keys = {}
        /\ policy = NoPolicyYet /\ response = NoResponse /\ stsFound = {} /\ stsErr = "nil"
    BY <1>1 DEF StsInit
  <2>2. fetching \in BOOLEAN
    BY <1>1, Zenon DEF StsInit
  <2>3. lines \in Seq(Lines) /\ Len(lines) = 0 /\ DOMAIN lines = {}
    BY <2>1, EmptySeq
  <2>4. policy \in Policy /\ policy.mode = "bad" /\ ~policy.aged /\ policy.mx = {}
    BY <2>1 DEF Policy, NoPolicyYet
  <2>5. Len(lines) <= MaxLines /\ stsErr \in Errs /\ stsFound \subseteq DOMAIN StsSeverity
        /\ response \in [expiring : BOOLEAN, textPlain : BOOLEAN]
    BY <2>1, <2>3, StsAssumption DEF Errs, NoResponse
  <2>6. keys \subseteq {"version", "mode", "max_age", "mx"} \cup UnknownKeys
    BY <2>1
  <2>7. StsTypeOK
    BY <2>1, <2>2, <2>3, <2>4, <2>5, <2>6, Zenon DEF StsTypeOK, Policy
  <2>8. LinesInv
    BY <2>3, <2>4 DEF LinesInv, MxLines, ModeLine, AgeLine
  <2>9. ValidMeansCovered
    BY <2>1 DEF ValidMeansCovered
  <2>10. QED
    BY <2>1, <2>4, <2>7, <2>8, <2>9 DEF StsInv
<1>2. ASSUME StsInv, UNCHANGED stsVars PROVE StsInv'
  <2>1. /\ mxHosts' = mxHosts /\ stsStep' = stsStep /\ lines' = lines /\ keys' = keys
        /\ policy' = policy /\ response' = response /\ stsFound' = stsFound /\ stsErr' = stsErr
    BY <1>2 DEF stsVars, policyVars
  <2>2. fetching' = fetching
    BY <1>2 DEF stsVars
  <2>3. StsTypeOK'
    BY <1>2, <2>1, <2>2, Zenon DEF StsInv, StsTypeOK
  <2>4. LinesInv => LinesInv'
    BY <2>1 DEF LinesInv, MxLines, ModeLine, AgeLine
  <2>5. ValidMeansCovered' /\ (fetching => fetching')
    BY <1>2, <2>1, <2>2, Zenon DEF StsInv, ValidMeansCovered, LinesOf
  <2>6. PolicyComplete => PolicyComplete'
    BY <2>1 DEF PolicyComplete
  <2>7. QED
    BY <1>2, <2>1, <2>3, <2>4, <2>5, <2>6, Zenon DEF StsInv
<1>3. QED
  BY <1>1, <1>2, StsStepKeeps, StsAssumption, PTL DEF StsSpec

\* For every policy and every set of mail hosts: an enforced policy that
\* shuts a mail host out is never passed, nor passed over.
THEOREM EnforcedPolicyCovers == StsSpec => []ValidMeansCovered
<1>1. StsInv => ValidMeansCovered
  BY DEF StsInv
<1>2. QED
  BY <1>1, StsPolicyIsKept, PTL

-----------------------------------------------------------------------------
(* Mail exchangers                                                         *)

\* The remarks that a host which does not resolve as it should leaves.
Faults == {"MXLookupInconsistent", "MXNoAddress", "MXIPLiteral", "MXNonPublicAddress"}

\* Of each record already looked at: its host proved to be in order, or some
\* host did not, or it names no new host, or it was one too many.
RecordsInv ==
    \A i \in 1..at - 1 :
        \/ records[i].host \in resolved
        \/ Faults \cap mxFound # {}
        \/ records[i].host = NullHost
        \/ \E j \in 1..i - 1 : records[j].host = records[i].host
        \/ i > MaxResolved /\ checked >= MaxResolved

AnswerInv ==
    /\ DOMAIN records = 1..Len(records) /\ Len(records) \in Nat
    /\ at \in Nat \ {0} /\ at <= Len(records) + 1
    /\ checked \in Nat /\ checked <= at - 1

\* Nothing is forgotten on the way to summarize.
HostsInv ==
    /\ records # <<>>
    /\ mxErr # "nil" => "MXLookupInconsistent" \in mxFound
    /\ Nulls(records) # {} => "MXNullMixed" \in mxFound
    /\ RecordsInv

MxInv ==
    /\ AnswerInv
    /\ mxStep # "done" => "MXValid" \notin mxFound
    /\ mxStep \in {"lookup", "implicit"} => mxErr = "nil" /\ at = 1 /\ checked = 0
    /\ mxStep = "hosts" => HostsInv
    /\ MxValidIsEarned

\* An answer is a sequence of records.
LEMMA MxListType ==
    ASSUME NEW rs \in MxLists
    PROVE  DOMAIN rs = 1..Len(rs) /\ Len(rs) \in Nat
<1>1. PICK n \in 0..MaxRecords : rs \in [1..n -> MxRecords]
  BY DEF MxLists
<1>2. n \in Nat
  BY ExchangersAssumption
<1>3. rs \in Seq(MxRecords)
  BY <1>1, <1>2, SeqDef
<1>4. QED
  BY <1>3, LenProperties

\* The numbers up to n are n.
LEMMA Interval ==
    ASSUME NEW n \in Nat
    PROVE  IsFiniteSet(1..n) /\ Cardinality(1..n) = n
<1>1. 1 \in Int /\ n \in Int
  OBVIOUS
<1>2. IsFiniteSet(1..n)
  BY <1>1, FS_Interval, Zenon
<1>3. Cardinality(1..n) = IF 1 > n THEN 0 ELSE n - 1 + 1
  BY <1>1, FS_Interval, Zenon
<1>4. QED
  BY <1>2, <1>3

\* An answer that names as many hosts as it has records names each once.
LEMMA EachOnce ==
    ASSUME NEW n \in Nat, NEW f, DOMAIN f = 1..n,
           Cardinality({f[i].host : i \in 1..n}) = n,
           NEW i \in 1..n, NEW j \in 1..n, f[i].host = f[j].host
    PROVE  i = j
<1> DEFINE names == {f[k].host : k \in 1..n}
           host == [k \in 1..n |-> f[k].host]
<1>1. host \in Surjection(1..n, names)
  <2>1. host \in [1..n -> names] /\ \A t \in names : \E s \in 1..n : host[s] = t
    OBVIOUS
  <2>2. QED
    BY <2>1, Zenon DEF Surjection
<1>2. IsFiniteSet(1..n) /\ Cardinality(1..n) = n
  BY Interval, Zenon
<1>3. host \in Injection(1..n, names)
  BY <1>1, <1>2, FS_SurjSameCardinalityImpliesInj
<1>4. IsInjective(host) /\ DOMAIN host = 1..n
  BY <1>3, Zenon DEF Injection
<1>5. host[i] = host[j]
  OBVIOUS
<1>6. QED
  BY <1>4, <1>5, Zenon DEF IsInjective

\* summarize: when it finds nothing, nothing was wrong.
LEMMA MxSummed ==
    ASSUME MxInv, SummarizeMx
    PROVE  MxInv'
<1>1. /\ mxStep = "hosts" /\ at > Len(records) /\ mxStep' = "done" /\ mxErr' = mxErr
      /\ records' = records /\ at' = at /\ checked' = checked /\ resolved' = resolved
  BY DEF SummarizeMx, MxReturns
<1>2. at = Len(records) + 1 /\ at - 1 = Len(records) /\ HostsInv /\ RecordsInv
  BY <1>1 DEF MxInv, AnswerInv, HostsInv
<1>3. AnswerInv'
  BY <1>1 DEF MxInv, AnswerInv
<1>4. ASSUME "MXValid" \in mxFound'
      PROVE  MxValidIsEarned'
  <2> DEFINE once == Len(records) = Cardinality(Nulls(records)) + Cardinality(Seen)
             known == mxFound \cup Remark(TooMany, "MXTooMany")
                              \cup Remark(~once, "MXDuplicateHost")
  <2>1. known \subseteq mxFound' /\ \A rule \in known : MxSeverity[rule] < Low
    <3> DEFINE usable == {i \in Listed : hosts[i].v4 \/ hosts[i].v6}
               counted == known \cup Remark(\A i \in Listed : ~hosts[i].v6, "MXIPv4Only")
                                \cup Remark(Cardinality(Listed) = 1, "MXSingleHost")
    <3>1. mxFound' = IF usable = {} THEN known
                     ELSE counted \cup Remark(\A rule \in counted : MxSeverity[rule] < Low,
                                              "MXValid")
      BY Zenon DEF SummarizeMx
    <3>2. "MXValid" \notin counted /\ "MXValid" \notin known
      BY <1>1 DEF Remark, MxInv
    <3>3. mxFound' = counted \cup Remark(\A rule \in counted : MxSeverity[rule] < Low, "MXValid")
      BY <3>1, <3>2, <1>4, Zenon
    <3>4. \A rule \in counted : MxSeverity[rule] < Low
      BY <3>3, <3>2, <1>4, Zenon DEF Remark
    <3>5. known \subseteq counted /\ counted \subseteq mxFound'
      BY <3>3, Zenon
    <3>6. QED
      BY <3>4, <3>5, Zenon
  <2>3. \A rule \in Faults \cup {"MXNullMixed", "MXDuplicateHost"} : rule \notin known
    <3>1. \A rule \in Faults \cup {"MXNullMixed", "MXDuplicateHost"} : ~(MxSeverity[rule] < Low)
      BY DEF Faults, MxSeverity, Low
    <3>2. QED
      BY <2>1, <3>1, Zenon
  <2>4. Faults \cap mxFound = {} /\ "MXLookupInconsistent" \notin mxFound /\ "MXNullMixed" \notin mxFound
    BY <2>3, Zenon DEF Faults
  <2>5. mxErr = "nil" /\ Nulls(records) = {}
    BY <1>2, <2>4, Zenon DEF HostsInv
  <2>6. once
    BY <2>3, Zenon DEF Remark
  <2>7. \A i \in DOMAIN records : records[i].host # NullHost
    BY <2>5 DEF Nulls
  <2>8. Seen = {records[i].host : i \in DOMAIN records}
    BY <1>2, <2>7 DEF Seen, MxInv, AnswerInv
  <2>9. Cardinality(Seen) = Len(records)
    <3>1. IsFiniteSet(1..Len(records)) /\ IsFiniteSet(Seen)
      <4> DEFINE host == [k \in 1..Len(records) |-> records[k].host]
      <4>1. IsFiniteSet(1..Len(records))
        BY Interval, Zenon DEF MxInv, AnswerInv
      <4>2. host \in [1..Len(records) -> Seen] /\ \A t \in Seen : \E s \in 1..Len(records) : host[s] = t
        BY <2>8 DEF MxInv, AnswerInv
      <4>3. host \in Surjection(1..Len(records), Seen)
        BY <4>2, Zenon DEF Surjection
      <4>4. QED
        BY <4>1, <4>3, FS_Surjection
    <3>2. Cardinality(Seen) \in Nat
      BY <3>1, FS_CardinalityType
    <3>3. Cardinality(Nulls(records)) = 0
      BY <2>5, FS_EmptySet
    <3>4. QED
      BY <2>6, <3>2, <3>3
  <2>10. Cardinality({records[i].host : i \in DOMAIN records}) = Len(records)
    BY <2>8, <2>9, Zenon
  <2>11. ASSUME NEW i \in DOMAIN records, records[i].host \notin resolved
         PROVE  i > MaxResolved /\ "MXTooMany" \in mxFound'
    <3>1. i \in 1..Len(records) /\ i \in 1..at - 1 /\ Len(records) \in Nat
      BY <1>2 DEF MxInv, AnswerInv
    <3>2. ASSUME NEW j \in 1..i - 1, records[j].host = records[i].host
          PROVE  FALSE
      <4>1. j \in 1..Len(records) /\ j # i
        BY <3>1
      <4>2. Cardinality({records[k].host : k \in 1..Len(records)}) = Len(records)
        BY <2>10, Zenon DEF MxInv, AnswerInv
      <4>3. QED
        BY <3>1, <3>2, <4>1, <4>2, EachOnce, Zenon DEF MxInv, AnswerInv
    <3>3. i > MaxResolved /\ checked >= MaxResolved
      BY <1>2, <2>4, <2>7, <2>11, <3>1, <3>2, Zenon DEF RecordsInv
    <3>4. TooMany
      BY <2>9, <3>1, <3>3, ExchangersAssumption DEF TooMany
    <3>5. QED
      BY <2>1, <3>3, <3>4, Zenon DEF Remark
  <2>12. resolved # {}
    <3>1. 1 \in DOMAIN records
      BY <1>2 DEF HostsInv, MxInv, AnswerInv
    <3>2. ~(1 > MaxResolved)
      BY ExchangersAssumption
    <3>3. QED
      BY <2>11, <3>1, <3>2, Zenon
  <2>13. QED
    BY <1>1, <2>5, <2>10, <2>11, <2>12 DEF MxValidIsEarned
<1>5. MxValidIsEarned'
  BY <1>4 DEF MxValidIsEarned
<1>6. QED
  BY <1>1, <1>3, <1>5 DEF MxInv

\* A record that is passed keeps what was said of those before it.
LEMMA MxPassed ==
    ASSUME MxInv, AtMx, ToNext,
           checked' \in Nat, checked <= checked', checked' <= checked + 1,
           mxFound \subseteq mxFound', resolved \subseteq resolved',
           "MXValid" \notin mxFound',
           mxErr' # "nil" => "MXLookupInconsistent" \in mxFound',
           \/ Target \in resolved'
           \/ Faults \cap mxFound' # {}
           \/ Target = NullHost
           \/ Target \in Seen
           \/ checked >= MaxResolved
    PROVE  MxInv'
<1>1. /\ mxStep = "hosts" /\ mxStep' = "hosts" /\ at' = at + 1 /\ records' = records
      /\ at <= Len(records)
  BY DEF AtMx, ToNext
<1>2. AnswerInv
  BY DEF MxInv
<1>3. AnswerInv'
  BY <1>1, <1>2 DEF AnswerInv
<1>4. HostsInv
  BY <1>1 DEF MxInv
<1>5. RecordsInv'
  <2> SUFFICES ASSUME NEW i \in 1..at
               PROVE  \/ records[i].host \in resolved'
                      \/ Faults \cap mxFound' # {}
                      \/ records[i].host = NullHost
                      \/ \E j \in 1..i - 1 : records[j].host = records[i].host
                      \/ i > MaxResolved /\ checked' >= MaxResolved
    BY <1>1, <1>2 DEF RecordsInv, AnswerInv
  <2>1. CASE i \in 1..at - 1
    BY <1>2, <1>4, <2>1, ExchangersAssumption DEF HostsInv, RecordsInv, AnswerInv
  <2>2. CASE i = at
    <3>1. ASSUME Target \in Seen
          PROVE  \E j \in 1..i - 1 : records[j].host = records[i].host
      BY <2>2, <3>1 DEF Target, Seen
    <3>2. ASSUME checked >= MaxResolved
          PROVE  i > MaxResolved /\ checked' >= MaxResolved
      BY <1>2, <2>2, <3>2, ExchangersAssumption DEF AnswerInv
    <3>3. records[i].host = Target
      BY <2>2 DEF Target
    <3>4. QED
      BY <3>1, <3>2, <3>3
  <2>3. QED
    BY <1>2, <2>1, <2>2 DEF AnswerInv
<1>6. HostsInv'
  BY <1>1, <1>4, <1>5 DEF HostsInv, Nulls
<1>7. QED
  BY <1>1, <1>3, <1>6 DEF MxInv, MxValidIsEarned

\* Every step keeps what is known of the MX records.
LEMMA MxStep ==
    ASSUME MxInv, [MxNext]_mxVars
    PROVE  MxInv'
<1>1. ASSUME NEW err \in Errs, MxFails(err)
      PROVE  MxInv'
  BY <1>1 DEF MxFails, MxReturns, MxInv, AnswerInv, MxValidIsEarned
<1>2. ASSUME NoMx
      PROVE  MxInv'
  BY <1>2 DEF NoMx, MxInv, AnswerInv, MxValidIsEarned
<1>3. ASSUME NEW rs \in MxLists, MxAnswer(rs)
      PROVE  MxInv'
  <2>1. /\ mxStep = "lookup" /\ rs # <<>> /\ records' = rs
        /\ at' = at /\ checked' = checked /\ mxErr' = mxErr
    BY <1>3 DEF MxAnswer
  <2>2. at = 1 /\ checked = 0 /\ mxErr = "nil"
    BY <2>1 DEF MxInv
  <2>3. AnswerInv'
    BY <2>1, <2>2, MxListType DEF AnswerInv
  <2> DEFINE alone == Nulls(rs) = DOMAIN rs
  <2>4. /\ mxFound' = Remark(\E i \in Nulls(rs) : ~rs[i].zero, "MXNullPreference")
                      \cup Remark(alone, "MXNullMX")
                      \cup Remark(~alone /\ Nulls(rs) # {}, "MXNullMixed")
        /\ mxStep' = IF alone THEN "done" ELSE "hosts"
    BY <1>3, Zenon DEF MxAnswer
  <2>5. "MXValid" \notin mxFound'
    BY <2>4 DEF Remark
  <2>6. mxStep' = "hosts" => HostsInv'
    <3>1. ASSUME mxStep' = "hosts"
          PROVE  Nulls(rs) # {} => "MXNullMixed" \in mxFound'
      BY <2>4, <3>1 DEF Remark
    <3>2. RecordsInv'
      BY <2>1, <2>2 DEF RecordsInv
    <3>3. QED
      BY <2>1, <2>2, <3>1, <3>2 DEF HostsInv, Nulls
  <2>7. mxStep' \notin {"lookup", "implicit"}
    BY <2>4
  <2>8. QED
    BY <2>3, <2>5, <2>6, <2>7 DEF MxInv, MxValidIsEarned
<1>4. ASSUME NEW v4, NEW v6, ImplicitMx(v4, v6)
      PROVE  MxInv'
  <2>1. /\ mxStep' = "done" /\ mxFound' \in {{"DNSLookupFailed"}, {"MXNoMailHost"}, {"MXNone"}}
        /\ records' = records /\ at' = at /\ checked' = checked
    BY <1>4, Zenon DEF ImplicitMx, MxReturns
  <2>2. QED
    BY <2>1 DEF MxInv, AnswerInv, MxValidIsEarned
<1>5. ASSUME NullRecord \/ RepeatedHost \/ ListedHost
      PROVE  MxInv'
  <2>1. /\ AtMx /\ ToNext /\ checked' = checked /\ mxErr' = mxErr
        /\ mxFound' = mxFound /\ resolved' = resolved
        /\ Target = NullHost \/ Target \in Seen \/ checked >= MaxResolved
    BY <1>5 DEF NullRecord, RepeatedHost, ListedHost
  <2>2. mxStep = "hosts"
    BY <2>1 DEF AtMx
  <2>3. checked \in Nat /\ HostsInv /\ "MXValid" \notin mxFound
    BY <2>2 DEF MxInv, AnswerInv
  <2>4. QED
    BY <2>1, <2>3, MxPassed DEF HostsInv
<1>6. ASSUME NEW alias \in BOOLEAN, NEW v4 \in Outcomes, NEW v6 \in Outcomes,
             AssessHost(alias, v4, v6)
      PROVE  MxInv'
  <2> DEFINE err == ResolveErr(v4, v6)
             failed == IsTemporary(err)
             none == {v4, v6} \cap Addresses = {}
  <2>1. /\ AtMx /\ ToNext /\ checked' = checked + 1
        /\ mxErr' = IF failed /\ IsInfrastructure(err) THEN err ELSE mxErr
    BY <1>6, Zenon DEF AssessHost
  <2>2. mxFound' = mxFound
                \cup Remark(Target \in Literals, "MXIPLiteral")
                \cup Remark(Target \in BadHosts, "MXInvalidHostname")
                \cup Remark(alias, "MXCNAME")
                \cup Remark(failed, "MXLookupInconsistent")
                \cup Remark(Target \notin Literals /\ ~failed /\ none, "MXNoAddress")
                \cup Remark(~failed /\ "private" \in {v4, v6}, "MXNonPublicAddress")
    BY <1>6, Zenon DEF AssessHost
  <2>3. resolved' = resolved \cup
                Remark(~failed /\ "public" \in {v4, v6} /\ "private" \notin {v4, v6}, Target)
    BY <1>6, Zenon DEF AssessHost
  <2>4. mxStep = "hosts"
    BY <2>1 DEF AtMx
  <2>5. checked \in Nat /\ HostsInv /\ "MXValid" \notin mxFound
    BY <2>4 DEF MxInv, AnswerInv
  <2>6. mxFound \subseteq mxFound' /\ resolved \subseteq resolved' /\ "MXValid" \notin mxFound'
    <3>1. mxFound \subseteq mxFound' /\ resolved \subseteq resolved'
      BY <2>2, <2>3, Zenon
    <3>2. "MXValid" \notin mxFound'
      BY <2>2, <2>5 DEF Remark
    <3>3. QED
      BY <3>1, <3>2
  <2>7. mxErr' # "nil" => "MXLookupInconsistent" \in mxFound'
    <3>1. failed => "MXLookupInconsistent" \in mxFound'
      BY <2>2, Zenon DEF Remark
    <3>2. mxErr # "nil" => "MXLookupInconsistent" \in mxFound'
      BY <2>5, <2>6, Zenon DEF HostsInv
    <3>3. QED
      BY <2>1, <3>1, <3>2, Zenon
  <2>8. Target \in resolved' \/ Faults \cap mxFound' # {}
    <3>1. CASE failed
      BY <2>2, <3>1, Zenon DEF Remark, Faults
    <3>2. CASE Target \in Literals
      BY <2>2, <3>2, Zenon DEF Remark, Faults
    <3>3. CASE ~failed /\ "private" \in {v4, v6}
      BY <2>2, <3>3, Zenon DEF Remark, Faults
    <3>4. CASE Target \notin Literals /\ ~failed /\ none
      BY <2>2, <3>4, Zenon DEF Remark, Faults
    <3>5. CASE ~failed /\ "private" \notin {v4, v6} /\ ~none
      <4>1. "public" \in {v4, v6}
        BY <3>5, Zenon DEF Addresses
      <4>2. QED
        BY <2>3, <3>5, <4>1, Zenon DEF Remark
    <3>6. QED
      BY <3>1, <3>2, <3>3, <3>4, <3>5, Zenon
  <2>9. QED
    <3>1. checked' \in Nat /\ checked <= checked' /\ checked' <= checked + 1
      BY <2>1, <2>5
    <3>2. QED
      BY <2>1, <2>6, <2>7, <2>8, <3>1, MxPassed, Zenon
<1>7. ASSUME UNCHANGED mxVars
      PROVE  MxInv'
  BY <1>7 DEF mxVars, mxResult, MxInv, AnswerInv, HostsInv, RecordsInv, Nulls, MxValidIsEarned
<1>8. QED
  BY <1>1, <1>2, <1>3, <1>4, <1>5, <1>6, <1>7, MxSummed, Zenon DEF MxNext

\* A domain whose MX records are reported to be in order has them in order:
\* nothing mx.Assess met on the way was lost before it summed up.
THEOREM AllExchangersResolve == MxSpec => []MxValidIsEarned
<1>1. MxInit => MxInv
  BY DEF MxInit, MxInv, AnswerInv, MxValidIsEarned
<1>2. MxInv /\ [MxNext]_mxVars => MxInv'
  BY MxStep
<1>3. MxInv => MxValidIsEarned
  BY DEF MxInv
<1>4. QED
  BY <1>1, <1>2, <1>3, PTL DEF MxSpec
=============================================================================
