------------------------- MODULE ScanResolverProofs -------------------------
(***************************************************************************)
(* Safety of ScanResolver for any number of goroutines, keys and records   *)
(* and any two budgets, and that it implements LookupService.              *)
(***************************************************************************)
EXTENDS ScanResolver, FiniteSetTheorems, TLAPS

Fetching == {"take", "send", "query"}
Owning == Fetching \cup {"forget", "close"}
Allocated == 1..made

\* A goroutine inside a lookup holds an entry of the key it asked for.
Holds ==
    \A p \in Procs :
        /\ pc[p] \in Owning \cup {"wait", "dead"} =>
               /\ ent[p] \in Allocated
               /\ keyOf[ent[p]] = req[p]
        /\ pc[p] \in Owning \cup {"wait", "dead", "enter"} => req[p] \in Keys

\* An open entry has one owner; an entry being fetched is empty.
Owned ==
    /\ \A p \in Procs : pc[p] \in Owning => ~closed[ent[p]]
    /\ \A p, q \in Procs :
           pc[p] \in Owning /\ pc[q] \in Owning /\ ent[p] = ent[q] => p = q
    /\ \A p \in Procs : pc[p] \in Fetching => outOf[ent[p]] = Failed("nil")

\* The map points each key at an allocated entry of that key.
Mapped ==
    \A k \in Keys : cache[k] # 0 => /\ cache[k] \in Allocated
                                    /\ keyOf[cache[k]] = k

\* An entry is in the map until its failure is deleted, and never after.
InMap ==
    \A p \in Procs :
        /\ pc[p] \in Fetching \cup {"forget"} => cache[req[p]] = ent[p]
        /\ pc[p] = "forget" => Forgotten(outOf[ent[p]])
        /\ pc[p] = "close" => (Forgotten(outOf[ent[p]]) <=> cache[req[p]] # ent[p])

\* Closed final outcomes are in the map, closed failures are not.
Kept ==
    \A e \in Allocated :
        /\ keyOf[e] \in Keys
        /\ closed[e] =>
               (Forgotten(outOf[e]) <=> cache[keyOf[e]] # e)

Blank == \A e \in Entries \ Allocated : outOf[e] = Failed("nil") /\ ~closed[e]

\* What callers were told is what the map still says.
ToldKept ==
    \A k \in Keys : \A o \in told[k] :
        cache[k] # 0 /\ closed[cache[k]] /\ outOf[cache[k]] = o

\* Entries callers may read hold what the Client said for their key, a
\* rejection, or the blank that a panic left.
Real(e) ==
    \/ outOf[e] \in answered[keyOf[e]]
    \/ outOf[e] = Failed("Budget")
    \/ outOf[e] = Failed("nil") /\ keyOf[e] \in broken
Sourced ==
    /\ \A e \in Allocated : closed[e] => Real(e)
    /\ \A p \in Procs : pc[p] \in {"forget", "close"} => Real(ent[p])

\* Rejections stay in the map and need a spent Budget.
Rejections ==
    /\ \A e \in Entries : outOf[e].err = "Budget" =>
           /\ e \in Allocated
           /\ cache[keyOf[e]] = e
           /\ used > ScanLimit
    /\ cut => used > ScanLimit
    /\ summary.written => pc[Main] = "done"
    /\ pc[Main] = "done" /\ cut => summary.exhausted

IInv == /\ TypeOK /\ Holds /\ Owned /\ Mapped /\ InMap /\ Kept /\ Blank
        /\ ToldKept /\ Sourced /\ Rejections

-----------------------------------------------------------------------------
\* Every outcome the actions store is typed, and Failed builds what it says.
LEMMA Outcomes ==
    /\ \A kind \in Errs : Failed(kind) \in Outcome /\ Failed(kind).err = kind
    /\ ClientOutcome \subseteq Outcome
    /\ \A o \in ClientOutcome : o.err # "Budget"
    /\ Failed("nil") \in Outcome /\ Failed("nil").err = "nil"
    /\ Failed("Budget") \in Outcome /\ Failed("Budget").err = "Budget"
  BY ConstantsAssumption DEF Failed, Outcome, ClientOutcome, Errs, Kinds

\* A rejection and a blank entry are final; a forgotten outcome is neither.
LEMMA FinalOutcomes ==
    /\ ~Forgotten(Failed("Budget"))
    /\ ~Forgotten(Failed("nil"))
    /\ \A o \in Outcome : Forgotten(o) => o.err # "Budget"
  BY DEF Failed, Forgotten, KindOf, IsTemporary, Kinds

\* No step leaves the ranges of TypeOK.
LEMMA TypeOKStep == IInv /\ [Next]_vars => TypeOK'
<1> SUFFICES ASSUME IInv, [Next]_vars PROVE TypeOK'
  OBVIOUS
<1> USE ConstantsAssumption, Outcomes, FinalOutcomes
     DEF IInv, TypeOK, Holds, Owning, Fetching, Allocated, Labels,
         Entries, Goto, entry, history
<1>1. ASSUME NEW p \in Procs, NEW k \in Keys, Lookup(p, k) PROVE TypeOK'
  BY <1>1 DEF Lookup, Begin
<1>2. ASSUME NEW k \in Keys, SpfLookup(k) PROVE TypeOK'
  BY <1>2 DEF SpfLookup, Begin
<1>3. ASSUME NEW k \in Keys, SpfReject(k) PROVE TypeOK'
  BY <1>3 DEF SpfReject, Begin
<1>4. ASSUME NEW p \in Procs, Hit(p) PROVE TypeOK'
  BY <1>4 DEF Hit
<1>5. ASSUME NEW p \in Procs, Miss(p) PROVE TypeOK'
  BY <1>5 DEF Miss
<1>6. ASSUME NEW p \in Procs, Admit(p) PROVE TypeOK'
  BY <1>6 DEF Admit
<1>7. ASSUME NEW p \in Procs, Reject(p) PROVE TypeOK'
  BY <1>7 DEF Reject, Store
<1>8. ASSUME NEW p \in Procs, Send(p) PROVE TypeOK'
  BY <1>8 DEF Send
<1>9. ASSUME NEW p \in Procs, NEW out \in ClientOutcome, Answer(p, out) PROVE TypeOK'
  BY <1>9 DEF Answer, Store
<1>10. ASSUME NEW p \in Procs, Panic(p) PROVE TypeOK'
  BY <1>10 DEF Panic
<1>11. ASSUME NEW p \in Procs, Forget(p) PROVE TypeOK'
  BY <1>11 DEF Forget
<1>12. ASSUME NEW p \in Procs, Close(p) PROVE TypeOK'
  BY <1>12 DEF Close, Return
<1>13. ASSUME NEW p \in Procs, Receive(p) PROVE TypeOK'
  BY <1>13 DEF Receive, Return
<1>14. ASSUME Finish \/ Finalize PROVE TypeOK'
  <2>1. CASE Finish
    <3>1. Exhausted \in BOOLEAN
      BY DEF Exhausted
    <3>2. summary' \in [written : BOOLEAN, sent : Nat, exhausted : BOOLEAN]
      BY <2>1, <3>1 DEF Finish
    <3>3. pc' \in [Procs -> Labels]
      BY <2>1 DEF Finish
    <3>4. QED
      BY <2>1, <3>2, <3>3 DEF Finish
  <2>2. CASE Finalize
    BY <2>2 DEF Finalize, Sent
  <2>3. QED
    BY <1>14, <2>1, <2>2
<1>15. ASSUME UNCHANGED vars PROVE TypeOK'
  BY <1>15 DEF vars
<1>16. QED
  BY <1>1, <1>2, <1>3, <1>4, <1>5, <1>6, <1>7, <1>8, <1>9, <1>10, <1>11,
     <1>12, <1>13, <1>14, <1>15 DEF Next, Step

\* A lookup keeps the entry of its key.
LEMMA HoldsStep == IInv /\ [Next]_vars => Holds'
<1> SUFFICES ASSUME IInv, [Next]_vars PROVE Holds'
  OBVIOUS
<1> USE ConstantsAssumption, Outcomes, FinalOutcomes
     DEF IInv, TypeOK, Holds, Mapped, Owning, Fetching, Allocated,
         Labels, Entries, Goto, entry, history
<1>1. ASSUME NEW p \in Procs, NEW k \in Keys, Lookup(p, k) PROVE Holds'
  BY <1>1 DEF Lookup, Begin
<1>2. ASSUME NEW k \in Keys, SpfLookup(k) PROVE Holds'
  BY <1>2 DEF SpfLookup, Begin
<1>3. ASSUME NEW k \in Keys, SpfReject(k) PROVE Holds'
  BY <1>3 DEF SpfReject, Begin
<1>4. ASSUME NEW p \in Procs, Hit(p) PROVE Holds'
  BY <1>4 DEF Hit
<1>5. ASSUME NEW p \in Procs, Miss(p) PROVE Holds'
  BY <1>5 DEF Miss
<1>6. ASSUME NEW p \in Procs, Admit(p) PROVE Holds'
  BY <1>6 DEF Admit
<1>7. ASSUME NEW p \in Procs, Reject(p) PROVE Holds'
  BY <1>7 DEF Reject, Store
<1>8. ASSUME NEW p \in Procs, Send(p) PROVE Holds'
  BY <1>8 DEF Send
<1>9. ASSUME NEW p \in Procs, NEW out \in ClientOutcome, Answer(p, out) PROVE Holds'
  BY <1>9 DEF Answer, Store
<1>10. ASSUME NEW p \in Procs, Panic(p) PROVE Holds'
  BY <1>10 DEF Panic
<1>11. ASSUME NEW p \in Procs, Forget(p) PROVE Holds'
  BY <1>11 DEF Forget
<1>12. ASSUME NEW p \in Procs, Close(p) PROVE Holds'
  BY <1>12 DEF Close, Return
<1>13. ASSUME NEW p \in Procs, Receive(p) PROVE Holds'
  BY <1>13 DEF Receive, Return
<1>14. ASSUME Finish \/ Finalize PROVE Holds'
  BY <1>14 DEF Finish, Finalize
<1>15. ASSUME UNCHANGED vars PROVE Holds'
  BY <1>15 DEF vars
<1>16. QED
  BY <1>1, <1>2, <1>3, <1>4, <1>5, <1>6, <1>7, <1>8, <1>9, <1>10, <1>11,
     <1>12, <1>13, <1>14, <1>15 DEF Next, Step

\* Open entries keep their one owner.
LEMMA OwnedStep == IInv /\ [Next]_vars => Owned'
<1> SUFFICES ASSUME IInv, [Next]_vars PROVE Owned'
  OBVIOUS
<1> USE ConstantsAssumption, Outcomes, FinalOutcomes
     DEF IInv, TypeOK, Owned, Holds, Mapped, Blank, Owning, Fetching,
         Allocated, Labels, Entries, Goto, entry, history
<1>1. ASSUME NEW p \in Procs, NEW k \in Keys, Lookup(p, k) PROVE Owned'
  BY <1>1 DEF Lookup, Begin
<1>2. ASSUME NEW k \in Keys, SpfLookup(k) PROVE Owned'
  BY <1>2 DEF SpfLookup, Begin
<1>3. ASSUME NEW k \in Keys, SpfReject(k) PROVE Owned'
  BY <1>3 DEF SpfReject, Begin
<1>4. ASSUME NEW p \in Procs, Hit(p) PROVE Owned'
  BY <1>4 DEF Hit
<1>5. ASSUME NEW p \in Procs, Miss(p) PROVE Owned'
  BY <1>5 DEF Miss
<1>6. ASSUME NEW p \in Procs, Admit(p) PROVE Owned'
  BY <1>6 DEF Admit
<1>7. ASSUME NEW p \in Procs, Reject(p) PROVE Owned'
  BY <1>7 DEF Reject, Store
<1>8. ASSUME NEW p \in Procs, Send(p) PROVE Owned'
  BY <1>8 DEF Send
<1>9. ASSUME NEW p \in Procs, NEW out \in ClientOutcome, Answer(p, out) PROVE Owned'
  BY <1>9 DEF Answer, Store
<1>10. ASSUME NEW p \in Procs, Panic(p) PROVE Owned'
  BY <1>10 DEF Panic
<1>11. ASSUME NEW p \in Procs, Forget(p) PROVE Owned'
  BY <1>11 DEF Forget
<1>12. ASSUME NEW p \in Procs, Close(p) PROVE Owned'
  BY <1>12 DEF Close, Return
<1>13. ASSUME NEW p \in Procs, Receive(p) PROVE Owned'
  BY <1>13 DEF Receive, Return
<1>14. ASSUME Finish \/ Finalize PROVE Owned'
  <2>1. CASE Finish
    BY <2>1 DEF Finish
  <2>2. CASE Finalize
    BY <2>2 DEF Finalize
  <2> QED
    BY <1>14, <2>1, <2>2
<1>15. ASSUME UNCHANGED vars PROVE Owned'
  BY <1>15 DEF vars
<1>16. QED
  BY <1>1, <1>2, <1>3, <1>4, <1>5, <1>6, <1>7, <1>8, <1>9, <1>10, <1>11,
     <1>12, <1>13, <1>14, <1>15 DEF Next, Step

\* The map keeps pointing at entries of the right key.
LEMMA MappedStep == IInv /\ [Next]_vars => Mapped'
<1> SUFFICES ASSUME IInv, [Next]_vars PROVE Mapped'
  OBVIOUS
<1> USE ConstantsAssumption, Outcomes, FinalOutcomes
     DEF IInv, TypeOK, Mapped, Holds, Owning, Fetching, Allocated,
         Labels, Entries, Goto, entry, history
<1>1. ASSUME NEW p \in Procs, NEW k \in Keys, Lookup(p, k) PROVE Mapped'
  BY <1>1 DEF Lookup, Begin
<1>2. ASSUME NEW k \in Keys, SpfLookup(k) PROVE Mapped'
  BY <1>2 DEF SpfLookup, Begin
<1>3. ASSUME NEW k \in Keys, SpfReject(k) PROVE Mapped'
  BY <1>3 DEF SpfReject, Begin
<1>4. ASSUME NEW p \in Procs, Hit(p) PROVE Mapped'
  BY <1>4 DEF Hit
<1>5. ASSUME NEW p \in Procs, Miss(p) PROVE Mapped'
  BY <1>5 DEF Miss
<1>6. ASSUME NEW p \in Procs, Admit(p) PROVE Mapped'
  BY <1>6 DEF Admit
<1>7. ASSUME NEW p \in Procs, Reject(p) PROVE Mapped'
  BY <1>7 DEF Reject, Store
<1>8. ASSUME NEW p \in Procs, Send(p) PROVE Mapped'
  BY <1>8 DEF Send
<1>9. ASSUME NEW p \in Procs, NEW out \in ClientOutcome, Answer(p, out) PROVE Mapped'
  BY <1>9 DEF Answer, Store
<1>10. ASSUME NEW p \in Procs, Panic(p) PROVE Mapped'
  BY <1>10 DEF Panic
<1>11. ASSUME NEW p \in Procs, Forget(p) PROVE Mapped'
  BY <1>11 DEF Forget
<1>12. ASSUME NEW p \in Procs, Close(p) PROVE Mapped'
  BY <1>12 DEF Close, Return
<1>13. ASSUME NEW p \in Procs, Receive(p) PROVE Mapped'
  BY <1>13 DEF Receive, Return
<1>14. ASSUME Finish \/ Finalize PROVE Mapped'
  BY <1>14 DEF Finish, Finalize
<1>15. ASSUME UNCHANGED vars PROVE Mapped'
  BY <1>15 DEF vars
<1>16. QED
  BY <1>1, <1>2, <1>3, <1>4, <1>5, <1>6, <1>7, <1>8, <1>9, <1>10, <1>11,
     <1>12, <1>13, <1>14, <1>15 DEF Next, Step

\* Only the owner of a failed entry takes it out of the map.
LEMMA InMapStep == IInv /\ [Next]_vars => InMap'
<1> SUFFICES ASSUME IInv, [Next]_vars PROVE InMap'
  OBVIOUS
<1> USE ConstantsAssumption, Outcomes, FinalOutcomes
     DEF IInv, TypeOK, InMap, Holds, Owned, Mapped, Owning, Fetching,
         Allocated, Labels, Entries, Goto, entry, history
<1>1. ASSUME NEW p \in Procs, NEW k \in Keys, Lookup(p, k) PROVE InMap'
  BY <1>1 DEF Lookup, Begin
<1>2. ASSUME NEW k \in Keys, SpfLookup(k) PROVE InMap'
  BY <1>2 DEF SpfLookup, Begin
<1>3. ASSUME NEW k \in Keys, SpfReject(k) PROVE InMap'
  BY <1>3 DEF SpfReject, Begin
<1>4. ASSUME NEW p \in Procs, Hit(p) PROVE InMap'
  BY <1>4 DEF Hit
<1>5. ASSUME NEW p \in Procs, Miss(p) PROVE InMap'
  BY <1>5 DEF Miss
<1>6. ASSUME NEW p \in Procs, Admit(p) PROVE InMap'
  BY <1>6 DEF Admit
<1>7. ASSUME NEW p \in Procs, Reject(p) PROVE InMap'
  BY <1>7 DEF Reject, Store
<1>8. ASSUME NEW p \in Procs, Send(p) PROVE InMap'
  BY <1>8 DEF Send
<1>9. ASSUME NEW p \in Procs, NEW out \in ClientOutcome, Answer(p, out) PROVE InMap'
  BY <1>9 DEF Answer, Store
<1>10. ASSUME NEW p \in Procs, Panic(p) PROVE InMap'
  BY <1>10 DEF Panic
<1>11. ASSUME NEW p \in Procs, Forget(p) PROVE InMap'
  BY <1>11 DEF Forget
<1>12. ASSUME NEW p \in Procs, Close(p) PROVE InMap'
  BY <1>12 DEF Close, Return
<1>13. ASSUME NEW p \in Procs, Receive(p) PROVE InMap'
  BY <1>13 DEF Receive, Return
<1>14. ASSUME Finish \/ Finalize PROVE InMap'
  BY <1>14 DEF Finish, Finalize
<1>15. ASSUME UNCHANGED vars PROVE InMap'
  BY <1>15 DEF vars
<1>16. QED
  BY <1>1, <1>2, <1>3, <1>4, <1>5, <1>6, <1>7, <1>8, <1>9, <1>10, <1>11,
     <1>12, <1>13, <1>14, <1>15 DEF Next, Step

\* Closing an entry leaves it in the map exactly if it is final.
LEMMA KeptStep == IInv /\ [Next]_vars => Kept'
<1> SUFFICES ASSUME IInv, [Next]_vars PROVE Kept'
  OBVIOUS
<1> USE ConstantsAssumption, Outcomes, FinalOutcomes
     DEF IInv, TypeOK, Kept, Holds, Owned, Mapped, InMap, Blank, Owning,
         Fetching, Allocated, Labels, Entries, Goto, entry, history
<1>1. ASSUME NEW p \in Procs, NEW k \in Keys, Lookup(p, k) PROVE Kept'
  BY <1>1 DEF Lookup, Begin
<1>2. ASSUME NEW k \in Keys, SpfLookup(k) PROVE Kept'
  BY <1>2 DEF SpfLookup, Begin
<1>3. ASSUME NEW k \in Keys, SpfReject(k) PROVE Kept'
  BY <1>3 DEF SpfReject, Begin
<1>4. ASSUME NEW p \in Procs, Hit(p) PROVE Kept'
  BY <1>4 DEF Hit
<1>5. ASSUME NEW p \in Procs, Miss(p) PROVE Kept'
  BY <1>5 DEF Miss
<1>6. ASSUME NEW p \in Procs, Admit(p) PROVE Kept'
  BY <1>6 DEF Admit
<1>7. ASSUME NEW p \in Procs, Reject(p) PROVE Kept'
  BY <1>7 DEF Reject, Store
<1>8. ASSUME NEW p \in Procs, Send(p) PROVE Kept'
  BY <1>8 DEF Send
<1>9. ASSUME NEW p \in Procs, NEW out \in ClientOutcome, Answer(p, out) PROVE Kept'
  BY <1>9 DEF Answer, Store
<1>10. ASSUME NEW p \in Procs, Panic(p) PROVE Kept'
  BY <1>10 DEF Panic
<1>11. ASSUME NEW p \in Procs, Forget(p) PROVE Kept'
  BY <1>11 DEF Forget
<1>12. ASSUME NEW p \in Procs, Close(p) PROVE Kept'
  BY <1>12 DEF Close, Return
<1>13. ASSUME NEW p \in Procs, Receive(p) PROVE Kept'
  BY <1>13 DEF Receive, Return
<1>14. ASSUME Finish \/ Finalize PROVE Kept'
  BY <1>14 DEF Finish, Finalize
<1>15. ASSUME UNCHANGED vars PROVE Kept'
  BY <1>15 DEF vars
<1>16. QED
  BY <1>1, <1>2, <1>3, <1>4, <1>5, <1>6, <1>7, <1>8, <1>9, <1>10, <1>11,
     <1>12, <1>13, <1>14, <1>15 DEF Next, Step

\* Entries not yet allocated stay blank.
LEMMA BlankStep == IInv /\ [Next]_vars => Blank'
<1> SUFFICES ASSUME IInv, [Next]_vars PROVE Blank'
  OBVIOUS
<1> USE ConstantsAssumption, Outcomes, FinalOutcomes
     DEF IInv, TypeOK, Blank, Holds, Owning, Fetching, Allocated,
         Labels, Entries, Goto, entry, history
<1>1. ASSUME NEW p \in Procs, NEW k \in Keys, Lookup(p, k) PROVE Blank'
  BY <1>1 DEF Lookup, Begin
<1>2. ASSUME NEW k \in Keys, SpfLookup(k) PROVE Blank'
  BY <1>2 DEF SpfLookup, Begin
<1>3. ASSUME NEW k \in Keys, SpfReject(k) PROVE Blank'
  BY <1>3 DEF SpfReject, Begin
<1>4. ASSUME NEW p \in Procs, Hit(p) PROVE Blank'
  BY <1>4 DEF Hit
<1>5. ASSUME NEW p \in Procs, Miss(p) PROVE Blank'
  BY <1>5 DEF Miss
<1>6. ASSUME NEW p \in Procs, Admit(p) PROVE Blank'
  BY <1>6 DEF Admit
<1>7. ASSUME NEW p \in Procs, Reject(p) PROVE Blank'
  BY <1>7 DEF Reject, Store
<1>8. ASSUME NEW p \in Procs, Send(p) PROVE Blank'
  BY <1>8 DEF Send
<1>9. ASSUME NEW p \in Procs, NEW out \in ClientOutcome, Answer(p, out) PROVE Blank'
  BY <1>9 DEF Answer, Store
<1>10. ASSUME NEW p \in Procs, Panic(p) PROVE Blank'
  BY <1>10 DEF Panic
<1>11. ASSUME NEW p \in Procs, Forget(p) PROVE Blank'
  BY <1>11 DEF Forget
<1>12. ASSUME NEW p \in Procs, Close(p) PROVE Blank'
  BY <1>12 DEF Close, Return
<1>13. ASSUME NEW p \in Procs, Receive(p) PROVE Blank'
  BY <1>13 DEF Receive, Return
<1>14. ASSUME Finish \/ Finalize PROVE Blank'
  BY <1>14 DEF Finish, Finalize
<1>15. ASSUME UNCHANGED vars PROVE Blank'
  BY <1>15 DEF vars
<1>16. QED
  BY <1>1, <1>2, <1>3, <1>4, <1>5, <1>6, <1>7, <1>8, <1>9, <1>10, <1>11,
     <1>12, <1>13, <1>14, <1>15 DEF Next, Step

\* What was told stays in the map.
LEMMA ToldKeptStep == IInv /\ [Next]_vars => ToldKept'
<1> SUFFICES ASSUME IInv, [Next]_vars PROVE ToldKept'
  OBVIOUS
<1> USE ConstantsAssumption, Outcomes, FinalOutcomes
     DEF IInv, TypeOK, ToldKept, Holds, Owned, Mapped, InMap, Kept,
         Owning, Fetching, Allocated, Labels, Entries, Goto, entry,
         history
<1>1. ASSUME NEW p \in Procs, NEW k \in Keys, Lookup(p, k) PROVE ToldKept'
  BY <1>1 DEF Lookup, Begin
<1>2. ASSUME NEW k \in Keys, SpfLookup(k) PROVE ToldKept'
  BY <1>2 DEF SpfLookup, Begin
<1>3. ASSUME NEW k \in Keys, SpfReject(k) PROVE ToldKept'
  BY <1>3 DEF SpfReject, Begin
<1>4. ASSUME NEW p \in Procs, Hit(p) PROVE ToldKept'
  BY <1>4 DEF Hit
<1>5. ASSUME NEW p \in Procs, Miss(p) PROVE ToldKept'
  BY <1>5 DEF Miss
<1>6. ASSUME NEW p \in Procs, Admit(p) PROVE ToldKept'
  BY <1>6 DEF Admit
<1>7. ASSUME NEW p \in Procs, Reject(p) PROVE ToldKept'
  BY <1>7 DEF Reject, Store
<1>8. ASSUME NEW p \in Procs, Send(p) PROVE ToldKept'
  BY <1>8 DEF Send
<1>9. ASSUME NEW p \in Procs, NEW out \in ClientOutcome, Answer(p, out) PROVE ToldKept'
  BY <1>9 DEF Answer, Store
<1>10. ASSUME NEW p \in Procs, Panic(p) PROVE ToldKept'
  BY <1>10 DEF Panic
<1>11. ASSUME NEW p \in Procs, Forget(p) PROVE ToldKept'
  BY <1>11 DEF Forget
<1>12. ASSUME NEW p \in Procs, Close(p) PROVE ToldKept'
  BY <1>12 DEF Close, Return
<1>13. ASSUME NEW p \in Procs, Receive(p) PROVE ToldKept'
  BY <1>13 DEF Receive, Return
<1>14. ASSUME Finish \/ Finalize PROVE ToldKept'
  BY <1>14 DEF Finish, Finalize
<1>15. ASSUME UNCHANGED vars PROVE ToldKept'
  BY <1>15 DEF vars
<1>16. QED
  BY <1>1, <1>2, <1>3, <1>4, <1>5, <1>6, <1>7, <1>8, <1>9, <1>10, <1>11,
     <1>12, <1>13, <1>14, <1>15 DEF Next, Step

\* Entries are filled before they can be read.
LEMMA SourcedStep == IInv /\ [Next]_vars => Sourced'
<1> SUFFICES ASSUME IInv, [Next]_vars PROVE Sourced'
  OBVIOUS
<1> USE ConstantsAssumption, Outcomes, FinalOutcomes
     DEF IInv, TypeOK, Sourced, Holds, Owned, Blank, Real, Owning,
         Fetching, Allocated, Labels, Entries, Goto, entry, history
<1>1. ASSUME NEW p \in Procs, NEW k \in Keys, Lookup(p, k) PROVE Sourced'
  BY <1>1 DEF Lookup, Begin
<1>2. ASSUME NEW k \in Keys, SpfLookup(k) PROVE Sourced'
  BY <1>2 DEF SpfLookup, Begin
<1>3. ASSUME NEW k \in Keys, SpfReject(k) PROVE Sourced'
  BY <1>3 DEF SpfReject, Begin
<1>4. ASSUME NEW p \in Procs, Hit(p) PROVE Sourced'
  BY <1>4 DEF Hit
<1>5. ASSUME NEW p \in Procs, Miss(p) PROVE Sourced'
  BY <1>5 DEF Miss
<1>6. ASSUME NEW p \in Procs, Admit(p) PROVE Sourced'
  BY <1>6 DEF Admit
<1>7. ASSUME NEW p \in Procs, Reject(p) PROVE Sourced'
  BY <1>7 DEF Reject, Store
<1>8. ASSUME NEW p \in Procs, Send(p) PROVE Sourced'
  BY <1>8 DEF Send
<1>9. ASSUME NEW p \in Procs, NEW out \in ClientOutcome, Answer(p, out) PROVE Sourced'
  BY <1>9 DEF Answer, Store
<1>10. ASSUME NEW p \in Procs, Panic(p) PROVE Sourced'
  BY <1>10 DEF Panic
<1>11. ASSUME NEW p \in Procs, Forget(p) PROVE Sourced'
  BY <1>11 DEF Forget
<1>12. ASSUME NEW p \in Procs, Close(p) PROVE Sourced'
  BY <1>12 DEF Close, Return
<1>13. ASSUME NEW p \in Procs, Receive(p) PROVE Sourced'
  BY <1>13 DEF Receive, Return
<1>14. ASSUME Finish \/ Finalize PROVE Sourced'
  <2>1. CASE Finish
    BY <2>1 DEF Finish, Sent, Exhausted
  <2>2. CASE Finalize
    BY <2>2 DEF Finalize, Sent
  <2>3. QED
    BY <1>14, <2>1, <2>2
<1>15. ASSUME UNCHANGED vars PROVE Sourced'
  BY <1>15 DEF vars
<1>16. QED
  BY <1>1, <1>2, <1>3, <1>4, <1>5, <1>6, <1>7, <1>8, <1>9, <1>10, <1>11,
     <1>12, <1>13, <1>14, <1>15 DEF Next, Step

\* Rejections stay, and stay disclosed.
LEMMA RejectionsStep == IInv /\ [Next]_vars => Rejections'
<1> SUFFICES ASSUME IInv, [Next]_vars PROVE Rejections'
  OBVIOUS
<1> USE ConstantsAssumption, Outcomes, FinalOutcomes
     DEF IInv, TypeOK, Rejections, Holds, InMap, Mapped, Blank, Owned,
         Owning, Fetching, Allocated, Labels, Entries, Goto, entry,
         history
<1>1. ASSUME NEW p \in Procs, NEW k \in Keys, Lookup(p, k) PROVE Rejections'
  BY <1>1 DEF Lookup, Begin
<1>2. ASSUME NEW k \in Keys, SpfLookup(k) PROVE Rejections'
  BY <1>2 DEF SpfLookup, Begin
<1>3. ASSUME NEW k \in Keys, SpfReject(k) PROVE Rejections'
  BY <1>3 DEF SpfReject, Begin
<1>4. ASSUME NEW p \in Procs, Hit(p) PROVE Rejections'
  BY <1>4 DEF Hit
<1>5. ASSUME NEW p \in Procs, Miss(p) PROVE Rejections'
  BY <1>5 DEF Miss
<1>6. ASSUME NEW p \in Procs, Admit(p) PROVE Rejections'
  BY <1>6 DEF Admit
<1>7. ASSUME NEW p \in Procs, Reject(p) PROVE Rejections'
  BY <1>7 DEF Reject, Store
<1>8. ASSUME NEW p \in Procs, Send(p) PROVE Rejections'
  BY <1>8 DEF Send
<1>9. ASSUME NEW p \in Procs, NEW out \in ClientOutcome, Answer(p, out) PROVE Rejections'
  BY <1>9 DEF Answer, Store
<1>10. ASSUME NEW p \in Procs, Panic(p) PROVE Rejections'
  BY <1>10 DEF Panic
<1>11. ASSUME NEW p \in Procs, Forget(p) PROVE Rejections'
  BY <1>11 DEF Forget
<1>12. ASSUME NEW p \in Procs, Close(p) PROVE Rejections'
  BY <1>12 DEF Close, Return
<1>13. ASSUME NEW p \in Procs, Receive(p) PROVE Rejections'
  BY <1>13 DEF Receive, Return
<1>14. ASSUME Finish \/ Finalize PROVE Rejections'
  <2>1. CASE Finish
    BY <2>1 DEF Finish, Sent, Exhausted
  <2>2. CASE Finalize
    BY <2>2 DEF Finalize, Sent
  <2>3. QED
    BY <1>14, <2>1, <2>2
<1>15. ASSUME UNCHANGED vars PROVE Rejections'
  BY <1>15 DEF vars
<1>16. QED
  BY <1>1, <1>2, <1>3, <1>4, <1>5, <1>6, <1>7, <1>8, <1>9, <1>10, <1>11,
     <1>12, <1>13, <1>14, <1>15 DEF Next, Step

-----------------------------------------------------------------------------
\* IInv is an inductive invariant of the specification.
LEMMA Inductive == Spec => []IInv
<1>1. Init => IInv
  <2> SUFFICES ASSUME Init PROVE IInv
    OBVIOUS
  <2> USE ConstantsAssumption, Outcomes DEF Init, Allocated
  <2>1. TypeOK
    <3>1. summary \in [written : BOOLEAN, sent : Nat, exhausted : BOOLEAN]
      BY DEF NoSummary
    <3>2. pc \in [Procs -> Labels]
      BY DEF Labels
    <3>3. cut \in BOOLEAN /\ broken \subseteq Keys
      OBVIOUS
    <3>4. got \in [Procs -> Outcome] /\ outOf \in [Entries -> Outcome]
      OBVIOUS
    <3>5. /\ answered \in [Keys -> SUBSET Outcome]
          /\ told \in [Keys -> SUBSET Outcome]
      OBVIOUS
    <3>6. QED
      BY <3>1, <3>2, <3>3, <3>4, <3>5 DEF TypeOK, Entries
  <2>2. Holds /\ Owned /\ Mapped /\ InMap
    BY DEF Holds, Owned, Mapped, InMap, Owning, Fetching
  <2>3. Kept /\ Blank /\ ToldKept /\ Sourced
    BY DEF Kept, Blank, ToldKept, Sourced, Entries
  <2>4. Rejections
    BY DEF Rejections, NoSummary
  <2>5. QED
    BY <2>1, <2>2, <2>3, <2>4 DEF IInv
<1>2. IInv /\ [Next]_vars => IInv'
  BY TypeOKStep, HoldsStep, OwnedStep, MappedStep, InMapStep, KeptStep,
     BlankStep, ToldKeptStep, SourcedStep, RejectionsStep DEF IInv
<1>3. QED
  BY <1>1, <1>2, PTL DEF Spec

\* The state is well-typed, however many goroutines, keys and lookups.
THEOREM TypeCorrect == Spec => []TypeOK
<1>1. IInv => TypeOK
  BY DEF IInv
<1>2. QED
  BY <1>1, Inductive, PTL

\* Two goroutines never fetch the same key at the same time (the Cache's
\* "concurrent lookups of the same name share one query").
THEOREM OneQueryPerKey == Spec => []SingleFlight
<1>1. IInv => SingleFlight
  BY DEF IInv, SingleFlight, InMap, Owned, Owning, Fetching
<1>2. QED
  BY <1>1, Inductive, PTL

\* All final outcomes handed out for a key are equal ("every check sees the
\* same answer").
THEOREM SameAnswer == Spec => []OneAnswer
<1>1. IInv => OneAnswer
  BY DEF IInv, OneAnswer, ToldKept
<1>2. QED
  BY <1>1, Inductive, PTL

\* Callers only read entries that a fetch, or the unwinding of one, completed.
THEOREM AnswersComeFromTheClient == Spec => []AnswerIsReal
<1>1. IInv => AnswerIsReal
  <2> SUFFICES ASSUME IInv, NEW k \in Keys, NEW o \in told[k]
               PROVE  o \in answered[k] \cup {Failed("Budget")}
                             \cup (IF k \in broken THEN {Failed("nil")} ELSE {})
    BY DEF AnswerIsReal
  <2>1. cache[k] \in Allocated /\ keyOf[cache[k]] = k
    BY DEF IInv, ToldKept, Mapped
  <2>2. Real(cache[k]) /\ outOf[cache[k]] = o
    BY <2>1 DEF IInv, ToldKept, Sourced
  <2>3. QED
    BY <2>1, <2>2 DEF Real
<1>2. QED
  BY <1>1, Inductive, PTL

\* A lookup that starts after a failed one returned asks the network again.
THEOREM FailuresAreRetried == Spec => []FailureNotKept
<1>1. IInv => FailureNotKept
  BY DEF IInv, FailureNotKept, Mapped, Kept
<1>2. QED
  BY <1>1, Inductive, PTL

\* A key is counted against the Budget for one rejection at most.
THEOREM RejectionsCountOnce == Spec => []RejectedOnce
<1>1. IInv => RejectedOnce
  BY DEF IInv, RejectedOnce, Rejections
<1>2. QED
  BY <1>1, Inductive, PTL

\* A report written after Main was handed a rejection discloses it.
THEOREM RejectionsAreDisclosed == Spec => []RejectionDisclosed
<1>1. IInv => RejectionDisclosed
  BY DEF IInv, RejectionDisclosed, Rejections
<1>2. QED
  BY <1>1, Inductive, PTL

\* Completed entries of the map are never evicted or overwritten.
THEOREM CompletedEntriesStay == Spec => FinalStays
<1> DEFINE StaysAt(k) == /\ cache'[k] = cache[k]
                         /\ outOf'[cache[k]] = outOf[cache[k]]
                         /\ closed'[cache[k]]
           Stays == \A k \in Keys : cache[k] # 0 /\ closed[cache[k]] => StaysAt(k)
<1>1. ASSUME IInv, [Next]_vars PROVE Stays
  <2> SUFFICES ASSUME NEW k \in Keys, cache[k] # 0, closed[cache[k]]
               PROVE  StaysAt(k)
    OBVIOUS
  <2> USE <1>1 DEF IInv, TypeOK, Holds, Owned, Mapped, InMap, Owning, Fetching,
                   Allocated, Entries, Labels, entry
  <2>1. ASSUME NEW p \in Procs, Forget(p) PROVE cache'[k] = cache[k]
    BY <2>1 DEF Forget
  <2>2. ASSUME NEW p \in Procs, NEW o, Store(p, o), pc[p] \in {"take", "query"}
        PROVE  outOf'[cache[k]] = outOf[cache[k]] /\ closed'[cache[k]]
    BY <2>2 DEF Store
  <2>3. CASE UNCHANGED vars
    BY <2>3 DEF vars
  <2>4. ASSUME NEW p \in Procs, Step(p) PROVE StaysAt(k)
    <3>1. CASE Hit(p)
      BY <3>1 DEF Hit
    <3>2. CASE Miss(p)
      BY <3>2 DEF Miss
    <3>3. CASE Admit(p)
      BY <3>3 DEF Admit
    <3>4. CASE Reject(p)
      BY <2>2, <3>4 DEF Reject
    <3>5. CASE Send(p)
      BY <3>5 DEF Send
    <3>6. ASSUME NEW o \in ClientOutcome, Answer(p, o) PROVE StaysAt(k)
      BY <2>2, <3>6 DEF Answer
    <3>7. CASE Panic(p)
      BY <3>7 DEF Panic
    <3>8. CASE Forget(p)
      BY <2>1, <3>8 DEF Forget
    <3>9. CASE Close(p)
      BY <3>9 DEF Close, Return
    <3>10. CASE Receive(p)
      BY <3>10 DEF Receive, Return
    <3>11. QED
      BY <2>4, <3>1, <3>2, <3>3, <3>4, <3>5, <3>6, <3>7, <3>8, <3>9, <3>10 DEF Step
  <2>5. ASSUME NEW p \in Procs, NEW j \in Keys, Lookup(p, j) PROVE StaysAt(k)
    BY <2>5 DEF Lookup
  <2>6. ASSUME NEW j \in Keys, SpfLookup(j) \/ SpfReject(j) PROVE StaysAt(k)
    BY <2>6 DEF SpfLookup, SpfReject
  <2>7. CASE Finish \/ Finalize
    BY <2>7 DEF Finish, Finalize
  <2>8. QED
    BY <1>1, <2>3, <2>4, <2>5, <2>6, <2>7 DEF Next
<1>2. IInv /\ [Next]_vars => [Stays]_vars
  BY <1>1
<1>3. QED
  BY <1>2, Inductive, PTL DEF Spec, FinalStays

-----------------------------------------------------------------------------
\* The number of goroutines at one of some program points.
Count(at, labels) == Cardinality({p \in Procs : at[p] \in labels})

LEMMA CountType ==
    ASSUME NEW at, NEW labels
    PROVE  /\ IsFiniteSet({p \in Procs : at[p] \in labels})
           /\ Count(at, labels) \in Nat
  BY ConstantsAssumption, FS_Subset, FS_CardinalityType DEF Count

\* Moving one goroutine changes a count by at most the goroutine itself.
LEMMA CountMove ==
    ASSUME pc \in [Procs -> Labels], NEW p \in Procs, NEW l \in Labels,
           pc' = [pc EXCEPT ![p] = l], NEW labels
    PROVE  /\ (pc[p] \in labels <=> l \in labels) =>
                  Count(pc', labels) = Count(pc, labels)
           /\ pc[p] \notin labels /\ l \in labels =>
                  Count(pc', labels) = Count(pc, labels) + 1
           /\ pc[p] \in labels /\ l \notin labels =>
                  Count(pc', labels) = Count(pc, labels) - 1
<1> DEFINE S == {q \in Procs : pc[q] \in labels}
           T == {q \in Procs : pc'[q] \in labels}
<1>1. IsFiniteSet(S) /\ Cardinality(S) \in Nat
  BY CountType DEF Count
<1>2. /\ (pc[p] \in labels <=> l \in labels) => T = S
      /\ pc[p] \notin labels /\ l \in labels => T = S \cup {p}
      /\ pc[p] \in labels /\ l \notin labels => T = S \ {p}
  OBVIOUS
<1>3. p \in S <=> pc[p] \in labels
  OBVIOUS
<1> HIDE DEF S, T
<1>4. /\ (pc[p] \in labels <=> l \in labels) => Cardinality(T) = Cardinality(S)
      /\ pc[p] \notin labels /\ l \in labels => Cardinality(T) = Cardinality(S) + 1
      /\ pc[p] \in labels /\ l \notin labels => Cardinality(T) = Cardinality(S) - 1
  BY <1>1, <1>2, <1>3, FS_AddElement, FS_RemoveElement
<1>5. QED
  BY <1>4 DEF Count, S, T

\* Queries sent and queries about to be sent are those the Budget admitted.
Sending == Count(pc, {"send"})
SentCount == Sent = sent + Sending

\* Lookups counted by the scan Budget, or about to be, were made directly or
\* let through by the spf Budget.
Waiting == Count(pc, {"enter", "take"})
Least(a, b) == IF a < b THEN a ELSE b
Asked == used + Waiting
            <= direct + Least(spfUsed, SpfLimit)

LEMMA Counting == Spec => [](SentCount /\ Asked)
<1> USE ConstantsAssumption
<1>1. Init => SentCount /\ Asked
  <2> SUFFICES ASSUME Init PROVE SentCount /\ Asked
    OBVIOUS
  <2>1. Sending = 0 /\ Waiting = 0
    <3>1. /\ {p \in Procs : pc[p] \in {"send"}} = {}
          /\ {p \in Procs : pc[p] \in {"enter", "take"}} = {}
      BY DEF Init
    <3>2. QED
      BY <3>1, FS_EmptySet DEF Sending, Waiting, Count
  <2>2. QED
    BY <2>1 DEF Init, SentCount, Asked, Sent, Least
<1>2. TypeOK /\ SentCount /\ Asked /\ [Next]_vars => (SentCount /\ Asked)'
  <2> SUFFICES ASSUME TypeOK, SentCount, Asked, [Next]_vars
               PROVE  SentCount' /\ Asked'
    OBVIOUS
  <2> USE DEF TypeOK, SentCount, Asked, Sent, Least, Goto
  <2>0. Sending \in Nat /\ Waiting \in Nat
    BY CountType DEF Sending, Waiting
  \* What a step of p to l does to the two counts.
  <2>m. ASSUME NEW p \in Procs, NEW l \in Labels, Goto(p, l)
        PROVE  /\ pc[p] # "send" /\ l # "send" => Sending' = Sending
               /\ pc[p] # "send" /\ l = "send" => Sending' = Sending + 1
               /\ pc[p] = "send" /\ l # "send" => Sending' = Sending - 1
               /\ (pc[p] \in {"enter", "take"} <=> l \in {"enter", "take"})
                  => Waiting' = Waiting
               /\ pc[p] \notin {"enter", "take"} /\ l \in {"enter", "take"}
                  => Waiting' = Waiting + 1
               /\ pc[p] \in {"enter", "take"} /\ l \notin {"enter", "take"}
                  => Waiting' = Waiting - 1
    <3>1. pc \in [Procs -> Labels] /\ pc' = [pc EXCEPT ![p] = l]
      BY <2>m
    <3>2. /\ (pc[p] \in {"send"} <=> l \in {"send"})
             => Count(pc', {"send"}) = Count(pc, {"send"})
          /\ pc[p] \notin {"send"} /\ l \in {"send"}
             => Count(pc', {"send"}) = Count(pc, {"send"}) + 1
          /\ pc[p] \in {"send"} /\ l \notin {"send"}
             => Count(pc', {"send"}) = Count(pc, {"send"}) - 1
      BY <3>1, CountMove
    <3>3. /\ (pc[p] \in {"enter", "take"} <=> l \in {"enter", "take"})
             => Count(pc', {"enter", "take"}) = Count(pc, {"enter", "take"})
          /\ pc[p] \notin {"enter", "take"} /\ l \in {"enter", "take"}
             => Count(pc', {"enter", "take"}) = Count(pc, {"enter", "take"}) + 1
          /\ pc[p] \in {"enter", "take"} /\ l \notin {"enter", "take"}
             => Count(pc', {"enter", "take"}) = Count(pc, {"enter", "take"}) - 1
      BY <3>1, CountMove
    <3>c. /\ Sending = Count(pc, {"send"}) /\ Sending' = Count(pc', {"send"})
          /\ Waiting = Count(pc, {"enter", "take"})
          /\ Waiting' = Count(pc', {"enter", "take"})
      BY DEF Sending, Waiting, Count
    <3>4. QED
      BY <3>2, <3>3, <3>c
  <2>1. ASSUME NEW p \in Procs, NEW k \in Keys, Lookup(p, k) PROVE SentCount' /\ Asked'
    <3>1. Goto(p, "enter") /\ pc[p] = "idle"
      BY <2>1 DEF Lookup, Begin
    <3>2. Sending' = Sending /\ Waiting' = Waiting + 1
      BY <3>1, <2>m DEF Labels
    <3>3. QED
      BY <2>0, <2>1, <3>2 DEF Lookup, Begin
  <2>2. ASSUME NEW k \in Keys, SpfLookup(k) PROVE SentCount' /\ Asked'
    <3>1. Goto(Main, "enter") /\ pc[Main] = "idle"
      BY <2>2 DEF SpfLookup, Begin
    <3>2. Sending' = Sending /\ Waiting' = Waiting + 1
      BY <3>1, <2>m DEF Labels
    <3>3. QED
      BY <2>0, <2>2, <3>2 DEF SpfLookup, Begin
  <2>3. ASSUME NEW k \in Keys, SpfReject(k) PROVE SentCount' /\ Asked'
    BY <2>0, <2>3 DEF SpfReject, Begin, Sending, Waiting
  <2>4. ASSUME NEW p \in Procs, Step(p) PROVE SentCount' /\ Asked'
    <3>1. CASE Hit(p)
      <4>1. Sending' = Sending /\ Waiting' = Waiting - 1
        BY <3>1, <2>m DEF Hit, Labels
      <4>2. QED
        BY <2>0, <3>1, <4>1 DEF Hit
    <3>2. CASE Miss(p)
      <4>1. Sending' = Sending /\ Waiting' = Waiting
        BY <3>2, <2>m DEF Miss, Labels
      <4>2. QED
        BY <2>0, <3>2, <4>1 DEF Miss
    <3>3. CASE Admit(p)
      <4>1. Sending' = Sending + 1 /\ Waiting' = Waiting - 1
        BY <3>3, <2>m DEF Admit, Labels
      <4>2. QED
        BY <2>0, <3>3, <4>1 DEF Admit
    <3>4. CASE Reject(p)
      <4>1. Sending' = Sending /\ Waiting' = Waiting - 1
        BY <3>4, <2>m, FinalOutcomes DEF Reject, Store, Labels
      <4>2. QED
        BY <2>0, <3>4, <4>1 DEF Reject, Store
    <3>5. CASE Send(p)
      <4>1. Sending' = Sending - 1 /\ Waiting' = Waiting
        BY <3>5, <2>m DEF Send, Labels
      <4>2. QED
        BY <2>0, <3>5, <4>1 DEF Send
    <3>6. ASSUME NEW out \in ClientOutcome, Answer(p, out) PROVE SentCount' /\ Asked'
      <4>1. PICK l \in {"forget", "close"} : Goto(p, l)
        BY <3>6 DEF Answer, Store
      <4>2. Sending' = Sending /\ Waiting' = Waiting
        BY <3>6, <4>1, <2>m DEF Answer, Labels
      <4>3. QED
        BY <2>0, <3>6, <4>2 DEF Answer
    <3>7. CASE Panic(p)
      <4>1. Sending' = Sending /\ Waiting' = Waiting
        BY <3>7, <2>m DEF Panic, Labels
      <4>2. QED
        BY <2>0, <3>7, <4>1 DEF Panic
    <3>8. CASE Forget(p)
      <4>1. Sending' = Sending /\ Waiting' = Waiting
        BY <3>8, <2>m DEF Forget, Labels
      <4>2. QED
        BY <2>0, <3>8, <4>1 DEF Forget
    <3>9. CASE Close(p)
      <4>1. Sending' = Sending /\ Waiting' = Waiting
        BY <3>9, <2>m DEF Close, Return, Labels
      <4>2. QED
        BY <2>0, <3>9, <4>1 DEF Close, Return
    <3>10. CASE Receive(p)
      <4>1. Sending' = Sending /\ Waiting' = Waiting
        BY <3>10, <2>m DEF Receive, Return, Labels
      <4>2. QED
        BY <2>0, <3>10, <4>1 DEF Receive, Return
    <3>11. QED
      BY <2>4, <3>1, <3>2, <3>3, <3>4, <3>5, <3>6, <3>7, <3>8, <3>9, <3>10 DEF Step
  <2>5. CASE Finish
    <3>1. Sending' = Sending /\ Waiting' = Waiting
      BY <2>5, <2>m DEF Finish, Labels
    <3>2. QED
      BY <2>0, <2>5, <3>1 DEF Finish
  <2>6. CASE Finalize
    BY <2>0, <2>6 DEF Finalize, Sending, Waiting
  <2>7. CASE UNCHANGED vars
    BY <2>0, <2>7 DEF vars, Sending, Waiting
  <2>8. QED
    BY <2>1, <2>2, <2>3, <2>4, <2>5, <2>6, <2>7 DEF Next
<1>3. QED
  BY <1>1, <1>2, TypeCorrect, PTL DEF Spec

\* The number of queries in the report is the number the Client was handed,
\* but for lookups that were admitted and are about to be passed on.
THEOREM SentCountIsAccurate == Spec => []SentIsAccurate
<1>1. TypeOK /\ SentCount => SentIsAccurate
  <2>1. {p \in Procs : pc[p] \in {"send"}} = {p \in Procs : pc[p] = "send"}
    OBVIOUS
  <2>2. QED
    BY <2>1 DEF SentCount, SentIsAccurate, Sending, Count
<1>2. QED
  BY <1>1, Counting, TypeCorrect, PTL

\* For any two budgets: the SPF evaluation cannot use up queries the other
\* checks of the scan still have a right to.
THEOREM SpfBudgetIsolates == Spec => []SpfCannotStarve
<1>1. TypeOK /\ Asked => SpfCannotStarve
  <2>1. Waiting \in Nat
    BY CountType DEF Waiting
  <2>2. QED
    BY <2>1, ConstantsAssumption DEF TypeOK, Asked, SpfCannotStarve, Exhausted, Least
<1>2. QED
  BY <1>1, Counting, TypeCorrect, PTL

\* For any goroutines, keys and budgets, the accounting of a scan is honest.
THEOREM BudgetIsHonest == Spec => []BudgetHonest
BY SentCountIsAccurate, RejectionsCountOnce, RejectionsAreDisclosed, SpfBudgetIsolates, PTL
   DEF BudgetHonest

-----------------------------------------------------------------------------
(* The refinement of LookupService                                         *)

\* A goroutine between two lookups holds no entry.
Free == \A p \in Procs : pc[p] \in {"idle", "enter", "done"} => ent[p] = 0

LEMMA FreeStep == IInv /\ Free /\ [Next]_vars => Free'
<1> SUFFICES ASSUME IInv, Free, [Next]_vars PROVE Free'
  OBVIOUS
<1> USE ConstantsAssumption DEF IInv, TypeOK, Free, Labels, Goto
<1>1. ASSUME NEW p \in Procs, NEW k \in Keys, Lookup(p, k) PROVE Free'
  BY <1>1 DEF Lookup, Begin
<1>2. ASSUME NEW k \in Keys, SpfLookup(k) \/ SpfReject(k) PROVE Free'
  BY <1>2 DEF SpfLookup, SpfReject, Begin
<1>3. ASSUME NEW p \in Procs, Hit(p) \/ Miss(p) PROVE Free'
  BY <1>3 DEF Hit, Miss
<1>4. ASSUME NEW p \in Procs, Admit(p) \/ Reject(p) \/ Send(p) PROVE Free'
  BY <1>4 DEF Admit, Reject, Send, Store
<1>5. ASSUME NEW p \in Procs, NEW out \in ClientOutcome, Answer(p, out) PROVE Free'
  BY <1>5 DEF Answer, Store
<1>6. ASSUME NEW p \in Procs, Panic(p) \/ Forget(p) PROVE Free'
  BY <1>6 DEF Panic, Forget
<1>7. ASSUME NEW p \in Procs, Close(p) \/ Receive(p) PROVE Free'
  BY <1>7 DEF Close, Receive, Return
<1>8. ASSUME Finish \/ Finalize PROVE Free'
  BY <1>8 DEF Finish, Finalize
<1>9. ASSUME UNCHANGED vars PROVE Free'
  BY <1>9 DEF vars
<1>10. QED
  BY <1>1, <1>2, <1>3, <1>4, <1>5, <1>6, <1>7, <1>8, <1>9 DEF Next, Step

\* What the callers see of a state.
AskingNow == [p \in Procs |-> IF pc[p] \in {"idle", "done"} THEN NoKey ELSE req[p]]
MemoNow == [k \in Keys |-> IF cache[k] # 0 /\ Settled(cache[k])
                           THEN outOf[cache[k]] ELSE Undecided]
FailureNow == [p \in Procs |-> IF Orphaned(p) THEN outOf[ent[p]] ELSE Undecided]

\* Nothing a caller sees changes.
Unseen == /\ AskingNow' = AskingNow /\ MemoNow' = MemoNow
          /\ FailureNow' = FailureNow /\ got' = got

LEMMA UnseenStutters == ASSUME Unseen PROVE UNCHANGED Promise!vars
BY DEF Unseen, AskingNow, MemoNow, FailureNow, Promise!vars

LEMMA AskStep ==
    ASSUME IInv, Free, NEW p \in Procs, NEW k \in Keys, Lookup(p, k)
    PROVE  Promise!Ask(p, k)
<1> USE DEF Lookup, Begin, Goto
<1>1. AskingNow[p] = NoKey /\ AskingNow' = [AskingNow EXCEPT ![p] = k]
  BY DEF AskingNow, IInv, TypeOK
<1>2. MemoNow' = MemoNow
  BY DEF MemoNow, IInv, TypeOK, Settled, entry
<1>3. FailureNow' = FailureNow
  BY DEF FailureNow, IInv, TypeOK, Orphaned, entry, Free
<1>4. got' = got
  OBVIOUS
<1>5. QED
  BY <1>1, <1>2, <1>3, <1>4 DEF Promise!Ask, AskingNow, MemoNow, FailureNow

LEMMA PromisedOutcomes ==
    /\ Promise!Outcome = Outcome
    /\ Promise!Rejection = Failed("Budget")
    /\ \A o \in Outcome : o # Undecided /\ (Promise!Temporary(o) <=> Forgotten(o))
<1>1. Promise!Outcome = Outcome /\ Promise!Rejection = Failed("Budget")
  BY DEF Promise!Outcome, Promise!Errs, Promise!Kinds, Promise!Rejection, Outcome, Errs, Kinds,
         Failed
<1>2. ASSUME NEW o \in Outcome PROVE o # Undecided
  BY DEF Outcome, Errs, Kinds, Undecided
<1>3. ASSUME NEW o \in Outcome PROVE Promise!Temporary(o) <=> Forgotten(o)
  BY DEF Promise!Temporary, Promise!IsTemporary, Promise!KindOf, Promise!Kinds, Forgotten,
         IsTemporary, KindOf, Kinds
<1>4. QED
  BY <1>1, <1>2, <1>3

LEMMA SpfAskStep ==
    ASSUME IInv, Free, NEW k \in Keys, SpfLookup(k)
    PROVE  Promise!Ask(Main, k)
<1> USE ConstantsAssumption DEF SpfLookup, Begin, Goto
<1>1. AskingNow[Main] = NoKey /\ AskingNow' = [AskingNow EXCEPT ![Main] = k]
  BY DEF AskingNow, IInv, TypeOK
<1>2. MemoNow' = MemoNow
  BY DEF MemoNow, IInv, TypeOK, Settled, entry
<1>3. FailureNow' = FailureNow
  BY DEF FailureNow, IInv, TypeOK, Orphaned, entry, Free
<1>4. got' = got
  OBVIOUS
<1>5. QED
  BY <1>1, <1>2, <1>3, <1>4 DEF Promise!Ask, AskingNow, MemoNow, FailureNow

LEMMA RefuseStep ==
    ASSUME IInv, Free, NEW k \in Keys, SpfReject(k)
    PROVE  Promise!Refuse(Main)
<1> USE ConstantsAssumption DEF SpfReject, Begin
<1>1. AskingNow[Main] = NoKey /\ AskingNow' = AskingNow
  BY DEF AskingNow, IInv, TypeOK
<1>2. MemoNow' = MemoNow
  BY DEF MemoNow, IInv, TypeOK, Settled, entry
<1>3. FailureNow' = FailureNow
  BY DEF FailureNow, IInv, TypeOK, Orphaned, entry, Free
<1>4. got' = [got EXCEPT ![Main] = Promise!Rejection]
  BY PromisedOutcomes
<1>5. QED
  BY <1>1, <1>2, <1>3, <1>4 DEF Promise!Refuse, AskingNow, MemoNow, FailureNow

\* A lookup on its way to its entry, and to the Client.
LEMMA OnItsWay ==
    ASSUME IInv, Free, NEW p \in Procs, Hit(p) \/ Miss(p) \/ Admit(p) \/ Send(p)
    PROVE  Unseen
<1> USE DEF Goto, entry
<1>1. CASE Hit(p)
  <2> USE <1>1 DEF Hit
  <2>1. AskingNow' = AskingNow
    BY DEF AskingNow, IInv, TypeOK
  <2>2. MemoNow' = MemoNow
    BY DEF MemoNow, IInv, TypeOK, Settled
  <2>3. FailureNow' = FailureNow
    BY DEF FailureNow, IInv, TypeOK, Orphaned, Free
  <2>4. QED
    BY <2>1, <2>2, <2>3 DEF Unseen
<1>2. CASE Miss(p)
  <2> USE <1>2 DEF Miss
  <2>k. req[p] \in Keys /\ made' \in Entries /\ made' \notin Allocated /\ made' # 0
    <3>1. req[p] \in Keys
      BY DEF IInv, Holds
    <3>2. made \in 0..MaxEntries /\ MaxEntries \in Nat
      BY ConstantsAssumption DEF IInv, TypeOK
    <3>3. QED
      BY <3>1, <3>2 DEF Entries, Allocated
  <2>1. AskingNow' = AskingNow
    BY DEF AskingNow, IInv, TypeOK
  <2>2. MemoNow' = MemoNow
    <3>1. ASSUME NEW k \in Keys, k # req[p]
          PROVE  /\ cache'[k] = cache[k]
                 /\ Settled(cache[k])' <=> Settled(cache[k])
      BY <2>k, <3>1 DEF IInv, TypeOK, Settled
    <3>2. ~closed'[made'] /\ \A q \in Procs : ~(ent'[q] = made' /\ pc'[q] = "close")
      BY <2>k DEF IInv, TypeOK, Blank, Holds, Owning, Fetching
    <3>3. QED
      BY <2>k, <3>1, <3>2 DEF MemoNow, Settled, IInv, TypeOK
  <2>3. FailureNow' = FailureNow
    <3>1. ent[p] = 0 /\ ~(ent'[p] # 0 /\ cache'[req'[p]] # ent'[p])
      BY <2>k DEF Free, IInv, TypeOK
    <3>2. ASSUME NEW q \in Procs, q # p, ent[q] # 0
          PROVE  (cache'[req'[q]] # ent'[q]) <=> (cache[req[q]] # ent[q])
      <4>1. ent[q] \in Allocated /\ req[q] \in Keys
        BY <3>2 DEF IInv, TypeOK, Holds, Free, Labels, Owning, Fetching
      <4>2. QED
        BY <2>k, <3>2, <4>1 DEF IInv, TypeOK
    <3>3. \A q \in Procs : q # p => ent'[q] = ent[q]
      BY DEF IInv, TypeOK
    <3>4. QED
      BY <3>1, <3>2, <3>3 DEF FailureNow, Orphaned
  <2>4. QED
    BY <2>1, <2>2, <2>3 DEF Unseen
<1>3. CASE Admit(p) \/ Send(p)
  <2>1. AskingNow' = AskingNow
    BY <1>3 DEF AskingNow, IInv, TypeOK, Admit, Send
  <2>2. MemoNow' = MemoNow
    BY <1>3 DEF MemoNow, IInv, TypeOK, Settled, Admit, Send
  <2>3. FailureNow' = FailureNow
    BY <1>3 DEF FailureNow, IInv, TypeOK, Orphaned, Admit, Send
  <2>4. QED
    BY <1>3, <2>1, <2>2, <2>3 DEF Unseen, Admit, Send
<1>4. QED
  BY <1>1, <1>2, <1>3

\* The entry of a fetch is in the map, open, and nobody else completes it.
LEMMA FetchedEntry ==
    ASSUME IInv, NEW p \in Procs, pc[p] \in Fetching
    PROVE  /\ req[p] \in Keys /\ ent[p] \in Entries /\ ent[p] # 0
           /\ cache[req[p]] = ent[p] /\ ~closed[ent[p]]
           /\ \A q \in Procs : pc[q] = "close" => ent[q] # ent[p]
           /\ \A k \in Keys : cache[k] = ent[p] => k = req[p]
           /\ \A q \in Procs : ent[q] = ent[p] /\ pc[q] \notin {"idle", "enter", "done"} =>
                 cache[req[q]] = ent[q]
<1>1. /\ req[p] \in Keys /\ ent[p] \in Entries /\ ent[p] # 0
      /\ cache[req[p]] = ent[p] /\ keyOf[ent[p]] = req[p] /\ ~closed[ent[p]]
  BY DEF IInv, TypeOK, Holds, InMap, Owned, Owning, Fetching, Allocated, Entries
<1>2. \A q \in Procs : pc[q] = "close" => ent[q] # ent[p]
  BY DEF IInv, Owned, Owning, Fetching
<1>3. \A k \in Keys : cache[k] = ent[p] => k = req[p]
  BY <1>1 DEF IInv, Mapped
<1>4. ASSUME NEW q \in Procs, ent[q] = ent[p], pc[q] \notin {"idle", "enter", "done"}
      PROVE  cache[req[q]] = ent[q]
  BY <1>1, <1>4 DEF IInv, TypeOK, Holds, Labels, Owning, Fetching
<1>5. QED
  BY <1>1, <1>2, <1>3, <1>4

\* A fetch that ends with a final outcome decides its key, if it completes the
\* entry, or hands it to the owner to complete.
LEMMA DecideStep ==
    ASSUME IInv, Free, NEW p \in Procs, NEW out \in Outcome, ~Forgotten(out), pc[p] \in Fetching,
           cache' = cache /\ req' = req /\ ent' = ent /\ got' = got,
           outOf' = [outOf EXCEPT ![ent[p]] = out],
           \/ pc' = [pc EXCEPT ![p] = "close"] /\ closed' = closed
           \/ pc' = [pc EXCEPT ![p] = "dead"] /\ closed' = [closed EXCEPT ![ent[p]] = TRUE]
    PROVE  Promise!Decide(req[p], out)
<1>f. /\ req[p] \in Keys /\ ent[p] \in Entries /\ ent[p] # 0
      /\ cache[req[p]] = ent[p] /\ ~closed[ent[p]]
      /\ \A q \in Procs : pc[q] = "close" => ent[q] # ent[p]
      /\ \A k \in Keys : cache[k] = ent[p] => k = req[p]
      /\ \A q \in Procs : ent[q] = ent[p] /\ pc[q] \notin {"idle", "enter", "done"} =>
            cache[req[q]] = ent[q]
  BY FetchedEntry
<1>t. /\ pc \in [Procs -> Labels] /\ outOf \in [Entries -> Outcome] /\ closed \in [Entries -> BOOLEAN]
      /\ pc[p] \in {"take", "send", "query"} /\ cache \in [Keys -> 0..MaxEntries]
  BY DEF IInv, TypeOK, Fetching
<1>1. AskingNow' = AskingNow
  BY <1>t DEF AskingNow
<1>2. MemoNow[req[p]] = Undecided
  BY <1>f DEF MemoNow, Settled
<1>3. MemoNow' = [MemoNow EXCEPT ![req[p]] = out]
  <2>1. ASSUME NEW k \in Keys, k # req[p], cache[k] # 0
        PROVE  /\ outOf'[cache[k]] = outOf[cache[k]] /\ cache[k] \in Entries
               /\ Settled(cache[k])' <=> Settled(cache[k])
    <3>1. cache[k] # ent[p] /\ cache[k] \in Entries
      BY <1>f, <1>t, <2>1 DEF Entries
    <3>2. outOf'[cache[k]] = outOf[cache[k]]
      BY <1>t, <3>1
    <3>3. closed'[cache[k]] <=> closed[cache[k]]
      BY <1>t, <3>1
    <3>4. (\E q \in Procs : ent'[q] = cache[k] /\ pc'[q] = "close")
          <=> \E q \in Procs : ent[q] = cache[k] /\ pc[q] = "close"
      BY <1>t, <3>1
    <3>5. QED
      BY <3>1, <3>2, <3>3, <3>4 DEF Settled
  <2>2. /\ outOf'[cache[req[p]]] = out /\ cache[req[p]] # 0
        /\ Settled(cache[req[p]])'
    <3>1. outOf'[ent[p]] = out /\ (closed'[ent[p]] \/ pc'[p] = "close")
      BY <1>f, <1>t
    <3>2. QED
      BY <1>f, <3>1 DEF Settled
  <2>3. MemoNow'[req[p]] = out
    BY <1>f, <2>2 DEF MemoNow
  <2>4. ASSUME NEW k \in Keys, k # req[p] PROVE MemoNow'[k] = MemoNow[k]
    <3>1. CASE cache[k] = 0
      BY <3>1 DEF MemoNow
    <3>2. CASE cache[k] # 0
      BY <2>1, <2>4, <3>2 DEF MemoNow
    <3>3. QED
      BY <3>1, <3>2
  <2>5. MemoNow' = [k \in Keys |-> MemoNow'[k]] /\ MemoNow = [k \in Keys |-> MemoNow[k]]
    BY DEF MemoNow
  <2> DEFINE new == MemoNow'
             old == MemoNow
  <2>6. new = [k \in Keys |-> new[k]] /\ old = [k \in Keys |-> old[k]]
    BY <2>5
  <2>7. new[req[p]] = out /\ \A k \in Keys : k # req[p] => new[k] = old[k]
    BY <2>3, <2>4
  <2> HIDE DEF new, old
  <2>8. new = [old EXCEPT ![req[p]] = out]
    BY <2>6, <2>7
  <2>9. QED
    BY <2>8 DEF new, old
<1>4. FailureNow' = FailureNow
  <2>1. ASSUME NEW q \in Procs, ent[q] # 0, cache[req[q]] # ent[q]
        PROVE  outOf'[ent[q]] = outOf[ent[q]]
    <3>1. ent[q] # ent[p]
      BY <1>f, <1>t, <2>1 DEF Free
    <3>2. QED
      BY <1>f, <1>t, <3>1
  <2>2. QED
    BY <2>1 DEF FailureNow, Orphaned
<1>5. AskingNow[p] = req[p] /\ ~Promise!Temporary(out)
  BY <1>t, PromisedOutcomes DEF AskingNow
<1>6. QED
  BY <1>1, <1>2, <1>3, <1>4, <1>5 DEF Promise!Decide, AskingNow, MemoNow, FailureNow

\* A failure is not handed out as long as its entry is in the map.
LEMMA FailsUnseen ==
    ASSUME IInv, Free, NEW p \in Procs, NEW out \in Outcome, Forgotten(out), Answer(p, out)
    PROVE  Unseen
<1>t. /\ pc \in [Procs -> Labels] /\ outOf \in [Entries -> Outcome] /\ pc[p] = "query"
      /\ cache' = cache /\ req' = req /\ ent' = ent /\ got' = got /\ closed' = closed
      /\ outOf' = [outOf EXCEPT ![ent[p]] = out] /\ pc' = [pc EXCEPT ![p] = "forget"]
  BY DEF IInv, TypeOK, Answer, Store, Goto
<1>f. /\ req[p] \in Keys /\ ent[p] \in Entries /\ ent[p] # 0
      /\ cache[req[p]] = ent[p] /\ ~closed[ent[p]]
      /\ \A q \in Procs : pc[q] = "close" => ent[q] # ent[p]
      /\ \A k \in Keys : cache[k] = ent[p] => k = req[p]
      /\ \A q \in Procs : ent[q] = ent[p] /\ pc[q] \notin {"idle", "enter", "done"} =>
            cache[req[q]] = ent[q]
  BY <1>t, FetchedEntry DEF Fetching
<1>1. AskingNow' = AskingNow
  BY <1>t DEF AskingNow
<1>2. MemoNow' = MemoNow
  <2>1. ASSUME NEW k \in Keys
        PROVE  Settled(cache[k])' <=> Settled(cache[k])
    BY <1>t DEF Settled
  <2>2. ASSUME NEW k \in Keys, Settled(cache[k])
        PROVE  outOf'[cache[k]] = outOf[cache[k]]
    BY <1>f, <1>t, <2>2 DEF Settled
  <2>3. QED
    BY <1>t, <2>1, <2>2 DEF MemoNow
<1>3. FailureNow' = FailureNow
  <2>1. ASSUME NEW q \in Procs, ent[q] # 0, cache[req[q]] # ent[q]
        PROVE  outOf'[ent[q]] = outOf[ent[q]]
    <3>1. ent[q] # ent[p]
      BY <1>f, <1>t, <2>1 DEF Free
    <3>2. QED
      BY <1>f, <1>t, <3>1
  <2>2. QED
    BY <1>t, <2>1 DEF FailureNow, Orphaned
<1>4. QED
  BY <1>t, <1>1, <1>2, <1>3 DEF Unseen

\* A deleted entry hands its failure to all that hold it; nobody else sees it go.
LEMMA FailStep ==
    ASSUME IInv, Free, NEW p \in Procs, Forget(p),
           NEW k, k = req[p], NEW S, S = {q \in Procs : ent[q] = ent[p]},
           NEW out, out = outOf[ent[p]]
    PROVE  Promise!Fail(k, S, out)
<1> DEFINE e == ent[p]
<1>t. /\ pc \in [Procs -> Labels] /\ pc[p] = "forget" /\ cache \in [Keys -> 0..MaxEntries]
      /\ cache' = [cache EXCEPT ![k] = 0] /\ pc' = [pc EXCEPT ![p] = "close"]
      /\ req' = req /\ ent' = ent /\ got' = got /\ outOf' = outOf /\ closed' = closed
  BY DEF IInv, TypeOK, Forget, Goto, entry
<1>e. /\ k \in Keys /\ e \in Allocated /\ e \in Entries /\ e # 0 /\ cache[k] = e /\ keyOf[e] = k
      /\ ~closed[e] /\ Forgotten(outOf[e]) /\ outOf[e] \in Outcome
  BY <1>t DEF IInv, TypeOK, Holds, Owned, InMap, Owning, Fetching, Entries, Allocated
<1>o. \A q \in Procs : pc[q] = "close" => ent[q] # e
  BY <1>t DEF IInv, Owned, Owning, Fetching
<1>k. \A j \in Keys : cache[j] = e => j = k
  BY <1>e DEF IInv, Mapped
<1>q. ASSUME NEW q \in Procs, ent[q] = e
      PROVE  req[q] = k /\ pc[q] \notin {"idle", "enter", "done"}
  BY <1>e, <1>q, <1>t DEF IInv, Holds, Free, Labels, Owning, Fetching
<1>1. AskingNow' = AskingNow
  BY <1>t DEF AskingNow
<1>2. MemoNow' = MemoNow /\ MemoNow[k] = Undecided
  <2>1. ~Settled(e)
    BY <1>e, <1>o DEF Settled
  <2>2. ASSUME NEW j \in Keys, j # k
        PROVE  cache'[j] = cache[j] /\ (Settled(cache[j])' <=> Settled(cache[j]))
    <3>1. cache[j] # e /\ cache'[j] = cache[j]
      BY <1>e, <1>k, <1>t, <2>2
    <3>2. QED
      BY <1>t, <3>1 DEF Settled
  <2>3. cache'[k] = 0
    BY <1>e, <1>t
  <2>4. QED
    BY <1>e, <1>t, <2>1, <2>2, <2>3 DEF MemoNow
<1>3. \A q \in S : AskingNow[q] = k /\ FailureNow[q] = Undecided
  <2>1. ASSUME NEW q \in S PROVE AskingNow[q] = k
    BY <1>q, <1>t DEF AskingNow
  <2>2. ASSUME NEW q \in S PROVE ~Orphaned(q)
    BY <1>e, <1>q DEF Orphaned
  <2>3. QED
    BY <2>1, <2>2 DEF FailureNow
<1>4. FailureNow' = [q \in Procs |-> IF q \in S THEN out ELSE FailureNow[q]]
  <2>1. ASSUME NEW q \in S PROVE Orphaned(q)' /\ outOf'[ent'[q]] = out
    <3>1. req'[q] = k /\ ent'[q] = e /\ cache'[k] = 0
      BY <1>e, <1>q, <1>t
    <3>2. QED
      BY <1>e, <1>t, <3>1 DEF Orphaned
  <2>2. ASSUME NEW q \in Procs, q \notin S
        PROVE  (Orphaned(q)' <=> Orphaned(q)) /\ outOf'[ent'[q]] = outOf[ent[q]]
    <3>1. ASSUME ent[q] # 0 PROVE (cache'[req[q]] # ent[q]) <=> (cache[req[q]] # ent[q])
      <4>1. req[q] \in Keys
        BY <1>t, <3>1 DEF IInv, Holds, Free, Labels, Owning, Fetching
      <4>2. QED
        BY <1>e, <1>t, <2>2, <3>1, <4>1
    <3>2. QED
      BY <1>t, <3>1 DEF Orphaned
  <2>3. QED
    BY <2>1, <2>2 DEF FailureNow
<1>5. S # {} /\ S \in SUBSET Procs /\ Promise!Temporary(out)
  BY <1>e, PromisedOutcomes
<1>6. QED
  BY <1>t, <1>1, <1>2, <1>3, <1>4, <1>5 DEF Promise!Fail, AskingNow, MemoNow, FailureNow

\* A lookup that returns was handed its failure, or what its key was decided to.
LEMMA ReplyStep ==
    ASSUME IInv, Free, NEW p \in Procs, Close(p) \/ Receive(p)
    PROVE  Promise!Reply(p)
<1> DEFINE k == req[p]
           e == ent[p]
<1>t. /\ pc \in [Procs -> Labels] /\ pc[p] \in {"close", "wait"} /\ closed \in [Entries -> BOOLEAN]
      /\ ent \in [Procs -> 0..MaxEntries] /\ req \in [Procs -> Keys \cup {NoKey}]
      /\ pc' = [pc EXCEPT ![p] = "idle"] /\ ent' = [ent EXCEPT ![p] = 0]
      /\ got' = [got EXCEPT ![p] = outOf[e]]
      /\ cache' = cache /\ req' = req /\ outOf' = outOf
  BY DEF IInv, TypeOK, Close, Receive, Return, Goto, entry
<1>c. \/ pc[p] = "close" /\ closed' = [closed EXCEPT ![e] = TRUE]
      \/ pc[p] = "wait" /\ closed[e] /\ closed' = closed
  BY DEF Close, Receive, entry
<1>e. /\ k \in Keys /\ e \in Allocated /\ e \in Entries /\ e # 0 /\ keyOf[e] = k
      /\ outOf[e] \in Outcome /\ Settled(e)
  BY <1>c, <1>t DEF IInv, TypeOK, Holds, Owning, Fetching, Entries, Allocated, Settled
<1>m. Forgotten(outOf[e]) <=> cache[k] # e
  BY <1>c, <1>e DEF IInv, InMap, Kept
<1>1. AskingNow[p] = k /\ k # NoKey /\ AskingNow' = [AskingNow EXCEPT ![p] = NoKey]
  BY <1>e, <1>t, ConstantsAssumption DEF AskingNow
<1>2. MemoNow' = MemoNow
  <2>1. ASSUME NEW j \in Keys, cache[j] # 0 PROVE Settled(cache[j])' <=> Settled(cache[j])
    <3>0. cache[j] \in Entries
      BY <2>1 DEF IInv, TypeOK, Entries
    <3>1. CASE cache[j] = e
      <4>1. closed'[e]
        BY <1>c, <1>e, <1>t
      <4>2. QED
        BY <1>e, <1>t, <3>1, <4>1 DEF Settled
    <3>2. CASE cache[j] # e
      <4>1. closed'[cache[j]] <=> closed[cache[j]]
        BY <1>c, <1>e, <1>t, <3>0, <3>2
      <4>2. \A q \in Procs : (ent'[q] = cache[j] /\ pc'[q] = "close")
                             <=> (ent[q] = cache[j] /\ pc[q] = "close")
        BY <1>t, <2>1, <3>2
      <4>3. QED
        BY <1>t, <4>1, <4>2 DEF Settled
    <3>3. QED
      BY <3>1, <3>2
  <2>2. QED
    BY <1>t, <2>1 DEF MemoNow
<1>3. FailureNow' = [FailureNow EXCEPT ![p] = Undecided]
  <2>1. ~Orphaned(p)'
    BY <1>t DEF Orphaned
  <2>2. ASSUME NEW q \in Procs, q # p
        PROVE  (Orphaned(q)' <=> Orphaned(q)) /\ outOf'[ent'[q]] = outOf[ent[q]]
    BY <1>t, <2>2 DEF Orphaned
  <2>3. QED
    BY <2>1, <2>2 DEF FailureNow
<1>4. CASE Orphaned(p)
  <2>1. FailureNow[p] = outOf[e] /\ FailureNow[p] # Undecided
    BY <1>e, <1>4, PromisedOutcomes DEF FailureNow
  <2>2. got' = [got EXCEPT ![p] = FailureNow[p]]
    BY <1>t, <2>1
  <2>3. QED
    BY <1>1, <1>2, <1>3, <2>1, <2>2 DEF Promise!Reply, AskingNow, MemoNow, FailureNow
<1>5. CASE ~Orphaned(p)
  <2>1. FailureNow[p] = Undecided
    BY <1>5 DEF FailureNow
  <2>2. cache[k] = e
    BY <1>e, <1>m, <1>5 DEF Orphaned
  <2>3. MemoNow[k] = outOf[e] /\ MemoNow[k] # Undecided
    BY <1>e, <2>2, PromisedOutcomes DEF MemoNow
  <2>4. got' = [got EXCEPT ![p] = MemoNow[AskingNow[p]]] /\ MemoNow[AskingNow[p]] # Undecided
    BY <1>t, <1>1, <2>3
  <2>5. QED
    BY <1>1, <1>2, <1>3, <2>1, <2>4 DEF Promise!Reply, AskingNow, MemoNow, FailureNow
<1>6. QED
  BY <1>4, <1>5

LEMMA PromiseStarts == Init => Promise!Init
<1> SUFFICES ASSUME Init PROVE Promise!Init
  OBVIOUS
<1>1. AskingNow = [p \in Procs |-> NoKey]
  BY DEF Init, AskingNow
<1>2. MemoNow = [k \in Keys |-> Undecided]
  BY DEF Init, MemoNow
<1>3. FailureNow = [p \in Procs |-> Undecided]
  BY DEF Init, FailureNow, Orphaned
<1>4. got = [p \in Procs |-> [val |-> NoRecords, err |-> "nil"]]
  BY DEF Init, Failed
<1>5. QED
  BY <1>1, <1>2, <1>3, <1>4 DEF Promise!Init, AskingNow, MemoNow, FailureNow

LEMMA PromiseStep == IInv /\ Free /\ [Next]_vars => [Promise!Next]_(Promise!vars)
<1> SUFFICES ASSUME IInv, Free, [Next]_vars PROVE Promise!Next \/ UNCHANGED Promise!vars
  OBVIOUS
<1>1. ASSUME NEW p \in Procs, NEW k \in Keys, Lookup(p, k) PROVE Promise!Next
  BY <1>1, AskStep DEF Promise!Next
<1>2. ASSUME NEW k \in Keys, SpfLookup(k) PROVE Promise!Next
  BY <1>2, SpfAskStep, ConstantsAssumption DEF Promise!Next
<1>3. ASSUME NEW k \in Keys, SpfReject(k) PROVE Promise!Next
  BY <1>3, RefuseStep, ConstantsAssumption DEF Promise!Next
<1>4. ASSUME NEW p \in Procs, Hit(p) \/ Miss(p) \/ Admit(p) \/ Send(p)
      PROVE  UNCHANGED Promise!vars
  BY <1>4, OnItsWay, UnseenStutters
<1>d. ASSUME NEW p \in Procs, pc[p] \in Fetching, NEW out \in Outcome, Promise!Decide(req[p], out)
      PROVE  Promise!Next
  <2>1. req[p] \in Keys
    BY <1>d, FetchedEntry
  <2>2. QED
    BY <1>d, <2>1, PromisedOutcomes DEF Promise!Next
<1>5. ASSUME NEW p \in Procs, Reject(p) PROVE Promise!Next
  <2>1. Failed("Budget") \in Outcome /\ ~Forgotten(Failed("Budget")) /\ pc[p] \in Fetching
    BY <1>5, Outcomes, FinalOutcomes DEF Reject, Fetching
  <2>2. Promise!Decide(req[p], Failed("Budget"))
    BY <1>5, <2>1, DecideStep DEF Reject, Store, Goto
  <2>3. QED
    BY <1>d, <2>1, <2>2
<1>6. ASSUME NEW p \in Procs, NEW out \in ClientOutcome, Answer(p, out)
      PROVE  Promise!Next \/ UNCHANGED Promise!vars
  <2>1. out \in Outcome /\ pc[p] \in Fetching
    BY <1>6, Outcomes DEF Answer, Fetching
  <2>2. CASE Forgotten(out)
    BY <1>6, <2>1, <2>2, FailsUnseen, UnseenStutters
  <2>3. CASE ~Forgotten(out)
    <3>1. Promise!Decide(req[p], out)
      BY <1>6, <2>1, <2>3, DecideStep DEF Answer, Store, Goto
    <3>2. QED
      BY <1>d, <2>1, <3>1
  <2>4. QED
    BY <2>2, <2>3
<1>7. ASSUME NEW p \in Procs, Panic(p) PROVE Promise!Next
  <2>1. Failed("nil") \in Outcome /\ ~Forgotten(Failed("nil")) /\ pc[p] \in Fetching
    BY <1>7, Outcomes, FinalOutcomes DEF Panic, Fetching
  <2>2. outOf' = [outOf EXCEPT ![ent[p]] = Failed("nil")]
    <3>1. outOf \in [Entries -> Outcome] /\ outOf[ent[p]] = Failed("nil") /\ outOf' = outOf
      BY <1>7, <2>1 DEF IInv, TypeOK, Owned, Panic
    <3>2. QED
      BY <3>1
  <2>3. Promise!Decide(req[p], Failed("nil"))
    BY <1>7, <2>1, <2>2, DecideStep DEF Panic, Goto
  <2>4. QED
    BY <1>d, <2>1, <2>3
<1>8. ASSUME NEW p \in Procs, Forget(p) PROVE Promise!Next
  <2>1. req[p] \in Keys /\ outOf[ent[p]] \in Outcome /\ {q \in Procs : ent[q] = ent[p]} \in SUBSET Procs
    <3>1. pc[p] = "forget"
      BY <1>8 DEF Forget
    <3>2. req[p] \in Keys /\ ent[p] \in 1..made /\ made \in 0..MaxEntries
      BY <3>1 DEF IInv, TypeOK, Holds, Owning, Fetching, Allocated
    <3>3. ent[p] \in Entries /\ outOf \in [Entries -> Outcome]
      BY <3>2, ConstantsAssumption DEF IInv, TypeOK, Entries
    <3>4. QED
      BY <3>2, <3>3
  <2>2. PICK k \in Keys, S \in SUBSET Procs, out \in Outcome :
          k = req[p] /\ S = {q \in Procs : ent[q] = ent[p]} /\ out = outOf[ent[p]]
    BY <2>1
  <2>3. Promise!Fail(k, S, out)
    BY <1>8, <2>2, FailStep
  <2>4. out \in Promise!Outcome
    BY PromisedOutcomes
  <2>5. QED
    BY <2>3, <2>4 DEF Promise!Next
<1>9. ASSUME NEW p \in Procs, Close(p) \/ Receive(p) PROVE Promise!Next
  BY <1>9, ReplyStep DEF Promise!Next
<1>10. ASSUME Finish \/ Finalize PROVE UNCHANGED Promise!vars
  <2> USE <1>10 DEF Finish, Finalize, Goto, entry
  <2>1. AskingNow' = AskingNow
    BY DEF AskingNow, IInv, TypeOK
  <2>2. MemoNow' = MemoNow
    BY DEF MemoNow, IInv, TypeOK, Settled
  <2>3. FailureNow' = FailureNow
    BY DEF FailureNow, Orphaned
  <2>4. QED
    BY <2>1, <2>2, <2>3, UnseenStutters DEF Unseen
<1>11. ASSUME UNCHANGED vars PROVE UNCHANGED Promise!vars
  <2> USE <1>11 DEF vars, entry
  <2>1. AskingNow' = AskingNow
    BY DEF AskingNow
  <2>2. MemoNow' = MemoNow
    BY DEF MemoNow, Settled
  <2>3. FailureNow' = FailureNow
    BY DEF FailureNow, Orphaned
  <2>4. QED
    BY <2>1, <2>2, <2>3, UnseenStutters DEF Unseen
<1>12. QED
  BY <1>1, <1>2, <1>3, <1>4, <1>5, <1>6, <1>7, <1>8, <1>9, <1>10, <1>11 DEF Next, Step

\* The Cache and its Budgets, entry by entry, with all the places at which
\* goroutines may overtake each other, do nothing their callers could tell from
\* the lookup service.
THEOREM CacheKeepsItsPromise == Spec => ImplementsPromise
<1>1. Init => Free
  BY DEF Init, Free
<1>2. Spec => []Free
  BY <1>1, FreeStep, Inductive, PTL DEF Spec
<1>3. QED
  BY <1>2, PromiseStarts, PromiseStep, Inductive, PTL DEF Spec, ImplementsPromise, Promise!Spec
=============================================================================
