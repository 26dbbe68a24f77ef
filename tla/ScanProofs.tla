----------------------------- MODULE ScanProofs -----------------------------
(***************************************************************************)
(* What a command reports and exits with, for every outcome of its lookups *)
(* and every value of the budgets.                                         *)
(***************************************************************************)
EXTENDS Scan, TLAPS

\* The errors that make a result unreliable. The rejection by a Budget is an
\* error as well, but none of these.
Failures == {"Temporary", "other"}
AllErrs == Results \cup {"other"}

LEMMA ErrorFacts ==
    \A o \in AllErrs :
        /\ IsInfrastructure(o) <=> o \in Failures
        /\ IsTemporary(o) <=> o \in Failures \cup {"Budget"}
        /\ IsNXDomain(o) <=> o = "NXDomain"
        /\ Bad(o) <=> o \in Failures \cup {"Budget"}
        /\ \A c : Recorded(c, o) = IF o \in Failures THEN errors \cup {c} ELSE errors
BY DEF AllErrs, Results, ClientResults, Failures, IsInfrastructure, IsTemporary, IsNXDomain, Bad,
       Recorded, KindOf, Kinds

\* The pair of address lookups: the failure of one is not lost, unless the
\* first was rejected.
LEMMA AddressFacts ==
    ASSUME NEW o \in Results, held \in Results
    PROVE  /\ AddressError(o) \in {held, o}
           /\ o \in Failures /\ held # "Budget" => AddressError(o) \in Failures
           /\ held \in Failures => AddressError(o) \in Failures
BY DEF Results, ClientResults, Failures, AddressError, IsTemporary, IsNXDomain, KindOf, Kinds

\* The last failure of a list is kept, and nothing else is.
LEMMA FoldFacts ==
    ASSUME NEW err \in AllErrs, NEW o \in AllErrs
    PROVE  /\ FoldError(err, o) \in {err, o}
           /\ o \in Failures \/ err \in Failures => FoldError(err, o) \in Failures
           /\ FoldError(err, o) # err => o \in Failures
BY ErrorFacts DEF FoldError

LookupsTyped ==
    sent \in 0..QueryBudget /\ exhausted \in BOOLEAN /\ spfSent \in 0..SpfQueryBudget

\* A rejection shows the Budget exhausted; no lookup fails once it is.
LEMMA AskFacts ==
    ASSUME NEW o \in Results, LookupsTyped, Ask(o)
    PROVE  /\ sent' \in 0..QueryBudget /\ exhausted' \in BOOLEAN
           /\ sent <= sent'
           /\ exhausted => exhausted'
           /\ o = "Budget" => exhausted' /\ sent' >= QueryBudget
           /\ o = "Temporary" => sent < QueryBudget
<1>1. /\ sent' \in 0..QueryBudget /\ sent <= sent'
      /\ o = "Budget" => sent' >= QueryBudget
      /\ o = "Temporary" => sent < QueryBudget
  BY ScanAssumption DEF LookupsTyped, Ask, ClientResults
<1>2. exhausted' = exhausted \/ exhausted' = TRUE
  BY DEF Ask
<1>3. o = "Budget" => exhausted' = TRUE
  BY DEF Ask, ClientResults
<1> QED
  BY <1>1, <1>2, <1>3, Zenon DEF LookupsTyped

-----------------------------------------------------------------------------
\* The steps of the assessment whose list of items is worked through.
ListSteps(c) ==
    CASE c = "mx" -> {"mx_hosts", "host_a", "host_aaaa"}
      [] c = "spf" -> {"spf_terms"}
      [] c = "dmarc" -> {"dmarc_reports"}
      [] c = "dkim" -> {"dkim_keys"}
      [] OTHER -> {}
MxSteps == {"mx", "implicit_a", "implicit_aaaa", "mx_hosts", "host_a", "host_aaaa", "spf"}
MessageSteps == {"read", "keys", "check_host", "policy", "policy_org"}

ChecksTyped ==
    /\ left \in 0..MaxItems /\ held \in Results /\ result \in AllErrs
    /\ pc \in {"host_a", "host_aaaa"} => left > 0
    /\ dialErr \in AllErrs

\* Where the scan can be when.
Phases ==
    /\ cmd = "domain" => pc \notin MessageSteps
    /\ pc = "read" => trouble = {}
    /\ scanErr => trouble = {} /\ pc \in {"finish", "cli", "exit"}
    /\ pc \in MxSteps => spfSent = 0
    /\ dialErr = "Budget" => exhausted
    /\ pc \in {"host_aaaa", "implicit_aaaa"} /\ held = "Budget" =>
         sent >= QueryBudget /\ exhausted

ScanInv == LookupsTyped /\ ChecksTyped /\ Phases

\* What the lookups of a step do to the Budgets.
Budgets ==
    /\ UNCHANGED <<sent, exhausted>> \/ \E o \in Results : Ask(o)
    /\ spfSent' = spfSent \/ (spfSent < SpfQueryBudget /\ spfSent' = spfSent + 1)

\* The error that the assessment under way is going to return.
Pending(c) ==
    \/ pc \in ListSteps(c) /\ result \in Failures
    \/ c = "mx" /\ pc \in {"host_aaaa", "implicit_aaaa"} /\ held \in Failures

\* A failed lookup is recorded, or will be; what is recorded has failed.
NothingLost ==
    /\ trouble \subseteq Components
    /\ pc # "exit" => \A c \in trouble : c \in errors \/ Pending(c)
NothingMadeUp ==
    /\ result \in Failures =>
         pc = "exit" \/ \E c \in {"mx", "spf", "dmarc", "dkim"} : pc \in ListSteps(c)
    /\ cmd = "domain" => \A c \in {"mx", "dmarc", "dkim", "tlsrpt"} :
                            c \in errors \/ Pending(c) => c \in trouble

LEMMA BudgetSteps == [Next]_vars => Budgets
<1> SUFFICES ASSUME [Next]_vars PROVE Budgets
  OBVIOUS
<1> USE DEF Budgets, lookupVars
<1>1. ASSUME NEW o \in Results, Lookup(o) PROVE Budgets
  BY <1>1 DEF Lookup
<1>2. ASSUME NEW o \in Results, SpfLookup(o) PROVE Budgets
  BY <1>2 DEF SpfLookup
<1>3. CASE DomainStep
  <2>1. ASSUME NEW o \in Results,
               \/ MXRecords(o) \/ MXHost(o) \/ FirstAddress(o) \/ HostAddresses(o)
               \/ ImplicitAddresses(o) \/ DmarcRecord(o) \/ ListedLookup(o)
               \/ StsRecord(o) \/ TlsRecord(o)
        PROVE  Budgets
    BY <1>1, <2>1 DEF MXRecords, MXHost, FirstAddress, HostAddresses, ImplicitAddresses,
                      DmarcRecord, ListedLookup, StsRecord, TlsRecord
  <2>2. ASSUME NEW o \in Results, SpfRecord(o) \/ SpfTarget(o) \/ \E exists : SpfVoid(o, exists)
        PROVE  Budgets
    BY <1>2, <2>2 DEF SpfRecord, SpfTarget, SpfVoid
  <2>3. ASSUME NEW o \in Results, StsHost(o) PROVE Budgets
    BY <2>3 DEF StsHost
  <2>4. CASE Selectors \/ EndOfList \/ Fetch \/ FetchUnresolved \/ FetchResponse
    BY <2>4 DEF Selectors, EndOfList, Fetch, FetchUnresolved, FetchResponse
  <2>5. QED
    BY <1>3, <2>1, <2>2, <2>3, <2>4 DEF DomainStep
<1>4. CASE MessageStep
  <2>1. ASSUME NEW o \in Results, MessageKey(o) \/ MessagePolicy(o) PROVE Budgets
    BY <1>1, <2>1 DEF MessageKey, MessagePolicy
  <2>2. ASSUME NEW o \in Results, MessageSpf(o) PROVE Budgets
    BY <1>2, <2>2 DEF MessageSpf
  <2>3. CASE NextMessageCheck \/ ReadAbandoned
    BY <2>3 DEF NextMessageCheck, ReadAbandoned
  <2>4. QED
    BY <1>4, <2>1, <2>2, <2>3 DEF MessageStep
<1>5. CASE Finish \/ Cli \/ ReadMessage \/ Panic \/ Expire \/ Interrupt \/ UNCHANGED vars
  BY <1>5 DEF Finish, Cli, Exit, ReadMessage, Panic, Expire, Interrupt, vars
<1>6. ASSUME NEW o \in Results, Dial(o) PROVE Budgets
  BY <1>6 DEF Dial
<1>7. QED
  BY <1>3, <1>4, <1>5, <1>6 DEF Next, Proceed

\* The lookups of both Budgets are counted up to their limits; a Budget that
\* has rejected a lookup stays exhausted.
LEMMA BudgetStep ==
    ASSUME LookupsTyped, Budgets
    PROVE  /\ LookupsTyped'
           /\ sent <= sent' /\ (exhausted => exhausted')
<1>1. spfSent' \in 0..SpfQueryBudget
  BY ScanAssumption DEF LookupsTyped, Budgets
<1>2. CASE UNCHANGED <<sent, exhausted>>
  <2>1. sent' = sent /\ exhausted' = exhausted
    BY <1>2
  <2>2. sent \in 0..QueryBudget => sent <= sent
    BY ScanAssumption
  <2>3. QED
    BY <1>1, <2>1, <2>2, Zenon DEF LookupsTyped
<1>3. ASSUME NEW o \in Results, Ask(o)
      PROVE  LookupsTyped' /\ sent <= sent' /\ (exhausted => exhausted')
  BY <1>1, <1>3, AskFacts, Zenon DEF LookupsTyped
<1> QED
  BY <1>2, <1>3 DEF Budgets

LEMMA ChecksStep == ChecksTyped /\ [Next]_vars => ChecksTyped'
<1> SUFFICES ASSUME ChecksTyped, [Next]_vars PROVE ChecksTyped'
  OBVIOUS
<1> USE ErrorFacts, ScanAssumption
    DEF ChecksTyped, AllErrs, Results, ClientResults, Lookup, SpfLookup, Goto, Return,
        FailAtOnce, NextItem, Items, fetchVars, checkVars
<1>1. ASSUME NEW o \in Results, MXRecords(o) PROVE ChecksTyped'
  BY <1>1 DEF MXRecords
<1>2. ASSUME NEW o \in Results, MXHost(o) PROVE ChecksTyped'
  BY <1>2 DEF MXHost
<1>3. ASSUME NEW o \in Results, FirstAddress(o) PROVE ChecksTyped'
  BY <1>3 DEF FirstAddress
<1>4. ASSUME NEW o \in Results, HostAddresses(o) PROVE ChecksTyped'
  <2>1. AddressError(o) \in AllErrs /\ FoldError(result, AddressError(o)) \in AllErrs
    BY AddressFacts, FoldFacts
  <2>2. QED
    BY <1>4, <2>1 DEF HostAddresses
<1>5. ASSUME NEW o \in Results, ImplicitAddresses(o) PROVE ChecksTyped'
  BY <1>5 DEF ImplicitAddresses
<1>6. ASSUME NEW o \in Results, SpfRecord(o) PROVE ChecksTyped'
  BY <1>6 DEF SpfRecord
<1>7. ASSUME NEW o \in Results, SpfTarget(o) PROVE ChecksTyped'
  <2>1. FoldError(result, "other") \in AllErrs
    BY FoldFacts
  <2>2. QED
    BY <1>7, <2>1 DEF SpfTarget
<1>8. ASSUME NEW o \in Results, NEW exists, SpfVoid(o, exists) PROVE ChecksTyped'
  BY <1>8 DEF SpfVoid
<1>9. ASSUME NEW o \in Results, DmarcRecord(o) PROVE ChecksTyped'
  BY <1>9 DEF DmarcRecord
<1>10. ASSUME NEW o \in Results, ListedLookup(o) PROVE ChecksTyped'
  <2>1. FoldError(result, o) \in AllErrs
    BY FoldFacts
  <2>2. QED
    BY <1>10, <2>1 DEF ListedLookup
<1>11. ASSUME NEW o \in Results, StsRecord(o) \/ StsHost(o) \/ TlsRecord(o) PROVE ChecksTyped'
  BY <1>11 DEF StsRecord, StsHost, TlsRecord
<1>12. CASE Selectors \/ EndOfList
  BY <1>12 DEF Selectors, EndOfList, Comp
<1>13. CASE Fetch \/ FetchUnresolved \/ FetchResponse
  BY <1>13 DEF Fetch, FetchUnresolved, FetchResponse
<1>14. ASSUME NEW o \in Results, MessageKey(o) \/ MessageSpf(o) \/ MessagePolicy(o)
       PROVE  ChecksTyped'
  BY <1>14 DEF MessageKey, MessageSpf, MessagePolicy
<1>15. CASE NextMessageCheck \/ ReadAbandoned \/ ReadMessage
  BY <1>15 DEF NextMessageCheck, ReadAbandoned, ReadMessage
<1>16. CASE Finish \/ Cli \/ Panic
  BY <1>16 DEF Finish, Cli, Panic, Exit
<1>17. ASSUME NEW o \in Results, Dial(o) PROVE ChecksTyped'
  BY <1>17 DEF Dial, NoRecords
<1>18. CASE Expire \/ Interrupt \/ UNCHANGED vars
  BY <1>18 DEF Expire, Interrupt, vars
<1>19. QED
  BY <1>1, <1>2, <1>3, <1>4, <1>5, <1>6, <1>7, <1>8, <1>9, <1>10, <1>11, <1>12, <1>13, <1>14,
     <1>15, <1>16, <1>17, <1>18 DEF Next, Proceed, DomainStep, MessageStep

LEMMA PhasesStep ==
    ScanInv /\ [Next]_vars => Phases'
<1> SUFFICES ASSUME ScanInv, [Next]_vars PROVE Phases'
  OBVIOUS
<1>b. /\ sent \in 0..QueryBudget /\ sent' \in 0..QueryBudget /\ sent <= sent'
      /\ exhausted => exhausted'
  BY BudgetStep, BudgetSteps DEF ScanInv, LookupsTyped
<1>a. ASSUME NEW o \in Results, Ask(o)
      PROVE  o = "Budget" => sent' >= QueryBudget /\ exhausted'
  BY <1>a, AskFacts DEF ScanInv
<1>t. ChecksTyped /\ Phases
  BY DEF ScanInv
<1> USE ErrorFacts, ScanAssumption, <1>b, <1>t
    DEF ChecksTyped, Phases, MxSteps, MessageSteps, AllErrs, Results, ClientResults, Blame,
        Goto, Return, FailAtOnce, NextItem, Items, lookupVars, fetchVars, flagVars, endVars,
        checkVars
<1>1. ASSUME NEW o \in Results, MXRecords(o) PROVE Phases'
  BY <1>1 DEF MXRecords, Lookup
<1>2. ASSUME NEW o \in Results, MXHost(o) PROVE Phases'
  BY <1>2 DEF MXHost, Lookup
<1>3. ASSUME NEW o \in Results, FirstAddress(o) PROVE Phases'
  BY <1>3, <1>a DEF FirstAddress, Lookup
<1>4. ASSUME NEW o \in Results, HostAddresses(o) \/ ImplicitAddresses(o) PROVE Phases'
  BY <1>4 DEF HostAddresses, ImplicitAddresses, Lookup
<1>5. ASSUME NEW o \in Results, SpfRecord(o) PROVE Phases'
  BY <1>5 DEF SpfRecord, SpfLookup
<1>6. ASSUME NEW o \in Results, SpfTarget(o) \/ \E exists : SpfVoid(o, exists) PROVE Phases'
  BY <1>6 DEF SpfTarget, SpfVoid, SpfLookup
<1>7. ASSUME NEW o \in Results, DmarcRecord(o) \/ ListedLookup(o) PROVE Phases'
  BY <1>7 DEF DmarcRecord, ListedLookup, Lookup
<1>8. ASSUME NEW o \in Results, StsRecord(o) \/ StsHost(o) \/ TlsRecord(o) PROVE Phases'
  BY <1>8 DEF StsRecord, StsHost, TlsRecord, Lookup
<1>9. CASE Selectors
  BY <1>9 DEF Selectors
<1>10. CASE EndOfList
  BY <1>10 DEF EndOfList, Comp
<1>11. CASE Fetch \/ FetchUnresolved \/ FetchResponse
  BY <1>11 DEF Fetch, FetchUnresolved, FetchResponse
<1>12. ASSUME NEW o \in Results, MessageKey(o) \/ MessageSpf(o) \/ MessagePolicy(o)
       PROVE  Phases'
  BY <1>12 DEF MessageKey, MessageSpf, MessagePolicy, Lookup, SpfLookup
<1>13. CASE NextMessageCheck
  BY <1>13 DEF NextMessageCheck
<1>14. CASE ReadAbandoned \/ ReadMessage
  BY <1>14 DEF ReadAbandoned, ReadMessage
<1>15. CASE Finish \/ Cli \/ Panic
  BY <1>15 DEF Finish, Cli, Panic, Exit
<1>16. ASSUME NEW o \in Results, Dial(o) PROVE Phases'
  BY <1>16, <1>a DEF Dial, NoRecords
<1>17. CASE Expire \/ Interrupt \/ UNCHANGED vars
  BY <1>17 DEF Expire, Interrupt, vars
<1>18. QED
  BY <1>1, <1>2, <1>3, <1>4, <1>5, <1>6, <1>7, <1>8, <1>9, <1>10, <1>11, <1>12, <1>13, <1>14,
     <1>15, <1>16, <1>17 DEF Next, Proceed, DomainStep, MessageStep

LEMMA LostStep == ScanInv /\ NothingLost /\ [Next]_vars => NothingLost'
<1> SUFFICES ASSUME ScanInv, NothingLost, [Next]_vars PROVE NothingLost'
  OBVIOUS
<1>a. ASSUME NEW o \in Results, Ask(o), sent >= QueryBudget PROVE o # "Temporary"
  BY <1>a, AskFacts, ScanAssumption DEF ScanInv, LookupsTyped
<1>t. ChecksTyped /\ Phases
  BY DEF ScanInv
<1> USE ErrorFacts, ScanAssumption, <1>t
    DEF ChecksTyped, Phases, NothingLost, Pending, ListSteps, Components, Failures, MxSteps,
        MessageSteps, AllErrs, Results, ClientResults, Blame, Goto, Return, FailAtOnce, NextItem,
        Items, lookupVars, fetchVars, flagVars, endVars, checkVars
<1>1. ASSUME NEW o \in Results, MXRecords(o) PROVE NothingLost'
  BY <1>1 DEF MXRecords, Lookup
<1>2. ASSUME NEW o \in Results, MXHost(o) \/ FirstAddress(o) PROVE NothingLost'
  BY <1>2 DEF MXHost, FirstAddress, Lookup
<1>3. ASSUME NEW o \in Results, HostAddresses(o) PROVE NothingLost'
  <2> DEFINE err == AddressError(o)
  <2>1. /\ err \in {held, o} /\ err \in AllErrs
        /\ o \in Failures /\ held # "Budget" => err \in Failures
        /\ held \in Failures => err \in Failures
    BY AddressFacts
  <2>2. /\ FoldError(result, err) \in {result, err}
        /\ err \in Failures \/ result \in Failures => FoldError(result, err) \in Failures
    BY <2>1, FoldFacts
  <2>3. IsTemporary(err) <=> err \in Failures \cup {"Budget"}
    BY <2>1
  <2>4. held = "Budget" => o # "Temporary"
    BY <1>a, <1>3 DEF HostAddresses, Lookup
  <2> HIDE DEF err
  <2>5. \/ IsTemporary(err) /\ NextItem("mx_hosts", FoldError(result, err))
        \/ ~IsTemporary(err) /\ NextItem("mx_hosts", result)
    BY <1>3 DEF HostAddresses, err
  <2>6. QED
    BY <1>3, <2>1, <2>2, <2>3, <2>4, <2>5 DEF HostAddresses, Lookup
<1>4. ASSUME NEW o \in Results, ImplicitAddresses(o) PROVE NothingLost'
  <2> DEFINE err == AddressError(o)
  <2>1. /\ err \in {held, o} /\ err \in AllErrs
        /\ o \in Failures /\ held # "Budget" => err \in Failures
        /\ held \in Failures => err \in Failures
    BY AddressFacts
  <2>2. held = "Budget" => o # "Temporary"
    BY <1>a, <1>4 DEF ImplicitAddresses, Lookup
  <2>3. \/ err \in Failures \cup {"Budget"} /\ Return("mx", err, "spf")
        \/ err \notin Failures /\ Return("mx", "nil", "spf")
    BY <1>4, <2>1 DEF ImplicitAddresses
  <2> HIDE DEF err
  <2>4. QED
    BY <1>4, <2>1, <2>2, <2>3 DEF ImplicitAddresses, Lookup
<1>5. ASSUME NEW o \in Results, SpfRecord(o) PROVE NothingLost'
  BY <1>5 DEF SpfRecord, SpfLookup
<1>6. ASSUME NEW o \in Results, SpfTarget(o) PROVE NothingLost'
  <2>1. /\ FoldError(result, "other") \in {result, "other"}
        /\ "other" \in Failures \/ result \in Failures => FoldError(result, "other") \in Failures
    BY FoldFacts
  <2>2. QED
    BY <1>6, <2>1 DEF SpfTarget, SpfLookup
<1>7. ASSUME NEW o \in Results, NEW exists, SpfVoid(o, exists) PROVE NothingLost'
  BY <1>7 DEF SpfVoid, SpfLookup
<1>8. ASSUME NEW o \in Results, DmarcRecord(o) PROVE NothingLost'
  BY <1>8 DEF DmarcRecord, Lookup
<1>9. ASSUME NEW o \in Results, ListedLookup(o) PROVE NothingLost'
  <2>1. /\ FoldError(result, o) \in {result, o}
        /\ o \in Failures \/ result \in Failures => FoldError(result, o) \in Failures
    BY FoldFacts
  <2>2. QED
    BY <1>9, <2>1 DEF ListedLookup, Comp, Lookup
<1>10. ASSUME NEW o \in Results, StsRecord(o) \/ StsHost(o) \/ TlsRecord(o) PROVE NothingLost'
  BY <1>10 DEF StsRecord, StsHost, TlsRecord, Lookup
<1>11. CASE Selectors
  BY <1>11 DEF Selectors
<1>12. CASE EndOfList
  BY <1>12 DEF EndOfList, Comp
<1>13. CASE Fetch \/ FetchUnresolved \/ FetchResponse
  BY <1>13 DEF Fetch, FetchUnresolved, FetchResponse
<1>14. ASSUME NEW o \in Results, MessageKey(o) PROVE NothingLost'
  BY <1>14 DEF MessageKey, Lookup, TempError
<1>15. ASSUME NEW o \in Results, MessageSpf(o) PROVE NothingLost'
  BY <1>15 DEF MessageSpf, SpfLookup, TempError
<1>16. ASSUME NEW o \in Results, MessagePolicy(o) PROVE NothingLost'
  BY <1>16 DEF MessagePolicy, Lookup, TempError
<1>17. CASE NextMessageCheck
  BY <1>17 DEF NextMessageCheck
<1>18. CASE ReadAbandoned \/ ReadMessage
  BY <1>18 DEF ReadAbandoned, ReadMessage
<1>19. CASE Finish \/ Cli \/ Panic
  BY <1>19 DEF Finish, Cli, Panic, Exit, ScanErrors
<1>20. ASSUME NEW o \in Results, Dial(o) PROVE NothingLost'
  BY <1>20 DEF Dial, NoRecords
<1>21. CASE Expire \/ Interrupt \/ UNCHANGED vars
  BY <1>21 DEF Expire, Interrupt, vars
<1>22. QED
  BY <1>1, <1>2, <1>3, <1>4, <1>5, <1>6, <1>7, <1>8, <1>9, <1>10, <1>11, <1>12, <1>13, <1>14,
     <1>15, <1>16, <1>17, <1>18, <1>19, <1>20, <1>21 DEF Next, Proceed, DomainStep, MessageStep

LEMMA MadeUpStep == ScanInv /\ NothingMadeUp /\ [Next]_vars => NothingMadeUp'
<1> SUFFICES ASSUME ScanInv, NothingMadeUp, [Next]_vars PROVE NothingMadeUp'
  OBVIOUS
<1>t. ChecksTyped /\ Phases
  BY DEF ScanInv
<1> USE ErrorFacts, ScanAssumption, <1>t
    DEF ChecksTyped, Phases, NothingMadeUp, Pending, ListSteps, Failures, MxSteps,
        MessageSteps, AllErrs, Results, ClientResults, Blame, Goto, Return, FailAtOnce, NextItem,
        Items, lookupVars, fetchVars, flagVars, endVars, checkVars
<1>1. ASSUME NEW o \in Results, MXRecords(o) PROVE NothingMadeUp'
  BY <1>1 DEF MXRecords, Lookup
<1>2. ASSUME NEW o \in Results, MXHost(o) \/ FirstAddress(o) PROVE NothingMadeUp'
  BY <1>2 DEF MXHost, FirstAddress, Lookup
<1>3. ASSUME NEW o \in Results, HostAddresses(o) PROVE NothingMadeUp'
  <2> DEFINE err == AddressError(o)
  <2>1. err \in {held, o} /\ err \in AllErrs
    BY AddressFacts
  <2>2. /\ FoldError(result, err) \in {result, err}
        /\ FoldError(result, err) # result => err \in Failures
    BY <2>1, FoldFacts
  <2>3. IsTemporary(err) <=> err \in Failures \cup {"Budget"}
    BY <2>1
  <2> HIDE DEF err
  <2>4. \/ IsTemporary(err) /\ NextItem("mx_hosts", FoldError(result, err))
        \/ ~IsTemporary(err) /\ NextItem("mx_hosts", result)
    BY <1>3 DEF HostAddresses, err
  <2>5. QED
    BY <1>3, <2>1, <2>2, <2>3, <2>4 DEF HostAddresses, Lookup
<1>4. ASSUME NEW o \in Results, ImplicitAddresses(o) PROVE NothingMadeUp'
  <2> DEFINE err == AddressError(o)
  <2>1. err \in {held, o} /\ err \in AllErrs
    BY AddressFacts
  <2>2. \/ err \in Failures \cup {"Budget"} /\ Return("mx", err, "spf")
        \/ err \notin Failures /\ Return("mx", "nil", "spf")
    BY <1>4, <2>1 DEF ImplicitAddresses
  <2> HIDE DEF err
  <2>3. QED
    BY <1>4, <2>1, <2>2 DEF ImplicitAddresses, Lookup
<1>5. ASSUME NEW o \in Results, SpfRecord(o) PROVE NothingMadeUp'
  BY <1>5 DEF SpfRecord, SpfLookup
<1>6. ASSUME NEW o \in Results, SpfTarget(o) PROVE NothingMadeUp'
  <2>1. FoldError(result, "other") \in {result, "other"}
    BY FoldFacts
  <2>2. QED
    BY <1>6, <2>1 DEF SpfTarget, SpfLookup
<1>7. ASSUME NEW o \in Results, NEW exists, SpfVoid(o, exists) PROVE NothingMadeUp'
  BY <1>7 DEF SpfVoid, SpfLookup
<1>8. ASSUME NEW o \in Results, DmarcRecord(o) PROVE NothingMadeUp'
  BY <1>8 DEF DmarcRecord, Lookup
<1>9. ASSUME NEW o \in Results, ListedLookup(o) PROVE NothingMadeUp'
  <2>1. /\ FoldError(result, o) \in {result, o}
        /\ FoldError(result, o) # result => o \in Failures
    BY FoldFacts
  <2>2. QED
    BY <1>9, <2>1 DEF ListedLookup, Comp, Lookup
<1>10. ASSUME NEW o \in Results, StsRecord(o) \/ StsHost(o) \/ TlsRecord(o) PROVE NothingMadeUp'
  BY <1>10 DEF StsRecord, StsHost, TlsRecord, Lookup
<1>11. CASE Selectors
  BY <1>11 DEF Selectors
<1>12. CASE EndOfList
  BY <1>12 DEF EndOfList, Comp
<1>13. CASE Fetch \/ FetchUnresolved \/ FetchResponse
  BY <1>13 DEF Fetch, FetchUnresolved, FetchResponse
<1>14. ASSUME NEW o \in Results, MessageKey(o) PROVE NothingMadeUp'
  BY <1>14 DEF MessageKey, Lookup, TempError
<1>15. ASSUME NEW o \in Results, MessageSpf(o) PROVE NothingMadeUp'
  BY <1>15 DEF MessageSpf, SpfLookup, TempError
<1>16. ASSUME NEW o \in Results, MessagePolicy(o) PROVE NothingMadeUp'
  BY <1>16 DEF MessagePolicy, Lookup, TempError
<1>17. CASE NextMessageCheck
  BY <1>17 DEF NextMessageCheck
<1>18. CASE ReadAbandoned \/ ReadMessage
  BY <1>18 DEF ReadAbandoned, ReadMessage
<1>19. CASE Finish \/ Cli \/ Panic
  BY <1>19 DEF Finish, Cli, Panic, Exit, ScanErrors
<1>20. ASSUME NEW o \in Results, Dial(o) PROVE NothingMadeUp'
  BY <1>20 DEF Dial, NoRecords
<1>21. CASE Expire \/ Interrupt \/ UNCHANGED vars
  BY <1>21 DEF Expire, Interrupt, vars
<1>22. QED
  BY <1>1, <1>2, <1>3, <1>4, <1>5, <1>6, <1>7, <1>8, <1>9, <1>10, <1>11, <1>12, <1>13, <1>14,
     <1>15, <1>16, <1>17, <1>18, <1>19, <1>20, <1>21 DEF Next, Proceed, DomainStep, MessageStep

\* Until the report is finished, only a lookup that a Budget rejected left a
\* finding that says so, and the Budget of the SPF checks never the first one
\* of an assessment.
Unfinished(f) ==
    /\ f.id # "budget"
    /\ f.err = "Budget" => exhausted \/ (f.id # "lookup_failed" /\ spfSent = SpfQueryBudget)
Summed ==
    /\ pc \notin {"cli", "exit"} => \A f \in findings : Unfinished(f)
    /\ RejectionsSummarised

LEMMA SummedStep == ScanInv /\ Summed /\ [Next]_vars => Summed'
<1> SUFFICES ASSUME ScanInv, Summed, [Next]_vars PROVE Summed'
  OBVIOUS
<1>a. ASSUME NEW o \in Results, Ask(o) PROVE o = "Budget" => exhausted'
  BY <1>a, AskFacts DEF ScanInv
<1>b. /\ exhausted => exhausted'
      /\ spfSent \in 0..SpfQueryBudget /\ spfSent' \in 0..SpfQueryBudget
      /\ spfSent <= spfSent'
  BY BudgetStep, BudgetSteps, ScanAssumption DEF ScanInv, LookupsTyped, Budgets
<1>t. ChecksTyped /\ Phases
  BY DEF ScanInv
<1> USE ErrorFacts, ScanAssumption, <1>b, <1>t
    DEF ChecksTyped, Phases, Summed, Unfinished, RejectionsSummarised, Reported, MxSteps, AllErrs,
        Results, ClientResults, Failures, Find, Goto, Return, FailAtOnce, NextItem, Items,
        lookupVars, fetchVars, flagVars, endVars, checkVars
<1>1. ASSUME NEW o \in Results, MXRecords(o) PROVE Summed'
  BY <1>1, <1>a DEF MXRecords, Lookup
<1>2. ASSUME NEW o \in Results, MXHost(o) \/ FirstAddress(o) PROVE Summed'
  BY <1>2, <1>a DEF MXHost, FirstAddress, Lookup
<1>3. ASSUME NEW o \in Results, HostAddresses(o) PROVE Summed'
  <2>1. AddressError(o) \in {held, o}
    BY AddressFacts
  <2>2. QED
    BY <1>3, <1>a, <2>1 DEF HostAddresses, Lookup
<1>4. ASSUME NEW o \in Results, ImplicitAddresses(o) PROVE Summed'
  <2>1. AddressError(o) \in {held, o}
    BY AddressFacts
  <2>2. QED
    BY <1>4, <1>a, <2>1 DEF ImplicitAddresses, Lookup
<1>5. ASSUME NEW o \in Results, SpfRecord(o) PROVE Summed'
  BY <1>5, <1>a DEF SpfRecord, SpfLookup
<1>6. ASSUME NEW o \in Results, SpfTarget(o) PROVE Summed'
  BY <1>6, <1>a DEF SpfTarget, SpfLookup
<1>7. ASSUME NEW o \in Results, NEW exists, SpfVoid(o, exists) PROVE Summed'
  BY <1>7, <1>a DEF SpfVoid, SpfLookup
<1>8. ASSUME NEW o \in Results, DmarcRecord(o) PROVE Summed'
  BY <1>8, <1>a DEF DmarcRecord, Lookup
<1>9. ASSUME NEW o \in Results, ListedLookup(o) PROVE Summed'
  BY <1>9, <1>a DEF ListedLookup, Comp, Lookup
<1>10. ASSUME NEW o \in Results, StsRecord(o) \/ StsHost(o) \/ TlsRecord(o) PROVE Summed'
  BY <1>10, <1>a DEF StsRecord, StsHost, TlsRecord, Lookup
<1>11. CASE Selectors
  BY <1>11 DEF Selectors
<1>12. CASE EndOfList
  BY <1>12 DEF EndOfList, Comp
<1>13. CASE Fetch \/ FetchUnresolved \/ FetchResponse
  BY <1>13 DEF Fetch, FetchUnresolved, FetchResponse
<1>14. ASSUME NEW o \in Results, MessageKey(o) PROVE Summed'
  BY <1>14, <1>a DEF MessageKey, Lookup, TempError
<1>15. ASSUME NEW o \in Results, MessageSpf(o) PROVE Summed'
  BY <1>15, <1>a DEF MessageSpf, SpfLookup, TempError
<1>16. ASSUME NEW o \in Results, MessagePolicy(o) PROVE Summed'
  BY <1>16, <1>a DEF MessagePolicy, Lookup, TempError
<1>17. CASE NextMessageCheck
  BY <1>17 DEF NextMessageCheck
<1>18. CASE ReadAbandoned \/ ReadMessage
  BY <1>18 DEF ReadAbandoned, ReadMessage
<1>19. CASE Finish \/ Cli \/ Panic
  <2>1. CASE Finish
    <3>1. CASE exhausted
      <4>1. /\ findings' = KeptFindings \cup {[id |-> "budget", err |-> "Budget"]}
            /\ exhausted' /\ pc' = "cli"
        BY <2>1, <3>1 DEF Finish, Summary
      <4>2. \A f \in findings' : f.err = "Budget" => f.id # "lookup_failed"
        BY <4>1 DEF KeptFindings
      <4>3. \E f \in findings' : f.id = "budget"
        <5>1. [id |-> "budget", err |-> "Budget"] \in findings'
          BY <4>1
        <5>2. [id |-> "budget", err |-> "Budget"].id = "budget"
          OBVIOUS
        <5>3. QED
          BY <5>1, <5>2, Zenon
      <4>4. QED
        BY <4>1, <4>2, <4>3
    <3>2. CASE ~exhausted
      <4>1. findings' = findings /\ pc' = "cli" /\ spfSent' = spfSent
        BY <2>1, <3>2 DEF Finish, Summary
      <4>2. \A f \in findings : /\ f.id # "budget"
                                /\ f.err = "Budget" => f.id # "lookup_failed" /\ spfSent = SpfQueryBudget
        <5>1. pc = "finish"
          BY <2>1 DEF Finish
        <5>2. QED
          BY <3>2, <5>1
      <4>3. QED
        BY <4>1, <4>2
    <3>3. QED
      BY <3>1, <3>2
  <2>2. CASE Cli
    BY <2>2 DEF Cli, Exit
  <2>3. CASE Panic
    BY <2>3 DEF Panic, Exit
  <2>4. QED
    BY <1>19, <2>1, <2>2, <2>3
<1>20. ASSUME NEW o \in Results, Dial(o) PROVE Summed'
  BY <1>20, <1>a DEF Dial, NoRecords
<1>21. CASE Expire \/ Interrupt \/ UNCHANGED vars
  BY <1>21 DEF Expire, Interrupt, vars
<1>22. QED
  BY <1>1, <1>2, <1>3, <1>4, <1>5, <1>6, <1>7, <1>8, <1>9, <1>10, <1>11, <1>12, <1>13, <1>14,
     <1>15, <1>16, <1>17, <1>18, <1>19, <1>20, <1>21 DEF Next, Proceed, DomainStep, MessageStep

-----------------------------------------------------------------------------
LEMMA Initially == Init => ScanInv /\ NothingLost /\ NothingMadeUp /\ Summed /\ FailuresExit
<1> SUFFICES ASSUME Init
             PROVE  ScanInv /\ NothingLost /\ NothingMadeUp /\ Summed /\ FailuresExit
  OBVIOUS
<1>1. LookupsTyped
  <2>1. 0 \in 0..QueryBudget /\ 0 \in 0..SpfQueryBudget
    BY ScanAssumption
  <2>2. QED
    BY <2>1, Zenon DEF Init, LookupsTyped
<1>2. ChecksTyped
  BY ScanAssumption DEF Init, ChecksTyped, AllErrs, Results, ClientResults
<1>3. Phases
  BY DEF Init, Phases, MessageSteps, MxSteps
<1>4. NothingLost /\ NothingMadeUp
  BY DEF Init, NothingLost, NothingMadeUp, Pending, ListSteps, Failures, Components
<1>5. Summed
  BY DEF Init, Summed, RejectionsSummarised, Reported
<1>6. FailuresExit
  BY DEF Init, FailuresExit
<1>7. QED
  BY <1>1, <1>2, <1>3, <1>4, <1>5, <1>6 DEF ScanInv

LEMMA ScanInvariant == Spec => [](ScanInv /\ NothingLost /\ NothingMadeUp /\ Summed)
<1>1. /\ Init => ScanInv
      /\ Init => NothingLost /\ NothingMadeUp /\ Summed
  BY Initially
<1>2. ScanInv /\ [Next]_vars => ScanInv'
  BY BudgetSteps, BudgetStep, ChecksStep, PhasesStep DEF ScanInv
<1>3. QED
  BY <1>1, <1>2, LostStep, MadeUpStep, SummedStep, PTL DEF Spec

\* A report is finished and written, or given up by a panic; what happens
\* otherwise after the checks changes nothing of it. A context stays done.
Ending == pc' \in {"cli", "exit"} => Finish \/ Cli \/ Panic \/ UNCHANGED <<checkVars, endVars>>
ContextKept == ctx # "live" => ctx' = ctx

LEMMA EndingSteps == [Next]_vars => Ending /\ ContextKept
<1> SUFFICES ASSUME [Next]_vars PROVE Ending /\ ContextKept
  OBVIOUS
<1> USE DEF Ending, ContextKept, Lookup, SpfLookup, Goto, Return, FailAtOnce, NextItem, Items
<1>1. CASE DomainStep
  <2>1. ASSUME NEW o \in Results,
               \/ MXRecords(o) \/ MXHost(o) \/ FirstAddress(o) \/ HostAddresses(o)
               \/ ImplicitAddresses(o)
        PROVE  Ending /\ ContextKept
    BY <2>1 DEF MXRecords, MXHost, FirstAddress, HostAddresses, ImplicitAddresses
  <2>2. ASSUME NEW o \in Results, SpfRecord(o) \/ SpfTarget(o) \/ \E exists : SpfVoid(o, exists)
        PROVE  Ending /\ ContextKept
    BY <2>2 DEF SpfRecord, SpfTarget, SpfVoid
  <2>3. ASSUME NEW o \in Results,
               \/ DmarcRecord(o) \/ ListedLookup(o)
               \/ StsRecord(o) \/ StsHost(o) \/ TlsRecord(o)
        PROVE  Ending /\ ContextKept
    BY <2>3 DEF DmarcRecord, ListedLookup, StsRecord, StsHost, TlsRecord
  <2>4. CASE Selectors \/ EndOfList \/ Fetch \/ FetchUnresolved \/ FetchResponse
    BY <2>4 DEF Selectors, EndOfList, Comp, Fetch, FetchUnresolved, FetchResponse
  <2>5. QED
    BY <1>1, <2>1, <2>2, <2>3, <2>4 DEF DomainStep
<1>2. CASE MessageStep
  <2>1. ASSUME NEW o \in Results, MessageKey(o) \/ MessageSpf(o) \/ MessagePolicy(o)
        PROVE  Ending /\ ContextKept
    BY <2>1 DEF MessageKey, MessageSpf, MessagePolicy
  <2>2. CASE NextMessageCheck
    BY <2>2 DEF NextMessageCheck
  <2>3. CASE ReadAbandoned
    BY <2>3 DEF ReadAbandoned
  <2>4. QED
    BY <1>2, <2>1, <2>2, <2>3 DEF MessageStep
<1>3. CASE Finish \/ Cli \/ ReadMessage \/ Panic
  BY <1>3 DEF Finish, Cli, Panic, Exit, ReadMessage
<1>4. ASSUME NEW o \in Results, Dial(o) PROVE Ending /\ ContextKept
  BY <1>4 DEF Dial
<1>5. CASE Expire \/ Interrupt
  BY <1>5 DEF Expire, Interrupt
<1>6. CASE UNCHANGED vars
  BY <1>6 DEF vars
<1>7. QED
  BY <1>1, <1>2, <1>3, <1>4, <1>5, <1>6 DEF Next, Proceed

\* Whatever fails while a domain or a message is scanned (analyzer.Domain,
\* analyzer.Message), the exit code of cli.finish is 4 or 5: no failure of an
\* assessment is overwritten on its way there.
THEOREM FailuresReachTheExitCode == Spec => []FailuresExit
<1>1. ScanInv /\ NothingLost /\ FailuresExit /\ [Next]_vars => FailuresExit'
  <2> SUFFICES ASSUME ScanInv, NothingLost, FailuresExit, [Next]_vars PROVE FailuresExit'
    OBVIOUS
  <2>1. CASE Cli
    <3>1. CASE trouble = {}
      BY <2>1, <3>1 DEF Cli, Exit, FailuresExit
    <3>2. CASE trouble # {}
      <4>1. ~scanErr
        BY <3>2 DEF ScanInv, Phases
      <4>2. errors \ {"input"} # {}
        BY <2>1, <3>2 DEF Cli, NothingLost, Pending, ListSteps, Components
      <4>3. ExitCodes = {4}
        BY <4>1, <4>2 DEF ExitCodes
      <4>4. QED
        BY <2>1, <4>3 DEF Cli, Exit, FailuresExit
    <3>3. QED
      BY <3>1, <3>2
  <2>2. CASE Panic
    BY <2>2 DEF Panic, Exit, FailuresExit
  <2>3. pc' = "exit" => Cli \/ Panic \/ UNCHANGED <<pc, trouble, code>>
    BY EndingSteps DEF Ending, Finish, checkVars, endVars
  <2>4. QED
    BY <2>1, <2>2, <2>3 DEF FailuresExit
<1>2. QED
  BY <1>1, Initially, ScanInvariant, PTL DEF Spec

\* "Budget exhaustion is reported once as a finding instead": an assessment of
\* a domain records a DNS failure (session.dnsError) only if a lookup of its
\* own failed, whatever the Budget rejected on the way.
THEOREM RecordedErrorsAreReal == Spec => []ErrorsAreReal
<1>1. ScanInv /\ NothingMadeUp => ErrorsAreReal
  BY DEF NothingMadeUp, ErrorsAreReal
<1>2. QED
  BY <1>1, ScanInvariant, PTL

\* The summary of the rejected lookups (session.finish) says what happened: it
\* is in the report if a rejection left a finding, and only after one.
THEOREM RejectionsAreSummarised == Spec => []RejectionsSummarised
<1>1. Summed => RejectionsSummarised
  BY DEF Summed
<1>2. QED
  BY <1>1, ScanInvariant, PTL

\* From the moment of the interruption on, the report and the exit code will
\* show it: the context stays done, and session.finish reads it.
Shown ==
    /\ ctx # "live"
    /\ pc = "cli" => scanErr \/ errors \ {"input"} # {}
    /\ pc = "exit" => code \in {3, 4, 5}

\* An interruption or the deadline before the report is finished
\* (analyzer.session.finish) ends in an exit code other than success.
THEOREM InterruptionIsShown == Spec => InterruptionShows
<1>1. ctx # "live" /\ pc \notin {"cli", "exit"} => Shown
  BY DEF Shown
<1>2. Shown => (pc = "exit" => code \in {3, 4, 5})
  BY DEF Shown
<1>3. Shown /\ [Next]_vars => Shown'
  <2> SUFFICES ASSUME Shown, [Next]_vars PROVE Shown'
    OBVIOUS
  <2>1. ctx' # "live" /\ Ending
    BY EndingSteps DEF ContextKept, Shown
  <2>2. CASE Finish
    <3>1. "scan" \in errors' /\ pc' = "cli"
      BY <2>2 DEF Finish, ScanErrors, Shown
    <3>2. QED
      BY <2>1, <3>1 DEF Shown
  <2>3. CASE Cli
    <3>1. ExitCodes \subseteq {3, 4}
      BY <2>3 DEF Cli, Shown, ExitCodes
    <3>2. QED
      BY <2>1, <2>3, <3>1 DEF Cli, Exit, Shown
  <2>4. CASE Panic
    BY <2>1, <2>4 DEF Panic, Exit, Shown
  <2>5. CASE UNCHANGED <<checkVars, endVars>>
    BY <2>1, <2>5 DEF checkVars, endVars, Shown
  <2>6. CASE pc' \notin {"cli", "exit"}
    BY <2>1, <2>6 DEF Shown
  <2>7. QED
    BY <2>1, <2>2, <2>3, <2>4, <2>5, <2>6 DEF Ending
<1>4. QED
  BY <1>1, <1>2, <1>3, PTL DEF Spec, InterruptionShows
=============================================================================
