---------------------------- MODULE ScanResolver ----------------------------
(***************************************************************************)
(* The DNS stack of one scan: internal/dnsresolver/budget.go as            *)
(* internal/analyzer puts it together.                                     *)
(*                                                                         *)
(*   SPF evaluator ->  spf Budget  -\                                      *)
(*                                   Cache -> scan Budget -> Client        *)
(*   every other check  ------------/                                      *)
(*                                                                         *)
(* The processes are goroutines: Main runs the checks one after the other, *)
(* the others are dial goroutines of the MTA-STS HTTP client, which share  *)
(* the Cache and may outlive the fetch that started them. The Client (the  *)
(* network) answers each query with any outcome it can produce.            *)
(*                                                                         *)
(* A goroutine's program counter:                                          *)
(*   idle    between two lookups          enter   before c.mu.Lock()       *)
(*   take    entry inserted, unlocked     send    admitted by the Budget   *)
(*   query   the Client has the query     forget  result stored, failed    *)
(*   close   before the deferred close    wait    blocked on <-e.done      *)
(*   dead    unwound by a panic           done    Main in finish() or after *)
(***************************************************************************)
EXTENDS Naturals, FiniteSets, DnsErrors

CONSTANTS
    Procs,          \* goroutines that use the scan's resolver
    Main,           \* the one that runs the checks and writes the report
    Keys,           \* cache keys: a record type and a name
    NoKey,          \* the key of no lookup
    Records,        \* non-empty answers a zone may hold
    ClientErrs,     \* errors the Client may return, "nil" for none
    ScanLimit,      \* Options.QueryBudget
    SpfLimit,       \* spfQueryBudget
    MaxEntries,     \* bound: cache entries ever allocated
    MaxCalls        \* bound: lookups per goroutine

\* The zero value of an answer: an empty slice. With a nil error it is NODATA.
NoRecords == "no records"

ASSUME ConstantsAssumption ==
    /\ Main \in Procs
    /\ NoKey \notin Keys
    /\ NoRecords \notin Records
    /\ IsFiniteSet(Procs)
    /\ ClientErrs \subseteq Errs \ {"Budget"}
    /\ ScanLimit \in Nat
    /\ SpfLimit \in Nat
    /\ MaxEntries \in Nat
    /\ MaxCalls \in Nat

\* What (T, error) a lookup can return.
Outcome == [val : Records \cup {NoRecords}, err : Errs]

Failed(kind) == [val |-> NoRecords, err |-> kind]

\* What Client and Std return: records, no records, or an error.
ClientOutcome ==
    {o \in [val : Records \cup {NoRecords}, err : ClientErrs] :
        o.err # "nil" => o.val = NoRecords}

\* Heap index of a *cacheEntry; 0 is the nil pointer.
Entries == 1..MaxEntries

VARIABLES
    used,       \* scan Budget.used
    spfUsed,    \* used of the Budget around the SPF evaluator
    cache,      \* Cache.m
    keyOf,      \* per entry: the key it was inserted for
    outOf,      \* per entry: its val and err
    closed,     \* per entry: whether its done channel is closed
    made,       \* entries allocated so far
    pc, req, ent,   \* per goroutine: where it is, key asked for, entry held
    got,        \* per goroutine: the outcome its last lookup returned
    summary,    \* what finish() wrote into the report
    \* history
    sent,       \* queries handed to the Client
    calls,      \* lookups each goroutine made
    direct,     \* lookups made past the spf Budget
    answered,   \* per key: outcomes the Client produced
    told,       \* per key: final outcomes handed to callers
    broken,     \* keys whose fetch panicked
    cut         \* Main was handed a rejection by the scan Budget

entry == <<keyOf, outOf, closed>>
vars == <<used, spfUsed, cache, entry, made, pc, req, ent, got, summary,
          sent, calls, direct, answered, told, broken, cut>>
history == <<answered, told, broken, cut>>

NoSummary == [written |-> FALSE, sent |-> 0, exhausted |-> FALSE]

Init ==
    /\ used = 0 /\ spfUsed = 0 /\ sent = 0 /\ direct = 0 /\ made = 0
    /\ cache = [k \in Keys |-> 0]
    /\ keyOf = [e \in Entries |-> NoKey]
    /\ outOf = [e \in Entries |-> Failed("nil")]
    /\ closed = [e \in Entries |-> FALSE]
    /\ pc = [p \in Procs |-> "idle"]
    /\ req = [p \in Procs |-> NoKey]
    /\ ent = [p \in Procs |-> 0]
    /\ got = [p \in Procs |-> Failed("nil")]
    /\ calls = [p \in Procs |-> 0]
    /\ summary = NoSummary
    /\ answered = [k \in Keys |-> {}]
    /\ told = [k \in Keys |-> {}]
    /\ broken = {}
    /\ cut = FALSE

-----------------------------------------------------------------------------
\* The scan Budget's accessors. Sent is what the report calls dns_queries.
Sent == IF used < ScanLimit THEN used ELSE ScanLimit
\* Mutant: compares the clamped count.
ExhaustedByClampedCount == Sent > ScanLimit
Exhausted == used > ScanLimit

\* cached(): outcomes that are dropped from the map again.
Forgotten(out) == IsTemporary(out.err) /\ KindOf(out.err) # "Budget"

Goto(p, l) == pc' = [pc EXCEPT ![p] = l]

\* A lookup by p of key k reaches Cache.LookupX.
Begin(p, k) ==
    /\ pc[p] = "idle"
    /\ calls[p] < MaxCalls
    /\ calls' = [calls EXCEPT ![p] = @ + 1]
    /\ req' = [req EXCEPT ![p] = k]

\* A check other than SPF, or the dial goroutine, asks the Cache.
Lookup(p, k) ==
    /\ Begin(p, k)
    /\ direct' = direct + 1
    /\ Goto(p, "enter")
    /\ UNCHANGED <<used, spfUsed, cache, entry, made, ent, got, summary, sent, history>>

\* The SPF evaluator runs in Main, behind a Budget of its own ...
SpfLookup(k) ==
    /\ Begin(Main, k)
    /\ spfUsed' = spfUsed + 1
    /\ spfUsed' <= SpfLimit
    /\ Goto(Main, "enter")
    /\ UNCHANGED <<used, cache, entry, made, ent, got, summary, sent, direct, history>>

\* ... that rejects a lookup before the Cache sees it.
SpfReject(k) ==
    /\ Begin(Main, k)
    /\ spfUsed' = spfUsed + 1
    /\ spfUsed' > SpfLimit
    /\ got' = [got EXCEPT ![Main] = Failed("Budget")]
    /\ UNCHANGED <<used, cache, entry, made, pc, ent, summary, sent, direct, history>>

\* cached(), under c.mu: an entry is there, wait for it outside the lock.
Hit(p) ==
    /\ pc[p] = "enter"
    /\ cache[req[p]] # 0
    /\ ent' = [ent EXCEPT ![p] = cache[req[p]]]
    /\ Goto(p, "wait")
    /\ UNCHANGED <<used, spfUsed, cache, entry, made, req, got, summary,
                   sent, calls, direct, history>>

\* Mutant: the map is consulted and written in two critical sections.
MissUnlocked(p) ==
    /\ pc[p] = "enter"
    /\ made < MaxEntries
    /\ made' = made + 1
    /\ cache' = [cache EXCEPT ![req[p]] = made']
    /\ keyOf' = [keyOf EXCEPT ![made'] = req[p]]
    /\ ent' = [ent EXCEPT ![p] = made']
    /\ Goto(p, "take")
    /\ UNCHANGED <<used, spfUsed, outOf, closed, req, got, summary,
                   sent, calls, direct, history>>

\* cached(), under c.mu: no entry, insert one and fetch.
Miss(p) ==
    /\ pc[p] = "enter"
    /\ cache[req[p]] = 0
    /\ made < MaxEntries
    /\ made' = made + 1
    /\ cache' = [cache EXCEPT ![req[p]] = made']
    /\ keyOf' = [keyOf EXCEPT ![made'] = req[p]]
    /\ ent' = [ent EXCEPT ![p] = made']
    /\ Goto(p, "take")
    /\ UNCHANGED <<used, spfUsed, outOf, closed, req, got, summary,
                   sent, calls, direct, history>>

\* fetch() returned out: e.val, e.err = v, err. A failure worth retrying is
\* then deleted from the map, in a critical section of its own.
Store(p, out) ==
    /\ outOf' = [outOf EXCEPT ![ent[p]] = out]
    /\ UNCHANGED closed
    /\ Goto(p, IF Forgotten(out) THEN "forget" ELSE "close")

\* Budget.take of the scan Budget: an atomic increment and a comparison.
Admit(p) ==
    /\ pc[p] = "take"
    /\ used' = used + 1
    /\ used' <= ScanLimit
    /\ Goto(p, "send")
    /\ UNCHANGED <<spfUsed, cache, entry, made, req, ent, got, summary,
                   sent, calls, direct, history>>

Reject(p) ==
    /\ pc[p] = "take"
    /\ used' = used + 1
    /\ used' > ScanLimit
    /\ Store(p, Failed("Budget"))
    /\ UNCHANGED <<spfUsed, cache, keyOf, made, req, ent, got, summary,
                   sent, calls, direct, history>>

\* b.next.LookupX: the Client starts on the query.
Send(p) ==
    /\ pc[p] = "send"
    /\ sent' = sent + 1
    /\ Goto(p, "query")
    /\ UNCHANGED <<used, spfUsed, cache, entry, made, req, ent, got, summary,
                   calls, direct, history>>

\* The Client returns; its own timeouts and the caller's context make sure of
\* it. Cancelling p's context is one of the ways to get a failure.
Answer(p, out) ==
    /\ pc[p] = "query"
    /\ answered' = [answered EXCEPT ![req[p]] = @ \cup {out}]
    /\ Store(p, out)
    /\ UNCHANGED <<used, spfUsed, cache, keyOf, made, req, ent, got, summary,
                   sent, calls, direct, told, broken, cut>>

\* Mutant: close(e.done) is not deferred.
PanicUnclosed(p) ==
    /\ pc[p] = "query"
    /\ Goto(p, "dead")
    /\ UNCHANGED <<used, spfUsed, cache, entry, made, req, ent, got, summary,
                   sent, calls, direct, history>>

\* fetch() panics: only the deferred close runs, the entry stays in the map.
Panic(p) ==
    /\ pc[p] = "query"
    /\ closed' = [closed EXCEPT ![ent[p]] = TRUE]
    /\ Goto(p, "dead")
    /\ broken' = broken \cup {req[p]}
    /\ UNCHANGED <<used, spfUsed, cache, keyOf, outOf, made, req, ent, got,
                   summary, sent, calls, direct, answered, told, cut>>

\* Mutant: the failed entry is left in the map.
ForgetNothing(p) ==
    /\ pc[p] = "forget"
    /\ Goto(p, "close")
    /\ UNCHANGED <<used, spfUsed, cache, entry, made, req, ent, got, summary,
                   sent, calls, direct, history>>

\* delete(c.m, key)
Forget(p) ==
    /\ pc[p] = "forget"
    /\ cache' = [cache EXCEPT ![req[p]] = 0]
    /\ Goto(p, "close")
    /\ UNCHANGED <<used, spfUsed, entry, made, req, ent, got, summary,
                   sent, calls, direct, history>>

\* p's lookup returns what its entry holds.
Return(p) ==
    LET out == outOf[ent[p]] IN
    /\ got' = [got EXCEPT ![p] = out]
    /\ ent' = [ent EXCEPT ![p] = 0]
    /\ Goto(p, "idle")
    /\ told' = IF Forgotten(out) THEN told
               ELSE [told EXCEPT ![req[p]] = @ \cup {out}]
    /\ cut' = (cut \/ (p = Main /\ out.err = "Budget"))

\* The deferred close(e.done) of the goroutine that fetched.
Close(p) ==
    /\ pc[p] = "close"
    /\ closed' = [closed EXCEPT ![ent[p]] = TRUE]
    /\ Return(p)
    /\ UNCHANGED <<used, spfUsed, cache, keyOf, outOf, made, req, summary,
                   sent, calls, direct, answered, broken>>

\* Mutant: a hit is returned without waiting for the fetch.
ReceiveAtOnce(p) ==
    /\ pc[p] = "wait"
    /\ Return(p)
    /\ UNCHANGED <<used, spfUsed, cache, entry, made, req, summary, sent, calls,
                   direct, answered, broken>>

\* <-e.done in a goroutine that found the entry in the map.
Receive(p) ==
    /\ pc[p] = "wait"
    /\ closed[ent[p]]
    /\ Return(p)
    /\ UNCHANGED <<used, spfUsed, cache, entry, made, req, summary, sent, calls,
                   direct, answered, broken>>

\* session.finish asks whether the scan Budget is exhausted ...
Finish ==
    /\ pc[Main] = "idle"
    /\ summary' = [summary EXCEPT !.exhausted = Exhausted]
    /\ Goto(Main, "done")
    /\ UNCHANGED <<used, spfUsed, cache, entry, made, req, ent, got,
                   sent, calls, direct, history>>

\* ... and closes the report with the queries sent by then: dial goroutines may
\* still run, before and after.
Finalize ==
    /\ pc[Main] = "done" /\ ~summary.written
    /\ summary' = [summary EXCEPT !.written = TRUE, !.sent = Sent]
    /\ UNCHANGED <<used, spfUsed, cache, entry, made, pc, req, ent, got,
                   sent, calls, direct, history>>

\* The steps a lookup takes once it has begun.
Step(p) ==
    \/ Hit(p) \/ Miss(p) \/ Admit(p) \/ Reject(p) \/ Send(p)
    \/ \E out \in ClientOutcome : Answer(p, out)
    \/ Panic(p) \/ Forget(p) \/ Close(p) \/ Receive(p)

Next ==
    \/ \E p \in Procs, k \in Keys : Lookup(p, k)
    \/ \E k \in Keys : SpfLookup(k) \/ SpfReject(k)
    \/ \E p \in Procs : Step(p)
    \/ Finish \/ Finalize

Spec == Init /\ [][Next]_vars

\* The Go scheduler runs every goroutine that is not blocked, the Client gives
\* every query a bounded number of attempts with a timeout each, and finish()
\* is the last statement of every scan.
Fairness == (\A p \in Procs : WF_vars(Step(p))) /\ WF_vars(Finish) /\ WF_vars(Finalize)

FairSpec == Spec /\ Fairness

-----------------------------------------------------------------------------
Labels == {"idle", "enter", "take", "send", "query", "forget", "close",
           "wait", "dead", "done"}

TypeOK ==
    /\ used \in Nat /\ spfUsed \in Nat /\ sent \in Nat /\ direct \in Nat
    /\ made \in 0..MaxEntries
    /\ cache \in [Keys -> 0..MaxEntries]
    /\ keyOf \in [Entries -> Keys \cup {NoKey}]
    /\ outOf \in [Entries -> Outcome]
    /\ closed \in [Entries -> BOOLEAN]
    /\ pc \in [Procs -> Labels]
    /\ req \in [Procs -> Keys \cup {NoKey}]
    /\ ent \in [Procs -> 0..MaxEntries]
    /\ got \in [Procs -> Outcome]
    /\ calls \in [Procs -> 0..MaxCalls]
    /\ summary \in [written : BOOLEAN, sent : Nat, exhausted : BOOLEAN]
    /\ answered \in [Keys -> SUBSET Outcome]
    /\ told \in [Keys -> SUBSET Outcome]
    /\ broken \subseteq Keys
    /\ cut \in BOOLEAN

\* "Concurrent lookups of the same name share one query": no two goroutines
\* ever fetch the same key at the same time, failed and retried ones included.
SingleFlight ==
    \A p, q \in Procs :
        /\ pc[p] \in {"take", "send", "query"}
        /\ pc[q] \in {"take", "send", "query"}
        /\ req[p] = req[q]
        => p = q

\* Budget.Sent, which the report prints as the number of DNS queries, is the
\* number the Client was handed, give or take the lookups admitted but not yet
\* passed on: rejected lookups, cache hits and SPF rejections never count.
SentIsAccurate == Sent = sent + Cardinality({p \in Procs : pc[p] = "send"})

\* "Every check sees the same answer": all final outcomes (answers, negative
\* answers and budget rejections) ever handed out for a key are equal, whoever
\* asked and however its lookups interleave with failures and retries.
OneAnswer == \A k \in Keys : \A a, b \in told[k] : a = b

\* A final outcome handed to a caller is one the Client produced for that key
\* or a rejection: nobody reads an entry before it is filled. The one exception
\* is a fetch that panicked, whose entry reads as "no records".
AnswerIsReal ==
    \A k \in Keys :
        told[k] \subseteq
            answered[k] \cup {Failed("Budget")}
                        \cup (IF k \in broken THEN {Failed("nil")} ELSE {})

\* "Waiters already blocked on this entry receive the failure; later callers
\* retry": once a failed lookup has returned, no new caller finds its entry.
FailureNotKept ==
    \A k \in Keys :
        cache[k] # 0 /\ closed[cache[k]] => ~Forgotten(outOf[cache[k]])

\* "Budget rejections are final for the scan and are cached so that repeated
\* lookups do not count again": a key is rejected, and counted for it, once.
RejectedOnce ==
    \A e, f \in Entries :
        /\ outOf[e].err = "Budget" /\ outOf[f].err = "Budget"
        /\ keyOf[e] = keyOf[f]
        => e = f

\* A completed entry that is in the map stays there unchanged: the retry of
\* another failure, or a late delete, never evicts or overwrites it.
FinalStays ==
    [][\A k \in Keys :
           cache[k] # 0 /\ closed[cache[k]]
           => /\ cache'[k] = cache[k]
              /\ outOf'[cache[k]] = outOf[cache[k]]
              /\ closed'[cache[k]]]_vars

\* session.finish discloses exhaustion whenever a check of Main was handed a
\* rejection by the scan Budget, even one it read from an entry that a dial
\* goroutine got rejected.
RejectionDisclosed == summary.written /\ cut => summary.exhausted

\* "A separate budget keeps a hostile SPF policy from starving the DMARC and
\* DKIM lookups": as long as the other checks ask for at most ScanLimit -
\* SpfLimit lookups, no number of SPF lookups exhausts the scan Budget.
SpfCannotStarve == direct + SpfLimit <= ScanLimit => ~Exhausted

\* The budgets neither lie nor starve, whatever goroutines share them: what
\* was sent is counted exactly, a rejected key once; a rejection that reached a
\* check is disclosed, and SPF causes none for the other checks.
BudgetHonest == SentIsAccurate /\ RejectedOnce /\ RejectionDisclosed /\ SpfCannotStarve

\* "Close the entry even if fetch panics, so that waiters never block": every
\* lookup returns, except that of a goroutine that a panic unwinds.
LookupReturns ==
    \A p \in Procs :
        pc[p] \in {"enter", "take", "send", "query", "forget", "close", "wait"}
        ~> pc[p] \in {"idle", "dead", "done"}

-----------------------------------------------------------------------------
(***************************************************************************)
(* Refinement of LookupService, the promise of the Cache to its callers.   *)
(***************************************************************************)
Undecided == [val |-> NoRecords, err |-> "undecided"]

\* e holds the outcome its callers will get.
Settled(e) == closed[e] \/ \E p \in Procs : ent[p] = e /\ pc[p] = "close"

\* p holds an entry that failed and left the map.
Orphaned(p) ==
    ent[p] # 0 /\ cache[req[p]] # ent[p] /\ Forgotten(outOf[ent[p]])

Promise == INSTANCE LookupService WITH
    asking  <- [p \in Procs |-> IF pc[p] \in {"idle", "done"} THEN NoKey ELSE req[p]],
    memo    <- [k \in Keys |-> IF cache[k] # 0 /\ Settled(cache[k])
                               THEN outOf[cache[k]] ELSE Undecided],
    failure <- [p \in Procs |-> IF Orphaned(p) THEN outOf[ent[p]] ELSE Undecided],
    reply   <- got

\* The Cache and its Budgets implement the lookup service.
ImplementsPromise == Promise!Spec
=============================================================================
